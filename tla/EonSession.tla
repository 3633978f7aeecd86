----------------------------- MODULE EonSession ------------------------------
(***************************************************************************)
(* The session of a Sparkplug edge node (srad-eon/src/node.rs): the node's *)
(* task (Node::run), the event loop the application runs (EoN::run), the   *)
(* one-place client_state channel between them, NodeHandle's rebirth() and *)
(* cancel(), and the MQTT client beneath: a bounded FIFO request channel   *)
(* that only the event loop's poll() empties, the connection and its will. *)
(*                                                                         *)
(* The code between two awaits is one action.  What awaits room in the     *)
(* request channel is in the state ("wait") until the client accepts the   *)
(* request, and the code after the await is an action of its own.          *)
(***************************************************************************)
EXTENDS EonState, Sequences

CONSTANTS Cap,           \* capacity of the client's request channel
          WillReplies,   \* answers of Client::disconnect_with_will(); an error is FALSE
          MayCancel,     \* whether the application ever calls cancel()
          MaxLoss,       \* bound: connections that break
          MaxKick,       \* bound: connections the broker ends with DISCONNECT
          MaxFlip,       \* bound: times the primary host goes on- or offline
          MaxOld,        \* bound: outdated STATE messages delivered
          MaxRebirth,    \* bound: calls of NodeHandle::rebirth()
          MaxCmd,        \* bound: Node Control/Rebirth commands delivered
          MaxFail        \* bound: requests the client refuses

ASSUME SessionAssumption ==
    /\ Cap \in Nat \ {0}
    /\ WillReplies \subseteq BOOLEAN /\ MayCancel \in BOOLEAN
    /\ {MaxLoss, MaxKick, MaxFlip, MaxOld, MaxRebirth, MaxCmd, MaxFail} \subseteq Nat

VARIABLES st,            \* EoNState
          node,          \* the node task: control state and fields of Node
          rebirthRx,     \* the one-place rebirth_request channel holds a ()
          cmds,          \* rebirth commands in the node_message channel
          loop,          \* EoN::run
          cs,            \* the client_state channel
          stop,          \* the stop channel holds an EoNShutdown
          cancel,        \* a call of NodeHandle::cancel()
          chan,          \* the client's request channel
          client,        \* the connection, its will, and the next one's
          broker,        \* what the broker knows of this node
          inbox,         \* STATE messages on their way to the client
          host,          \* the primary host application
          env            \* counters of the bounded environment

vars == <<st, node, rebirthRx, cmds, loop, cs, stop, cancel, chan, client,
          broker, inbox, host, env>>

netVars == <<client, broker, inbox>>
appVars == <<rebirthRx, cmds, cancel, stop>>

NoBd == -1               \* no birth / no reply of a will
Pending == -2            \* a will that has not been answered yet

Request(kind, from, n) == [kind |-> kind, from |-> from, n |-> n]

(* Sparkplug requests carry a bdSeq (NBIRTH, NDEATH) or a sequence number. *)
SessionRequests ==
    [kind : {"SUB", "DISCONNECT"}, from : {"node"}, n : {0}]
      \cup [kind : {"NBIRTH", "NDEATH"}, from : {"node"}, n : BdSeq]

States == [kind : {"State"}, online : BOOLEAN, ts : Nat]

ClientStateMessages ==
    [kind : {"Online", "Stopped"}] \cup States
      \cup [kind : {"Offline"}, awaited : BOOLEAN]

Online == [kind |-> "Online"]
Offline == [kind |-> "Offline", awaited |-> TRUE]
Stopped == [kind |-> "Stopped"]

Room == Len(chan) < Cap
ClientGone == loop.pc = "done"

-----------------------------------------------------------------------------
Init ==
    /\ st = NewEoNState
    /\ node = [pc |-> "idle", res |-> "wait", type |-> "Birth", bd |-> 0,
               clientOnline |-> FALSE, retry |-> FALSE, cool |-> FALSE]
    /\ rebirthRx = FALSE
    /\ cmds = 0
    /\ loop = [pc |-> "start", mode |-> "run", ev |-> Online, reply |-> NoBd]
    /\ cs = <<>>
    /\ stop = FALSE
    /\ cancel = [pc |-> "idle", will |-> FALSE, bd |-> 0]
    /\ chan = <<>>
    /\ client = [conn |-> "down", will |-> NoBd, nextWill |-> NoBd]
    /\ broker = [sub |-> FALSE, bd |-> NoBd, view |-> NoBd]
    /\ inbox = <<>>
    /\ host = [online |-> FALSE, ts |-> 0]
    /\ env = [losses |-> 0, kicks |-> 0, flips |-> 0, olds |-> 0, rebirths |-> 0,
              cmds |-> 0, fails |-> 0]

-----------------------------------------------------------------------------
(* The node task.  Between two messages it is idle; otherwise it awaits    *)
(* the client's answer to the request its control state names.             *)
Idle(n) == [n EXCEPT !.pc = "idle", !.res = "wait", !.type = "Birth", !.bd = 0]
Awaiting == {"sub", "nbirth", "ndeath", "disc"}
Await(n, p) == [n EXCEPT !.pc = p, !.res = "wait"]

NodeRequest ==
    CASE node.pc = "sub"    -> Request("SUB", "node", 0)
      [] node.pc = "nbirth" -> Request("NBIRTH", "node", node.bd)
      [] node.pc = "ndeath" -> Request("NDEATH", "node", node.bd)
      [] OTHER              -> Request("DISCONNECT", "node", 0)

NodeSend ==
    /\ node.pc \in Awaiting /\ node.res = "wait"
    /\ ~ClientGone /\ Room
    /\ chan' = Append(chan, NodeRequest)
    /\ node' = [node EXCEPT !.res = "ok"]
    /\ UNCHANGED <<st, loop, cs, host, env>> /\ UNCHANGED <<netVars, appVars>>

(* The client returns an error: a fault of the client, or its event loop   *)
(* has been dropped.                                                       *)
NodeSendFails ==
    /\ node.pc \in Awaiting /\ node.res = "wait"
    /\ node' = [node EXCEPT !.res = "err"]
    /\ \/ ClientGone /\ UNCHANGED env
       \/ /\ ~ClientGone
          /\ env.fails < MaxFail
          /\ env' = [env EXCEPT !.fails = @ + 1]
    /\ UNCHANGED <<st, loop, cs, chan, host>> /\ UNCHANGED <<netVars, appVars>>

(* Mutant: the birth carries the bdSeq of the next session.                *)
BeginBirthNextBd(s, n, type) ==
    /\ st' = StartBirth(s)
    /\ node' = [Await(n, "nbirth") EXCEPT !.type = type, !.bd = NextBdSeq(s).bdseq]

(* node_birth() up to its await, called with shared state s and task n.    *)
BeginBirth(s, n, type) ==
    /\ st' = StartBirth(s)
    /\ node' = [Await(n, "nbirth") EXCEPT !.type = type, !.bd = s.bdseq]

(* try_online() once the node is online.                                   *)
EnsureBirthed(s, n) ==
    \/ /\ s.birthed \/ ~ReadyToBirth(s)
       /\ st' = s
       /\ node' = Idle(n)
    \/ /\ ~s.birthed /\ ReadyToBirth(s)
       /\ BeginBirth(s, n, "Birth")

(* Mutant: a node that is already online is left as it is.                 *)
TryOnlineOnce(s, n) ==
    /\ st' = s
    /\ node' = IF n.clientOnline /\ ~n.retry /\ ~s.online
               THEN Await(n, "sub") ELSE Idle(n)

TryOnline(s, n) ==
    \/ /\ ~n.clientOnline \/ n.retry
       /\ st' = s
       /\ node' = Idle(n)
    \/ /\ n.clientOnline /\ ~n.retry /\ ~s.online
       /\ st' = s
       /\ node' = Await(n, "sub")
    \/ /\ n.clientOnline /\ ~n.retry /\ s.online
       /\ EnsureBirthed(s, n)

Subscribed ==
    /\ node.pc = "sub" /\ node.res = "ok"
    /\ EnsureBirthed(SetOnline(st, TRUE), node)
    /\ UNCHANGED <<loop, cs, chan, host, env>> /\ UNCHANGED <<netVars, appVars>>

SubscribeFailed ==
    /\ node.pc = "sub" /\ node.res = "err"
    /\ node' = [Await(node, "disc") EXCEPT !.retry = TRUE]
    /\ UNCHANGED <<st, loop, cs, chan, host, env>>
    /\ UNCHANGED <<netVars, appVars>>

Birthed ==
    /\ node.pc = "nbirth" /\ node.res = "ok"
    /\ st' = BirthCompleted(st)
    /\ node' = Idle(node)
    /\ UNCHANGED <<loop, cs, chan, host, env>> /\ UNCHANGED <<netVars, appVars>>

(* A failed first birth is retried on a new connection; the error of a     *)
(* rebirth is only logged.                                                 *)
BirthFailed ==
    /\ node.pc = "nbirth" /\ node.res = "err"
    /\ \/ /\ node.type = "Birth"
          /\ st' = SetOnline(st, FALSE)
          /\ node' = [Await(node, "disc") EXCEPT !.retry = TRUE]
       \/ /\ node.type = "Rebirth"
          /\ st' = st
          /\ node' = Idle(node)
    /\ UNCHANGED <<loop, cs, chan, host, env>> /\ UNCHANGED <<netVars, appVars>>

(* on_primary_host_offline() after its NDEATH, published or not.           *)
DeathSent ==
    /\ node.pc = "ndeath" /\ node.res # "wait"
    /\ st' = SetDead(st)
    /\ node' = Await(node, "disc")
    /\ UNCHANGED <<loop, cs, chan, host, env>> /\ UNCHANGED <<netVars, appVars>>

DisconnectSent ==
    /\ node.pc = "disc" /\ node.res # "wait"
    /\ node' = Idle(node)
    /\ UNCHANGED <<st, loop, cs, chan, host, env>>
    /\ UNCHANGED <<netVars, appVars>>

-----------------------------------------------------------------------------
(* What the idle node task takes; the select is biased, in this order.     *)
TakeClientState(kind) ==
    /\ node.pc = "idle"
    /\ cs # <<>> /\ Head(cs).kind = kind
    /\ cs' = Tail(cs)

TakeOnline ==
    /\ TakeClientState("Online")
    /\ TryOnline(st, [node EXCEPT !.clientOnline = TRUE])
    /\ UNCHANGED <<loop, chan, host, env>> /\ UNCHANGED <<netVars, appVars>>

(* Mutant: the flags of the session outlive it.                            *)
TakeOfflineKeepsFlags ==
    /\ TakeClientState("Offline")
    /\ node' = [node EXCEPT !.clientOnline = FALSE]
    /\ st' = IF st.online THEN NextBdSeq(SetDead(st)) ELSE st
    /\ loop' = IF Head(cs).awaited
               THEN [loop EXCEPT !.reply = IF st.online THEN st'.bdseq ELSE NoBd]
               ELSE loop
    /\ UNCHANGED <<chan, host, env>> /\ UNCHANGED <<netVars, appVars>>

(* Mutant: a node that never came online does not answer.                  *)
TakeOfflineUnanswered ==
    /\ TakeClientState("Offline")
    /\ node' = [node EXCEPT !.clientOnline = FALSE]
    /\ st' = IF st.online
             THEN NextBdSeq(SetDead(SetOnline(ResetPrimaryHost(st), FALSE)))
             ELSE ResetPrimaryHost(st)
    /\ loop' = IF Head(cs).awaited /\ st.online THEN [loop EXCEPT !.reply = st'.bdseq]
               ELSE loop
    /\ UNCHANGED <<chan, host, env>> /\ UNCHANGED <<netVars, appVars>>

(* on_offline(): a node that was online dies, and the will of the next     *)
(* session is sent back; otherwise the sender is dropped.                  *)
TakeOffline ==
    /\ TakeClientState("Offline")
    /\ node' = [node EXCEPT !.clientOnline = FALSE]
    /\ st' = IF st.online
             THEN NextBdSeq(SetDead(SetOnline(ResetPrimaryHost(st), FALSE)))
             ELSE ResetPrimaryHost(st)
    /\ loop' = IF Head(cs).awaited
               THEN [loop EXCEPT !.reply = IF st.online THEN st'.bdseq ELSE NoBd]
               ELSE loop
    /\ UNCHANGED <<chan, host, env>> /\ UNCHANGED <<netVars, appVars>>

(* Mutant: the NDEATH carries the bdSeq of the next session.               *)
TakeStateNextBd ==
    /\ TakeClientState("State")
    /\ LET m == Head(cs)
           s == UpdatePrimaryHostTimestamp(SetPrimaryHostOnline(st, m.online),
                                           m.ts)
       IN  \/ /\ ~NotOlder(st, m.ts)
              /\ UNCHANGED <<st, node>>
           \/ /\ NotOlder(st, m.ts) /\ m.online
              /\ TryOnline(s, node)
           \/ /\ NotOlder(st, m.ts) /\ ~m.online
              /\ st' = s
              /\ node' = IF st.birthed
                         THEN [Await(node, "ndeath") EXCEPT !.bd = NextBdSeq(st).bdseq]
                         ELSE node
    /\ UNCHANGED <<loop, chan, host, env>> /\ UNCHANGED <<netVars, appVars>>

(* on_primary_host_state().                                                *)
TakeState ==
    /\ TakeClientState("State")
    /\ LET m == Head(cs)
           s == UpdatePrimaryHostTimestamp(SetPrimaryHostOnline(st, m.online),
                                           m.ts)
       IN  \/ /\ ~NotOlder(st, m.ts)
              /\ UNCHANGED <<st, node>>
           \/ /\ NotOlder(st, m.ts) /\ m.online
              /\ TryOnline(s, node)
           \/ /\ NotOlder(st, m.ts) /\ ~m.online
              /\ st' = s
              /\ node' = IF st.birthed
                         THEN [Await(node, "ndeath") EXCEPT !.bd = st.bdseq]
                         ELSE node
    /\ UNCHANGED <<loop, chan, host, env>> /\ UNCHANGED <<netVars, appVars>>

TakeStopped ==
    /\ TakeClientState("Stopped")
    /\ node' = [node EXCEPT !.pc = "stopped"]
    /\ UNCHANGED <<st, loop, chan, host, env>> /\ UNCHANGED <<netVars, appVars>>

(* Mutant: the retry stays armed.                                          *)
RetryStaysArmed ==
    /\ node.pc = "idle" /\ cs = <<>>
    /\ node.retry
    /\ TryOnline(st, node)
    /\ UNCHANGED <<loop, cs, chan, host, env>> /\ UNCHANGED <<netVars, appVars>>

RetryFires ==
    /\ node.pc = "idle" /\ cs = <<>>
    /\ node.retry
    /\ TryOnline(st, [node EXCEPT !.retry = FALSE])
    /\ UNCHANGED <<loop, cs, chan, host, env>> /\ UNCHANGED <<netVars, appVars>>

TakeRebirth ==
    /\ node.pc = "idle" /\ cs = <<>>
    /\ rebirthRx
    /\ rebirthRx' = FALSE
    /\ IF st.birthed THEN BeginBirth(st, node, "Rebirth") ELSE UNCHANGED <<st, node>>
    /\ UNCHANGED <<cmds, cancel, stop, loop, cs, chan, host, env>>
    /\ UNCHANGED netVars

(* on_sparkplug_message() for an NCMD with Node Control/Rebirth = true:    *)
(* ignored within the cooldown of the previous one.                        *)
TakeCommand ==
    /\ node.pc = "idle" /\ cs = <<>> /\ ~rebirthRx
    /\ cmds > 0
    /\ cmds' = cmds - 1
    /\ \/ /\ node.cool
          /\ UNCHANGED <<st, node>>
       \/ /\ ~node.cool /\ st.birthed
          /\ BeginBirth(SetDead(st), [node EXCEPT !.cool = TRUE], "Rebirth")
       \/ /\ ~node.cool /\ ~st.birthed
          /\ node' = [node EXCEPT !.cool = TRUE]
          /\ UNCHANGED st
    /\ UNCHANGED <<rebirthRx, cancel, stop, loop, cs, chan, host, env>>
    /\ UNCHANGED netVars

CooldownEnds ==
    /\ node.cool
    /\ node' = [node EXCEPT !.cool = FALSE]
    /\ UNCHANGED <<st, loop, cs, chan, host, env>>
    /\ UNCHANGED <<netVars, appVars>>
-----------------------------------------------------------------------------
(* The event loop, EoN::run().  In mode "run" it handles every event of    *)
(* poll(); after a stop, poll_until_offline() drains ("drain") and, when   *)
(* that takes longer than a second, on_offline() is called again ("last"). *)
Run ==
    /\ loop.pc = "start"
    /\ st' = [st EXCEPT !.running = TRUE]
    /\ client' = [client EXCEPT !.nextWill = st.bdseq]
    /\ loop' = [loop EXCEPT !.pc = "poll"]
    /\ UNCHANGED <<node, cs, chan, broker, inbox, host, env>>
    /\ UNCHANGED appVars

GotEvent(ev) ==
    loop' = IF loop.mode = "run" \/ ev.kind = "Offline"
            THEN [loop EXCEPT !.pc = "send", !.ev = ev]
            ELSE [loop EXCEPT !.pc = "check"]

LoopSend ==
    /\ loop.pc = "send"
    /\ cs = <<>>
    /\ cs' = <<loop.ev>>
    /\ loop' = IF loop.ev.kind = "Offline"
               THEN [loop EXCEPT !.pc = "will", !.ev = Online, !.reply = Pending]
               ELSE [loop EXCEPT !.pc = "poll", !.ev = Online]
    /\ UNCHANGED <<st, node, chan, host, env>> /\ UNCHANGED <<netVars, appVars>>

(* Mutant: the will of the client is not updated.                          *)
LoopGotWillIgnored ==
    /\ loop.pc = "will" /\ loop.reply # Pending
    /\ loop' = [loop EXCEPT !.pc = IF loop.mode = "run" THEN "poll" ELSE "stopping",
                            !.reply = NoBd]
    /\ UNCHANGED <<st, node, cs, chan, client, broker, inbox, host, env>>
    /\ UNCHANGED appVars

(* The will of the next session arrives, or its sender was dropped.        *)
LoopGotWill ==
    /\ loop.pc = "will" /\ loop.reply # Pending
    /\ client' = IF loop.reply = NoBd THEN client
                 ELSE [client EXCEPT !.nextWill = loop.reply]
    /\ loop' = [loop EXCEPT !.pc = IF loop.mode = "run" THEN "poll" ELSE "stopping",
                            !.reply = NoBd]
    /\ UNCHANGED <<st, node, cs, chan, broker, inbox, host, env>>
    /\ UNCHANGED appVars

LoopStop ==
    /\ loop.pc = "poll" /\ loop.mode = "run"
    /\ stop
    /\ stop' = FALSE
    /\ loop' = [loop EXCEPT !.pc = "check", !.mode = "drain"]
    /\ UNCHANGED <<rebirthRx, cmds, cancel, st, node, cs, chan, host, env>>
    /\ UNCHANGED netVars

DrainCheck ==
    /\ loop.pc = "check"
    /\ loop' = [loop EXCEPT !.pc = IF st.online THEN "poll" ELSE "stopping"]
    /\ UNCHANGED <<st, node, cs, chan, host, env>> /\ UNCHANGED <<netVars, appVars>>

(* Mutant: the drain has no timeout.                                       *)
NoDrainTimeout == FALSE /\ UNCHANGED vars

(* The drain's future is dropped at its await: an Offline it has put in    *)
(* the channel stays there, but nobody waits for its answer.               *)
DrainTimeout ==
    /\ loop.mode = "drain" /\ loop.pc \in {"poll", "send", "will"}
    /\ loop' = [loop EXCEPT !.pc = "send", !.mode = "last", !.ev = Offline,
                            !.reply = NoBd]
    /\ cs' = [i \in DOMAIN cs |-> IF cs[i].kind = "Offline"
                                  THEN [cs[i] EXCEPT !.awaited = FALSE] ELSE cs[i]]
    /\ UNCHANGED <<st, node, chan, host, env>> /\ UNCHANGED <<netVars, appVars>>

(* The node's death as a host application sees it: a death certificate     *)
(* counts when it carries the bdSeq of the birth.                          *)
Dies(b, bd) == [b EXCEPT !.view = IF @ = bd THEN NoBd ELSE @]

(* run() returns; dropping the event loop closes the connection, upon      *)
(* which the broker publishes the will.                                    *)
LoopDone ==
    /\ loop.pc = "stopping"
    /\ cs = <<>>
    /\ cs' = <<Stopped>>
    /\ loop' = [loop EXCEPT !.pc = "done"]
    /\ st' = [st EXCEPT !.running = FALSE]
    /\ broker' = IF client.conn = "up" THEN Dies(broker, client.will) ELSE broker
    /\ client' = [client EXCEPT !.conn = "down"]
    /\ inbox' = <<>>
    /\ UNCHANGED <<node, chan, host, env>> /\ UNCHANGED appVars

-----------------------------------------------------------------------------
(* The client's poll().                                                    *)
PollConnect ==
    /\ loop.pc = "poll" /\ client.conn = "down"
    /\ client' = [client EXCEPT !.conn = "up", !.will = client.nextWill]
    /\ broker' = [broker EXCEPT !.sub = FALSE, !.bd = NoBd]
    /\ GotEvent(Online)
    /\ UNCHANGED <<st, node, cs, chan, inbox, host, env>> /\ UNCHANGED appVars

HostState == [kind |-> "State", online |-> host.online, ts |-> host.ts]

(* The broker takes a request; a subscription is answered with the STATE   *)
(* the host last published, which is retained.                             *)
Deliver(b, m) ==
    CASE m.kind = "SUB"    -> [b EXCEPT !.sub = TRUE]
      [] m.kind = "NBIRTH" -> [b EXCEPT !.bd = m.n, !.view = m.n]
      [] m.kind = "NDEATH" -> Dies(b, m.n)
      [] OTHER             -> b

PollRequest ==
    /\ loop.pc = "poll" /\ client.conn # "down"
    /\ chan # <<>>
    /\ chan' = Tail(chan)
    /\ LET m == Head(chan) IN
       /\ broker' = IF client.conn = "up" THEN Deliver(broker, m) ELSE broker
       /\ inbox' = IF client.conn = "up" /\ m.kind = "SUB" /\ host.ts > 0
                   THEN Append(inbox, HostState) ELSE inbox
       /\ IF m.kind = "DISCONNECT"
          THEN client' = [client EXCEPT !.conn = "closing"] /\ GotEvent(Offline)
          ELSE UNCHANGED <<client, loop>>
    /\ UNCHANGED <<st, node, cs, host, env>> /\ UNCHANGED appVars

PollState ==
    /\ loop.pc = "poll" /\ client.conn = "up"
    /\ inbox # <<>>
    /\ inbox' = Tail(inbox)
    /\ GotEvent(Head(inbox))
    /\ UNCHANGED <<st, node, cs, chan, client, broker, host, env>>
    /\ UNCHANGED appVars

PollCommand ==
    /\ loop.pc = "poll" /\ loop.mode = "run" /\ client.conn = "up"
    /\ broker.sub
    /\ env.cmds < MaxCmd
    /\ env' = [env EXCEPT !.cmds = @ + 1]
    /\ cmds' = cmds + 1
    /\ UNCHANGED <<rebirthRx, cancel, stop, st, node, loop, cs, chan, host>>
    /\ UNCHANGED netVars

(* The connection breaks: requests the client holds are dropped with the   *)
(* session, those it accepts from now on wait for the next connection.     *)
PollLost ==
    /\ loop.pc = "poll" /\ client.conn = "up"
    /\ env.losses < MaxLoss
    /\ env' = [env EXCEPT !.losses = @ + 1]
    /\ client' = [client EXCEPT !.conn = "down"]
    /\ broker' = Dies(broker, client.will)
    /\ chan' = <<>> /\ inbox' = <<>>
    /\ GotEvent(Offline)
    /\ UNCHANGED <<st, node, cs, host>> /\ UNCHANGED appVars

(* The broker sends a DISCONNECT packet; the socket closes later.          *)
PollServerDisconnect ==
    /\ loop.pc = "poll" /\ client.conn = "up"
    /\ env.kicks < MaxKick
    /\ env' = [env EXCEPT !.kicks = @ + 1]
    /\ client' = [client EXCEPT !.conn = "closing"]
    /\ broker' = Dies(broker, client.will)
    /\ inbox' = <<>>
    /\ GotEvent(Offline)
    /\ UNCHANGED <<st, node, cs, chan, host>> /\ UNCHANGED appVars

PollClosed ==
    /\ loop.pc = "poll" /\ client.conn = "closing"
    /\ client' = [client EXCEPT !.conn = "down"]
    /\ chan' = <<>> /\ inbox' = <<>>
    /\ UNCHANGED <<st, node, loop, cs, broker, host, env>> /\ UNCHANGED appVars

-----------------------------------------------------------------------------
(* The application: NodeHandle::rebirth() and NodeHandle::cancel().        *)
Rebirth ==
    /\ env.rebirths < MaxRebirth
    /\ env' = [env EXCEPT !.rebirths = @ + 1]
    /\ rebirthRx' = TRUE
    /\ UNCHANGED <<cmds, cancel, stop, st, node, loop, cs, chan, host>>
    /\ UNCHANGED netVars

CancelStep(p, q) == cancel.pc = p /\ cancel' = [cancel EXCEPT !.pc = q]

CancelUnchanged ==
    UNCHANGED <<rebirthRx, cmds, node, loop, cs, host, env>> /\ UNCHANGED netVars

(* cancel() once in a run.  What it does up to set_dead is one step, even  *)
(* across the await of disconnect_with_will (node.rs:240): the rumqtt      *)
(* client answers at once, nothing but another cancel() ends the run in    *)
(* between, and what the tasks do there they may do before the step.       *)
Cancel ==
    /\ MayCancel
    /\ cancel.pc = "idle"
    /\ \/ /\ st.running
          /\ st' = SetDead(st)
          /\ \E w \in WillReplies : cancel' = [cancel EXCEPT !.pc = "dead", !.will = w]
       \/ /\ ~st.running
          /\ cancel' = [cancel EXCEPT !.pc = "done"]
          /\ UNCHANGED st
    /\ UNCHANGED <<stop, chan>> /\ CancelUnchanged

CancelPayload ==
    /\ cancel.pc = "dead"
    /\ cancel' = [cancel EXCEPT !.pc = "ndeath", !.bd = st.bdseq]
    /\ UNCHANGED <<st, stop, chan>> /\ CancelUnchanged

CancelDeath ==
    /\ CancelStep("ndeath", "stop")
    /\ chan' = IF Room /\ ~ClientGone
               THEN Append(chan, Request("NDEATH", "node", cancel.bd)) ELSE chan
    /\ UNCHANGED <<st, stop>> /\ CancelUnchanged

(* Mutant: the client is disconnected although the will does it.           *)
CancelStopDisconnects ==
    /\ CancelStep("stop", "disc")
    /\ \/ ~ClientGone /\ ~stop /\ stop' = TRUE
       \/ ClientGone /\ UNCHANGED stop
    /\ UNCHANGED <<st, chan>> /\ CancelUnchanged

CancelStop ==
    /\ CancelStep("stop", IF cancel.will THEN "done" ELSE "disc")
    /\ \/ ~ClientGone /\ ~stop /\ stop' = TRUE
       \/ ClientGone /\ UNCHANGED stop
    /\ UNCHANGED <<st, chan>> /\ CancelUnchanged

CancelDisconnect ==
    /\ CancelStep("disc", "done")
    /\ \/ ~ClientGone /\ Room /\ chan' = Append(chan, Request("DISCONNECT", "node", 0))
       \/ ClientGone /\ UNCHANGED chan
    /\ UNCHANGED <<st, stop>> /\ CancelUnchanged

-----------------------------------------------------------------------------
(* The primary host application comes online with a new timestamp, and its *)
(* death certificate carries the timestamp it came online with.            *)
HostFlips ==
    /\ PrimaryHost
    /\ env.flips < MaxFlip
    /\ env' = [env EXCEPT !.flips = @ + 1]
    /\ host' = [online |-> ~host.online,
                ts     |-> IF host.online THEN host.ts ELSE host.ts + 1]
    /\ inbox' = IF client.conn = "up" /\ broker.sub
                THEN Append(inbox, [kind |-> "State", online |-> host'.online,
                                    ts |-> host'.ts])
                ELSE inbox
    /\ UNCHANGED <<st, node, loop, cs, chan, client, broker>> /\ UNCHANGED appVars

(* A STATE message of an earlier session of the host arrives late.         *)
OldState ==
    /\ client.conn = "up" /\ broker.sub
    /\ env.olds < MaxOld
    /\ env' = [env EXCEPT !.olds = @ + 1]
    /\ \E ts \in 1 .. host.ts - 1, b \in BOOLEAN :
          inbox' = Append(inbox, [kind |-> "State", online |-> b, ts |-> ts])
    /\ UNCHANGED <<st, node, loop, cs, chan, client, broker, host>>
    /\ UNCHANGED appVars

-----------------------------------------------------------------------------
(* Birthed, TakeOffline and DeathSent are the steps that also notify the   *)
(* devices.                                                                *)
NodeOnlyStep ==
    \/ NodeSend \/ NodeSendFails \/ Subscribed \/ SubscribeFailed
    \/ BirthFailed \/ DisconnectSent
    \/ TakeOnline \/ TakeState \/ TakeStopped
    \/ RetryFires \/ TakeRebirth \/ TakeCommand

NodeStep == NodeOnlyStep \/ Birthed \/ TakeOffline \/ DeathSent

LoopStep ==
    \/ Run \/ LoopSend \/ LoopGotWill \/ LoopStop
    \/ DrainCheck \/ DrainTimeout \/ LoopDone

PollEvent ==
    \/ PollConnect \/ PollState \/ PollCommand
    \/ PollLost \/ PollServerDisconnect \/ PollClosed

AppStep ==
    \/ Rebirth \/ Cancel \/ CancelPayload \/ CancelDeath \/ CancelStop
    \/ CancelDisconnect

Next == NodeStep \/ LoopStep \/ PollRequest \/ PollEvent \/ AppStep
          \/ HostFlips \/ OldState \/ CooldownEnds

Spec == Init /\ [][Next]_vars
(* The node's task, the event loop and a running cancel() are scheduled;   *)
(* poll() serves each of its sources; the timers run out.  Nothing forces  *)
(* the network, the broker, the host or the application to act.            *)
Fairness ==
    /\ WF_vars(NodeStep) /\ WF_vars(LoopStep)
    /\ WF_vars(PollConnect) /\ WF_vars(PollRequest)
    /\ WF_vars(PollState) /\ WF_vars(PollClosed)
    /\ WF_vars(RetryFires)
    /\ WF_vars(CancelPayload \/ CancelDeath \/ CancelStop \/ CancelDisconnect)

FairSpec == Spec /\ Fairness

-----------------------------------------------------------------------------
NodeTask ==
    [pc : Awaiting \cup {"idle", "stopped"}, res : {"wait", "ok", "err"},
     type : {"Birth", "Rebirth"}, bd : BdSeq,
     clientOnline : BOOLEAN, retry : BOOLEAN, cool : BOOLEAN]

LoopTask ==
    [pc : {"start", "poll", "send", "will", "check", "stopping", "done"},
     mode : {"run", "drain", "last"}, ev : ClientStateMessages,
     reply : BdSeq \cup {NoBd, Pending}]

Counters == {"losses", "kicks", "flips", "olds", "rebirths", "cmds", "fails"}

(* The types of all variables but the request channel, which the session   *)
(* shares with the devices and publishers of EonNode; and of all variables.*)
SessionTypes ==
    /\ st \in EoNState
    /\ node \in NodeTask
    /\ loop \in LoopTask
    /\ rebirthRx \in BOOLEAN /\ cmds \in Nat /\ stop \in BOOLEAN
    /\ cs \in Seq(ClientStateMessages) /\ Len(cs) <= 1
    /\ cancel \in [pc : {"idle", "dead", "ndeath", "stop", "disc", "done"},
                   will : BOOLEAN, bd : BdSeq]
    /\ client \in [conn : {"down", "up", "closing"},
                   will : BdSeq \cup {NoBd}, nextWill : BdSeq \cup {NoBd}]
    /\ broker \in [sub : BOOLEAN, bd : BdSeq \cup {NoBd}, view : BdSeq \cup {NoBd}]
    /\ inbox \in Seq(States)
    /\ host \in [online : BOOLEAN, ts : Nat]
    /\ env \in [Counters -> Nat]

TypeOK == SessionTypes /\ chan \in Seq(SessionRequests) /\ Len(chan) <= Cap

(* A node with a primary host births only while it knows that host to be   *)
(* online; it is birthed without the host only until the NDEATH it is      *)
(* publishing has left (Node::try_online, on_primary_host_state).  What it *)
(* knows was said on this connection (reset_primary_host).                 *)
HostGate ==
    /\ PrimaryHost /\ (node.pc = "nbirth" \/ (st.birthed /\ node.pc # "ndeath"))
        => st.host /\ st.online
    /\ ~node.clientOnline => ~st.host

(* Nothing is under way between the node, its event loop and the broker.   *)
Settled ==
    /\ node.pc = "idle" /\ cs = <<>> /\ chan = <<>> /\ inbox = <<>>
    /\ loop.pc = "poll" /\ loop.mode = "run"
    /\ client.conn = "up" /\ cancel.pc = "idle"

(* A node that believes it is birthed is alive for the hosts, under the    *)
(* bdSeq of the will that is registered for this very connection, and the  *)
(* broker routes commands to it.                                           *)
BirthAgrees ==
    Settled /\ st.birthed =>
        /\ broker.view = st.bdseq /\ broker.bd = st.bdseq
        /\ client.will = st.bdseq
        /\ broker.sub

(* A node that does not believe it is birthed is not alive for the hosts.  *)
DeathAgrees == Settled /\ ~st.birthed => broker.view = NoBd

(* Node and hosts agree whenever nothing is under way.                     *)
HostsAgree == BirthAgrees /\ DeathAgrees

(* The node's idea of its primary host is the host's newest STATE: late    *)
(* STATE messages of earlier host sessions and earlier connections leave   *)
(* no trace (update_primary_host_timestamp, reset_primary_host).           *)
HostViewAgrees ==
    PrimaryHost /\ Settled /\ broker.sub => st.host = host.online

(* The NBIRTH follows the subscription on every connection: "Subscribe     *)
(* before publishing the birth message" (Node::on_online).                 *)
SubscribedFirst == broker.bd # NoBd => broker.sub

(* The birth's bdSeq is the one of the connection's will, so the broker's  *)
(* death certificate will be recognised.                                   *)
BirthCarriesWill == broker.bd # NoBd => broker.bd = client.will

(* A node without a connection is dead for the hosts.                      *)
NoGhost == client.conn = "down" => broker.view = NoBd

(* After a cancel() that preserves the will the hosts see the node die,    *)
(* whatever NBIRTH the node task was about to publish ("so the broker also *)
(* publishes the registered Last Will").  An NBIRTH that was queued for a  *)
(* connection that broke is left to SubscribedFirst.                       *)
EndsDead ==
    loop.pc = "done" /\ cancel.will /\ env.losses = 0 => broker.view = NoBd

(* A node that is connected but not birthed has an attempt ahead of it: a  *)
(* retry is armed, it waits for its primary host, or for the application.  *)
AttemptAhead ==
    Settled /\ ~st.birthed => node.retry \/ (PrimaryHost /\ ~st.host)

(* When faults cease the node ends up birthed, as the hosts see it, unless *)
(* its primary host stays away or it is cancelled ("it disconnects and     *)
(* retries after a delay rather than stopping").                           *)
EventuallyBirthed ==
    <>[](\/ st.birthed /\ broker.view = st.bdseq
         \/ PrimaryHost /\ ~host.online /\ broker.view = NoBd
         \/ cancel.pc # "idle")

(* cancel() of a running node makes run() return and the node task end.    *)
CancelEndsRun == (cancel.pc = "stop") ~> (loop.pc = "done" /\ node.pc = "stopped")
=============================================================================
