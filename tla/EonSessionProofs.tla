--------------------------- MODULE EonSessionProofs --------------------------
(***************************************************************************)
(* Proofs about EonSession for every capacity of the request channel, any  *)
(* number of bdSeq values and any number of faults, commands and changes   *)
(* of the primary host.                                                    *)
(***************************************************************************)
EXTENDS EonSession, TLAPS

(* What the node will believe of the connection once it has taken what is  *)
(* in the client_state channel.                                            *)
ClientView ==
    \/ cs # <<>> /\ Head(cs).kind = "Online"
    \/ (cs # <<>> => Head(cs).kind \notin {"Online", "Offline"}) /\ node.clientOnline

(* The events reach the node in their order: a STATE is handed to it only  *)
(* on a connection it knows of.                                            *)
StateOnline ==
    /\ cs # <<>> /\ Head(cs).kind = "State" => node.clientOnline
    /\ loop.pc = "send" /\ loop.ev.kind = "State" => ClientView

LoopKnows ==
    /\ loop.pc = "poll" /\ loop.mode = "run" /\ client.conn = "up" => ClientView
    /\ loop.pc = "send" /\ loop.mode = "run" /\ loop.ev.kind = "Offline"
        => client.conn # "up"
    /\ loop.pc = "will" /\ loop.mode = "run" => client.conn # "up"
    /\ loop.pc = "send" => loop.mode = "run" \/ loop.ev.kind = "Offline"
    /\ loop.pc = "check" => loop.mode # "run"
    /\ loop.pc = "start" => client.conn = "down"
    /\ loop.ev.kind # "Stopped"

(* start_birth() precedes the birth's publish.                             *)
DeadWhileBirthing == node.pc = "nbirth" => ~st.birthed

Gated == SessionTypes /\ HostGate /\ DeadWhileBirthing /\ StateOnline /\ LoopKnows

-----------------------------------------------------------------------------
(* The constants, as the provers need them.                                *)
LEMMA Constants ==
    /\ SeqMod \in Nat \ {0} /\ BdMod \in Nat \ {0} /\ Cap \in Nat \ {0}
    /\ 0 \in BdSeq /\ 0 \in SeqNo /\ PrimaryHost \in BOOLEAN
    /\ WillReplies \subseteq BOOLEAN
BY EonStateAssumption, SessionAssumption DEF BdSeq, SeqNo

(* The methods of EoNState keep its type.                                  *)
LEMMA StateTypes ==
  ASSUME NEW s \in EoNState, NEW b \in BOOLEAN, NEW ts \in Nat
  PROVE  /\ SetOnline(s, b) \in EoNState
         /\ SetPrimaryHostOnline(s, b) \in EoNState
         /\ ResetPrimaryHost(s) \in EoNState
         /\ UpdatePrimaryHostTimestamp(s, ts) \in EoNState
         /\ SetDead(s) \in EoNState
         /\ StartBirth(s) \in EoNState
         /\ BirthCompleted(s) \in EoNState
         /\ NextBdSeq(s) \in EoNState
<1>1. (s.bdseq + 1) % BdMod \in BdSeq
  BY Constants DEF EoNState, BdSeq
<1> QED
  BY <1>1, Constants
  DEF EoNState, SetOnline, SetPrimaryHostOnline, ResetPrimaryHost, StartBirth,
      UpdatePrimaryHostTimestamp, SetDead, BirthCompleted, NextBdSeq

(* What they change, and what they leave alone.                            *)
LEMMA StateFields ==
  ASSUME NEW s \in EoNState, NEW b \in BOOLEAN, NEW ts \in Nat
  PROVE  /\ SetOnline(s, b).online = b /\ SetOnline(s, b).host = s.host
         /\ SetOnline(s, b).birthed = s.birthed
         /\ SetOnline(s, b).bdseq = s.bdseq
         /\ SetPrimaryHostOnline(s, b).host = b
         /\ SetPrimaryHostOnline(s, b).online = s.online
         /\ SetPrimaryHostOnline(s, b).birthed = s.birthed
         /\ UpdatePrimaryHostTimestamp(s, ts).host = s.host
         /\ UpdatePrimaryHostTimestamp(s, ts).online = s.online
         /\ UpdatePrimaryHostTimestamp(s, ts).birthed = s.birthed
         /\ ResetPrimaryHost(s).host = FALSE
         /\ ResetPrimaryHost(s).online = s.online
         /\ ResetPrimaryHost(s).birthed = s.birthed
         /\ ~SetDead(s).birthed /\ SetDead(s).host = s.host
         /\ SetDead(s).online = s.online
         /\ ~StartBirth(s).birthed /\ StartBirth(s).host = s.host
         /\ StartBirth(s).online = s.online
         /\ BirthCompleted(s).host = s.host
         /\ BirthCompleted(s).online = s.online
         /\ NextBdSeq(s).host = s.host /\ NextBdSeq(s).online = s.online
         /\ NextBdSeq(s).birthed = s.birthed
BY DEF EoNState, SetOnline, SetPrimaryHostOnline, ResetPrimaryHost, StartBirth,
       UpdatePrimaryHostTimestamp, SetDead, BirthCompleted, NextBdSeq

-----------------------------------------------------------------------------
(* The helpers of the node task keep the types of the shared state and of  *)
(* the task.                                                               *)
LEMMA NodeTypes ==
  ASSUME NEW n \in NodeTask, NEW p \in Awaiting
  PROVE  /\ Idle(n) \in NodeTask
         /\ Await(n, p) \in NodeTask
         /\ Await(n, p).pc = p /\ Await(n, p).clientOnline = n.clientOnline
         /\ Idle(n).pc = "idle" /\ Idle(n).clientOnline = n.clientOnline
BY Constants DEF NodeTask, Idle, Await, Awaiting

(* The same for the start of a birth.                                      *)
LEMMA BeginBirthTypes ==
  ASSUME NEW s \in EoNState, NEW n \in NodeTask,
         NEW type \in {"Birth", "Rebirth"}, BeginBirth(s, n, type)
  PROVE  st' \in EoNState /\ node' \in NodeTask
<1>1. "nbirth" \in Awaiting /\ s.bdseq \in BdSeq
  BY DEF Awaiting, EoNState
<1>2. st' \in EoNState
  BY StateTypes, Constants DEF BeginBirth
<1>3. Await(n, "nbirth") \in NodeTask
  BY <1>1, NodeTypes
<1> QED
  BY <1>1, <1>2, <1>3 DEF BeginBirth, NodeTask

(* The same for its second half.                                           *)
LEMMA EnsureBirthedTypes ==
  ASSUME NEW s \in EoNState, NEW n \in NodeTask, EnsureBirthed(s, n)
  PROVE  st' \in EoNState /\ node' \in NodeTask
<1>1. Idle(n) \in NodeTask
  BY NodeTypes DEF Awaiting
<1> QED
  BY <1>1, BeginBirthTypes DEF EnsureBirthed

(* The same for try_online().                                              *)
LEMMA TryOnlineTypes ==
  ASSUME NEW s \in EoNState, NEW n \in NodeTask, TryOnline(s, n)
  PROVE  st' \in EoNState /\ node' \in NodeTask
<1>1. "sub" \in Awaiting
  BY DEF Awaiting
<1>2. Idle(n) \in NodeTask /\ Await(n, "sub") \in NodeTask
  BY <1>1, NodeTypes
<1> QED
  BY <1>2, EnsureBirthedTypes DEF TryOnline

-----------------------------------------------------------------------------
(* A step of the node task that only changes the shared state and itself.  *)
LEMMA NodeLocalTypes ==
  ASSUME SessionTypes, st' \in EoNState, node' \in NodeTask,
         UNCHANGED <<loop, cs, chan, host, env>>, UNCHANGED <<netVars, appVars>>
  PROVE  SessionTypes'
BY DEF SessionTypes, netVars, appVars

(* The requests of the node task and of cancel().                          *)
LEMMA RequestTypes ==
  /\ SessionTypes => NodeRequest \in SessionRequests
  /\ \A bd \in BdSeq : Request("NDEATH", "node", bd) \in SessionRequests
  /\ Request("DISCONNECT", "node", 0) \in SessionRequests
BY DEF SessionTypes, NodeTask, NodeRequest, Request, SessionRequests

(* Taking a message from the one-place channel leaves it empty.            *)
LEMMA TakeTypes ==
  ASSUME SessionTypes, NEW kind, TakeClientState(kind)
  PROVE  /\ Head(cs) \in ClientStateMessages /\ Head(cs).kind = kind
         /\ cs' = <<>> /\ cs # <<>>
BY DEF SessionTypes, TakeClientState

(* The counters of the environment count.                                  *)
LEMMA CounterTypes ==
  ASSUME SessionTypes, NEW c \in Counters
  PROVE  [env EXCEPT ![c] = @ + 1] \in [Counters -> Nat]
<1>1. env \in [Counters -> Nat]
  BY DEF SessionTypes
<1> QED
  BY <1>1

(* The steps of the node task keep the types.                              *)
LEMMA NodeStepTypes == ASSUME SessionTypes, NodeStep PROVE SessionTypes'
<1>0. st \in EoNState /\ node \in NodeTask
  BY DEF SessionTypes
<1>1. CASE NodeSend
  <2>1. node' \in NodeTask
    BY <1>0, <1>1 DEF NodeSend, NodeTask
  <2> QED
    BY <1>1, <2>1 DEF NodeSend, SessionTypes, netVars, appVars
<1>2. CASE NodeSendFails
  <2>1. node' \in NodeTask
    BY <1>0, <1>2 DEF NodeSendFails, NodeTask
  <2>2. env' \in [Counters -> Nat]
    <3>1. env \in [Counters -> Nat] /\ [env EXCEPT !.fails = @ + 1] \in [Counters -> Nat]
      BY CounterTypes DEF SessionTypes, Counters
    <3> QED
      BY <1>2, <3>1 DEF NodeSendFails
  <2> QED
    <3>1. UNCHANGED <<st, loop, cs, chan, host, client, broker, inbox, rebirthRx,
                      cmds, cancel, stop>>
      BY <1>2 DEF NodeSendFails, netVars, appVars
    <3> QED
      BY <2>1, <2>2, <3>1 DEF SessionTypes
<1>3. CASE Subscribed
  BY <1>0, <1>3, StateTypes, EnsureBirthedTypes, NodeLocalTypes, Constants
  DEF Subscribed
<1>4. CASE SubscribeFailed
  <2>1. Await(node, "disc") \in NodeTask
    BY <1>0, NodeTypes DEF Awaiting
  <2>2. node' \in NodeTask
    BY <1>4, <2>1 DEF SubscribeFailed, NodeTask
  <2> QED
    BY <1>0, <1>4, <2>2, NodeLocalTypes DEF SubscribeFailed
<1>5. CASE Birthed
  <2>1. Idle(node) \in NodeTask /\ BirthCompleted(st) \in EoNState
    BY <1>0, NodeTypes, StateTypes, Constants DEF Awaiting
  <2> QED
    BY <1>5, <2>1, NodeLocalTypes DEF Birthed
<1>6. CASE BirthFailed
  <2>1. /\ Idle(node) \in NodeTask /\ Await(node, "disc") \in NodeTask
        /\ SetOnline(st, FALSE) \in EoNState
    BY <1>0, NodeTypes, StateTypes, Constants DEF Awaiting
  <2>2. node' \in NodeTask /\ st' \in EoNState
    BY <1>0, <1>6, <2>1 DEF BirthFailed, NodeTask
  <2> QED
    BY <1>6, <2>2, NodeLocalTypes DEF BirthFailed
<1>7. CASE DeathSent
  <2>1. Await(node, "disc") \in NodeTask /\ SetDead(st) \in EoNState
    BY <1>0, NodeTypes, StateTypes, Constants DEF Awaiting
  <2> QED
    BY <1>7, <2>1, NodeLocalTypes DEF DeathSent
<1>8. CASE DisconnectSent
  <2>1. Idle(node) \in NodeTask
    BY <1>0, NodeTypes DEF Awaiting
  <2> QED
    BY <1>0, <1>8, <2>1, NodeLocalTypes DEF DisconnectSent
<1>9. CASE TakeOnline
  <2>1. [node EXCEPT !.clientOnline = TRUE] \in NodeTask
    BY <1>0 DEF NodeTask
  <2>2. st' \in EoNState /\ node' \in NodeTask /\ cs' = <<>>
    BY <1>0, <1>9, <2>1, TryOnlineTypes, TakeTypes DEF TakeOnline
  <2> QED
    BY <1>9, <2>2 DEF TakeOnline, SessionTypes, netVars, appVars
<1>10. CASE TakeOffline
  <2>1. ResetPrimaryHost(st) \in EoNState
    BY <1>0, StateTypes, Constants
  <2>2. NextBdSeq(SetDead(SetOnline(ResetPrimaryHost(st), FALSE))) \in EoNState
    BY <2>1, StateTypes, Constants
  <2>3. st' \in EoNState
    BY <1>10, <2>1, <2>2 DEF TakeOffline
  <2>4. st'.bdseq \in BdSeq
    BY <2>3 DEF EoNState
  <2>5. loop' \in LoopTask
    BY <1>10, <2>4 DEF TakeOffline, SessionTypes, LoopTask
  <2>6. node' \in NodeTask /\ cs' = <<>>
    BY <1>0, <1>10, TakeTypes DEF TakeOffline, NodeTask
  <2> QED
    <3>1. UNCHANGED <<chan, host, env, client, broker, inbox, rebirthRx, cmds,
                      cancel, stop>>
      BY <1>10 DEF TakeOffline, netVars, appVars
    <3> QED
      BY <2>3, <2>5, <2>6, <3>1 DEF SessionTypes
<1>11. CASE TakeState
  <2> DEFINE m == Head(cs)
  <2> DEFINE s == UpdatePrimaryHostTimestamp(SetPrimaryHostOnline(st, m.online), m.ts)
  <2>1. m \in ClientStateMessages /\ m.kind = "State" /\ cs' = <<>>
    BY <1>11, TakeTypes DEF TakeState
  <2>2. m.online \in BOOLEAN /\ m.ts \in Nat
    BY <2>1 DEF ClientStateMessages, States
  <2>3. s \in EoNState
    BY <1>0, <2>2, StateTypes
  <2>4. Await(node, "ndeath") \in NodeTask /\ st.bdseq \in BdSeq
    BY <1>0, NodeTypes DEF Awaiting, EoNState
  <2>5. st' \in EoNState /\ node' \in NodeTask
    <3>1. CASE st' = st /\ node' = node
      BY <1>0, <3>1
    <3>2. CASE TryOnline(s, node)
      <4> HIDE DEF s
      <4> QED
        BY <1>0, <2>3, <3>2, TryOnlineTypes
    <3>3. CASE st' = s /\ node' = IF st.birthed
                          THEN [Await(node, "ndeath") EXCEPT !.bd = st.bdseq]
                          ELSE node
      <4> HIDE DEF s
      <4> QED
        BY <1>0, <2>3, <2>4, <3>3 DEF NodeTask
    <3> QED
      BY <1>11, <3>1, <3>2, <3>3 DEF TakeState
  <2> QED
    BY <1>11, <2>1, <2>5 DEF TakeState, SessionTypes, netVars, appVars
<1>12. CASE TakeStopped
  <2>1. node' \in NodeTask /\ cs' = <<>>
    BY <1>0, <1>12, TakeTypes DEF TakeStopped, NodeTask
  <2> QED
    BY <1>12, <2>1 DEF TakeStopped, SessionTypes, netVars, appVars
<1>13. CASE RetryFires
  <2>1. [node EXCEPT !.retry = FALSE] \in NodeTask
    BY <1>0 DEF NodeTask
  <2> QED
    BY <1>0, <1>13, <2>1, TryOnlineTypes, NodeLocalTypes DEF RetryFires
<1>14. CASE TakeRebirth
  <2>1. st' \in EoNState /\ node' \in NodeTask
    BY <1>0, <1>14, BeginBirthTypes DEF TakeRebirth
  <2> QED
    <3>1. /\ rebirthRx' \in BOOLEAN
          /\ UNCHANGED <<loop, cs, chan, host, env, client, broker, inbox, cmds,
                         cancel, stop>>
      BY <1>14 DEF TakeRebirth, netVars
    <3> QED
      BY <2>1, <3>1 DEF SessionTypes
<1>15. CASE TakeCommand
  <2>1. [node EXCEPT !.cool = TRUE] \in NodeTask /\ SetDead(st) \in EoNState
    BY <1>0, StateTypes, Constants DEF NodeTask
  <2>2. st' \in EoNState /\ node' \in NodeTask
    BY <1>0, <1>15, <2>1, BeginBirthTypes DEF TakeCommand
  <2>3. cmds' \in Nat
    BY <1>15 DEF TakeCommand, SessionTypes
  <2> QED
    BY <1>15, <2>2, <2>3 DEF TakeCommand, SessionTypes, netVars
<1> QED
  BY <1>1, <1>2, <1>3, <1>4, <1>5, <1>6, <1>7, <1>8, <1>9, <1>10, <1>11, <1>12,
     <1>13, <1>14, <1>15
  DEF NodeStep, NodeOnlyStep

-----------------------------------------------------------------------------
(* The events of the client's poll() and what the loop does with one.      *)
LEMMA EventTypes ==
  /\ Online \in ClientStateMessages /\ Offline \in ClientStateMessages
  /\ Stopped \in ClientStateMessages
  /\ \A m \in States : m \in ClientStateMessages
  /\ SessionTypes => HostState \in States
BY DEF Online, Offline, Stopped, ClientStateMessages, States, HostState, SessionTypes

(* The loop keeps an event until it has handed it on.                      *)
LEMMA GotEventTypes ==
  ASSUME SessionTypes, NEW ev \in ClientStateMessages, GotEvent(ev)
  PROVE  loop' \in LoopTask
BY DEF SessionTypes, GotEvent, LoopTask

(* The connection and its wills.                                           *)
Connection == [conn : {"down", "up", "closing"},
               will : BdSeq \cup {NoBd}, nextWill : BdSeq \cup {NoBd}]

(* What the broker knows after a request or a death.                       *)
BrokerView == [sub : BOOLEAN, bd : BdSeq \cup {NoBd}, view : BdSeq \cup {NoBd}]

(* Both keep its type, as long as a birth carries a bdSeq.                 *)
BirthTyped(m) == m.kind = "NBIRTH" => m.n \in BdSeq

LEMMA BrokerTypes ==
  ASSUME NEW b \in BrokerView
  PROVE  /\ \A bd : Dies(b, bd) \in BrokerView
         /\ \A m : BirthTyped(m) => Deliver(b, m) \in BrokerView
<1>1. \A bd : Dies(b, bd) \in BrokerView
  BY DEF BrokerView, Dies
<1>2. ASSUME NEW m, BirthTyped(m) PROVE Deliver(b, m) \in BrokerView
  <2>1. CASE m.kind = "SUB"
    BY <2>1 DEF Deliver, BrokerView
  <2>2. CASE m.kind = "NBIRTH"
    BY <1>2, <2>2 DEF Deliver, BrokerView, BirthTyped
  <2>3. CASE m.kind = "NDEATH"
    BY <1>1, <2>3 DEF Deliver
  <2>4. CASE m.kind \notin {"SUB", "NBIRTH", "NDEATH"}
    BY <2>4 DEF Deliver
  <2> QED
    BY <2>1, <2>2, <2>3, <2>4
<1> QED
  BY <1>1, <1>2

(* What is left of the STATE messages, and what they may become.           *)
LEMMA InboxTypes ==
  ASSUME SessionTypes
  PROVE  /\ inbox # <<>> => Head(inbox) \in States /\ Tail(inbox) \in Seq(States)
         /\ <<>> \in Seq(States)
         /\ \A m \in States : Append(inbox, m) \in Seq(States)
BY DEF SessionTypes

(* The event loop's steps keep the types.                                  *)
LEMMA LoopStepTypes == ASSUME SessionTypes, LoopStep PROVE SessionTypes'
<1>0. /\ st \in EoNState /\ loop \in LoopTask /\ broker \in BrokerView
      /\ client \in Connection
  BY DEF SessionTypes, BrokerView, Connection
<1>1. CASE Run
  <2>1. st' \in EoNState /\ st.bdseq \in BdSeq
    BY <1>0, <1>1 DEF Run, EoNState
  <2>2. loop' \in LoopTask
    BY <1>0, <1>1 DEF Run, LoopTask
  <2>3. client' \in Connection
    BY <1>0, <1>1, <2>1 DEF Run, Connection
  <2>4. UNCHANGED <<node, cs, chan, broker, inbox, host, env, rebirthRx, cmds,
                    cancel, stop>>
    BY <1>1 DEF Run, appVars
  <2> QED
    BY <2>1, <2>2, <2>3, <2>4 DEF SessionTypes, Connection
<1>2. CASE LoopSend
  <2>1. loop' \in LoopTask
    BY <1>0, <1>2, EventTypes DEF LoopSend, LoopTask
  <2>2. cs' \in Seq(ClientStateMessages) /\ Len(cs') <= 1
    BY <1>0, <1>2 DEF LoopSend, LoopTask
  <2>3. UNCHANGED <<st, node, chan, host, env, client, broker, inbox, rebirthRx,
                    cmds, cancel, stop>>
    BY <1>2 DEF LoopSend, netVars, appVars
  <2> QED
    BY <2>1, <2>2, <2>3 DEF SessionTypes
<1>3. CASE LoopGotWill
  <2>1. loop.reply # NoBd => loop.reply \in BdSeq
    BY <1>0, <1>3 DEF LoopGotWill, LoopTask
  <2>2. client' \in Connection
    BY <1>0, <1>3, <2>1 DEF LoopGotWill, Connection
  <2>3. loop' \in LoopTask
    BY <1>0, <1>3 DEF LoopGotWill, LoopTask
  <2>4. UNCHANGED <<st, node, cs, chan, broker, inbox, host, env, rebirthRx, cmds,
                    cancel, stop>>
    BY <1>3 DEF LoopGotWill, appVars
  <2> QED
    BY <2>2, <2>3, <2>4 DEF SessionTypes, Connection
<1>4. CASE LoopStop
  <2>1. loop' \in LoopTask /\ stop' \in BOOLEAN
    BY <1>0, <1>4 DEF LoopStop, LoopTask
  <2>2. UNCHANGED <<rebirthRx, cmds, cancel, st, node, cs, chan, host, env, client,
                    broker, inbox>>
    BY <1>4 DEF LoopStop, netVars
  <2> QED
    BY <2>1, <2>2 DEF SessionTypes
<1>5. CASE DrainCheck
  <2>1. loop' \in LoopTask
    BY <1>0, <1>5 DEF DrainCheck, LoopTask
  <2>2. UNCHANGED <<st, node, cs, chan, host, env, client, broker, inbox, rebirthRx,
                    cmds, cancel, stop>>
    BY <1>5 DEF DrainCheck, netVars, appVars
  <2> QED
    BY <2>1, <2>2 DEF SessionTypes
<1>6. CASE DrainTimeout
  <2>1. loop' \in LoopTask
    BY <1>0, <1>6, EventTypes DEF DrainTimeout, LoopTask
  <2>2. \A i \in DOMAIN cs :
           (IF cs[i].kind = "Offline" THEN [cs[i] EXCEPT !.awaited = FALSE] ELSE cs[i])
             \in ClientStateMessages
    <3>1. SUFFICES ASSUME NEW i \in DOMAIN cs, cs[i].kind = "Offline"
                   PROVE  [cs[i] EXCEPT !.awaited = FALSE] \in ClientStateMessages
      BY DEF SessionTypes
    <3>2. cs[i] \in ClientStateMessages
      BY DEF SessionTypes
    <3>3. cs[i] \in [kind : {"Offline"}, awaited : BOOLEAN]
      BY <3>1, <3>2 DEF ClientStateMessages, States
    <3> QED
      BY <3>3 DEF ClientStateMessages
  <2>3. cs' \in Seq(ClientStateMessages) /\ Len(cs') <= 1
    BY <1>6, <2>2 DEF DrainTimeout, SessionTypes
  <2>4. UNCHANGED <<st, node, chan, host, env, client, broker, inbox, rebirthRx,
                    cmds, cancel, stop>>
    BY <1>6 DEF DrainTimeout, netVars, appVars
  <2> QED
    BY <2>1, <2>3, <2>4 DEF SessionTypes
<1>7. CASE LoopDone
  <2>1. st' \in EoNState
    BY <1>0, <1>7 DEF LoopDone, EoNState
  <2>2. loop' \in LoopTask
    BY <1>0, <1>7 DEF LoopDone, LoopTask
  <2>3. broker' \in BrokerView
    BY <1>0, <1>7, BrokerTypes DEF LoopDone
  <2>4. client' \in Connection
    BY <1>0, <1>7 DEF LoopDone, Connection
  <2>5. cs' \in Seq(ClientStateMessages) /\ Len(cs') <= 1 /\ inbox' \in Seq(States)
    BY <1>7, EventTypes DEF LoopDone
  <2>6. UNCHANGED <<node, chan, host, env, rebirthRx, cmds, cancel, stop>>
    BY <1>7 DEF LoopDone, appVars
  <2> QED
    BY <2>1, <2>2, <2>3, <2>4, <2>5, <2>6 DEF SessionTypes, BrokerView, Connection
<1> QED
  BY <1>1, <1>2, <1>3, <1>4, <1>5, <1>6, <1>7 DEF LoopStep

(* The steps of the client's poll(), and those of the network and the host *)
(* behind it, keep the types.                                              *)
LEMMA PollStepTypes ==
  ASSUME SessionTypes, PollRequest \/ PollEvent, PollRequest => BirthTyped(Head(chan))
  PROVE  SessionTypes'
<1>0. /\ loop \in LoopTask /\ broker \in BrokerView /\ client \in Connection
      /\ NoBd \in BdSeq \cup {NoBd}
  BY DEF SessionTypes, BrokerView, Connection
<1>1. CASE PollConnect
  <2>1. loop' \in LoopTask
    BY <1>1, EventTypes, GotEventTypes DEF PollConnect
  <2>2. client' \in Connection /\ broker' \in BrokerView
    BY <1>0, <1>1 DEF PollConnect, Connection, BrokerView
  <2>3. UNCHANGED <<st, node, cs, chan, inbox, host, env, rebirthRx, cmds, cancel,
                    stop>>
    BY <1>1 DEF PollConnect, appVars
  <2> QED
    BY <2>1, <2>2, <2>3 DEF SessionTypes, Connection, BrokerView
<1>2. CASE PollRequest
  <2> DEFINE m == Head(chan)
  <2>1. BirthTyped(m)
    BY <1>2
  <2>2. broker' \in BrokerView
    BY <1>0, <1>2, <2>1, BrokerTypes DEF PollRequest
  <2>3. inbox' \in Seq(States)
    <3>1. inbox \in Seq(States) /\ Append(inbox, HostState) \in Seq(States)
      BY InboxTypes, EventTypes DEF SessionTypes
    <3> QED
      BY <1>2, <3>1 DEF PollRequest
  <2>4. loop' \in LoopTask /\ client' \in Connection
    <3>1. CASE m.kind = "DISCONNECT"
      <4>1. client' = [client EXCEPT !.conn = "closing"] /\ GotEvent(Offline)
        BY <1>2, <3>1 DEF PollRequest
      <4> QED
        BY <1>0, <4>1, EventTypes, GotEventTypes DEF Connection
    <3>2. CASE m.kind # "DISCONNECT"
      BY <1>0, <1>2, <3>2 DEF PollRequest
    <3> QED
      BY <3>1, <3>2
  <2>5. UNCHANGED <<st, node, cs, host, env, rebirthRx, cmds, cancel, stop>>
    BY <1>2 DEF PollRequest, appVars
  <2> QED
    BY <2>2, <2>3, <2>4, <2>5 DEF SessionTypes, Connection, BrokerView
<1>3. CASE PollState
  <2>1. loop' \in LoopTask /\ inbox' \in Seq(States)
    BY <1>3, InboxTypes, EventTypes, GotEventTypes DEF PollState
  <2>2. UNCHANGED <<st, node, cs, chan, client, broker, host, env, rebirthRx, cmds,
                    cancel, stop>>
    BY <1>3 DEF PollState, appVars
  <2> QED
    BY <2>1, <2>2 DEF SessionTypes
<1>4. CASE PollCommand
  <2>1. cmds' \in Nat
    BY <1>4 DEF PollCommand, SessionTypes
  <2>2. env' \in [Counters -> Nat]
    BY <1>4, CounterTypes DEF PollCommand, Counters
  <2>3. UNCHANGED <<rebirthRx, cancel, stop, st, node, loop, cs, chan, host, client,
                    broker, inbox>>
    BY <1>4 DEF PollCommand, netVars
  <2> QED
    BY <2>1, <2>2, <2>3 DEF SessionTypes
<1>5. CASE PollLost
  <2>1. loop' \in LoopTask
    BY <1>5, EventTypes, GotEventTypes DEF PollLost
  <2>2. client' \in Connection /\ broker' \in BrokerView
    BY <1>0, <1>5, BrokerTypes DEF PollLost, Connection
  <2>3. env' \in [Counters -> Nat]
    BY <1>5, CounterTypes DEF PollLost, Counters
  <2>4. inbox' \in Seq(States)
    BY <1>5, InboxTypes DEF PollLost
  <2>5. UNCHANGED <<st, node, cs, host, rebirthRx, cmds, cancel, stop>>
    BY <1>5 DEF PollLost, appVars
  <2> QED
    BY <2>1, <2>2, <2>3, <2>4, <2>5 DEF SessionTypes, Connection, BrokerView
<1>6. CASE PollServerDisconnect
  <2>1. loop' \in LoopTask
    BY <1>6, EventTypes, GotEventTypes DEF PollServerDisconnect
  <2>2. client' \in Connection /\ broker' \in BrokerView
    BY <1>0, <1>6, BrokerTypes DEF PollServerDisconnect, Connection
  <2>3. env' \in [Counters -> Nat]
    BY <1>6, CounterTypes DEF PollServerDisconnect, Counters
  <2>4. inbox' \in Seq(States)
    BY <1>6, InboxTypes DEF PollServerDisconnect
  <2>5. UNCHANGED <<st, node, cs, chan, host, rebirthRx, cmds, cancel, stop>>
    BY <1>6 DEF PollServerDisconnect, appVars
  <2> QED
    BY <2>1, <2>2, <2>3, <2>4, <2>5 DEF SessionTypes, Connection, BrokerView
<1>7. CASE PollClosed
  <2>1. client' \in Connection
    BY <1>0, <1>7 DEF PollClosed, Connection
  <2>2. inbox' \in Seq(States)
    BY <1>7, InboxTypes DEF PollClosed
  <2>3. UNCHANGED <<st, node, loop, cs, broker, host, env, rebirthRx, cmds, cancel,
                    stop>>
    BY <1>7 DEF PollClosed, appVars
  <2> QED
    BY <2>1, <2>2, <2>3 DEF SessionTypes, Connection
<1> QED
  BY <1>1, <1>2, <1>3, <1>4, <1>5, <1>6, <1>7 DEF PollEvent

(* So do those of the application.                                         *)
Cancellation == [pc : {"idle", "dead", "ndeath", "stop", "disc", "done"},
                 will : BOOLEAN, bd : BdSeq]

LEMMA AppStepTypes == ASSUME SessionTypes, AppStep PROVE SessionTypes'
<1>0. st \in EoNState /\ cancel \in Cancellation
  BY DEF SessionTypes, Cancellation
<1>1. CASE Rebirth
  <2>1. env' \in [Counters -> Nat] /\ rebirthRx' \in BOOLEAN
    BY <1>1, CounterTypes DEF Rebirth, Counters
  <2>2. UNCHANGED <<cmds, cancel, stop, st, node, loop, cs, chan, host, client,
                    broker, inbox>>
    BY <1>1 DEF Rebirth, netVars
  <2> QED
    BY <2>1, <2>2 DEF SessionTypes
<1>2. CASE Cancel
  <2>1. st' \in EoNState
    BY <1>0, <1>2, StateTypes, Constants DEF Cancel
  <2>2. cancel' \in Cancellation
    BY <1>0, <1>2, Constants DEF Cancel, Cancellation
  <2>3. UNCHANGED <<stop, chan, rebirthRx, cmds, node, loop, cs, host, env, client,
                    broker, inbox>>
    BY <1>2 DEF Cancel, CancelUnchanged, netVars
  <2> QED
    BY <2>1, <2>2, <2>3 DEF SessionTypes, Cancellation
<1>3. CASE CancelPayload
  <2>1. cancel' \in Cancellation
    BY <1>0, <1>3 DEF CancelPayload, Cancellation, EoNState
  <2>2. UNCHANGED <<st, stop, chan, rebirthRx, cmds, node, loop, cs, host, env,
                    client, broker, inbox>>
    BY <1>3 DEF CancelPayload, CancelUnchanged, netVars
  <2> QED
    BY <2>1, <2>2 DEF SessionTypes, Cancellation
<1>4. CASE CancelDeath
  <2>1. cancel' \in Cancellation
    BY <1>0, <1>4 DEF CancelDeath, CancelStep, Cancellation
  <2>2. UNCHANGED <<st, stop, rebirthRx, cmds, node, loop, cs, host, env, client,
                    broker, inbox>>
    BY <1>4 DEF CancelDeath, CancelUnchanged, netVars
  <2> QED
    BY <2>1, <2>2 DEF SessionTypes, Cancellation
<1>5. CASE CancelStop
  <2>1. cancel' \in Cancellation
    BY <1>0, <1>5 DEF CancelStop, CancelStep, Cancellation
  <2>2. stop' \in BOOLEAN
    BY <1>5 DEF CancelStop, SessionTypes
  <2>3. UNCHANGED <<st, chan, rebirthRx, cmds, node, loop, cs, host, env, client,
                    broker, inbox>>
    BY <1>5 DEF CancelStop, CancelUnchanged, netVars
  <2> QED
    BY <2>1, <2>2, <2>3 DEF SessionTypes, Cancellation
<1>6. CASE CancelDisconnect
  <2>1. cancel' \in Cancellation
    BY <1>0, <1>6 DEF CancelDisconnect, CancelStep, Cancellation
  <2>2. UNCHANGED <<st, stop, rebirthRx, cmds, node, loop, cs, host, env, client,
                    broker, inbox>>
    BY <1>6 DEF CancelDisconnect, CancelUnchanged, netVars
  <2> QED
    BY <2>1, <2>2 DEF SessionTypes, Cancellation
<1> QED
  BY <1>1, <1>2, <1>3, <1>4, <1>5, <1>6 DEF AppStep

(* And those of the primary host and of the cooldown timer.                *)
LEMMA OutsideTypes ==
  ASSUME SessionTypes, HostFlips \/ OldState \/ CooldownEnds
  PROVE  SessionTypes'
<1>1. CASE HostFlips
  <2>1. host' \in [online : BOOLEAN, ts : Nat]
    BY <1>1 DEF HostFlips, SessionTypes
  <2>2. [kind |-> "State", online |-> host'.online, ts |-> host'.ts] \in States
    BY <2>1 DEF States
  <2>3. inbox' \in Seq(States)
    BY <1>1, <2>2, InboxTypes DEF HostFlips, SessionTypes
  <2>4. env' \in [Counters -> Nat]
    BY <1>1, CounterTypes DEF HostFlips, Counters
  <2>5. UNCHANGED <<st, node, loop, cs, chan, client, broker, rebirthRx, cmds,
                    cancel, stop>>
    BY <1>1 DEF HostFlips, appVars
  <2> QED
    BY <2>1, <2>3, <2>4, <2>5 DEF SessionTypes
<1>2. CASE OldState
  <2>1. host.ts \in Nat
    BY DEF SessionTypes
  <2>2. \A ts \in 1 .. host.ts - 1, b \in BOOLEAN :
           [kind |-> "State", online |-> b, ts |-> ts] \in States
    BY <2>1 DEF States
  <2>3. inbox' \in Seq(States)
    BY <1>2, <2>2, InboxTypes DEF OldState
  <2>4. env' \in [Counters -> Nat]
    BY <1>2, CounterTypes DEF OldState, Counters
  <2>5. UNCHANGED <<st, node, loop, cs, chan, client, broker, host, rebirthRx, cmds,
                    cancel, stop>>
    BY <1>2 DEF OldState, appVars
  <2> QED
    BY <2>3, <2>4, <2>5 DEF SessionTypes
<1>3. CASE CooldownEnds
  <2>1. st' \in EoNState /\ node' \in NodeTask
    BY <1>3 DEF CooldownEnds, SessionTypes, NodeTask
  <2> QED
    BY <1>3, <2>1, NodeLocalTypes DEF CooldownEnds
<1> QED
  BY <1>1, <1>2, <1>3

(* A stutter keeps them as well.                                           *)
LEMMA StutterTypes == ASSUME SessionTypes, UNCHANGED vars PROVE SessionTypes'
BY DEF SessionTypes, vars

(* Every step keeps the types.                                             *)
LEMMA NextTypes ==
  ASSUME SessionTypes, [Next]_vars, PollRequest => BirthTyped(Head(chan))
  PROVE  SessionTypes'
BY NodeStepTypes, LoopStepTypes, PollStepTypes, AppStepTypes, OutsideTypes,
   StutterTypes DEF Next

(* The request channel, whatever else may be in it.                        *)
LEMMA ChannelTypes ==
  ASSUME NEW R, SessionRequests \subseteq R, chan \in Seq(R), Len(chan) <= Cap,
         SessionTypes, [Next]_vars
  PROVE  chan' \in Seq(R) /\ Len(chan') <= Cap
<1>1. \A r \in SessionRequests : Room =>
          Append(chan, r) \in Seq(R) /\ Len(Append(chan, r)) <= Cap
  BY Constants DEF Room
<1>2. chan # <<>> => Tail(chan) \in Seq(R) /\ Len(Tail(chan)) <= Cap
  BY Constants
<1>3. <<>> \in Seq(R) /\ Len(<<>>) <= Cap
  BY Constants
<1>4. CASE NodeSend
  BY <1>1, <1>4, RequestTypes DEF NodeSend
<1>5. CASE NodeStep /\ ~NodeSend
  <2>1. chan' = chan
    BY <1>5 DEF NodeStep, NodeOnlyStep, NodeSendFails, Subscribed, SubscribeFailed, Birthed,
                BirthFailed, DeathSent, DisconnectSent, TakeOnline, TakeOffline, TakeState,
                TakeStopped, RetryFires, TakeRebirth, TakeCommand
  <2> QED
    BY <2>1
<1>6. CASE PollRequest \/ PollLost \/ PollClosed
  BY <1>2, <1>3, <1>6 DEF PollRequest, PollLost, PollClosed
<1>7. CASE AppStep
  <2>1. cancel.bd \in BdSeq
    BY DEF SessionTypes
  <2>2. \/ chan' = chan
        \/ Room /\ chan' = Append(chan, Request("NDEATH", "node", cancel.bd))
        \/ Room /\ chan' = Append(chan, Request("DISCONNECT", "node", 0))
    BY <1>7 DEF AppStep, Rebirth, Cancel, CancelPayload, CancelDeath, CancelStop,
                CancelDisconnect
  <2> QED
    BY <1>1, <2>1, <2>2, RequestTypes
<1>8. CASE \/ LoopStep \/ (PollEvent /\ ~PollLost /\ ~PollClosed)
           \/ HostFlips \/ OldState \/ CooldownEnds \/ UNCHANGED vars
  <2>1. chan' = chan
    BY <1>8 DEF LoopStep, Run, LoopSend, LoopGotWill, LoopStop, DrainCheck, DrainTimeout,
                LoopDone, PollEvent, PollConnect, PollState, PollCommand,
                PollServerDisconnect, HostFlips, OldState, CooldownEnds, vars
  <2> QED
    BY <2>1
<1> QED
  BY <1>4, <1>5, <1>6, <1>7, <1>8 DEF Next

(* What the session's own requests carry.                                  *)
LEMMA BirthsTyped == TypeOK /\ chan # <<>> => BirthTyped(Head(chan))
BY DEF TypeOK, SessionRequests, BirthTyped

LEMMA TypesKept == ASSUME TypeOK, [Next]_vars PROVE TypeOK'
<1>1. SessionTypes'
  BY NextTypes, BirthsTyped DEF TypeOK, PollRequest
<1> QED
  BY <1>1, ChannelTypes DEF TypeOK

(* The types hold initially.                                               *)
LEMMA InitTypes == ASSUME Init PROVE TypeOK
<1>1. NewEoNState \in EoNState
  BY Constants DEF NewEoNState, EoNState
<1>2. loop \in LoopTask /\ node \in NodeTask
  BY Constants, EventTypes DEF Init, LoopTask, NodeTask
<1>3. env \in [Counters -> Nat]
  BY DEF Init, Counters
<1>4. cancel \in Cancellation /\ client \in Connection /\ broker \in BrokerView
  BY Constants DEF Init, Cancellation, Connection, BrokerView
<1>5. /\ rebirthRx \in BOOLEAN /\ stop \in BOOLEAN /\ cmds \in Nat
      /\ host \in [online : BOOLEAN, ts : Nat]
  BY DEF Init
<1>6. /\ cs \in Seq(ClientStateMessages) /\ Len(cs) <= 1
      /\ chan \in Seq(SessionRequests) /\ Len(chan) <= Cap
      /\ inbox \in Seq(States)
  BY Constants DEF Init
<1>7. st \in EoNState
  BY <1>1 DEF Init
<1> QED
  BY <1>2, <1>3, <1>4, <1>5, <1>6, <1>7
  DEF TypeOK, SessionTypes, Cancellation, Connection, BrokerView

(* Type correctness of the whole session, for every instance.              *)
THEOREM TypeCorrect == Spec => []TypeOK
<1>1. Init => TypeOK
  BY InitTypes
<1>2. TypeOK /\ [Next]_vars => TypeOK'
  BY TypesKept
<1> QED
  BY <1>1, <1>2, PTL DEF Spec

-----------------------------------------------------------------------------
(* The parts of HostGate and DeadWhileBirthing, as the steps of the node   *)
(* task establish them.                                                    *)
Gate ==
    PrimaryHost /\ (node.pc = "nbirth" \/ (st.birthed /\ node.pc # "ndeath"))
        => st.host /\ st.online

HostKnown == ~node.clientOnline => ~st.host

(* They are all of it.                                                     *)
LEMMA GateParts == HostGate <=> Gate /\ HostKnown
BY DEF HostGate, Gate, HostKnown

(* A birth that is begun with the host online satisfies the gate.          *)
LEMMA BeginBirthGate ==
  ASSUME NEW s \in EoNState, NEW n \in NodeTask, NEW type, BeginBirth(s, n, type),
         PrimaryHost => s.host /\ s.online
  PROVE  /\ Gate' /\ DeadWhileBirthing'
         /\ st'.host = s.host /\ node'.clientOnline = n.clientOnline
<1>1. /\ ~st'.birthed /\ st'.host = s.host /\ st'.online = s.online
  BY StateFields, Constants DEF BeginBirth
<1>2. node'.clientOnline = n.clientOnline
  BY NodeTypes DEF BeginBirth, Await, Awaiting, NodeTask
<1> QED
  BY <1>1, <1>2 DEF Gate, DeadWhileBirthing

(* try_online() begins a birth only when the host is online.               *)
LEMMA EnsureBirthedGate ==
  ASSUME NEW s \in EoNState, NEW n \in NodeTask, EnsureBirthed(s, n), s.online,
         PrimaryHost /\ s.birthed => s.host
  PROVE  /\ Gate' /\ DeadWhileBirthing'
         /\ st'.host = s.host /\ node'.clientOnline = n.clientOnline
<1>1. CASE st' = s /\ node' = Idle(n)
  <2>1. node'.pc = "idle" /\ node'.clientOnline = n.clientOnline
    BY <1>1, NodeTypes DEF Awaiting
  <2> QED
    BY <1>1, <2>1 DEF Gate, DeadWhileBirthing
<1>2. CASE ReadyToBirth(s) /\ BeginBirth(s, n, "Birth")
  <2>1. PrimaryHost => s.host /\ s.online
    BY <1>2 DEF ReadyToBirth
  <2> QED
    BY <1>2, <2>1, BeginBirthGate
<1> QED
  BY <1>1, <1>2 DEF EnsureBirthed

(* The same for all of try_online().                                       *)
LEMMA TryOnlineGate ==
  ASSUME NEW s \in EoNState, NEW n \in NodeTask, TryOnline(s, n),
         PrimaryHost /\ s.birthed => s.host /\ s.online
  PROVE  /\ Gate' /\ DeadWhileBirthing'
         /\ st'.host = s.host /\ node'.clientOnline = n.clientOnline
<1>1. CASE st' = s /\ (node' = Idle(n) \/ node' = Await(n, "sub"))
  <2>1. node'.pc \in {"idle", "sub"} /\ node'.clientOnline = n.clientOnline
    BY <1>1, NodeTypes DEF Awaiting
  <2> QED
    BY <1>1, <2>1 DEF Gate, DeadWhileBirthing
<1>2. CASE s.online /\ EnsureBirthed(s, n)
  BY <1>2, EnsureBirthedGate
<1> QED
  BY <1>1, <1>2 DEF TryOnline

(* The steps of the node task keep the gate.                               *)
LEMMA NodeStepGate ==
  ASSUME Gated, NodeStep
  PROVE  Gate' /\ HostKnown' /\ DeadWhileBirthing'
<1>0. st \in EoNState /\ node \in NodeTask /\ Gate /\ HostKnown /\ DeadWhileBirthing
  BY GateParts DEF Gated, SessionTypes
<1>1. CASE NodeSend \/ NodeSendFails
  <2>1. st' = st /\ node'.pc = node.pc /\ node'.clientOnline = node.clientOnline
    BY <1>0, <1>1 DEF NodeSend, NodeSendFails, NodeTask
  <2> QED
    BY <1>0, <2>1 DEF Gate, HostKnown, DeadWhileBirthing
<1>2. CASE Subscribed
  <2> DEFINE s == SetOnline(st, TRUE)
  <2>1. s \in EoNState /\ s.online /\ s.host = st.host /\ s.birthed = st.birthed
    BY <1>0, StateTypes, StateFields, Constants
  <2>2. PrimaryHost /\ s.birthed => s.host
    BY <1>0, <1>2, <2>1 DEF Gate, Subscribed
  <2>3. EnsureBirthed(s, node)
    BY <1>2 DEF Subscribed
  <2> HIDE DEF s
  <2>4. /\ Gate' /\ DeadWhileBirthing'
        /\ st'.host = s.host /\ node'.clientOnline = node.clientOnline
    BY <1>0, <2>1, <2>2, <2>3, EnsureBirthedGate
  <2> QED
    BY <1>0, <2>1, <2>4 DEF HostKnown
<1>3. CASE SubscribeFailed \/ DisconnectSent
  <2>1. /\ st' = st /\ node.pc \in {"sub", "disc"}
        /\ node'.pc \in {"disc", "idle"} /\ node'.clientOnline = node.clientOnline
    BY <1>0, <1>3 DEF SubscribeFailed, DisconnectSent, Await, Idle, NodeTask
  <2> QED
    BY <1>0, <2>1 DEF Gate, HostKnown, DeadWhileBirthing
<1>4. CASE Birthed
  <2>1. st'.host = st.host /\ st'.online = st.online /\ node.pc = "nbirth"
    BY <1>0, <1>4, StateFields, Constants DEF Birthed
  <2>2. node'.pc = "idle" /\ node'.clientOnline = node.clientOnline
    BY <1>0, <1>4, NodeTypes DEF Birthed, Awaiting
  <2> QED
    BY <1>0, <2>1, <2>2 DEF Gate, HostKnown, DeadWhileBirthing
<1>5. CASE BirthFailed
  <2>1. ~st.birthed
    BY <1>0, <1>5 DEF BirthFailed, DeadWhileBirthing
  <2>2. ~st'.birthed /\ st'.host = st.host
    <3>1. SetOnline(st, FALSE).birthed = st.birthed /\ SetOnline(st, FALSE).host = st.host
      BY <1>0 DEF SetOnline, EoNState
    <3>2. st' = SetOnline(st, FALSE) \/ st' = st
      BY <1>5 DEF BirthFailed
    <3> QED
      BY <2>1, <3>1, <3>2
  <2>3. node'.pc \in {"disc", "idle"} /\ node'.clientOnline = node.clientOnline
    BY <1>0, <1>5 DEF BirthFailed, Await, Idle, NodeTask
  <2> QED
    BY <1>0, <2>2, <2>3 DEF Gate, HostKnown, DeadWhileBirthing
<1>6. CASE DeathSent
  <2>1. ~st'.birthed /\ st'.host = st.host
    BY <1>0, <1>6, StateFields, Constants DEF DeathSent
  <2>2. node'.pc = "disc" /\ node'.clientOnline = node.clientOnline
    BY <1>0, <1>6, NodeTypes DEF DeathSent, Awaiting
  <2> QED
    BY <1>0, <2>1, <2>2 DEF Gate, HostKnown, DeadWhileBirthing
<1>7. CASE TakeOnline
  <2> DEFINE n == [node EXCEPT !.clientOnline = TRUE]
  <2>1. n \in NodeTask /\ n.clientOnline /\ node.pc = "idle"
    BY <1>0, <1>7 DEF TakeOnline, TakeClientState, NodeTask
  <2>2. PrimaryHost /\ st.birthed => st.host /\ st.online
    BY <1>0, <2>1 DEF Gate
  <2>3. TryOnline(st, n)
    BY <1>7 DEF TakeOnline
  <2> HIDE DEF n
  <2> QED
    BY <1>0, <2>1, <2>2, <2>3, TryOnlineGate DEF HostKnown
<1>8. CASE TakeOffline
  <2>1. node.pc = "idle" /\ node'.pc = "idle"
    BY <1>0, <1>8 DEF TakeOffline, TakeClientState, NodeTask
  <2>2. /\ ResetPrimaryHost(st) \in EoNState /\ ~ResetPrimaryHost(st).host
        /\ ResetPrimaryHost(st).birthed = st.birthed
    BY <1>0, StateTypes, StateFields, Constants
  <2>3. CASE st.online
    <3> DEFINE s1 == SetOnline(ResetPrimaryHost(st), FALSE)
    <3> DEFINE s2 == SetDead(s1)
    <3>1. s1 \in EoNState /\ ~s1.host
      BY <2>2, StateTypes, StateFields, Constants
    <3>2. s2 \in EoNState /\ ~s2.host /\ ~s2.birthed
      <4> HIDE DEF s1
      <4> QED
        BY <3>1, StateTypes, StateFields, Constants
    <3>3. ~NextBdSeq(s2).host /\ ~NextBdSeq(s2).birthed
      <4> HIDE DEF s2
      <4> QED
        BY <3>2, StateFields, Constants
    <3>4. st' = NextBdSeq(s2)
      BY <1>8, <2>3 DEF TakeOffline
    <3> QED
      BY <2>1, <3>3, <3>4 DEF Gate, HostKnown, DeadWhileBirthing
  <2>4. CASE ~st.online
    <3>1. st' = ResetPrimaryHost(st)
      BY <1>8, <2>4 DEF TakeOffline
    <3> QED
      BY <1>0, <2>1, <2>2, <2>4, <3>1 DEF Gate, HostKnown, DeadWhileBirthing
  <2> QED
    BY <2>3, <2>4
<1>9. CASE TakeState
  <2> DEFINE m == Head(cs)
  <2> DEFINE s0 == SetPrimaryHostOnline(st, m.online)
  <2> DEFINE s == UpdatePrimaryHostTimestamp(s0, m.ts)
  <2>1. /\ m \in ClientStateMessages /\ m.kind = "State" /\ node.pc = "idle"
        /\ node.clientOnline
    BY <1>9, TakeTypes DEF TakeState, TakeClientState, Gated, StateOnline
  <2>2. m.online \in BOOLEAN /\ m.ts \in Nat
    BY <2>1 DEF ClientStateMessages, States
  <2>3. /\ s0 \in EoNState /\ s0.host = m.online
        /\ s0.online = st.online /\ s0.birthed = st.birthed
    <3> HIDE DEF m
    <3>1. s0 \in EoNState
      BY <1>0, <2>2, StateTypes, Constants
    <3>2. s0.host = m.online
      BY <1>0, <2>2 DEF SetPrimaryHostOnline, EoNState
    <3>3. s0.online = st.online /\ s0.birthed = st.birthed
      BY <1>0, <2>2 DEF SetPrimaryHostOnline, EoNState
    <3> QED
      BY <3>1, <3>2, <3>3
  <2>4. /\ s \in EoNState /\ s.host = m.online
        /\ s.online = st.online /\ s.birthed = st.birthed
    <3> HIDE DEF s0, m
    <3>1. s \in EoNState
      BY <2>2, <2>3, StateTypes, Constants
    <3>2. s.host = s0.host /\ s.online = s0.online /\ s.birthed = s0.birthed
      BY <2>3 DEF UpdatePrimaryHostTimestamp, EoNState
    <3> QED
      BY <2>3, <3>1, <3>2
  <2>5. CASE st' = st /\ node' = node
    BY <1>0, <2>5 DEF Gate, HostKnown, DeadWhileBirthing
  <2>6. CASE m.online /\ TryOnline(s, node)
    <3>1. PrimaryHost /\ s.birthed => s.host /\ s.online
      <4> HIDE DEF s, m
      <4> QED
        BY <1>0, <2>1, <2>4, <2>6 DEF Gate
    <3> HIDE DEF s, m
    <3> QED
      BY <1>0, <2>1, <2>4, <2>6, <3>1, TryOnlineGate DEF HostKnown
  <2>7. CASE /\ ~m.online /\ st' = s
             /\ node' = IF st.birthed
                        THEN [Await(node, "ndeath") EXCEPT !.bd = st.bdseq]
                        ELSE node
    <3>1. /\ st.birthed => node'.pc = "ndeath"
          /\ ~st.birthed => node' = node
      <4> HIDE DEF s, m
      <4> QED
        BY <1>0, <2>7, NodeTypes DEF Await, NodeTask
    <3> HIDE DEF s, m
    <3> QED
      BY <2>1, <2>4, <2>7, <3>1 DEF Gate, HostKnown, DeadWhileBirthing
  <2> QED
    BY <1>9, <2>5, <2>6, <2>7 DEF TakeState
<1>10. CASE TakeStopped
  <2>1. /\ st' = st /\ node.pc = "idle" /\ node'.pc = "stopped"
        /\ node'.clientOnline = node.clientOnline
    BY <1>0, <1>10 DEF TakeStopped, TakeClientState, NodeTask
  <2> QED
    BY <1>0, <2>1 DEF Gate, HostKnown, DeadWhileBirthing
<1>11. CASE RetryFires
  <2> DEFINE n == [node EXCEPT !.retry = FALSE]
  <2>1. n \in NodeTask /\ n.clientOnline = node.clientOnline /\ node.pc = "idle"
    BY <1>0, <1>11 DEF RetryFires, NodeTask
  <2>2. PrimaryHost /\ st.birthed => st.host /\ st.online
    BY <1>0, <2>1 DEF Gate
  <2>3. TryOnline(st, n)
    BY <1>11 DEF RetryFires
  <2> HIDE DEF n
  <2> QED
    BY <1>0, <2>1, <2>2, <2>3, TryOnlineGate DEF HostKnown
<1>12. CASE TakeRebirth
  <2>1. node.pc = "idle"
    BY <1>12 DEF TakeRebirth
  <2>2. CASE st.birthed
    <3>1. (PrimaryHost => st.host /\ st.online) /\ BeginBirth(st, node, "Rebirth")
      BY <1>0, <1>12, <2>1, <2>2 DEF Gate, TakeRebirth
    <3> QED
      BY <1>0, <3>1, BeginBirthGate DEF HostKnown
  <2>3. CASE ~st.birthed
    BY <1>0, <1>12, <2>3 DEF TakeRebirth, Gate, HostKnown, DeadWhileBirthing
  <2> QED
    BY <2>2, <2>3
<1>13. CASE TakeCommand
  <2> DEFINE n == [node EXCEPT !.cool = TRUE]
  <2>1. /\ n \in NodeTask /\ n.clientOnline = node.clientOnline /\ node.pc = "idle"
        /\ n.pc = "idle"
    BY <1>0, <1>13 DEF TakeCommand, NodeTask
  <2>2. CASE st.birthed /\ BeginBirth(SetDead(st), n, "Rebirth")
    <3>1. /\ SetDead(st) \in EoNState /\ SetDead(st).host = st.host
          /\ SetDead(st).online = st.online
      BY <1>0, StateTypes, StateFields, Constants
    <3>2. PrimaryHost => SetDead(st).host /\ SetDead(st).online
      BY <1>0, <2>1, <2>2, <3>1 DEF Gate
    <3> HIDE DEF n
    <3> QED
      BY <1>0, <2>1, <2>2, <3>1, <3>2, BeginBirthGate DEF HostKnown
  <2>3. CASE st' = st /\ (node' = n \/ node' = node)
    <3> HIDE DEF n
    <3> QED
      BY <1>0, <2>1, <2>3 DEF Gate, HostKnown, DeadWhileBirthing
  <2> QED
    BY <1>13, <2>2, <2>3 DEF TakeCommand
<1> QED
  BY <1>1, <1>2, <1>3, <1>4, <1>5, <1>6, <1>7, <1>8, <1>9, <1>10, <1>11, <1>12,
     <1>13
  DEF NodeStep, NodeOnlyStep

(* Nobody else touches what the gate is about, except that a cancel kills  *)
(* the node.                                                               *)
LEMMA OthersGate ==
  ASSUME Gated, node' \in NodeTask, node'.pc = node.pc,
         node'.clientOnline = node.clientOnline,
         st' = st \/ st' = SetDead(st) \/ st' = [st EXCEPT !.running = TRUE]
           \/ st' = [st EXCEPT !.running = FALSE]
  PROVE  Gate' /\ HostKnown' /\ DeadWhileBirthing'
<1>0. st \in EoNState /\ Gate /\ HostKnown /\ DeadWhileBirthing
  BY GateParts DEF Gated, SessionTypes
<1>1. /\ st'.host = st.host /\ st'.online = st.online
      /\ st'.birthed = st.birthed \/ ~st'.birthed
  BY <1>0 DEF EoNState, SetDead
<1> QED
  BY <1>0, <1>1 DEF Gate, HostKnown, DeadWhileBirthing

(* Every step keeps the gate.                                              *)
LEMMA NextGate ==
  ASSUME Gated, [Next]_vars
  PROVE  HostGate' /\ DeadWhileBirthing'
<1> SUFFICES Gate' /\ HostKnown' /\ DeadWhileBirthing'
  BY DEF HostGate, Gate, HostKnown
<1>0. SessionTypes /\ node \in NodeTask
  BY DEF Gated, SessionTypes
<1>1. CASE NodeStep
  BY <1>1, NodeStepGate
<1>2. CASE LoopStep
  <2>1. /\ node' = node
        /\ st' = st \/ st' = [st EXCEPT !.running = TRUE]
             \/ st' = [st EXCEPT !.running = FALSE]
    BY <1>2 DEF LoopStep, Run, LoopSend, LoopGotWill, LoopStop, DrainCheck,
                DrainTimeout, LoopDone
  <2> QED
    BY <1>0, <2>1, OthersGate
<1>3. CASE PollRequest \/ PollEvent
  <2>1. node' = node /\ st' = st
    BY <1>3 DEF PollRequest, PollEvent, PollConnect, PollState, PollCommand,
                PollLost, PollServerDisconnect, PollClosed
  <2> QED
    BY <1>0, <2>1, OthersGate
<1>4. CASE AppStep
  <2>1. node' = node /\ (st' = st \/ st' = SetDead(st))
    BY <1>4 DEF AppStep, Rebirth, Cancel, CancelPayload, CancelDeath, CancelStop,
                CancelDisconnect, CancelUnchanged
  <2> QED
    BY <1>0, <2>1, OthersGate
<1>5. CASE HostFlips \/ OldState
  <2>1. node' = node /\ st' = st
    BY <1>5 DEF HostFlips, OldState
  <2> QED
    BY <1>0, <2>1, OthersGate
<1>6. CASE CooldownEnds
  <2>1. /\ node' \in NodeTask /\ node'.pc = node.pc
        /\ node'.clientOnline = node.clientOnline /\ st' = st
    BY <1>0, <1>6 DEF CooldownEnds, NodeTask
  <2> QED
    BY <2>1, OthersGate
<1>7. CASE UNCHANGED vars
  <2>1. node' = node /\ st' = st
    BY <1>7 DEF vars
  <2> QED
    BY <1>0, <2>1, OthersGate
<1> QED
  BY <1>1, <1>2, <1>3, <1>4, <1>5, <1>6, <1>7 DEF Next

-----------------------------------------------------------------------------
(* A step that leaves the event loop, the channel and the connection alone *)
(* keeps what is known of the connection.                                  *)
LEMMA ChannelFrame ==
  ASSUME StateOnline, LoopKnows, cs' = cs, node'.clientOnline = node.clientOnline,
         loop'.pc = loop.pc, loop'.mode = loop.mode, loop'.ev = loop.ev,
         client'.conn = client.conn
  PROVE  StateOnline' /\ LoopKnows'
BY DEF StateOnline, LoopKnows, ClientView

(* What the client_state channel holds.                                    *)
LEMMA ChannelKinds ==
  ASSUME SessionTypes, cs # <<>>
  PROVE  Head(cs).kind \in {"Online", "Offline", "Stopped", "State"}
BY DEF SessionTypes, ClientStateMessages, States

(* The node task takes what it is told in the order it was told.           *)
LEMMA NodeStepChannel ==
  ASSUME Gated, NodeStep
  PROVE  StateOnline' /\ LoopKnows'
<1>0. /\ SessionTypes /\ node \in NodeTask /\ loop \in LoopTask
      /\ StateOnline /\ LoopKnows
  BY DEF Gated, SessionTypes
<1>1. CASE /\ cs' = cs /\ client' = client /\ loop' = loop
           /\ node'.clientOnline = node.clientOnline
  BY <1>0, <1>1, ChannelFrame
<1>2. CASE /\ cs # <<>> /\ cs' = <<>> /\ client' = client
           /\ loop'.pc = loop.pc /\ loop'.mode = loop.mode /\ loop'.ev = loop.ev
           /\ Head(cs).kind = "Online" => node'.clientOnline
           /\ Head(cs).kind \in {"Stopped", "State"}
                => node'.clientOnline = node.clientOnline
  <2>1. ClientView => ClientView'
    BY <1>0, <1>2, ChannelKinds DEF ClientView
  <2> QED
    BY <1>0, <1>2, <2>1 DEF StateOnline, LoopKnows
<1>3. CASE NodeSend \/ NodeSendFails \/ SubscribeFailed \/ BirthFailed
             \/ DisconnectSent \/ Birthed \/ DeathSent
  <2>1. /\ cs' = cs /\ client' = client /\ loop' = loop
        /\ node'.clientOnline = node.clientOnline
    BY <1>0, <1>3
    DEF NodeSend, NodeSendFails, SubscribeFailed, BirthFailed, DisconnectSent,
        Birthed, DeathSent, netVars, Await, Idle, NodeTask
  <2> QED
    BY <1>1, <2>1
<1>4. CASE Subscribed \/ RetryFires \/ TakeRebirth \/ TakeCommand
  <2>1. cs' = cs /\ client' = client /\ loop' = loop
    BY <1>4 DEF Subscribed, RetryFires, TakeRebirth, TakeCommand, netVars
  <2>2. node'.clientOnline = node.clientOnline
    BY <1>0, <1>4
    DEF Subscribed, RetryFires, TakeRebirth, TakeCommand, TryOnline, EnsureBirthed,
        BeginBirth, Await, Idle, NodeTask
  <2> QED
    BY <1>1, <2>1, <2>2
<1>5. CASE TakeOnline
  <2>1. /\ cs # <<>> /\ cs' = <<>> /\ Head(cs).kind = "Online"
        /\ client' = client /\ loop' = loop
    BY <1>0, <1>5, TakeTypes DEF TakeOnline, netVars
  <2>2. node'.clientOnline
    BY <1>0, <1>5
    DEF TakeOnline, TryOnline, EnsureBirthed, BeginBirth, Await, Idle, NodeTask
  <2> QED
    BY <1>2, <2>1, <2>2
<1>6. CASE TakeOffline
  <2>1. /\ cs # <<>> /\ cs' = <<>> /\ Head(cs).kind = "Offline" /\ client' = client
    BY <1>0, <1>6, TakeTypes DEF TakeOffline, netVars
  <2>2. loop'.pc = loop.pc /\ loop'.mode = loop.mode /\ loop'.ev = loop.ev
    BY <1>0, <1>6 DEF TakeOffline, LoopTask
  <2> QED
    BY <1>2, <2>1, <2>2
<1>7. CASE TakeState \/ TakeStopped
  <2>1. /\ cs # <<>> /\ cs' = <<>> /\ Head(cs).kind \in {"State", "Stopped"}
        /\ client' = client /\ loop' = loop
    BY <1>0, <1>7, TakeTypes DEF TakeState, TakeStopped, netVars
  <2>2. node'.clientOnline = node.clientOnline
    BY <1>0, <1>7
    DEF TakeState, TakeStopped, TryOnline, EnsureBirthed, BeginBirth, Await, Idle,
        NodeTask
  <2> QED
    BY <1>2, <2>1, <2>2
<1> QED
  BY <1>3, <1>4, <1>5, <1>6, <1>7 DEF NodeStep, NodeOnlyStep

(* An event is kept to be handed on only while the loop runs, or when it   *)
(* is an Offline.                                                          *)
LEMMA GotEventChannel ==
  ASSUME SessionTypes, StateOnline, loop.ev.kind # "Stopped",
         NEW ev \in ClientStateMessages, ev.kind # "Stopped", GotEvent(ev),
         cs' = cs, node' = node,
         ev.kind = "State" /\ loop.mode = "run" => ClientView,
         ev.kind = "Offline" => client'.conn # "up"
  PROVE  StateOnline' /\ LoopKnows'
<1>0. loop \in LoopTask
  BY DEF SessionTypes
<1>1. CASE /\ loop'.pc = "send" /\ loop'.ev = ev /\ loop'.mode = loop.mode
           /\ loop.mode = "run" \/ ev.kind = "Offline"
  BY <1>1 DEF StateOnline, LoopKnows, ClientView
<1>2. CASE /\ loop'.pc = "check" /\ loop'.mode = loop.mode /\ loop.mode # "run"
           /\ loop'.ev = loop.ev
  BY <1>2 DEF StateOnline, LoopKnows, ClientView
<1>3. \/ /\ loop'.pc = "send" /\ loop'.ev = ev /\ loop'.mode = loop.mode
         /\ loop.mode = "run" \/ ev.kind = "Offline"
      \/ /\ loop'.pc = "check" /\ loop'.mode = loop.mode /\ loop.mode # "run"
         /\ loop'.ev = loop.ev
  BY <1>0 DEF GotEvent, LoopTask
<1> QED
  BY <1>1, <1>2, <1>3

(* The steps of the event loop.                                            *)
LEMMA LoopStepChannel ==
  ASSUME Gated, LoopStep
  PROVE  StateOnline' /\ LoopKnows'
<1>0. SessionTypes /\ loop \in LoopTask /\ StateOnline /\ LoopKnows
  BY DEF Gated, SessionTypes
<1>1. CASE Run
  <2>1. /\ loop'.pc = "poll" /\ loop'.mode = loop.mode /\ loop'.ev = loop.ev
        /\ client'.conn = "down" /\ cs' = cs /\ node' = node
    BY <1>0, <1>1 DEF Run, LoopTask, LoopKnows, SessionTypes
  <2> QED
    BY <1>0, <2>1 DEF StateOnline, LoopKnows
<1>2. CASE LoopSend
  <2>1. /\ cs = <<>> /\ cs' # <<>> /\ Head(cs') = loop.ev
        /\ node' = node /\ client' = client /\ loop'.mode = loop.mode
        /\ loop'.pc = IF loop.ev.kind = "Offline" THEN "will" ELSE "poll"
        /\ loop.pc = "send" /\ loop'.ev.kind = "Online"
    BY <1>0, <1>2 DEF LoopSend, LoopTask, Online, netVars
  <2>2. loop.ev.kind = "State" => node.clientOnline
    BY <1>0, <2>1 DEF StateOnline, ClientView
  <2>3. loop.ev.kind \in {"Online", "Offline", "Stopped", "State"}
    BY <1>0 DEF LoopTask, ClientStateMessages, States
  <2>4. loop.mode = "run" => loop.ev.kind # "Stopped"
    BY <1>0, <2>1 DEF LoopKnows
  <2> QED
    BY <1>0, <2>1, <2>2, <2>3, <2>4 DEF StateOnline, LoopKnows, ClientView
<1>3. CASE LoopGotWill
  <2>1. /\ loop.pc = "will" /\ loop'.mode = loop.mode
        /\ loop'.pc = IF loop.mode = "run" THEN "poll" ELSE "stopping"
        /\ client'.conn = client.conn /\ cs' = cs /\ node' = node
        /\ loop'.ev = loop.ev
    BY <1>0, <1>3 DEF LoopGotWill, LoopTask, SessionTypes
  <2> QED
    BY <1>0, <2>1 DEF StateOnline, LoopKnows
<1>4. CASE LoopStop \/ DrainCheck
  <2>1. /\ loop'.mode # "run" /\ loop'.pc \in {"check", "poll", "stopping"}
        /\ cs' = cs /\ node' = node /\ loop'.ev = loop.ev
    BY <1>0, <1>4 DEF LoopStop, DrainCheck, LoopTask, LoopKnows
  <2> QED
    BY <1>0, <2>1 DEF StateOnline, LoopKnows
<1>5. CASE DrainTimeout
  <2>1. /\ loop'.pc = "send" /\ loop'.mode = "last" /\ loop'.ev.kind = "Offline"
        /\ node' = node
    BY <1>0, <1>5 DEF DrainTimeout, LoopTask, Offline
  <2>2. cs' # <<>> => cs # <<>> /\ Head(cs').kind = Head(cs).kind
    <3>1. /\ DOMAIN cs' = DOMAIN cs
          /\ \A i \in DOMAIN cs : cs'[i] = IF cs[i].kind = "Offline"
                  THEN [cs[i] EXCEPT !.awaited = FALSE] ELSE cs[i]
      BY <1>5 DEF DrainTimeout
    <3>2. cs \in Seq(ClientStateMessages) /\ cs' \in Seq(ClientStateMessages)
      BY <1>0, LoopStepTypes DEF SessionTypes
    <3>3. SUFFICES ASSUME cs' # <<>> PROVE cs # <<>> /\ Head(cs').kind = Head(cs).kind
      OBVIOUS
    <3>4. Len(cs') = Len(cs) /\ Len(cs) >= 1 /\ cs # <<>> /\ 1 \in DOMAIN cs
      BY <3>1, <3>2, <3>3
    <3>5. Head(cs) = cs[1] /\ Head(cs') = cs'[1] /\ cs[1] \in ClientStateMessages
      BY <3>2, <3>3, <3>4
    <3>6. cs'[1].kind = cs[1].kind
      BY <3>1, <3>4, <3>5 DEF ClientStateMessages, States
    <3> QED
      BY <3>4, <3>5, <3>6
  <2> QED
    BY <1>0, <2>1, <2>2 DEF StateOnline, LoopKnows
<1>6. CASE LoopDone
  <2>1. /\ loop'.pc = "done" /\ cs' # <<>> /\ Head(cs').kind = "Stopped"
        /\ node' = node /\ loop'.ev = loop.ev
    BY <1>0, <1>6 DEF LoopDone, LoopTask, Stopped
  <2> QED
    BY <1>0, <2>1 DEF StateOnline, LoopKnows
<1> QED
  BY <1>1, <1>2, <1>3, <1>4, <1>5, <1>6 DEF LoopStep

(* The events of poll().                                                   *)
LEMMA PollStepChannel ==
  ASSUME Gated, PollRequest \/ PollEvent
  PROVE  StateOnline' /\ LoopKnows'
<1>0. SessionTypes /\ loop \in LoopTask /\ client \in Connection /\ StateOnline /\ LoopKnows
  BY DEF Gated, SessionTypes, Connection
<1>1. CASE PollConnect
  <2>1. cs' = cs /\ node' = node /\ GotEvent(Online)
    BY <1>1 DEF PollConnect
  <2> QED
    BY <1>0, <2>1, EventTypes, GotEventChannel DEF Online, LoopKnows
<1>2. CASE PollRequest
  <2>1. cs' = cs /\ node' = node
    BY <1>2 DEF PollRequest
  <2>2. CASE client' = client /\ loop' = loop
    BY <1>0, <2>1, <2>2, ChannelFrame
  <2>3. CASE client' = [client EXCEPT !.conn = "closing"] /\ GotEvent(Offline)
    <3>1. client'.conn = "closing"
      BY <1>0, <2>3 DEF Connection
    <3> QED
      BY <1>0, <2>1, <2>3, <3>1, EventTypes, GotEventChannel DEF Offline, LoopKnows
  <2> QED
    BY <1>2, <2>2, <2>3 DEF PollRequest
<1>3. CASE PollState
  <2>1. /\ cs' = cs /\ node' = node /\ GotEvent(Head(inbox))
        /\ loop.pc = "poll" /\ client.conn = "up"
    BY <1>3 DEF PollState
  <2>2. Head(inbox) \in ClientStateMessages /\ Head(inbox).kind = "State"
    BY <1>0, <1>3, InboxTypes, EventTypes DEF PollState, States
  <2>3. loop.mode = "run" => ClientView
    BY <1>0, <2>1 DEF LoopKnows
  <2> QED
    BY <1>0, <2>1, <2>2, <2>3, GotEventChannel DEF LoopKnows
<1>4. CASE PollCommand
  BY <1>0, <1>4, ChannelFrame DEF PollCommand, netVars
<1>5. CASE PollLost
  <2>1. cs' = cs /\ node' = node /\ GotEvent(Offline) /\ client'.conn = "down"
    BY <1>0, <1>5 DEF PollLost, Connection
  <2> QED
    BY <1>0, <2>1, EventTypes, GotEventChannel DEF Offline, LoopKnows
<1>6. CASE PollServerDisconnect
  <2>1. cs' = cs /\ node' = node /\ GotEvent(Offline) /\ client'.conn = "closing"
    BY <1>0, <1>6 DEF PollServerDisconnect, Connection
  <2> QED
    BY <1>0, <2>1, EventTypes, GotEventChannel DEF Offline, LoopKnows
<1>7. CASE PollClosed
  <2>1. /\ cs' = cs /\ node' = node /\ loop' = loop /\ loop.pc = "poll"
        /\ client'.conn = "down"
    BY <1>0, <1>7 DEF PollClosed, Connection
  <2> QED
    BY <1>0, <2>1 DEF StateOnline, LoopKnows, ClientView
<1> QED
  BY <1>1, <1>2, <1>3, <1>4, <1>5, <1>6, <1>7 DEF PollEvent

(* Every step keeps the invariant.                                         *)
LEMMA GatedKept ==
  ASSUME Gated, [Next]_vars, PollRequest => BirthTyped(Head(chan))
  PROVE  Gated'
<1>1. SessionTypes'
  BY NextTypes DEF Gated
<1>2. HostGate' /\ DeadWhileBirthing'
  BY NextGate
<1>3. StateOnline' /\ LoopKnows'
  <2>1. CASE NodeStep
    BY <2>1, NodeStepChannel
  <2>2. CASE LoopStep
    BY <2>2, LoopStepChannel
  <2>3. CASE PollRequest \/ PollEvent
    BY <2>3, PollStepChannel
  <2>4. CASE AppStep \/ HostFlips \/ OldState \/ CooldownEnds \/ UNCHANGED vars
    <3>1. cs' = cs /\ client' = client /\ loop' = loop
      BY <2>4
      DEF AppStep, Rebirth, Cancel, CancelPayload, CancelDeath, CancelStop,
          CancelDisconnect, CancelUnchanged, HostFlips, OldState, CooldownEnds,
          netVars, vars
    <3>2. node'.clientOnline = node.clientOnline
      BY <2>4
      DEF AppStep, Rebirth, Cancel, CancelPayload, CancelDeath, CancelStop,
          CancelDisconnect, CancelUnchanged, HostFlips, OldState, CooldownEnds,
          vars, Gated, SessionTypes, NodeTask
    <3> QED
      BY <3>1, <3>2, ChannelFrame DEF Gated
  <2> QED
    BY <2>1, <2>2, <2>3, <2>4 DEF Next
<1> QED
  BY <1>1, <1>2, <1>3 DEF Gated

(* The session by itself.                                                  *)
IInv == TypeOK /\ Gated

LEMMA NextKeeps == ASSUME IInv, [Next]_vars PROVE IInv'
<1>1. TypeOK'
  BY TypesKept DEF IInv
<1>2. Gated'
  BY GatedKept, BirthsTyped DEF IInv, PollRequest
<1> QED
  BY <1>1, <1>2 DEF IInv

(* It holds initially.                                                     *)
LEMMA InitInv == ASSUME Init PROVE IInv
<1>1. TypeOK
  BY InitTypes
<1>2. /\ node.pc = "idle" /\ ~st.host /\ ~st.birthed /\ cs = <<>>
      /\ loop.pc = "start" /\ client.conn = "down" /\ loop.ev.kind = "Online"
  BY DEF Init, NewEoNState, Online
<1> QED
  BY <1>1, <1>2
  DEF IInv, Gated, TypeOK, HostGate, DeadWhileBirthing, StateOnline, LoopKnows

(* A node with a primary host begins a birth, and stays birthed, only      *)
(* while it knows from this very connection that the host is online -      *)
(* however STATE messages, lost connections, retries, rebirths and         *)
(* shutdown interleave.                                                    *)
THEOREM GateHolds == Spec => []HostGate
<1>1. Init => IInv
  BY InitInv
<1>2. IInv /\ [Next]_vars => IInv'
  BY NextKeeps
<1>3. IInv => HostGate
  BY DEF IInv, Gated
<1> QED
  BY <1>1, <1>2, <1>3, PTL DEF Spec
=============================================================================
