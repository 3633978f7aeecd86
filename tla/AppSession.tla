----------------------------- MODULE AppSession ------------------------------
(***************************************************************************)
(* The session of a host application: AppEventLoop and AppClient of        *)
(* srad-app/src/eventloop.rs, with the tasks they spawn, over an MQTT      *)
(* client with a bounded request channel, a connection that breaks and a   *)
(* broker that retains the application's STATE.                            *)
(*                                                                         *)
(* The event loop serves, in any order, its MQTT client (the Poll          *)
(* actions), the results of the tasks that establish a session, the        *)
(* shutdown channel and its retry timer.                                   *)
(***************************************************************************)
EXTENDS Naturals, Sequences

CONSTANTS ReqCap,      \* requests the MQTT client takes before it is polled
          MayCancel,   \* may cancel() be called
          MaxFault     \* bound: connections that break or that the broker ends,
                       \* client calls that fail, and the call of cancel()

ASSUME AppSessionAssumption ==
    /\ ReqCap \in Nat \ {0} /\ MayCancel \in BOOLEAN
    /\ MaxFault \in Nat

VARIABLES
    app,       \* the fields of AppEventLoop, and where its poll() is
    tasks,     \* the tasks spawned by try_online
    spawned,   \* the requests other spawned tasks are about to make
    session,   \* session_rx, room for one result: <<>> or <<[attempt, ok]>>
    shutdown,  \* shutdown_rx holds a Shutdown
    cancel,    \* AppClient::cancel: "idle" or the call it makes next
    chan,      \* the client's request channel, oldest first
    conn,      \* the connection: its state and the will it was made with
    broker,    \* the subscription and the retained STATE
    inbox,     \* OFFLINE STATEs of this host on their way to the client
    clock,     \* the last timestamp handed out
    faults     \* counts the failures of the environment, and the call of cancel()

net == <<conn, broker, inbox>>
vars == <<app, tasks, spawned, session, shutdown, cancel, chan, net, clock, faults>>

State(online, ts) == [kind |-> IF online THEN "ONLINE" ELSE "OFFLINE", ts |-> ts]
Plain(kind) == [kind |-> kind, ts |-> 0]

(* poll_until_offline polls the client while the application is online.    *)
Polling == app.pc = "poll" \/ (app.pc = "drain" /\ app.online)

-----------------------------------------------------------------------------
(* Mutant: the online STATE gets a timestamp of its own.                   *)
SessionTimestampFresh(a) == clock + 1

(* The timestamp of the online STATE is that of the will.                  *)
SessionTimestamp(a) == a.will

(* try_online spawns a task that subscribes and then publishes the online  *)
(* STATE.                                                                  *)
TryOnline(a) ==
    IF ~a.client_online \/ a.online \/ a.retry \/ a.in_flight
    THEN app' = a /\ UNCHANGED tasks
    ELSE /\ app' = [a EXCEPT !.attempt = @ + 1, !.in_flight = TRUE]
         /\ tasks' = tasks \cup {[attempt |-> a.attempt + 1, step |-> "SUBSCRIBE",
                                  ts |-> SessionTimestamp(a)]}

(* handle_offline refreshes the will only of a session that was online.    *)
HandleOffline(a) ==
    IF ~a.online THEN app' = a /\ UNCHANGED clock
    ELSE /\ app' = [a EXCEPT !.online = FALSE, !.published = FALSE, !.will = clock + 1]
         /\ clock' = clock + 1

(* Mutant: the attempt under way still counts as such.                     *)
InvalidateKeepsFlight(a) ==
    [a EXCEPT !.client_online = FALSE, !.attempt = @ + 1]

Invalidate(a) ==
    [a EXCEPT !.client_online = FALSE, !.in_flight = FALSE, !.attempt = @ + 1]

(* What the client's poll() reports: handle_event, or poll_until_offline   *)
(* after the shutdown.                                                     *)
GotOnline ==
    \/ app.pc = "poll" /\ TryOnline([app EXCEPT !.client_online = TRUE])
    \/ app.pc = "drain" /\ UNCHANGED <<app, tasks>>

GotOffline ==
    \/ app.pc = "poll" /\ HandleOffline(Invalidate(app))
    \/ app.pc = "drain" /\ HandleOffline(app)

-----------------------------------------------------------------------------
(* The MQTT client.                                                        *)
PollConnect ==
    /\ Polling /\ conn.state = "down"
    /\ conn' = [state |-> "up", will |-> app.will]
    /\ broker' = [broker EXCEPT !.sub = FALSE]
    /\ GotOnline
    /\ UNCHANGED <<spawned, session, shutdown, cancel, chan, inbox, clock, faults>>

Retain(b, m) == [b EXCEPT !.online = (m.kind = "ONLINE"), !.ts = m.ts]

(* A subscription is answered with the retained STATE; what is published   *)
(* comes back to the subscriber.  The client has no use for ONLINE.        *)
PollRequest ==
    /\ Polling /\ conn.state = "up" /\ chan # <<>>
    /\ chan' = Tail(chan)
    /\ LET m == Head(chan)
       IN \/ /\ m.kind = "SUBSCRIBE"
             /\ broker' = [broker EXCEPT !.sub = TRUE]
             /\ inbox' = IF broker.ts > 0 /\ ~broker.online THEN inbox + 1 ELSE inbox
             /\ UNCHANGED <<app, conn, clock>>
          \/ /\ m.kind \in {"ONLINE", "OFFLINE"}
             /\ broker' = Retain(broker, m)
             /\ inbox' = IF broker.sub /\ m.kind = "OFFLINE" THEN inbox + 1 ELSE inbox
             /\ UNCHANGED <<app, conn, clock>>
          \/ /\ m.kind = "DISCONNECT"
             /\ conn' = [conn EXCEPT !.state = "closing"]
             /\ GotOffline
             /\ inbox' = 0
             /\ UNCHANGED broker
    /\ UNCHANGED <<tasks, spawned, session, shutdown, cancel, faults>>

(* An OFFLINE of this host is answered with ONLINE while it is online.     *)
PollState ==
    /\ Polling /\ conn.state = "up" /\ inbox > 0
    /\ inbox' = inbox - 1
    /\ spawned' = IF app.pc = "poll" /\ app.published
                  THEN Append(spawned, State(TRUE, app.will)) ELSE spawned
    /\ UNCHANGED <<app, tasks, session, shutdown, cancel, chan, conn, broker, clock, faults>>

(* The connection breaks, and the broker publishes the will.               *)
PollLost ==
    /\ Polling /\ conn.state = "up"
    /\ faults < MaxFault
    /\ faults' = faults + 1
    /\ conn' = [conn EXCEPT !.state = "down"]
    /\ broker' = Retain(broker, State(FALSE, conn.will))
    /\ inbox' = 0 /\ chan' = <<>>
    /\ GotOffline
    /\ UNCHANGED <<tasks, spawned, session, shutdown, cancel>>

PollServerDisconnect ==
    /\ Polling /\ conn.state = "up"
    /\ faults < MaxFault
    /\ faults' = faults + 1
    /\ conn' = [conn EXCEPT !.state = "closing"]
    /\ broker' = Retain(broker, State(FALSE, conn.will))
    /\ inbox' = 0
    /\ GotOffline
    /\ UNCHANGED <<tasks, spawned, session, shutdown, cancel, chan>>

PollClosed ==
    /\ Polling /\ conn.state = "closing"
    /\ conn' = [conn EXCEPT !.state = "down"]
    /\ chan' = <<>>
    /\ UNCHANGED <<app, tasks, spawned, session, shutdown, cancel, broker, inbox, clock, faults>>

-----------------------------------------------------------------------------
(* The other branches of poll().                                           *)

(* Mutant: a result is taken whichever attempt it is of.                   *)
CurrentAny(r) == TRUE

Current(r) == r.attempt = app.attempt

TakeResult ==
    /\ app.pc = "poll" /\ session # <<>>
    /\ session' = <<>>
    /\ LET r == session[1]
           a == [app EXCEPT !.in_flight = FALSE]
       IN \/ /\ ~Current(r)
             /\ UNCHANGED <<app, spawned>>
          \/ /\ Current(r) /\ ~app.client_online
             /\ app' = a
             /\ UNCHANGED spawned
          \/ /\ Current(r) /\ app.client_online /\ r.ok
             /\ app' = [a EXCEPT !.online = TRUE, !.published = TRUE]
             /\ UNCHANGED spawned
          \/ /\ Current(r) /\ app.client_online /\ ~r.ok
             /\ app' = [a EXCEPT !.published = FALSE, !.retry = TRUE]
             /\ spawned' = Append(spawned, Plain("DISCONNECT"))
    /\ UNCHANGED <<tasks, shutdown, cancel, chan, net, clock, faults>>

RetryFires ==
    /\ app.pc = "poll" /\ app.retry
    /\ TryOnline([app EXCEPT !.retry = FALSE])
    /\ UNCHANGED <<spawned, session, shutdown, cancel, chan, net, clock, faults>>

TakeShutdown ==
    /\ app.pc = "poll" /\ shutdown
    /\ shutdown' = FALSE
    /\ app' = [app EXCEPT !.pc = "drain"]
    /\ UNCHANGED <<tasks, spawned, session, cancel, chan, net, clock, faults>>

(* Mutant: the loop has no deadline.                                       *)
DrainEndsOffline ==
    /\ app.pc = "drain" /\ ~app.online
    /\ app' = [app EXCEPT !.pc = "cancelled"]
    /\ UNCHANGED <<tasks, spawned, session, shutdown, cancel, chan, net, clock, faults>>

(* The loop ends when the application is offline, or after a second.       *)
DrainEnds ==
    /\ app.pc = "drain"
    /\ app' = [app EXCEPT !.pc = "cancelled"]
    /\ UNCHANGED <<tasks, spawned, session, shutdown, cancel, chan, net, clock, faults>>

(* The process ends; a connection that is still open breaks.               *)
Exit ==
    /\ app.pc = "cancelled"
    /\ app' = [app EXCEPT !.pc = "exited"]
    /\ conn' = [conn EXCEPT !.state = "down"]
    /\ broker' = IF conn.state = "up" THEN Retain(broker, State(FALSE, conn.will)) ELSE broker
    /\ UNCHANGED <<tasks, spawned, session, shutdown, cancel, chan, inbox, clock, faults>>

-----------------------------------------------------------------------------
(* The spawned tasks.                                                      *)
(* Nothing that is requested after the last poll is ever sent.             *)
Running == app.pc \in {"poll", "drain"}
Room == Len(chan) < ReqCap
Move(t, step) == tasks' = (tasks \ {t}) \cup {[t EXCEPT !.step = step]}

TaskSubscribes(t) ==
    /\ Running /\ t.step = "SUBSCRIBE" /\ Room
    /\ chan' = Append(chan, Plain("SUBSCRIBE"))
    /\ Move(t, "PUBLISH")
    /\ UNCHANGED <<app, spawned, session, shutdown, cancel, net, clock, faults>>

TaskPublishes(t) ==
    /\ Running /\ t.step = "PUBLISH" /\ Room
    /\ chan' = Append(chan, State(TRUE, t.ts))
    /\ Move(t, "ok")
    /\ UNCHANGED <<app, spawned, session, shutdown, cancel, net, clock, faults>>

TaskFails(t) ==
    /\ Running /\ t.step \in {"SUBSCRIBE", "PUBLISH"}
    /\ faults < MaxFault
    /\ faults' = faults + 1
    /\ Move(t, "failed")
    /\ UNCHANGED <<app, spawned, session, shutdown, cancel, chan, net, clock>>

TaskReports(t) ==
    /\ Running /\ t.step \in {"ok", "failed"} /\ session = <<>>
    /\ session' = <<[attempt |-> t.attempt, ok |-> (t.step = "ok")]>>
    /\ tasks' = tasks \ {t}
    /\ UNCHANGED <<app, spawned, shutdown, cancel, chan, net, clock, faults>>

RemoveNth(s, i) == [j \in 1 .. Len(s) - 1 |-> IF j < i THEN s[j] ELSE s[j + 1]]

SpawnedSends(i) ==
    /\ Running /\ Room
    /\ chan' = Append(chan, spawned[i])
    /\ spawned' = RemoveNth(spawned, i)
    /\ UNCHANGED <<app, tasks, session, shutdown, cancel, net, clock, faults>>

-----------------------------------------------------------------------------
(* AppClient::cancel, called once.                                         *)

(* try_publish_state_message gives up when there is no room.               *)
CancelPublishes ==
    /\ MayCancel /\ cancel = "idle" /\ app.pc = "poll"
    /\ faults < MaxFault
    /\ faults' = faults + 1
    /\ clock' = clock + 1
    /\ chan' = IF Room THEN Append(chan, State(FALSE, clock + 1)) ELSE chan
    /\ cancel' = "shutdown"
    /\ UNCHANGED <<app, tasks, spawned, session, shutdown, net>>

CancelShutdown ==
    /\ cancel = "shutdown"
    /\ shutdown' = TRUE
    /\ cancel' = "disconnect"
    /\ UNCHANGED <<app, tasks, spawned, session, chan, net, clock, faults>>

CancelDisconnects ==
    /\ Running /\ cancel = "disconnect" /\ Room
    /\ chan' = Append(chan, Plain("DISCONNECT"))
    /\ cancel' = "done"
    /\ UNCHANGED <<app, tasks, spawned, session, shutdown, net, clock, faults>>

-----------------------------------------------------------------------------
Init ==
    /\ app = [pc |-> "poll", online |-> FALSE, client_online |-> FALSE, in_flight |-> FALSE,
              attempt |-> 0, retry |-> FALSE, published |-> FALSE, will |-> 1]
    /\ tasks = {} /\ spawned = <<>> /\ session = <<>> /\ shutdown = FALSE
    /\ cancel = "idle" /\ chan = <<>>
    /\ conn = [state |-> "down", will |-> 0]
    /\ broker = [sub |-> FALSE, online |-> FALSE, ts |-> 0]
    /\ inbox = 0 /\ clock = 1
    /\ faults = 0

Next ==
    \/ PollConnect \/ PollRequest \/ PollState \/ PollClosed
    \/ PollLost \/ PollServerDisconnect
    \/ TakeResult \/ RetryFires \/ TakeShutdown \/ DrainEnds \/ Exit
    \/ \E t \in tasks :
           TaskSubscribes(t) \/ TaskPublishes(t) \/ TaskFails(t) \/ TaskReports(t)
    \/ \E i \in DOMAIN spawned : SpawnedSends(i)
    \/ CancelPublishes \/ CancelShutdown \/ CancelDisconnects

Spec == Init /\ [][Next]_vars

(* Tasks run, poll() takes each of its ready branches some time, timers    *)
(* expire.  The network never has to fail, nor cancel() to be called.      *)
Fairness ==
    /\ WF_vars(PollConnect) /\ WF_vars(PollRequest) /\ WF_vars(PollState)
    /\ WF_vars(PollClosed)
    /\ SF_vars(TakeResult) /\ SF_vars(RetryFires) /\ SF_vars(TakeShutdown)
    /\ WF_vars(DrainEnds) /\ WF_vars(Exit)
    /\ WF_vars(\E t \in tasks : TaskSubscribes(t) \/ TaskPublishes(t))
    /\ SF_vars(\E t \in tasks : TaskReports(t))
    /\ SF_vars(\E i \in DOMAIN spawned : SpawnedSends(i))
    /\ WF_vars(CancelShutdown) /\ SF_vars(CancelDisconnects)

FairSpec == Spec /\ Fairness

-----------------------------------------------------------------------------
(* An application that reports itself online has its subscriptions on the  *)
(* connection it has now, or about to be made; a result of an attempt on   *)
(* an earlier connection never counts.                                     *)
HearsNodes ==
    app.online /\ app.pc = "poll" =>
        /\ conn.state = "up"
        /\ broker.sub \/ \E i \in DOMAIN chan : chan[i].kind = "SUBSCRIBE"

(* Should the connection break, the will that announces it is not older    *)
(* than the online STATE it takes back: edge nodes ignore a STATE that is. *)
WillCovers == conn.state = "up" /\ broker.online => broker.ts <= conn.will

(* Whatever fails or breaks, the application comes online in the end, and  *)
(* its retained STATE says so, unless it is cancelled.                     *)
Settled ==
    /\ app.online /\ conn.state = "up" /\ broker.sub
    /\ broker.online

OnlineAgain == <>[]Settled \/ <>(cancel # "idle")

(* cancel() ends the application, online or not.                           *)
CancelEnds == (cancel # "idle") ~> (app.pc = "exited")
=============================================================================
