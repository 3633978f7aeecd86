--------------------------- MODULE AppSessionProofs --------------------------
(***************************************************************************)
(* Proofs about AppSession for every capacity of the request channel and   *)
(* any number of broken connections and failed calls.                      *)
(***************************************************************************)
EXTENDS AppSession, SequenceTheorems, TLAPS

Requests == [kind : {"SUBSCRIBE", "DISCONNECT", "ONLINE", "OFFLINE"}, ts : Nat]

AppTask ==
    [pc : {"poll", "drain", "cancelled", "exited"}, online : BOOLEAN, client_online : BOOLEAN,
     in_flight : BOOLEAN, attempt : Nat, retry : BOOLEAN, published : BOOLEAN, will : Nat]

Attempts == [attempt : Nat, step : {"SUBSCRIBE", "PUBLISH", "ok", "failed"}, ts : Nat]

Results == [attempt : Nat, ok : BOOLEAN]

Types ==
    /\ app \in AppTask
    /\ tasks \subseteq Attempts
    /\ spawned \in Seq(Requests) /\ chan \in Seq(Requests)
    /\ session \in Seq(Results) /\ Len(session) <= 1
    /\ conn \in [state : {"down", "up", "closing"}, will : Nat]
    /\ broker \in [sub : BOOLEAN, online : BOOLEAN, ts : Nat]
    /\ clock \in Nat

(* No online STATE, retained or on its way, is newer than the will the     *)
(* application holds, and an open connection was made with that will.      *)
NotNewer(m) == m.kind = "ONLINE" => m.ts <= app.will

WillHeld ==
    /\ app.will <= clock
    /\ conn.state = "up" => conn.will = app.will
    /\ broker.online => broker.ts <= app.will
    /\ \A i \in DOMAIN chan : NotNewer(chan[i])
    /\ \A i \in DOMAIN spawned : NotNewer(spawned[i])
    /\ \A t \in tasks : t.ts <= app.will

(* This connection has the subscriptions, or they are requested.           *)
Subscribed == broker.sub \/ \E i \in DOMAIN chan : chan[i].kind = "SUBSCRIBE"

(* An attempt, or its result, that counts was made on the connection there *)
(* is now; the event loop knows of that connection.                        *)
AttemptsCurrent ==
    /\ \A t \in tasks : t.attempt <= app.attempt
    /\ \A i \in DOMAIN session : session[i].attempt <= app.attempt
    /\ app.pc = "poll" =>
        /\ app.client_online <=> conn.state = "up"
        /\ app.online => app.client_online /\ Subscribed
        /\ \A t \in tasks : t.attempt = app.attempt =>
              app.client_online /\ (t.step \in {"PUBLISH", "ok"} => Subscribed)
        /\ \A i \in DOMAIN session : session[i].attempt = app.attempt =>
              app.client_online /\ (session[i].ok => Subscribed)

IInv == Types /\ WillHeld /\ AttemptsCurrent

-----------------------------------------------------------------------------
(* Sequences.                                                              *)
LEMMA TailElements ==
  ASSUME NEW S, NEW s \in Seq(S), s # <<>>
  PROVE  /\ Tail(s) \in Seq(S) /\ Head(s) \in S /\ Head(s) = s[1] /\ 1 \in DOMAIN s
         /\ \A i \in DOMAIN Tail(s) : i + 1 \in DOMAIN s /\ Tail(s)[i] = s[i + 1]
         /\ \A i \in DOMAIN s : i # 1 => i - 1 \in DOMAIN Tail(s) /\ Tail(s)[i - 1] = s[i]
OBVIOUS

LEMMA AppendElements ==
  ASSUME NEW S, NEW s \in Seq(S), NEW m \in S
  PROVE  /\ Append(s, m) \in Seq(S)
         /\ \A i \in DOMAIN s : i \in DOMAIN Append(s, m) /\ Append(s, m)[i] = s[i]
         /\ \A i \in DOMAIN Append(s, m) :
               \/ i \in DOMAIN s /\ Append(s, m)[i] = s[i]
               \/ Append(s, m)[i] = m
         /\ \E i \in DOMAIN Append(s, m) : Append(s, m)[i] = m
<1>1. Len(s) + 1 \in DOMAIN Append(s, m) /\ Append(s, m)[Len(s) + 1] = m
  OBVIOUS
<1> QED
  BY <1>1

LEMMA RemoveElements ==
  ASSUME NEW S, NEW s \in Seq(S), NEW i \in DOMAIN s
  PROVE  /\ RemoveNth(s, i) \in Seq(S)
         /\ \A j \in DOMAIN RemoveNth(s, i) :
               \E k \in DOMAIN s : RemoveNth(s, i)[j] = s[k]
<1>1. /\ Len(s) \in Nat /\ i \in 1 .. Len(s) /\ DOMAIN s = 1 .. Len(s)
      /\ DOMAIN RemoveNth(s, i) = 1 .. Len(s) - 1
  BY DEF RemoveNth
<1>2. ASSUME NEW j \in 1 .. Len(s) - 1
      PROVE  \E k \in DOMAIN s : RemoveNth(s, i)[j] = s[k]
  <2>1. j \in DOMAIN s /\ j + 1 \in DOMAIN s
    BY <1>1
  <2> QED
    BY <2>1 DEF RemoveNth
<1>3. \A j \in 1 .. Len(s) - 1 : RemoveNth(s, i)[j] \in S
  BY <1>2
<1>4. RemoveNth(s, i) \in [1 .. Len(s) - 1 -> S]
  BY <1>3 DEF RemoveNth
<1>5. Len(s) - 1 \in Nat
  BY <1>1
<1>6. RemoveNth(s, i) \in Seq(S)
  BY <1>4, <1>5
<1> QED
  BY <1>1, <1>2, <1>6

-----------------------------------------------------------------------------
(* An AppEventLoop with some of its fields set.                            *)
LEMMA AppFields ==
  ASSUME NEW a \in AppTask, NEW pc \in {"poll", "drain", "cancelled", "exited"},
         NEW online \in BOOLEAN, NEW client_online \in BOOLEAN, NEW in_flight \in BOOLEAN,
         NEW attempt \in Nat, NEW retry \in BOOLEAN, NEW published \in BOOLEAN,
         NEW will \in Nat
  PROVE  /\ a.pc \in {"poll", "drain", "cancelled", "exited"}
         /\ a.online \in BOOLEAN /\ a.client_online \in BOOLEAN /\ a.in_flight \in BOOLEAN
         /\ a.attempt \in Nat /\ a.retry \in BOOLEAN /\ a.published \in BOOLEAN
         /\ a.will \in Nat
         /\ [a EXCEPT !.pc = pc] \in AppTask
         /\ [a EXCEPT !.client_online = client_online] \in AppTask
         /\ [a EXCEPT !.in_flight = in_flight] \in AppTask
         /\ [a EXCEPT !.retry = retry] \in AppTask
         /\ [a EXCEPT !.attempt = attempt, !.in_flight = in_flight] \in AppTask
         /\ [a EXCEPT !.online = online, !.published = published] \in AppTask
         /\ [a EXCEPT !.published = published, !.retry = retry] \in AppTask
         /\ [a EXCEPT !.online = online, !.published = published, !.will = will] \in AppTask
         /\ [a EXCEPT !.client_online = client_online, !.in_flight = in_flight,
                      !.attempt = attempt] \in AppTask
BY DEF AppTask

(* The methods of AppEventLoop.                                            *)
LEMMA TryOnlineEffect ==
  ASSUME NEW a \in AppTask, tasks \subseteq Attempts, TryOnline(a)
  PROVE  /\ app' \in AppTask /\ tasks' \subseteq Attempts
         /\ app'.pc = a.pc /\ app'.online = a.online /\ app'.will = a.will
         /\ app'.client_online = a.client_online
         /\ \/ app'.attempt = a.attempt /\ tasks' = tasks
            \/ /\ app'.attempt = a.attempt + 1 /\ a.client_online
               /\ \A t \in tasks' : \/ t \in tasks
                                    \/ /\ t.attempt = a.attempt + 1
                                       /\ t.step = "SUBSCRIBE" /\ t.ts = a.will
<1>1. CASE ~a.client_online \/ a.online \/ a.retry \/ a.in_flight
  BY <1>1 DEF TryOnline
<1>2. CASE ~(~a.client_online \/ a.online \/ a.retry \/ a.in_flight)
  <2> DEFINE t == [attempt |-> a.attempt + 1, step |-> "SUBSCRIBE", ts |-> a.will]
  <2>1. app' = [a EXCEPT !.attempt = @ + 1, !.in_flight = TRUE] /\ tasks' = tasks \cup {t}
    BY <1>2 DEF TryOnline, SessionTimestamp
  <2>2. t \in Attempts
    BY DEF AppTask, Attempts
  <2>3. app' \in AppTask
    <3>1. a.attempt + 1 \in Nat
      BY DEF AppTask
    <3> QED
      BY <2>1, <3>1, AppFields
  <2>4. /\ app'.pc = a.pc /\ app'.online = a.online /\ app'.will = a.will
        /\ app'.client_online = a.client_online /\ app'.attempt = a.attempt + 1
    BY <2>1 DEF AppTask
  <2>5. t.attempt = a.attempt + 1 /\ t.step = "SUBSCRIBE" /\ t.ts = a.will
    OBVIOUS
  <2> HIDE DEF t
  <2> QED
    BY <1>2, <2>1, <2>2, <2>3, <2>4, <2>5
<1> QED
  BY <1>1, <1>2

LEMMA HandleOfflineEffect ==
  ASSUME NEW a \in AppTask, clock \in Nat, a.will <= clock, HandleOffline(a)
  PROVE  /\ app' \in AppTask /\ clock' \in Nat
         /\ app'.pc = a.pc /\ ~app'.online /\ app'.client_online = a.client_online
         /\ app'.attempt = a.attempt
         /\ a.will <= app'.will /\ app'.will <= clock'
<1>1. CASE ~a.online
  <2>1. app' = a /\ clock' = clock
    BY <1>1 DEF HandleOffline
  <2>2. a.will \in Nat
    BY DEF AppTask
  <2> QED
    BY <1>1, <2>1, <2>2
<1>2. CASE a.online
  <2>1. /\ app' = [a EXCEPT !.online = FALSE, !.published = FALSE, !.will = clock + 1]
        /\ clock' = clock + 1
    BY <1>2 DEF HandleOffline
  <2>2. app' \in AppTask
    <3>1. clock + 1 \in Nat
      OBVIOUS
    <3> QED
      BY <2>1, <3>1, AppFields
  <2>3. /\ app'.pc = a.pc /\ ~app'.online /\ app'.client_online = a.client_online
        /\ app'.attempt = a.attempt /\ app'.will = clock + 1
    BY <2>1 DEF AppTask
  <2>4. a.will \in Nat
    BY DEF AppTask
  <2> QED
    BY <2>1, <2>2, <2>3, <2>4
<1> QED
  BY <1>1, <1>2

(* What the loss of the connection does to the event loop.                 *)
LEMMA GotOfflineEffect ==
  ASSUME Types, WillHeld, GotOffline
  PROVE  /\ app' \in AppTask /\ clock' \in Nat
         /\ app'.pc = app.pc /\ ~app'.online
         /\ app.pc = "poll" => ~app'.client_online /\ app'.attempt = app.attempt + 1
         /\ app'.attempt >= app.attempt
         /\ app.will <= app'.will /\ app'.will <= clock'
<1>1. app \in AppTask /\ clock \in Nat /\ app.will <= clock
  BY DEF Types, WillHeld
<1>2. CASE app.pc = "poll" /\ HandleOffline(Invalidate(app))
  <2> DEFINE a == Invalidate(app)
  <2>1. /\ a \in AppTask /\ a.pc = app.pc /\ ~a.client_online
        /\ a.attempt = app.attempt + 1 /\ a.will = app.will
    <3>1. app.attempt + 1 \in Nat
      BY <1>1 DEF AppTask
    <3>2. a \in AppTask
      BY <1>1, <3>1, AppFields DEF Invalidate
    <3> QED
      BY <1>1, <3>2 DEF Invalidate, AppTask
  <2> HIDE DEF a
  <2>2. HandleOffline(a)
    BY <1>2 DEF a
  <2>3. app.attempt \in Nat
    BY <1>1 DEF AppTask
  <2> QED
    BY <1>1, <2>1, <2>2, <2>3, HandleOfflineEffect
<1>3. CASE app.pc = "drain" /\ HandleOffline(app)
  <2>1. app.attempt \in Nat
    BY <1>1 DEF AppTask
  <2> QED
    BY <1>1, <1>3, <2>1, HandleOfflineEffect
<1> QED
  BY <1>2, <1>3 DEF GotOffline

-----------------------------------------------------------------------------
(* Frames: what a step may change without disturbing the invariant.        *)
LEMMA Parts ==
  ASSUME Types
  PROVE  /\ app.will \in Nat /\ app.attempt \in Nat /\ clock \in Nat
         /\ conn.will \in Nat /\ broker.ts \in Nat
         /\ \A t \in tasks : t.attempt \in Nat /\ t.ts \in Nat
         /\ \A i \in DOMAIN chan : chan[i] \in Requests
         /\ \A i \in DOMAIN spawned : spawned[i] \in Requests
         /\ \A i \in DOMAIN session : session[i] \in Results
BY DEF Types, AppTask, Attempts

(* One more request on its way, or one less.                               *)
LEMMA ChanGrows ==
  ASSUME Types, NEW m \in Requests, chan' = Append(chan, m), UNCHANGED broker
  PROVE  /\ chan' \in Seq(Requests)
         /\ WillHeld /\ NotNewer(m) /\ UNCHANGED app =>
               (\A i \in DOMAIN chan : NotNewer(chan[i]))'
         /\ Subscribed => Subscribed'
         /\ m.kind = "SUBSCRIBE" => Subscribed'
<1>1. chan \in Seq(Requests)
  BY DEF Types
<1>2. /\ chan' \in Seq(Requests)
      /\ \A i \in DOMAIN chan : i \in DOMAIN chan' /\ chan'[i] = chan[i]
      /\ \A i \in DOMAIN chan' :
            (i \in DOMAIN chan /\ chan'[i] = chan[i]) \/ chan'[i] = m
      /\ \E i \in DOMAIN chan' : chan'[i] = m
  BY <1>1, AppendElements
<1>3. ASSUME WillHeld, NotNewer(m), UNCHANGED app
      PROVE  (\A i \in DOMAIN chan : NotNewer(chan[i]))'
  BY <1>2, <1>3 DEF WillHeld, NotNewer
<1>4. (Subscribed => Subscribed') /\ (m.kind = "SUBSCRIBE" => Subscribed')
  BY <1>2 DEF Subscribed
<1> QED
  BY <1>2, <1>3, <1>4

LEMMA ChanShrinks ==
  ASSUME Types, chan # <<>>, chan' = Tail(chan)
  PROVE  /\ chan' \in Seq(Requests) /\ Head(chan) \in Requests /\ Head(chan) = chan[1]
         /\ 1 \in DOMAIN chan
         /\ \A i \in DOMAIN chan' : \E j \in DOMAIN chan : chan'[i] = chan[j]
         /\ Subscribed /\ UNCHANGED broker /\ Head(chan).kind # "SUBSCRIBE" => Subscribed'
<1>1. chan \in Seq(Requests)
  BY DEF Types
<1>2. /\ chan' \in Seq(Requests) /\ Head(chan) \in Requests /\ Head(chan) = chan[1]
      /\ 1 \in DOMAIN chan
      /\ \A i \in DOMAIN chan' : i + 1 \in DOMAIN chan /\ chan'[i] = chan[i + 1]
      /\ \A i \in DOMAIN chan : i # 1 => i - 1 \in DOMAIN chan' /\ chan'[i - 1] = chan[i]
  BY <1>1, TailElements
<1> QED
  BY <1>2 DEF Subscribed

(* The same for what spawned tasks are about to request.                   *)
LEMMA SpawnedGrows ==
  ASSUME Types, NEW m \in Requests, spawned' = Append(spawned, m)
  PROVE  /\ spawned' \in Seq(Requests)
         /\ \A i \in DOMAIN spawned' :
               (i \in DOMAIN spawned /\ spawned'[i] = spawned[i]) \/ spawned'[i] = m
<1>1. spawned \in Seq(Requests)
  BY DEF Types
<1> QED
  BY <1>1, AppendElements

-----------------------------------------------------------------------------
(* The MQTT client's events.                                               *)
LEMMA PollConnectInv == ASSUME IInv, PollConnect PROVE IInv'
<1>1. Types /\ WillHeld /\ AttemptsCurrent /\ app \in AppTask /\ tasks \subseteq Attempts
  BY DEF IInv, Types
<1>2. /\ conn.state = "down" /\ conn' = [state |-> "up", will |-> app.will]
      /\ broker' = [broker EXCEPT !.sub = FALSE]
      /\ UNCHANGED <<spawned, session, chan, clock>>
  BY DEF PollConnect
<1>3. /\ app' \in AppTask /\ tasks' \subseteq Attempts /\ app'.will = app.will
      /\ app'.attempt >= app.attempt /\ app'.pc = app.pc /\ app'.online = app.online
      /\ app.pc = "poll" => app'.client_online
      /\ \A t \in tasks' : \/ t \in tasks
                           \/ t.attempt = app'.attempt /\ t.step = "SUBSCRIBE" /\ t.ts = app.will
  <2>1. CASE app.pc = "poll" /\ TryOnline([app EXCEPT !.client_online = TRUE])
    <3> DEFINE a == [app EXCEPT !.client_online = TRUE]
    <3>1. a \in AppTask /\ a.client_online /\ a.will = app.will /\ a.attempt = app.attempt
          /\ a.pc = app.pc /\ a.online = app.online
      BY <1>1 DEF AppTask
    <3> HIDE DEF a
    <3>2. TryOnline(a)
      BY <2>1 DEF a
    <3> QED
      BY <1>1, <3>1, <3>2, TryOnlineEffect, Parts
  <2>2. CASE app.pc = "drain" /\ UNCHANGED <<app, tasks>>
    BY <1>1, <2>2, Parts
  <2> QED
    BY <2>1, <2>2 DEF PollConnect, GotOnline
<1>4. Types'
  BY <1>1, <1>2, <1>3, Parts DEF Types
<1>5. WillHeld'
  BY <1>1, <1>2, <1>3, Parts DEF WillHeld, NotNewer, Types
<1>6. AttemptsCurrent'
  <2>1. app.pc = "poll" => /\ ~app.client_online /\ ~app.online
                           /\ \A t \in tasks : t.attempt < app.attempt
                           /\ \A i \in DOMAIN session : session[i].attempt < app.attempt
    BY <1>1, <1>2, Parts DEF AttemptsCurrent, Results
  <2>2. \A i \in DOMAIN session : session[i].attempt \in Nat
    BY <1>1, Parts DEF Results
  <2>3. app'.attempt \in Nat /\ app.attempt \in Nat
    BY <1>1, <1>3 DEF AppTask
  <2> QED
    BY <1>1, <1>2, <1>3, <2>1, <2>2, <2>3, Parts DEF AttemptsCurrent, Subscribed
<1> QED
  BY <1>4, <1>5, <1>6 DEF IInv

(* The application learns that its connection is lost: no attempt, nor     *)
(* result of one, counts any more.                                         *)
LEMMA OfflineInv ==
  ASSUME IInv, GotOffline, UNCHANGED <<tasks, spawned, session>>,
         conn' \in [state : {"down", "up", "closing"}, will : Nat], conn'.state # "up",
         chan' \in Seq(Requests), broker' \in [sub : BOOLEAN, online : BOOLEAN, ts : Nat],
         \A i \in DOMAIN chan' : \E j \in DOMAIN chan : chan'[i] = chan[j],
         broker'.online => UNCHANGED broker
  PROVE  IInv'
<1>1. Types /\ WillHeld /\ AttemptsCurrent
  BY DEF IInv
<1>2. /\ app' \in AppTask /\ clock' \in Nat
      /\ app'.pc = app.pc /\ ~app'.online
      /\ app.pc = "poll" => ~app'.client_online /\ app'.attempt = app.attempt + 1
      /\ app'.attempt >= app.attempt
      /\ app.will <= app'.will /\ app'.will <= clock'
  BY <1>1, GotOfflineEffect
<1>3. app'.attempt \in Nat /\ app'.will \in Nat
  BY <1>2 DEF AppTask
<1>4. Types'
  BY <1>1, <1>2 DEF Types
<1>5. WillHeld'
  <2>1. ASSUME NEW m \in Requests, m.kind = "ONLINE" => m.ts <= app.will
        PROVE  m.kind = "ONLINE" => m.ts <= app'.will
    BY <1>1, <1>2, <1>3, <2>1, Parts DEF Requests
  <2>2. (\A i \in DOMAIN chan : NotNewer(chan[i]))'
    BY <1>1, <2>1, Parts DEF WillHeld, NotNewer
  <2>3. (\A i \in DOMAIN spawned : NotNewer(spawned[i]))'
    BY <1>1, <2>1, Parts DEF WillHeld, NotNewer
  <2>4. \A t \in tasks' : t.ts <= app'.will
    BY <1>1, <1>2, <1>3, Parts DEF WillHeld
  <2>5. broker'.online => broker'.ts <= app'.will
    BY <1>1, <1>2, <1>3, Parts DEF WillHeld
  <2> QED
    BY <1>2, <2>2, <2>3, <2>4, <2>5 DEF WillHeld
<1>6. AttemptsCurrent'
  <2>1. \A t \in tasks' : t.attempt <= app'.attempt
    BY <1>1, <1>2, <1>3, Parts DEF AttemptsCurrent
  <2>2. \A i \in DOMAIN session' : session'[i].attempt <= app'.attempt
    BY <1>1, <1>2, <1>3, Parts DEF AttemptsCurrent, Results
  <2>3. app.pc = "poll" => /\ \A t \in tasks' : t.attempt # app'.attempt
                           /\ \A i \in DOMAIN session' : session'[i].attempt # app'.attempt
    BY <1>1, <1>2, <1>3, Parts DEF AttemptsCurrent, Results
  <2> QED
    BY <1>2, <2>1, <2>2, <2>3 DEF AttemptsCurrent
<1> QED
  BY <1>4, <1>5, <1>6 DEF IInv

LEMMA PollLostInv == ASSUME IInv, PollLost PROVE IInv'
<1>1. Types
  BY DEF IInv
<1>2. /\ GotOffline /\ UNCHANGED <<tasks, spawned, session>>
      /\ conn' = [conn EXCEPT !.state = "down"] /\ chan' = <<>>
      /\ broker' = [broker EXCEPT !.online = FALSE, !.ts = conn.will]
  BY DEF PollLost, Retain, State
<1>3. /\ conn' \in [state : {"down", "up", "closing"}, will : Nat] /\ conn'.state # "up"
      /\ broker' \in [sub : BOOLEAN, online : BOOLEAN, ts : Nat] /\ ~broker'.online
  BY <1>1, <1>2 DEF Types
<1>4. chan' \in Seq(Requests) /\ DOMAIN chan' = {}
  BY <1>2
<1> QED
  BY <1>2, <1>3, <1>4, OfflineInv

LEMMA PollServerDisconnectInv == ASSUME IInv, PollServerDisconnect PROVE IInv'
<1>1. Types
  BY DEF IInv
<1>2. /\ GotOffline /\ UNCHANGED <<tasks, spawned, session, chan>>
      /\ conn' = [conn EXCEPT !.state = "closing"]
      /\ broker' = [broker EXCEPT !.online = FALSE, !.ts = conn.will]
  BY DEF PollServerDisconnect, Retain, State
<1>3. /\ conn' \in [state : {"down", "up", "closing"}, will : Nat] /\ conn'.state # "up"
      /\ broker' \in [sub : BOOLEAN, online : BOOLEAN, ts : Nat] /\ ~broker'.online
      /\ chan' \in Seq(Requests)
  BY <1>1, <1>2 DEF Types
<1> QED
  BY <1>2, <1>3, OfflineInv

LEMMA PollRequestInv == ASSUME IInv, PollRequest PROVE IInv'
<1>1. Types /\ WillHeld /\ AttemptsCurrent
  BY DEF IInv
<1>2. /\ chan # <<>> /\ chan' = Tail(chan) /\ conn.state = "up"
      /\ UNCHANGED <<tasks, spawned, session>>
  BY DEF PollRequest
<1> DEFINE m == Head(chan)
<1>3. /\ chan' \in Seq(Requests) /\ m \in Requests /\ m = chan[1] /\ 1 \in DOMAIN chan
      /\ \A i \in DOMAIN chan' : \E j \in DOMAIN chan : chan'[i] = chan[j]
      /\ Subscribed /\ UNCHANGED broker /\ m.kind # "SUBSCRIBE" => Subscribed'
  BY <1>1, <1>2, ChanShrinks
<1>4. NotNewer(m)
  BY <1>1, <1>3 DEF WillHeld
<1>5. ASSUME UNCHANGED <<app, conn, clock>>,
             broker' \in [sub : BOOLEAN, online : BOOLEAN, ts : Nat],
             broker'.online => broker'.ts <= app.will, Subscribed => Subscribed'
      PROVE  IInv'
  <2>1. Types'
    BY <1>1, <1>2, <1>3, <1>5 DEF Types
  <2>2. (\A i \in DOMAIN chan : NotNewer(chan[i]))'
    BY <1>1, <1>3, <1>5 DEF WillHeld, NotNewer
  <2>3. WillHeld'
    BY <1>1, <1>2, <1>5, <2>2 DEF WillHeld, NotNewer
  <2>4. AttemptsCurrent'
    BY <1>1, <1>2, <1>5 DEF AttemptsCurrent
  <2> QED
    BY <2>1, <2>3, <2>4 DEF IInv
<1>6. CASE m.kind = "SUBSCRIBE" /\ broker' = [broker EXCEPT !.sub = TRUE]
           /\ UNCHANGED <<app, conn, clock>>
  <2>1. /\ broker' \in [sub : BOOLEAN, online : BOOLEAN, ts : Nat] /\ broker'.sub
        /\ broker'.online = broker.online /\ broker'.ts = broker.ts
    BY <1>1, <1>6 DEF Types
  <2>2. Subscribed'
    BY <2>1 DEF Subscribed
  <2> QED
    BY <1>1, <1>5, <1>6, <2>1, <2>2 DEF WillHeld
<1>7. CASE m.kind \in {"ONLINE", "OFFLINE"} /\ broker' = Retain(broker, m)
           /\ UNCHANGED <<app, conn, clock>>
  <2>1. m.ts \in Nat
    BY <1>3 DEF Requests
  <2>2. /\ broker' \in [sub : BOOLEAN, online : BOOLEAN, ts : Nat] /\ broker'.sub = broker.sub
        /\ broker'.online = (m.kind = "ONLINE") /\ broker'.ts = m.ts
    BY <1>1, <1>7, <2>1 DEF Types, Retain
  <2>3. Subscribed => Subscribed'
    <3>1. \A i \in DOMAIN chan : i # 1 => i - 1 \in DOMAIN chan' /\ chan'[i - 1] = chan[i]
      BY <1>1, <1>2, TailElements DEF Types
    <3> HIDE DEF m
    <3> QED
      BY <1>3, <1>7, <2>2, <3>1 DEF Subscribed
  <2> HIDE DEF m
  <2> QED
    BY <1>4, <1>5, <1>7, <2>2, <2>3 DEF NotNewer
<1>8. CASE m.kind = "DISCONNECT" /\ conn' = [conn EXCEPT !.state = "closing"] /\ GotOffline
           /\ UNCHANGED broker
  <2>1. /\ conn' \in [state : {"down", "up", "closing"}, will : Nat] /\ conn'.state # "up"
        /\ broker' \in [sub : BOOLEAN, online : BOOLEAN, ts : Nat]
    BY <1>1, <1>8 DEF Types
  <2> HIDE DEF m
  <2> QED
    BY <1>2, <1>3, <1>8, <2>1, OfflineInv
<1> QED
  BY <1>6, <1>7, <1>8 DEF PollRequest

LEMMA PollStateInv == ASSUME IInv, PollState PROVE IInv'
<1>1. Types /\ WillHeld /\ AttemptsCurrent
  BY DEF IInv
<1>2. UNCHANGED <<app, tasks, session, chan, conn, broker, clock>>
  BY DEF PollState
<1>3. /\ spawned' \in Seq(Requests)
      /\ (\A i \in DOMAIN spawned : NotNewer(spawned[i]))'
  <2>1. CASE UNCHANGED spawned
    BY <1>1, <1>2, <2>1 DEF Types, WillHeld, NotNewer
  <2>2. CASE spawned' = Append(spawned, State(TRUE, app.will))
    <3> DEFINE m == State(TRUE, app.will)
    <3>1. m \in Requests /\ m.ts = app.will /\ app.will <= app.will
      BY <1>1, Parts DEF State, Requests
    <3> HIDE DEF m
    <3>2. spawned' = Append(spawned, m)
      BY <2>2 DEF m
    <3>3. /\ spawned' \in Seq(Requests)
          /\ \A i \in DOMAIN spawned' :
                (i \in DOMAIN spawned /\ spawned'[i] = spawned[i]) \/ spawned'[i] = m
      BY <1>1, <3>1, <3>2, SpawnedGrows
    <3> QED
      BY <1>1, <1>2, <3>1, <3>3 DEF WillHeld, NotNewer
  <2> QED
    BY <2>1, <2>2 DEF PollState
<1>4. Types'
  BY <1>1, <1>2, <1>3 DEF Types
<1>5. WillHeld'
  BY <1>1, <1>2, <1>3 DEF WillHeld, NotNewer
<1>6. AttemptsCurrent'
  BY <1>1, <1>2 DEF AttemptsCurrent, Subscribed
<1> QED
  BY <1>4, <1>5, <1>6 DEF IInv

(* A connection that is not up has no requests that count.                 *)
LEMMA PollClosedInv == ASSUME IInv, PollClosed PROVE IInv'
<1>1. Types /\ WillHeld /\ AttemptsCurrent
  BY DEF IInv
<1>2. /\ UNCHANGED <<app, tasks, spawned, session, broker, clock>> /\ conn.state = "closing"
      /\ conn' = [conn EXCEPT !.state = "down"] /\ chan' = <<>>
  BY DEF PollClosed
<1>3. /\ conn' \in [state : {"down", "up", "closing"}, will : Nat] /\ conn'.state = "down"
      /\ chan' \in Seq(Requests) /\ DOMAIN chan' = {}
  BY <1>1, <1>2 DEF Types
<1>4. Types'
  BY <1>1, <1>2, <1>3 DEF Types
<1>5. WillHeld'
  BY <1>1, <1>2, <1>3 DEF WillHeld, NotNewer
<1>6. AttemptsCurrent'
  BY <1>1, <1>2, <1>3 DEF AttemptsCurrent
<1> QED
  BY <1>4, <1>5, <1>6 DEF IInv

-----------------------------------------------------------------------------
(* The other branches of poll().                                           *)
LEMMA TakeResultInv == ASSUME IInv, TakeResult PROVE IInv'
<1>1. Types /\ WillHeld /\ AttemptsCurrent /\ app \in AppTask
  BY DEF IInv, Types
<1> DEFINE r == session[1]
           a == [app EXCEPT !.in_flight = FALSE]
<1>2. /\ app.pc = "poll" /\ session # <<>> /\ session' = <<>>
      /\ UNCHANGED <<tasks, chan, conn, broker, clock>>
  BY DEF TakeResult, net
<1>3. /\ 1 \in DOMAIN session /\ DOMAIN session' = {}
      /\ session' \in Seq(Results) /\ Len(session') <= 1
  BY <1>1, <1>2 DEF Types
<1>4. a \in AppTask
  BY <1>1 DEF AppTask
<1>5. /\ a.pc = app.pc /\ a.online = app.online /\ a.client_online = app.client_online
      /\ a.attempt = app.attempt /\ a.will = app.will
  BY <1>1 DEF AppTask
<1> HIDE DEF a
<1>6. /\ app' \in AppTask /\ app'.pc = app.pc /\ app'.client_online = app.client_online
      /\ app'.attempt = app.attempt /\ app'.will = app.will
      /\ app'.online => app.online \/ (Current(r) /\ app.client_online /\ r.ok)
      /\ \/ UNCHANGED spawned
         \/ spawned' = Append(spawned, Plain("DISCONNECT"))
  <2>1. CASE ~Current(r) /\ UNCHANGED <<app, spawned>>
    BY <1>1, <2>1
  <2>2. CASE Current(r) /\ ~app.client_online /\ app' = a /\ UNCHANGED spawned
    BY <1>4, <1>5, <2>2
  <2>3. CASE /\ Current(r) /\ app.client_online /\ r.ok
             /\ app' = [a EXCEPT !.online = TRUE, !.published = TRUE]
             /\ UNCHANGED spawned
    <3>1. app' \in AppTask
      BY <1>4, <2>3 DEF AppTask
    <3>2. /\ app'.pc = a.pc /\ app'.client_online = a.client_online
          /\ app'.attempt = a.attempt /\ app'.will = a.will
      BY <1>4, <2>3 DEF AppTask
    <3> HIDE DEF r
    <3> QED
      BY <1>5, <2>3, <3>1, <3>2
  <2>4. CASE /\ Current(r) /\ app.client_online /\ ~r.ok
             /\ app' = [a EXCEPT !.published = FALSE, !.retry = TRUE]
             /\ spawned' = Append(spawned, Plain("DISCONNECT"))
    <3>1. app' \in AppTask
      BY <1>4, <2>4 DEF AppTask
    <3>2. /\ app'.pc = a.pc /\ app'.client_online = a.client_online
          /\ app'.attempt = a.attempt /\ app'.will = a.will /\ app'.online = a.online
      BY <1>4, <2>4 DEF AppTask
    <3> HIDE DEF r
    <3> QED
      BY <1>5, <2>4, <3>1, <3>2
  <2> QED
    BY <2>1, <2>2, <2>3, <2>4 DEF TakeResult, a
<1>7. /\ spawned' \in Seq(Requests)
      /\ (\A i \in DOMAIN spawned : NotNewer(spawned[i]))'
  <2>1. CASE UNCHANGED spawned
    BY <1>1, <1>6, <2>1 DEF Types, WillHeld, NotNewer
  <2>2. CASE spawned' = Append(spawned, Plain("DISCONNECT"))
    <3> DEFINE m == Plain("DISCONNECT")
    <3>1. m \in Requests /\ m.kind = "DISCONNECT"
      BY DEF Plain, Requests
    <3> HIDE DEF m
    <3>2. spawned' = Append(spawned, m)
      BY <2>2 DEF m
    <3>3. /\ spawned' \in Seq(Requests)
          /\ \A i \in DOMAIN spawned' :
            (i \in DOMAIN spawned /\ spawned'[i] = spawned[i]) \/ spawned'[i] = m
      BY <1>1, <3>1, <3>2, SpawnedGrows
    <3> QED
      BY <1>1, <1>6, <3>1, <3>3 DEF WillHeld, NotNewer
  <2> QED
    BY <1>6, <2>1, <2>2
<1>8. Types'
  BY <1>1, <1>2, <1>3, <1>6, <1>7 DEF Types
<1>9. WillHeld'
  BY <1>1, <1>2, <1>6, <1>7 DEF WillHeld, NotNewer
<1>10. AttemptsCurrent'
  <2>1. Current(r) /\ r.ok => Subscribed
    BY <1>1, <1>2, <1>3 DEF AttemptsCurrent, Current
  <2> HIDE DEF r
  <2>2. app'.online => app.client_online /\ Subscribed
    BY <1>1, <1>2, <1>6, <2>1 DEF AttemptsCurrent
  <2>3. Subscribed' <=> Subscribed
    BY <1>2 DEF Subscribed
  <2> QED
    BY <1>1, <1>2, <1>3, <1>6, <2>2, <2>3 DEF AttemptsCurrent
<1> QED
  BY <1>8, <1>9, <1>10 DEF IInv

(* A new attempt starts with the subscriptions.                            *)
LEMMA RetryFiresInv == ASSUME IInv, RetryFires PROVE IInv'
<1>1. Types /\ WillHeld /\ AttemptsCurrent /\ app \in AppTask /\ tasks \subseteq Attempts
  BY DEF IInv, Types
<1> DEFINE a == [app EXCEPT !.retry = FALSE]
<1>2. /\ app.pc = "poll" /\ UNCHANGED <<spawned, session, chan, conn, broker, clock>>
      /\ TryOnline(a)
  BY DEF RetryFires, net
<1>3. a \in AppTask /\ a.client_online = app.client_online /\ a.will = app.will
      /\ a.attempt = app.attempt /\ a.pc = app.pc /\ a.online = app.online
  BY <1>1 DEF AppTask
<1> HIDE DEF a
<1>4. /\ app' \in AppTask /\ tasks' \subseteq Attempts
      /\ app'.pc = app.pc /\ app'.online = app.online /\ app'.will = app.will
      /\ app'.client_online = app.client_online
      /\ \/ app'.attempt = app.attempt /\ tasks' = tasks
         \/ /\ app'.attempt = app.attempt + 1 /\ app.client_online
            /\ \A t \in tasks' : \/ t \in tasks
                                 \/ /\ t.attempt = app.attempt + 1
                                    /\ t.step = "SUBSCRIBE" /\ t.ts = app.will
  BY <1>1, <1>2, <1>3, TryOnlineEffect
<1>5. Types'
  BY <1>1, <1>2, <1>4 DEF Types
<1>6. WillHeld'
  <2>1. \A t \in tasks' : t.ts <= app'.will
    BY <1>1, <1>4, Parts DEF WillHeld
  <2> QED
    BY <1>1, <1>2, <1>4, <2>1 DEF WillHeld, NotNewer
<1>7. AttemptsCurrent'
  <2>1. Subscribed' <=> Subscribed
    BY <1>2 DEF Subscribed
  <2>2. CASE app'.attempt = app.attempt /\ tasks' = tasks
    BY <1>1, <1>2, <1>4, <2>1, <2>2 DEF AttemptsCurrent
  <2>3. CASE /\ app'.attempt = app.attempt + 1 /\ app.client_online
             /\ \A t \in tasks' : \/ t \in tasks
                                  \/ /\ t.attempt = app.attempt + 1
                                     /\ t.step = "SUBSCRIBE" /\ t.ts = app.will
    <3>1. \A t \in tasks : t.attempt < app'.attempt /\ t.attempt # app'.attempt
      BY <1>1, <2>3, Parts DEF AttemptsCurrent
    <3>2. \A i \in DOMAIN session : session[i].attempt < app'.attempt
                                    /\ session[i].attempt # app'.attempt
      BY <1>1, <2>3, Parts DEF AttemptsCurrent, Results
    <3>3. app'.attempt \in Nat /\ app.attempt \in Nat
      BY <1>1, <1>4 DEF AppTask
    <3>4. \A t \in tasks' : t.attempt <= app'.attempt
      BY <1>1, <2>3, <3>1, <3>3, Parts DEF AttemptsCurrent
    <3>5. \A i \in DOMAIN session : session[i].attempt <= app'.attempt
      BY <1>1, <3>2, <3>3, Parts DEF AttemptsCurrent, Results
    <3>6. \A t \in tasks' : t.attempt = app'.attempt => t.step = "SUBSCRIBE"
      BY <2>3, <3>1
    <3> QED
      BY <1>1, <1>2, <1>4, <2>1, <2>3, <3>2, <3>4, <3>5, <3>6 DEF AttemptsCurrent
  <2> QED
    BY <1>4, <2>2, <2>3
<1> QED
  BY <1>5, <1>6, <1>7 DEF IInv

(* Once the loop has stopped polling, it never reports itself online.      *)
LEMMA LoopEndsInv ==
  ASSUME IInv, NEW pc \in {"drain", "cancelled", "exited"}, app' = [app EXCEPT !.pc = pc],
         UNCHANGED <<tasks, spawned, session, chan, clock>>,
         conn' \in [state : {"down", "up", "closing"}, will : Nat],
         conn'.state = "up" => UNCHANGED conn,
         broker' \in [sub : BOOLEAN, online : BOOLEAN, ts : Nat],
         broker'.online => UNCHANGED broker
  PROVE  IInv'
<1>1. Types /\ WillHeld /\ AttemptsCurrent /\ app \in AppTask
  BY DEF IInv, Types
<1>2. app' \in AppTask
  BY <1>1 DEF AppTask
<1>3. /\ app'.pc = pc /\ pc # "poll" /\ app'.attempt = app.attempt /\ app'.will = app.will
  BY <1>1 DEF AppTask
<1>4. Types'
  BY <1>1, <1>2 DEF Types
<1>5. WillHeld'
  BY <1>1, <1>3 DEF WillHeld, NotNewer
<1>6. AttemptsCurrent'
  BY <1>1, <1>3 DEF AttemptsCurrent
<1> QED
  BY <1>4, <1>5, <1>6 DEF IInv

LEMMA LoopStepsInv == ASSUME IInv, TakeShutdown \/ DrainEnds \/ Exit PROVE IInv'
<1>1. Types
  BY DEF IInv
<1>2. CASE TakeShutdown
  BY <1>1, <1>2, LoopEndsInv DEF TakeShutdown, Types, net
<1>3. CASE DrainEnds
  BY <1>1, <1>3, LoopEndsInv DEF DrainEnds, Types, net
<1>4. CASE Exit
  <2>1. /\ app' = [app EXCEPT !.pc = "exited"]
        /\ UNCHANGED <<tasks, spawned, session, chan, clock>>
        /\ conn' = [conn EXCEPT !.state = "down"]
        /\ broker' \in {broker, [broker EXCEPT !.online = FALSE, !.ts = conn.will]}
    BY <1>4 DEF Exit, Retain, State
  <2>2. /\ conn' \in [state : {"down", "up", "closing"}, will : Nat] /\ conn'.state = "down"
        /\ broker' \in [sub : BOOLEAN, online : BOOLEAN, ts : Nat]
        /\ broker'.online => UNCHANGED broker
    BY <1>1, <2>1 DEF Types
  <2> QED
    BY <2>1, <2>2, LoopEndsInv
<1> QED
  BY <1>2, <1>3, <1>4

-----------------------------------------------------------------------------
(* The spawned tasks.                                                      *)
(* A request that is not newer than the will joins the channel.            *)
LEMMA RequestInv ==
  ASSUME IInv, NEW m \in Requests, NotNewer(m), chan' = Append(chan, m),
         UNCHANGED <<app, session, conn, broker>>,
         clock' \in Nat, clock' >= clock,
         spawned' \in Seq(Requests),
         \A i \in DOMAIN spawned' : \E k \in DOMAIN spawned : spawned'[i] = spawned[k],
         tasks' \subseteq Attempts,
         \A t \in tasks' : \E u \in tasks :
             /\ t.attempt = u.attempt /\ t.ts = u.ts
             /\ \/ t.step = u.step \/ t.step = "failed"
                \/ u.step = "SUBSCRIBE" /\ t.step = "PUBLISH" /\ m.kind = "SUBSCRIBE"
                \/ u.step = "PUBLISH" /\ t.step = "ok"
  PROVE  IInv'
<1>1. Types /\ WillHeld /\ AttemptsCurrent
  BY DEF IInv
<1>2. /\ chan' \in Seq(Requests) /\ (\A i \in DOMAIN chan : NotNewer(chan[i]))'
      /\ Subscribed => Subscribed'
      /\ m.kind = "SUBSCRIBE" => Subscribed'
  BY <1>1, ChanGrows
<1>3. Types'
  BY <1>1, <1>2 DEF Types
<1>4. WillHeld'
  <2>1. app'.will <= clock'
    BY <1>1, Parts DEF WillHeld
  <2>2. (\A i \in DOMAIN spawned : NotNewer(spawned[i]))'
    BY <1>1 DEF WillHeld, NotNewer
  <2>3. \A t \in tasks' : t.ts <= app'.will
    BY <1>1 DEF WillHeld
  <2> QED
    BY <1>1, <1>2, <2>1, <2>2, <2>3 DEF WillHeld
<1>5. AttemptsCurrent'
  <2>1. \A t \in tasks' : t.attempt <= app'.attempt
    BY <1>1 DEF AttemptsCurrent
  <2>2. app.pc = "poll" => \A t \in tasks' : t.attempt = app.attempt =>
              app.client_online /\ (t.step \in {"PUBLISH", "ok"} => Subscribed')
    BY <1>1, <1>2 DEF AttemptsCurrent
  <2> QED
    BY <1>1, <1>2, <2>1, <2>2 DEF AttemptsCurrent
<1> QED
  BY <1>3, <1>4, <1>5 DEF IInv

(* A task that has made a step.                                            *)
LEMMA Moved ==
  ASSUME tasks \subseteq Attempts, NEW t \in tasks,
         NEW step \in {"SUBSCRIBE", "PUBLISH", "ok", "failed"}, Move(t, step)
  PROVE  /\ tasks' \subseteq Attempts
         /\ \A u \in tasks' : \/ u \in tasks
                              \/ u.attempt = t.attempt /\ u.ts = t.ts /\ u.step = step
BY DEF Move, Attempts

LEMMA TaskSubscribesInv == ASSUME IInv, NEW t \in tasks, TaskSubscribes(t) PROVE IInv'
<1>1. Types /\ tasks \subseteq Attempts
  BY DEF IInv, Types
<1> DEFINE m == Plain("SUBSCRIBE")
<1>2. /\ UNCHANGED <<app, spawned, session, conn, broker, clock>> /\ t.step = "SUBSCRIBE"
      /\ chan' = Append(chan, m) /\ Move(t, "PUBLISH")
  BY DEF TaskSubscribes, net
<1>3. m \in Requests /\ NotNewer(m) /\ m.kind = "SUBSCRIBE"
  BY DEF Plain, Requests, NotNewer
<1> HIDE DEF m
<1>4. /\ tasks' \subseteq Attempts
      /\ \A u \in tasks' : \/ u \in tasks
                           \/ u.attempt = t.attempt /\ u.ts = t.ts /\ u.step = "PUBLISH"
  BY <1>1, <1>2, Moved
<1>5. clock' \in Nat /\ clock' >= clock /\ spawned' \in Seq(Requests)
  BY <1>1, <1>2 DEF Types
<1> QED
  BY <1>2, <1>3, <1>4, <1>5, RequestInv

LEMMA TaskPublishesInv == ASSUME IInv, NEW t \in tasks, TaskPublishes(t) PROVE IInv'
<1>1. Types /\ WillHeld /\ tasks \subseteq Attempts
  BY DEF IInv, Types
<1> DEFINE m == State(TRUE, t.ts)
<1>2. /\ UNCHANGED <<app, spawned, session, conn, broker, clock>> /\ t.step = "PUBLISH"
      /\ chan' = Append(chan, m) /\ Move(t, "ok")
  BY DEF TaskPublishes, net
<1>3. m \in Requests /\ NotNewer(m)
  BY <1>1 DEF State, Requests, NotNewer, WillHeld, Attempts
<1> HIDE DEF m
<1>4. /\ tasks' \subseteq Attempts
      /\ \A u \in tasks' : \/ u \in tasks
                           \/ u.attempt = t.attempt /\ u.ts = t.ts /\ u.step = "ok"
  BY <1>1, <1>2, Moved
<1>5. clock' \in Nat /\ clock' >= clock /\ spawned' \in Seq(Requests)
  BY <1>1, <1>2 DEF Types
<1> QED
  BY <1>2, <1>3, <1>4, <1>5, RequestInv

LEMMA TaskFailsInv == ASSUME IInv, NEW t \in tasks, TaskFails(t) PROVE IInv'
<1>1. Types /\ WillHeld /\ AttemptsCurrent /\ tasks \subseteq Attempts
  BY DEF IInv, Types
<1>2. /\ UNCHANGED <<app, spawned, session, chan, conn, broker, clock>>
      /\ Move(t, "failed")
  BY DEF TaskFails, net
<1>3. /\ tasks' \subseteq Attempts
      /\ \A u \in tasks' : \/ u \in tasks
                           \/ u.attempt = t.attempt /\ u.ts = t.ts /\ u.step = "failed"
  BY <1>1, <1>2, Moved
<1>4. Types'
  BY <1>1, <1>2, <1>3 DEF Types
<1>5. WillHeld'
  BY <1>1, <1>2, <1>3 DEF WillHeld, NotNewer
<1>6. AttemptsCurrent'
  BY <1>1, <1>2, <1>3 DEF AttemptsCurrent, Subscribed
<1> QED
  BY <1>4, <1>5, <1>6 DEF IInv

(* The result of a task is that of its attempt; "ok" comes after its       *)
(* subscriptions.                                                          *)
LEMMA TaskReportsInv == ASSUME IInv, NEW t \in tasks, TaskReports(t) PROVE IInv'
<1>1. Types /\ WillHeld /\ AttemptsCurrent /\ t \in Attempts
  BY DEF IInv, Types
<1> DEFINE r == [attempt |-> t.attempt, ok |-> (t.step = "ok")]
<1>2. /\ UNCHANGED <<app, spawned, chan, conn, broker, clock>>
      /\ session' = <<r>> /\ tasks' = tasks \ {t}
  BY DEF TaskReports, net
<1>3. r \in Results /\ r.attempt = t.attempt /\ (r.ok => t.step = "ok")
  BY <1>1 DEF Results, Attempts
<1> HIDE DEF r
<1>4. /\ session' \in Seq(Results) /\ Len(session') <= 1
      /\ \A i \in DOMAIN session' : session'[i] = r
  BY <1>2, <1>3
<1>5. Types'
  BY <1>1, <1>2, <1>4 DEF Types
<1>6. WillHeld'
  BY <1>1, <1>2 DEF WillHeld, NotNewer
<1>7. AttemptsCurrent'
  <2>1. Subscribed' <=> Subscribed
    BY <1>2 DEF Subscribed
  <2> QED
    BY <1>1, <1>2, <1>3, <1>4, <2>1 DEF AttemptsCurrent
<1> QED
  BY <1>5, <1>6, <1>7 DEF IInv

LEMMA SpawnedSendsInv == ASSUME IInv, NEW i \in DOMAIN spawned, SpawnedSends(i) PROVE IInv'
<1>1. Types /\ WillHeld /\ tasks \subseteq Attempts /\ spawned \in Seq(Requests)
  BY DEF IInv, Types
<1>2. /\ UNCHANGED <<app, tasks, session, conn, broker, clock>>
      /\ chan' = Append(chan, spawned[i]) /\ spawned' = RemoveNth(spawned, i)
  BY DEF SpawnedSends, net
<1>3. spawned[i] \in Requests /\ NotNewer(spawned[i])
  BY <1>1, Parts DEF WillHeld
<1>4. /\ spawned' \in Seq(Requests)
      /\ \A j \in DOMAIN spawned' : \E k \in DOMAIN spawned : spawned'[j] = spawned[k]
  BY <1>1, <1>2, RemoveElements
<1>5. clock' \in Nat /\ clock' >= clock
  BY <1>1, <1>2 DEF Types
<1> QED
  BY <1>1, <1>2, <1>3, <1>4, <1>5, RequestInv

-----------------------------------------------------------------------------
(* AppClient::cancel.                                                      *)
LEMMA CancelPublishesInv == ASSUME IInv, CancelPublishes PROVE IInv'
<1>1. Types /\ WillHeld /\ AttemptsCurrent /\ tasks \subseteq Attempts
  BY DEF IInv, Types
<1> DEFINE m == State(FALSE, clock + 1)
<1>2. /\ UNCHANGED <<app, tasks, spawned, session, conn, broker>> /\ clock' = clock + 1
      /\ \/ chan' = Append(chan, m)
         \/ UNCHANGED chan
  BY DEF CancelPublishes, net
<1>3. m \in Requests /\ NotNewer(m)
  BY <1>1 DEF State, Requests, NotNewer, Types
<1> HIDE DEF m
<1>4. clock' \in Nat /\ clock' >= clock /\ spawned' \in Seq(Requests)
  BY <1>1, <1>2 DEF Types
<1>5. CASE chan' = Append(chan, m)
  BY <1>1, <1>2, <1>3, <1>4, <1>5, RequestInv
<1>6. CASE UNCHANGED chan
  <2>1. Types'
    BY <1>1, <1>2, <1>4, <1>6 DEF Types
  <2>2. app'.will <= clock'
    BY <1>1, <1>2, <1>4, Parts DEF WillHeld
  <2>3. WillHeld'
    BY <1>1, <1>2, <1>6, <2>2 DEF WillHeld, NotNewer
  <2>4. AttemptsCurrent'
    BY <1>1, <1>2, <1>6 DEF AttemptsCurrent, Subscribed
  <2> QED
    BY <2>1, <2>3, <2>4 DEF IInv
<1> QED
  BY <1>2, <1>5, <1>6

LEMMA CancelDisconnectsInv == ASSUME IInv, CancelDisconnects PROVE IInv'
<1>1. Types /\ tasks \subseteq Attempts
  BY DEF IInv, Types
<1> DEFINE m == Plain("DISCONNECT")
<1>2. /\ UNCHANGED <<app, tasks, spawned, session, conn, broker, clock>>
      /\ chan' = Append(chan, m)
  BY DEF CancelDisconnects, net
<1>3. m \in Requests /\ NotNewer(m)
  BY DEF Plain, Requests, NotNewer
<1> HIDE DEF m
<1>4. clock' \in Nat /\ clock' >= clock /\ spawned' \in Seq(Requests)
  BY <1>1, <1>2 DEF Types
<1> QED
  BY <1>1, <1>2, <1>3, <1>4, RequestInv

(* Steps of none of the variables the invariant is about.                  *)
LEMMA UnchangedInv ==
  ASSUME IInv, UNCHANGED <<app, tasks, spawned, session, chan, conn, broker, clock>>
  PROVE  IInv'
<1>1. Types'
  BY DEF IInv, Types
<1>2. WillHeld'
  BY DEF IInv, WillHeld, NotNewer
<1>3. AttemptsCurrent'
  BY DEF IInv, AttemptsCurrent, Subscribed
<1> QED
  BY <1>1, <1>2, <1>3 DEF IInv

-----------------------------------------------------------------------------
LEMMA InitInv == ASSUME Init PROVE IInv
<1>1. Types
  BY DEF Init, Types, AppTask
<1>2. WillHeld
  BY DEF Init, WillHeld
<1>3. AttemptsCurrent
  BY DEF Init, AttemptsCurrent
<1> QED
  BY <1>1, <1>2, <1>3 DEF IInv

LEMMA NextInv == ASSUME IInv, [Next]_vars PROVE IInv'
<1>1. CASE PollConnect
  BY <1>1, PollConnectInv
<1>2. CASE PollRequest
  BY <1>2, PollRequestInv
<1>3. CASE PollState
  BY <1>3, PollStateInv
<1>4. CASE PollClosed
  BY <1>4, PollClosedInv
<1>5. CASE PollLost
  BY <1>5, PollLostInv
<1>6. CASE PollServerDisconnect
  BY <1>6, PollServerDisconnectInv
<1>7. CASE TakeResult
  BY <1>7, TakeResultInv
<1>8. CASE RetryFires
  BY <1>8, RetryFiresInv
<1>9. CASE TakeShutdown \/ DrainEnds \/ Exit
  BY <1>9, LoopStepsInv
<1>10. ASSUME NEW t \in tasks,
              TaskSubscribes(t) \/ TaskPublishes(t) \/ TaskFails(t) \/ TaskReports(t)
       PROVE  IInv'
  BY <1>10, TaskSubscribesInv, TaskPublishesInv, TaskFailsInv, TaskReportsInv
<1>11. ASSUME NEW i \in DOMAIN spawned, SpawnedSends(i) PROVE IInv'
  BY <1>11, SpawnedSendsInv
<1>12. CASE CancelPublishes
  BY <1>12, CancelPublishesInv
<1>13. CASE CancelShutdown \/ UNCHANGED vars
  BY <1>13, UnchangedInv DEF CancelShutdown, vars, net
<1>14. CASE CancelDisconnects
  BY <1>14, CancelDisconnectsInv
<1> QED
  BY <1>1, <1>2, <1>3, <1>4, <1>5, <1>6, <1>7, <1>8, <1>9, <1>10, <1>11, <1>12, <1>13, <1>14
  DEF Next

(* In every reachable state the invariant holds.                           *)
THEOREM Inductive == Spec => []IInv
BY InitInv, NextInv, PTL DEF Spec

(* The application never reports itself online on a connection that does   *)
(* not have its subscriptions: whatever broke in between, a late result of *)
(* an earlier attempt is not taken for one of the present attempt.         *)
THEOREM OnlineHears == Spec => []HearsNodes
<1>1. IInv => HearsNodes
  BY DEF IInv, AttemptsCurrent, HearsNodes, Subscribed
<1> QED
  BY <1>1, Inductive, PTL

(* Whenever the broker holds an ONLINE of the application, the will of its *)
(* connection is at least as new: the OFFLINE that announces its death is  *)
(* one that edge nodes heed.                                               *)
THEOREM WillAlwaysCovers == Spec => []WillCovers
<1>1. IInv => WillCovers
  BY DEF IInv, WillHeld, WillCovers
<1> QED
  BY <1>1, Inductive, PTL

=============================================================================
