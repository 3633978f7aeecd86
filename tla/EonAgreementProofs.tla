-------------------------- MODULE EonAgreementProofs --------------------------
(***************************************************************************)
(* Proofs that the node of EonSession, its event loop, the broker and the  *)
(* hosts agree, for every capacity of the request channel, any number of   *)
(* bdSeq values and any number of kicks, commands, rebirths and changes of *)
(* the primary host.  Connections that broke and requests the client       *)
(* refused are hypotheses of the theorems that need them.                  *)
(***************************************************************************)
EXTENDS EonSessionProofs

-----------------------------------------------------------------------------
(* What the steps of the node task do, field by field.                     *)
Keeps(s) ==
    /\ st'.online = s.online /\ st'.bdseq = s.bdseq
    /\ st'.host = s.host /\ st'.hostTs = s.hostTs

KeepsTask(n) == node'.clientOnline = n.clientOnline /\ node'.retry = n.retry

Rests(s, n) ==
    /\ Keeps(s) /\ st'.birthed = s.birthed
    /\ KeepsTask(n) /\ node'.pc = "idle" /\ node'.res = "wait"

Asks(s, n, p) ==
    /\ Keeps(s) /\ st'.birthed = s.birthed
    /\ KeepsTask(n) /\ node'.pc = p /\ node'.res = "wait"

Begins(s, n, type) ==
    /\ Keeps(s) /\ ~st'.birthed
    /\ KeepsTask(n) /\ node'.pc = "nbirth" /\ node'.res = "wait"
    /\ node'.type = type /\ node'.bd = s.bdseq

(* node_birth(), try_online() and its second half.                         *)
LEMMA BeginBirthEffect ==
  ASSUME NEW s \in EoNState, NEW n \in NodeTask, NEW type, BeginBirth(s, n, type)
  PROVE  Begins(s, n, type)
<1>1. Keeps(s) /\ ~st'.birthed
  BY DEF BeginBirth, StartBirth, EoNState, Keeps
<1>2. /\ KeepsTask(n) /\ node'.pc = "nbirth" /\ node'.res = "wait"
      /\ node'.type = type /\ node'.bd = s.bdseq
  BY DEF BeginBirth, Await, NodeTask, KeepsTask
<1> QED
  BY <1>1, <1>2 DEF Begins

LEMMA TaskEffect ==
  ASSUME NEW s \in EoNState, NEW n \in NodeTask, st' = s
  PROVE  /\ node' = Idle(n) => Rests(s, n)
         /\ \A p : node' = Await(n, p) => Asks(s, n, p)
BY DEF Idle, Await, NodeTask, EoNState, Rests, Asks, Keeps, KeepsTask

LEMMA EnsureBirthedEffect ==
  ASSUME NEW s \in EoNState, NEW n \in NodeTask, EnsureBirthed(s, n)
  PROVE  \/ Rests(s, n) /\ (s.birthed \/ ~ReadyToBirth(s))
         \/ Begins(s, n, "Birth") /\ ~s.birthed /\ ReadyToBirth(s)
BY TaskEffect, BeginBirthEffect DEF EnsureBirthed

LEMMA TryOnlineEffect ==
  ASSUME NEW s \in EoNState, NEW n \in NodeTask, TryOnline(s, n)
  PROVE  \/ Rests(s, n) /\ (~n.clientOnline \/ n.retry)
         \/ Asks(s, n, "sub") /\ n.clientOnline /\ ~n.retry /\ ~s.online
         \/ /\ Rests(s, n) /\ n.clientOnline /\ ~n.retry /\ s.online
            /\ s.birthed \/ ~ReadyToBirth(s)
         \/ /\ Begins(s, n, "Birth") /\ n.clientOnline /\ ~n.retry /\ s.online
            /\ ~s.birthed /\ ReadyToBirth(s)
BY TaskEffect, EnsureBirthedEffect DEF TryOnline

(* What no step of the node task touches.                                  *)
Elsewhere ==
    /\ UNCHANGED <<stop, cancel, client, broker, inbox, host>>
    /\ loop'.pc = loop.pc /\ loop'.mode = loop.mode /\ loop'.ev = loop.ev
    /\ env'.losses = env.losses /\ env'.rebirths = env.rebirths /\ env'.cmds = env.cmds

LEMMA NodeElsewhere ==
  ASSUME SessionTypes, NodeStep
  PROVE  Elsewhere
<1>1. loop \in LoopTask /\ env \in [Counters -> Nat]
  BY DEF SessionTypes
<1>2. UNCHANGED <<stop, cancel, client, broker, inbox, host>>
  BY DEF NodeStep, NodeOnlyStep, NodeSend, NodeSendFails, Subscribed, SubscribeFailed,
         Birthed, BirthFailed, DeathSent, DisconnectSent, TakeOnline, TakeOffline,
         TakeState, TakeStopped, RetryFires, TakeRebirth, TakeCommand, netVars, appVars
<1>3. env'.losses = env.losses /\ env'.rebirths = env.rebirths /\ env'.cmds = env.cmds
  <2>1. env' = env \/ env' = [env EXCEPT !.fails = @ + 1]
    BY DEF NodeStep, NodeOnlyStep, NodeSend, NodeSendFails, Subscribed, SubscribeFailed,
           Birthed, BirthFailed, DeathSent, DisconnectSent, TakeOnline, TakeOffline,
           TakeState, TakeStopped, RetryFires, TakeRebirth, TakeCommand
  <2> QED
    BY <1>1, <2>1 DEF Counters
<1>4. loop'.pc = loop.pc /\ loop'.mode = loop.mode /\ loop'.ev = loop.ev
  <2>1. loop' = loop \/ \E r : loop' = [loop EXCEPT !.reply = r]
    BY DEF NodeStep, NodeOnlyStep, NodeSend, NodeSendFails, Subscribed, SubscribeFailed,
           Birthed, BirthFailed, DeathSent, DisconnectSent, TakeOnline, TakeOffline,
           TakeState, TakeStopped, RetryFires, TakeRebirth, TakeCommand
  <2> QED
    BY <1>1, <2>1 DEF LoopTask
<1> QED
  BY <1>2, <1>3, <1>4 DEF Elsewhere

(* A request leaves, or is refused.                                        *)
SameTask ==
    /\ KeepsTask(node) /\ node'.pc = node.pc /\ node'.type = node.type
    /\ node'.bd = node.bd

LEMMA SendEffect ==
  ASSUME SessionTypes, NodeSend
  PROVE  /\ node.pc \in Awaiting /\ node.res = "wait" /\ loop.pc # "done" /\ Room
         /\ chan' = Append(chan, NodeRequest) /\ UNCHANGED <<st, loop, cs, env>>
         /\ SameTask /\ node'.res = "ok"
BY DEF NodeSend, SessionTypes, NodeTask, SameTask, KeepsTask, ClientGone

LEMMA RefusedEffect ==
  ASSUME SessionTypes, NodeSendFails
  PROVE  /\ node.pc \in Awaiting /\ node.res = "wait" /\ UNCHANGED <<st, loop, cs, chan>>
         /\ SameTask /\ node'.res = "err" /\ env'.fails >= env.fails
         /\ env'.fails > 0 \/ loop.pc = "done"
<1>1. env.fails \in Nat /\ env \in [Counters -> Nat]
  BY DEF SessionTypes, Counters
<1>2. env' = env \/ env' = [env EXCEPT !.fails = @ + 1]
  BY DEF NodeSendFails
<1>3. env' = [env EXCEPT !.fails = @ + 1] => env'.fails = env.fails + 1
  BY <1>1 DEF Counters
<1>4. env'.fails >= env.fails /\ (env'.fails > 0 \/ loop.pc = "done")
  BY <1>1, <1>2, <1>3 DEF NodeSendFails, ClientGone
<1> QED
  BY <1>4 DEF NodeSendFails, SessionTypes, NodeTask, SameTask, KeepsTask

(* What follows the client's answer.                                       *)
LEMMA SubscribedEffect ==
  ASSUME SessionTypes, Subscribed
  PROVE  /\ node.pc = "sub" /\ node.res = "ok" /\ UNCHANGED <<loop, cs, chan, env>>
         /\ st'.online /\ st'.bdseq = st.bdseq /\ st'.host = st.host
         /\ st'.hostTs = st.hostTs /\ KeepsTask(node) /\ node'.res = "wait"
         /\ \/ /\ st'.birthed = st.birthed /\ node'.pc = "idle"
               /\ st.birthed \/ (PrimaryHost /\ ~st.host)
            \/ /\ ~st.birthed /\ ~st'.birthed /\ node'.pc = "nbirth"
               /\ node'.type = "Birth" /\ node'.bd = st.bdseq
<1> DEFINE s == SetOnline(st, TRUE)
<1>1. st \in EoNState /\ node \in NodeTask
  BY DEF SessionTypes
<1>2. /\ s \in EoNState /\ s.online /\ s.bdseq = st.bdseq /\ s.host = st.host
      /\ s.hostTs = st.hostTs /\ s.birthed = st.birthed
  BY <1>1 DEF SetOnline, EoNState
<1>3. EnsureBirthed(s, node)
  BY DEF Subscribed
<1> HIDE DEF s
<1>4. \/ Rests(s, node) /\ (s.birthed \/ ~ReadyToBirth(s))
      \/ Begins(s, node, "Birth") /\ ~s.birthed /\ ReadyToBirth(s)
  BY <1>1, <1>2, <1>3, EnsureBirthedEffect
<1> QED
  BY <1>2, <1>4 DEF Subscribed, Rests, Begins, Keeps, ReadyToBirth

LEMMA SubscribeFailedEffect ==
  ASSUME SessionTypes, SubscribeFailed
  PROVE  /\ node.pc = "sub" /\ node.res = "err" /\ UNCHANGED <<st, loop, cs, chan, env>>
         /\ node'.pc = "disc" /\ node'.res = "wait" /\ node'.retry
         /\ node'.clientOnline = node.clientOnline
BY DEF SubscribeFailed, SessionTypes, NodeTask, Await

LEMMA BirthedEffect ==
  ASSUME SessionTypes, Birthed
  PROVE  /\ node.pc = "nbirth" /\ node.res = "ok" /\ UNCHANGED <<loop, cs, chan, env>>
         /\ Keeps(st) /\ st'.birthed
         /\ KeepsTask(node) /\ node'.pc = "idle" /\ node'.res = "wait"
BY DEF Birthed, SessionTypes, NodeTask, EoNState, Idle, BirthCompleted, Keeps, KeepsTask

LEMMA BirthFailedEffect ==
  ASSUME SessionTypes, BirthFailed
  PROVE  /\ node.pc = "nbirth" /\ node.res = "err" /\ UNCHANGED <<loop, cs, chan, env>>
         /\ st'.birthed = st.birthed /\ st'.bdseq = st.bdseq /\ st'.host = st.host
         /\ st'.hostTs = st.hostTs /\ node'.clientOnline = node.clientOnline
         /\ node'.res = "wait"
         /\ \/ ~st'.online /\ node'.pc = "disc" /\ node'.retry
            \/ /\ st'.online = st.online /\ node'.pc = "idle" /\ node.type = "Rebirth"
               /\ node'.retry = node.retry
BY DEF BirthFailed, SessionTypes, NodeTask, EoNState, Idle, Await, SetOnline

LEMMA DeathSentEffect ==
  ASSUME SessionTypes, DeathSent
  PROVE  /\ node.pc = "ndeath" /\ node.res # "wait" /\ UNCHANGED <<loop, cs, chan, env>>
         /\ Keeps(st) /\ ~st'.birthed
         /\ KeepsTask(node) /\ node'.pc = "disc" /\ node'.res = "wait"
BY DEF DeathSent, SessionTypes, NodeTask, EoNState, Await, SetDead, Keeps, KeepsTask

LEMMA DisconnectSentEffect ==
  ASSUME SessionTypes, DisconnectSent
  PROVE  /\ node.pc = "disc" /\ node.res # "wait" /\ UNCHANGED <<st, loop, cs, chan, env>>
         /\ KeepsTask(node) /\ node'.pc = "idle" /\ node'.res = "wait"
BY DEF DisconnectSent, SessionTypes, NodeTask, Idle, KeepsTask

(* try_online() of a task that is connected if c, has a retry armed if r,  *)
(* and takes the primary host for online if h.                             *)
Tried(c, r, h) ==
    /\ st'.online = st.online /\ st'.bdseq = st.bdseq /\ st'.host = h
    /\ node'.clientOnline = c /\ node'.retry = r /\ node'.res = "wait"
    /\ \/ /\ st'.birthed = st.birthed /\ node'.pc = "idle"
          /\ ~c \/ r \/ st.birthed \/ (PrimaryHost /\ ~h)
       \/ /\ st'.birthed = st.birthed /\ node'.pc = "sub"
          /\ c /\ ~r /\ ~st.online
       \/ /\ ~st.birthed /\ ~st'.birthed /\ node'.pc = "nbirth"
          /\ node'.type = "Birth" /\ node'.bd = st.bdseq
          /\ c /\ ~r /\ st.online

LEMMA TriedOf ==
  ASSUME NEW s \in EoNState, NEW n \in NodeTask, TryOnline(s, n),
         s.online = st.online, s.bdseq = st.bdseq, s.birthed = st.birthed
  PROVE  Tried(n.clientOnline, n.retry, s.host) /\ st'.hostTs = s.hostTs
BY TryOnlineEffect DEF Rests, Asks, Begins, Keeps, KeepsTask, Tried, ReadyToBirth

LEMMA OnlineEffect ==
  ASSUME SessionTypes, TakeOnline
  PROVE  /\ cs # <<>> /\ Head(cs).kind = "Online" /\ cs' = <<>> /\ node.pc = "idle"
         /\ UNCHANGED <<loop, chan, env>>
         /\ Tried(TRUE, node.retry, st.host) /\ st'.hostTs = st.hostTs
<1> DEFINE n == [node EXCEPT !.clientOnline = TRUE]
<1>1. /\ st \in EoNState /\ n \in NodeTask /\ n.clientOnline = TRUE
      /\ n.retry = node.retry
  BY DEF SessionTypes, NodeTask
<1>2. TryOnline(st, n)
  BY DEF TakeOnline
<1> HIDE DEF n
<1>3. Tried(n.clientOnline, n.retry, st.host) /\ st'.hostTs = st.hostTs
  BY <1>1, <1>2, TriedOf
<1> QED
  BY <1>1, <1>3, TakeTypes DEF TakeOnline, TakeClientState

LEMMA OfflineEffect ==
  ASSUME SessionTypes, TakeOffline
  PROVE  /\ cs # <<>> /\ Head(cs).kind = "Offline" /\ cs' = <<>> /\ node.pc = "idle"
         /\ UNCHANGED <<chan, env>>
         /\ node'.pc = "idle" /\ node'.res = node.res /\ ~node'.clientOnline
         /\ node'.retry = node.retry
         /\ ~st'.host /\ st'.hostTs = st.hostTs /\ ~st'.online
         /\ st.online => ~st'.birthed /\ st'.bdseq \in BdSeq
         /\ ~st.online => st'.birthed = st.birthed /\ st'.bdseq = st.bdseq
         /\ loop'.reply = IF Head(cs).awaited
                          THEN IF st.online THEN st'.bdseq ELSE NoBd ELSE loop.reply
<1>1. st \in EoNState /\ node \in NodeTask /\ loop \in LoopTask
  BY DEF SessionTypes
<1>2. /\ cs # <<>> /\ Head(cs).kind = "Offline" /\ cs' = <<>> /\ node.pc = "idle"
      /\ UNCHANGED <<chan, env>>
  BY TakeTypes DEF TakeOffline, TakeClientState
<1>3. /\ node'.pc = "idle" /\ node'.res = node.res /\ ~node'.clientOnline
      /\ node'.retry = node.retry
  BY <1>1, <1>2 DEF TakeOffline, NodeTask
<1>4. /\ ~st'.host /\ st'.hostTs = st.hostTs /\ ~st'.online
      /\ st.online => ~st'.birthed /\ st'.bdseq = (st.bdseq + 1) % BdMod
      /\ ~st.online => st'.birthed = st.birthed /\ st'.bdseq = st.bdseq
  BY <1>1 DEF TakeOffline, EoNState, ResetPrimaryHost, SetPrimaryHostOnline, SetOnline,
              SetDead, NextBdSeq
<1>5. (st.bdseq + 1) % BdMod \in BdSeq
  BY <1>1, Constants DEF EoNState, BdSeq
<1>6. loop'.reply = IF Head(cs).awaited
                    THEN IF st.online THEN st'.bdseq ELSE NoBd ELSE loop.reply
  BY <1>1 DEF TakeOffline, LoopTask
<1> QED
  BY <1>2, <1>3, <1>4, <1>5, <1>6

(* A STATE that is refused, of a host that is online, or offline.          *)
LEMMA StateEffect ==
  ASSUME SessionTypes, TakeState
  PROVE  /\ cs # <<>> /\ Head(cs) \in States /\ cs' = <<>> /\ node.pc = "idle"
         /\ UNCHANGED <<loop, chan, env>>
         /\ \/ Head(cs).ts < st.hostTs /\ UNCHANGED <<st, node>>
            \/ /\ Head(cs).ts >= st.hostTs /\ Head(cs).online
               /\ Tried(node.clientOnline, node.retry, TRUE) /\ st'.hostTs = Head(cs).ts
            \/ /\ Head(cs).ts >= st.hostTs /\ ~Head(cs).online
               /\ st'.online = st.online /\ st'.bdseq = st.bdseq /\ ~st'.host
               /\ st'.birthed = st.birthed /\ st'.hostTs = Head(cs).ts
               /\ KeepsTask(node)
               /\ ~st.birthed => node' = node
               /\ st.birthed => /\ node'.pc = "ndeath" /\ node'.res = "wait"
                                /\ node'.bd = st.bdseq
<1> DEFINE m == Head(cs)
           s == UpdatePrimaryHostTimestamp(SetPrimaryHostOnline(st, m.online), m.ts)
<1>1. st \in EoNState /\ node \in NodeTask
  BY DEF SessionTypes
<1>2. /\ cs # <<>> /\ m \in ClientStateMessages /\ m.kind = "State" /\ cs' = <<>>
      /\ node.pc = "idle" /\ UNCHANGED <<loop, chan, env>>
  BY TakeTypes DEF TakeState, TakeClientState
<1>3. m \in States /\ m.online \in BOOLEAN /\ m.ts \in Nat
  BY <1>2 DEF ClientStateMessages, States
<1>4. \/ ~NotOlder(st, m.ts) /\ UNCHANGED <<st, node>>
      \/ NotOlder(st, m.ts) /\ m.online /\ TryOnline(s, node)
      \/ /\ NotOlder(st, m.ts) /\ ~m.online /\ st' = s
         /\ node' = IF st.birthed THEN [Await(node, "ndeath") EXCEPT !.bd = st.bdseq] ELSE node
  BY DEF TakeState
<1> HIDE DEF m
<1>5. /\ s \in EoNState /\ s.online = st.online /\ s.bdseq = st.bdseq
      /\ s.birthed = st.birthed /\ s.host = m.online /\ s.hostTs = m.ts
  BY <1>1, <1>3 DEF UpdatePrimaryHostTimestamp, SetPrimaryHostOnline, EoNState
<1>6. st.hostTs \in Nat /\ (NotOlder(st, m.ts) <=> m.ts >= st.hostTs)
  BY <1>1 DEF NotOlder, EoNState
<1> HIDE DEF s
<1>7. CASE ~NotOlder(st, m.ts) /\ UNCHANGED <<st, node>>
  <2>1. m.ts < st.hostTs
    BY <1>3, <1>6, <1>7
  <2> QED
    BY <1>2, <1>3, <1>7, <2>1 DEF m
<1>8. CASE NotOlder(st, m.ts) /\ m.online /\ TryOnline(s, node)
  <2>1. Tried(node.clientOnline, node.retry, TRUE) /\ st'.hostTs = m.ts
    BY <1>1, <1>3, <1>5, <1>8, TriedOf
  <2> QED
    BY <1>2, <1>3, <1>6, <1>8, <2>1 DEF m
<1>9. CASE /\ NotOlder(st, m.ts) /\ ~m.online /\ st' = s
           /\ node' = IF st.birthed THEN [Await(node, "ndeath") EXCEPT !.bd = st.bdseq]
                      ELSE node
  <2>1. /\ KeepsTask(node)
        /\ ~st.birthed => node' = node
        /\ st.birthed => node'.pc = "ndeath" /\ node'.res = "wait" /\ node'.bd = st.bdseq
    BY <1>1, <1>9 DEF Await, NodeTask, KeepsTask
  <2> QED
    BY <1>2, <1>3, <1>5, <1>6, <1>9, <2>1 DEF m
<1> QED
  BY <1>4, <1>7, <1>8, <1>9

LEMMA StoppedEffect ==
  ASSUME SessionTypes, TakeStopped
  PROVE  /\ cs # <<>> /\ Head(cs).kind = "Stopped" /\ cs' = <<>> /\ node.pc = "idle"
         /\ UNCHANGED <<st, loop, chan, env>>
         /\ KeepsTask(node) /\ node'.pc = "stopped" /\ node'.res = node.res
BY TakeTypes DEF TakeStopped, TakeClientState, SessionTypes, NodeTask, KeepsTask

(* What the idle task does of its own accord.                              *)
LEMMA RetryEffect ==
  ASSUME SessionTypes, RetryFires
  PROVE  /\ node.pc = "idle" /\ node.retry /\ UNCHANGED <<loop, cs, chan, env>>
         /\ Tried(node.clientOnline, FALSE, st.host) /\ st'.hostTs = st.hostTs
<1> DEFINE n == [node EXCEPT !.retry = FALSE]
<1>1. /\ st \in EoNState /\ n \in NodeTask /\ n.clientOnline = node.clientOnline
      /\ n.retry = FALSE
  BY DEF SessionTypes, NodeTask
<1>2. TryOnline(st, n)
  BY DEF RetryFires
<1> HIDE DEF n
<1>3. Tried(n.clientOnline, n.retry, st.host) /\ st'.hostTs = st.hostTs
  BY <1>1, <1>2, TriedOf
<1> QED
  BY <1>1, <1>3 DEF RetryFires

LEMMA RebirthEffect ==
  ASSUME SessionTypes, TakeRebirth
  PROVE  /\ node.pc = "idle" /\ rebirthRx /\ UNCHANGED <<loop, cs, chan, env>>
         /\ \/ st.birthed /\ Begins(st, node, "Rebirth")
            \/ UNCHANGED <<st, node>>
BY BeginBirthEffect DEF TakeRebirth, SessionTypes

LEMMA CommandEffect ==
  ASSUME SessionTypes, TakeCommand
  PROVE  /\ node.pc = "idle" /\ cmds > 0 /\ UNCHANGED <<loop, cs, chan, env>>
         /\ \/ st.birthed /\ Begins(st, node, "Rebirth")
            \/ st' = st /\ SameTask /\ node'.res = node.res
<1> DEFINE n == [node EXCEPT !.cool = TRUE]
<1>1. /\ st \in EoNState /\ SetDead(st) \in EoNState /\ node \in NodeTask
      /\ n \in NodeTask /\ n.clientOnline = node.clientOnline /\ n.retry = node.retry
      /\ n.pc = node.pc /\ n.res = node.res /\ n.type = node.type /\ n.bd = node.bd
  BY StateTypes DEF SessionTypes, NodeTask
<1>2. \/ UNCHANGED <<st, node>>
      \/ st.birthed /\ BeginBirth(SetDead(st), n, "Rebirth")
      \/ st' = st /\ node' = n
  BY DEF TakeCommand
<1>3. SetDead(st).online = st.online /\ SetDead(st).bdseq = st.bdseq
      /\ SetDead(st).host = st.host /\ SetDead(st).hostTs = st.hostTs
  BY <1>1 DEF SetDead, EoNState
<1> HIDE DEF n
<1>4. BeginBirth(SetDead(st), n, "Rebirth") => Begins(st, node, "Rebirth")
  <2>1. BeginBirth(SetDead(st), n, "Rebirth") => Begins(SetDead(st), n, "Rebirth")
    BY <1>1, BeginBirthEffect
  <2> QED
    BY <1>1, <1>3, <2>1 DEF Begins, Keeps, KeepsTask
<1>5. UNCHANGED node \/ node' = n => SameTask /\ node'.res = node.res
  BY <1>1 DEF SameTask, KeepsTask
<1> QED
  BY <1>2, <1>4, <1>5 DEF TakeCommand

-----------------------------------------------------------------------------
(* What the steps of the event loop do.                                    *)
SameState == Keeps(st) /\ st'.birthed = st.birthed
SameClient ==
    /\ client'.conn = client.conn /\ client'.will = client.will
    /\ client'.nextWill = client.nextWill

LoopElsewhere ==
    /\ SameState /\ UNCHANGED <<node, chan, host, env, cancel, rebirthRx, cmds>>

LEMMA RunEffect ==
  ASSUME SessionTypes, Run
  PROVE  /\ LoopElsewhere /\ UNCHANGED <<cs, stop, broker, inbox>>
         /\ loop.pc = "start" /\ loop'.pc = "poll"
         /\ loop'.mode = loop.mode /\ loop'.ev = loop.ev /\ loop'.reply = loop.reply
         /\ client'.conn = client.conn /\ client'.will = client.will
         /\ client'.nextWill = st.bdseq
BY DEF Run, SessionTypes, LoopTask, EoNState, LoopElsewhere, SameState, Keeps, appVars

LEMMA LoopSendEffect ==
  ASSUME SessionTypes, LoopSend
  PROVE  /\ LoopElsewhere /\ SameClient /\ UNCHANGED <<stop, broker, inbox>>
         /\ loop.pc = "send" /\ cs = <<>> /\ cs' # <<>> /\ Head(cs') = loop.ev
         /\ loop'.ev.kind = "Online" /\ loop'.mode = loop.mode
         /\ loop.ev.kind = "Offline" => loop'.pc = "will" /\ loop'.reply = Pending
         /\ loop.ev.kind # "Offline" => loop'.pc = "poll" /\ loop'.reply = loop.reply
BY DEF LoopSend, SessionTypes, LoopTask, LoopElsewhere, SameState, SameClient, Keeps, Online,
       netVars, appVars

LEMMA GotWillEffect ==
  ASSUME SessionTypes, LoopGotWill
  PROVE  /\ LoopElsewhere /\ UNCHANGED <<cs, stop, broker, inbox>>
         /\ loop.pc = "will" /\ loop.reply # Pending /\ loop'.reply = NoBd
         /\ loop'.pc = (IF loop.mode = "run" THEN "poll" ELSE "stopping")
         /\ loop'.mode = loop.mode /\ loop'.ev = loop.ev
         /\ client'.conn = client.conn /\ client'.will = client.will
         /\ client'.nextWill = IF loop.reply = NoBd THEN client.nextWill ELSE loop.reply
BY DEF LoopGotWill, SessionTypes, LoopTask, LoopElsewhere, SameState, Keeps, appVars

LEMMA LoopStopEffect ==
  ASSUME SessionTypes, LoopStop
  PROVE  /\ LoopElsewhere /\ SameClient /\ UNCHANGED <<cs, broker, inbox>>
         /\ loop.pc = "poll" /\ loop.mode = "run" /\ stop /\ ~stop'
         /\ loop'.pc = "check" /\ loop'.mode = "drain"
         /\ loop'.ev = loop.ev /\ loop'.reply = loop.reply
BY DEF LoopStop, SessionTypes, LoopTask, LoopElsewhere, SameState, SameClient, Keeps, netVars

LEMMA DrainCheckEffect ==
  ASSUME SessionTypes, DrainCheck
  PROVE  /\ LoopElsewhere /\ SameClient /\ UNCHANGED <<cs, stop, broker, inbox>>
         /\ loop.pc = "check" /\ loop'.pc = (IF st.online THEN "poll" ELSE "stopping")
         /\ loop'.mode = loop.mode /\ loop'.ev = loop.ev /\ loop'.reply = loop.reply
BY DEF DrainCheck, SessionTypes, LoopTask, LoopElsewhere, SameState, SameClient, Keeps, netVars,
       appVars

LEMMA DrainTimeoutEffect ==
  ASSUME SessionTypes, DrainTimeout
  PROVE  /\ LoopElsewhere /\ SameClient /\ UNCHANGED <<stop, broker, inbox>>
         /\ loop.mode = "drain" /\ loop.pc \in {"poll", "send", "will"}
         /\ loop'.pc = "send" /\ loop'.mode = "last" /\ loop'.ev = Offline
         /\ loop'.reply = NoBd
         /\ cs' # <<>> => cs # <<>> /\ Head(cs').kind = Head(cs).kind
         /\ cs' # <<>> /\ Head(cs).kind # "Offline" => Head(cs') = Head(cs)
<1>1. /\ DOMAIN cs' = DOMAIN cs
      /\ \A i \in DOMAIN cs : cs'[i] = IF cs[i].kind = "Offline"
              THEN [cs[i] EXCEPT !.awaited = FALSE] ELSE cs[i]
  BY DEF DrainTimeout
<1>2. cs \in Seq(ClientStateMessages) /\ cs' \in Seq(ClientStateMessages)
  BY LoopStepTypes DEF SessionTypes, LoopStep
<1>3. ASSUME cs' # <<>>
      PROVE  /\ cs # <<>> /\ Head(cs').kind = Head(cs).kind
             /\ Head(cs).kind # "Offline" => Head(cs') = Head(cs)
  <2>1. Len(cs') = Len(cs) /\ Len(cs) >= 1 /\ cs # <<>> /\ 1 \in DOMAIN cs
    BY <1>1, <1>2, <1>3
  <2>2. Head(cs) = cs[1] /\ Head(cs') = cs'[1] /\ cs[1] \in ClientStateMessages
    BY <1>2, <1>3, <2>1
  <2>3. cs'[1].kind = cs[1].kind /\ (cs[1].kind # "Offline" => cs'[1] = cs[1])
    BY <1>1, <2>1, <2>2 DEF ClientStateMessages, States
  <2> QED
    BY <2>1, <2>2, <2>3
<1>4. /\ LoopElsewhere /\ SameClient /\ UNCHANGED <<stop, broker, inbox>>
      /\ loop.mode = "drain" /\ loop.pc \in {"poll", "send", "will"}
      /\ loop'.pc = "send" /\ loop'.mode = "last" /\ loop'.ev = Offline
      /\ loop'.reply = NoBd
  BY DEF DrainTimeout, SessionTypes, LoopTask, LoopElsewhere, SameState, SameClient, Keeps,
         netVars, appVars
<1> QED
  BY <1>3, <1>4

LEMMA LoopDoneEffect ==
  ASSUME SessionTypes, LoopDone
  PROVE  /\ LoopElsewhere /\ UNCHANGED stop
         /\ loop.pc = "stopping" /\ loop'.pc = "done"
         /\ loop'.mode = loop.mode /\ loop'.ev = loop.ev /\ loop'.reply = loop.reply
         /\ cs = <<>> /\ cs' # <<>> /\ Head(cs').kind = "Stopped"
         /\ client'.conn = "down" /\ client'.will = client.will
         /\ client'.nextWill = client.nextWill /\ inbox' = <<>>
         /\ broker'.sub = broker.sub /\ broker'.bd = broker.bd
         /\ broker'.view = IF client.conn = "up" /\ broker.view = client.will THEN NoBd
                           ELSE broker.view
BY DEF LoopDone, SessionTypes, LoopTask, EoNState, LoopElsewhere, SameState, Keeps, appVars, Dies,
       Stopped

-----------------------------------------------------------------------------
(* What the client's poll() does.                                          *)
PollElsewhere ==
    /\ UNCHANGED <<st, node, cs, host, stop, cancel, rebirthRx>> /\ loop.pc = "poll"
    /\ loop'.mode = loop.mode /\ loop'.reply = loop.reply
    /\ env'.fails = env.fails /\ env'.rebirths = env.rebirths

Got(ev) ==
    IF loop.mode = "run" \/ ev.kind = "Offline"
    THEN loop'.pc = "send" /\ loop'.ev = ev
    ELSE loop'.pc = "check" /\ loop'.ev = loop.ev

LEMMA GotEffect ==
  ASSUME SessionTypes, NEW ev, GotEvent(ev)
  PROVE  Got(ev) /\ loop'.mode = loop.mode /\ loop'.reply = loop.reply
BY DEF GotEvent, SessionTypes, LoopTask, Got

LEMMA ConnectEffect ==
  ASSUME SessionTypes, PollConnect
  PROVE  /\ PollElsewhere /\ Got(Online) /\ UNCHANGED <<chan, inbox, env, cmds>>
         /\ client.conn = "down" /\ client'.conn = "up"
         /\ client'.will = client.nextWill /\ client'.nextWill = client.nextWill
         /\ ~broker'.sub /\ broker'.bd = NoBd /\ broker'.view = broker.view
<1>1. Got(Online) /\ loop'.mode = loop.mode /\ loop'.reply = loop.reply
  BY GotEffect DEF PollConnect
<1> QED
  BY <1>1 DEF PollConnect, SessionTypes, PollElsewhere, appVars

(* The first request is taken, whoever made it,                            *)
LEMMA RequestTaken ==
  ASSUME SessionTypes, PollRequest
  PROVE  /\ PollElsewhere /\ UNCHANGED <<env, cmds>>
         /\ client.conn # "down" /\ client'.will = client.will
         /\ client'.nextWill = client.nextWill
         /\ chan # <<>> /\ chan' = Tail(chan)
         /\ client.conn # "up" => UNCHANGED <<broker, inbox>>
         /\ Head(chan).kind = "DISCONNECT" => client'.conn = "closing" /\ Got(Offline)
         /\ Head(chan).kind # "DISCONNECT" =>
                client'.conn = client.conn /\ loop'.pc = loop.pc /\ loop'.ev = loop.ev
<1> DEFINE m == Head(chan)
<1>1. /\ UNCHANGED <<st, node, cs, host, env, rebirthRx, cmds, cancel, stop>>
      /\ loop.pc = "poll" /\ client.conn # "down" /\ chan # <<>> /\ chan' = Tail(chan)
  BY DEF PollRequest, appVars
<1>2. client.conn # "up" => UNCHANGED <<broker, inbox>>
  BY DEF PollRequest
<1>3. IF m.kind = "DISCONNECT" THEN client' = [client EXCEPT !.conn = "closing"] /\ GotEvent(Offline)
      ELSE UNCHANGED <<client, loop>>
  BY DEF PollRequest
<1> HIDE DEF m
<1>4. /\ loop'.mode = loop.mode /\ loop'.reply = loop.reply
      /\ m.kind = "DISCONNECT" => Got(Offline)
  BY <1>3, GotEffect
<1>5. /\ client'.will = client.will /\ client'.nextWill = client.nextWill
      /\ m.kind = "DISCONNECT" => client'.conn = "closing"
  BY <1>3 DEF SessionTypes
<1> QED
  BY <1>1, <1>2, <1>3, <1>4, <1>5 DEF m, PollElsewhere

(* and if the connection stands, delivered.                                *)
LEMMA RequestEffect ==
  ASSUME TypeOK, PollRequest
  PROVE  /\ PollElsewhere /\ UNCHANGED <<env, cmds>>
         /\ client.conn # "down" /\ client'.will = client.will
         /\ client'.nextWill = client.nextWill
         /\ chan # <<>> /\ chan' = Tail(chan) /\ Head(chan) \in SessionRequests
         /\ client.conn # "up" => UNCHANGED <<broker, inbox>>
         /\ Head(chan).kind = "DISCONNECT" => client'.conn = "closing" /\ Got(Offline)
         /\ Head(chan).kind # "DISCONNECT" =>
                client'.conn = client.conn /\ loop'.pc = loop.pc /\ loop'.ev = loop.ev
         /\ client.conn = "up" =>
              /\ broker'.sub = (broker.sub \/ Head(chan).kind = "SUB")
              /\ broker'.bd = (IF Head(chan).kind = "NBIRTH" THEN Head(chan).n ELSE broker.bd)
              /\ broker'.view = (IF Head(chan).kind = "NBIRTH" THEN Head(chan).n
                                 ELSE IF Head(chan).kind = "NDEATH" /\ broker.view = Head(chan).n
                                      THEN NoBd ELSE broker.view)
              /\ inbox' = IF Head(chan).kind = "SUB" /\ host.ts > 0
                          THEN Append(inbox, HostState) ELSE inbox
<1> DEFINE m == Head(chan)
<1>0. SessionTypes
  BY DEF TypeOK
<1>1. m \in SessionRequests
  BY <1>0, RequestTaken DEF TypeOK
<1>2. broker' = IF client.conn = "up" THEN Deliver(broker, m) ELSE broker
  BY DEF PollRequest
<1>3. inbox' = IF client.conn = "up" /\ m.kind = "SUB" /\ host.ts > 0
               THEN Append(inbox, HostState) ELSE inbox
  BY DEF PollRequest
<1> HIDE DEF m
<1>4. client.conn = "up" =>
        /\ broker'.sub = (broker.sub \/ m.kind = "SUB")
        /\ broker'.bd = (IF m.kind = "NBIRTH" THEN m.n ELSE broker.bd)
        /\ broker'.view = (IF m.kind = "NBIRTH" THEN m.n
                           ELSE IF m.kind = "NDEATH" /\ broker.view = m.n
                                THEN NoBd ELSE broker.view)
  <2>1. broker \in BrokerView
    BY <1>0 DEF SessionTypes, BrokerView
  <2>2. CASE m.kind = "SUB"
    BY <1>2, <2>1, <2>2 DEF Deliver, BrokerView
  <2>3. CASE m.kind = "NBIRTH"
    BY <1>2, <2>1, <2>3 DEF Deliver, BrokerView
  <2>4. CASE m.kind = "NDEATH"
    BY <1>2, <2>1, <2>4 DEF Deliver, Dies, BrokerView
  <2>5. CASE m.kind = "DISCONNECT"
    BY <1>2, <2>1, <2>5 DEF Deliver, BrokerView
  <2> QED
    BY <1>1, <2>2, <2>3, <2>4, <2>5 DEF SessionRequests
<1> QED
  BY <1>0, <1>1, <1>2, <1>3, <1>4, RequestTaken DEF m

LEMMA StateMessageEffect ==
  ASSUME SessionTypes, PollState
  PROVE  /\ PollElsewhere /\ UNCHANGED <<chan, client, broker, env, cmds>>
         /\ client.conn = "up" /\ inbox # <<>> /\ inbox' = Tail(inbox)
         /\ Head(inbox) \in States /\ Got(Head(inbox))
<1>1. Got(Head(inbox)) /\ loop'.mode = loop.mode /\ loop'.reply = loop.reply
  BY GotEffect DEF PollState
<1> QED
  BY <1>1, InboxTypes DEF PollState, PollElsewhere, appVars

LEMMA CommandMessageEffect ==
  ASSUME SessionTypes, PollCommand
  PROVE  /\ PollElsewhere /\ UNCHANGED <<loop, chan, client, broker, inbox>>
         /\ loop.mode = "run" /\ client.conn = "up" /\ broker.sub
         /\ env'.losses = env.losses /\ env'.cmds = env.cmds + 1
BY DEF PollCommand, SessionTypes, Counters, PollElsewhere, netVars

LEMMA LostEffect ==
  ASSUME SessionTypes, PollLost
  PROVE  /\ PollElsewhere /\ Got(Offline) /\ UNCHANGED cmds
         /\ env'.losses = env.losses + 1 /\ env'.cmds = env.cmds
         /\ client.conn = "up" /\ client'.conn = "down"
         /\ client'.will = client.will /\ client'.nextWill = client.nextWill
         /\ chan' = <<>> /\ inbox' = <<>>
<1>1. Got(Offline) /\ loop'.mode = loop.mode /\ loop'.reply = loop.reply
  BY GotEffect DEF PollLost
<1> QED
  BY <1>1 DEF PollLost, SessionTypes, Counters, PollElsewhere, appVars

LEMMA KickEffect ==
  ASSUME SessionTypes, PollServerDisconnect
  PROVE  /\ PollElsewhere /\ Got(Offline) /\ UNCHANGED <<chan, cmds>>
         /\ env'.losses = env.losses /\ env'.cmds = env.cmds
         /\ client.conn = "up" /\ client'.conn = "closing"
         /\ client'.will = client.will /\ client'.nextWill = client.nextWill
         /\ inbox' = <<>>
         /\ broker'.sub = broker.sub /\ broker'.bd = broker.bd
         /\ broker'.view = IF broker.view = client.will THEN NoBd ELSE broker.view
<1>1. Got(Offline) /\ loop'.mode = loop.mode /\ loop'.reply = loop.reply
  BY GotEffect DEF PollServerDisconnect
<1> QED
  BY <1>1 DEF PollServerDisconnect, SessionTypes, Counters, PollElsewhere, Dies, appVars

LEMMA ClosedEffect ==
  ASSUME SessionTypes, PollClosed
  PROVE  /\ PollElsewhere /\ UNCHANGED <<loop, env, cmds, broker>>
         /\ client.conn = "closing" /\ client'.conn = "down"
         /\ client'.will = client.will /\ client'.nextWill = client.nextWill
         /\ chan' = <<>> /\ inbox' = <<>>
BY DEF PollClosed, SessionTypes, PollElsewhere, appVars

-----------------------------------------------------------------------------
(* What the application and the world outside do.                          *)
AppElsewhere ==
    /\ Keeps(st) /\ UNCHANGED <<node, loop, cs, client, broker, inbox, host, cmds>>
    /\ env'.losses = env.losses /\ env'.fails = env.fails /\ env'.cmds = env.cmds

LEMMA RebirthCallEffect ==
  ASSUME SessionTypes, Rebirth
  PROVE  /\ AppElsewhere /\ UNCHANGED <<st, chan, cancel, stop>>
         /\ env'.rebirths = env.rebirths + 1
BY DEF Rebirth, SessionTypes, Counters, AppElsewhere, Keeps, netVars

LEMMA CancelEffect ==
  ASSUME SessionTypes, AppStep, ~Rebirth
  PROVE  /\ AppElsewhere /\ UNCHANGED <<rebirthRx, env>>
         /\ cancel'.pc # "idle" /\ (cancel.pc # "idle" => cancel'.will = cancel.will)
         /\ cancel'.pc = "disc" => cancel.pc = "disc" \/ ~cancel'.will
         /\ \/ chan' = chan
            \/ /\ ~ClientGone /\ cancel.bd \in BdSeq
               /\ chan' = Append(chan, Request("NDEATH", "node", cancel.bd))
            \/ cancel.pc = "disc" /\ chan' = Append(chan, Request("DISCONNECT", "node", 0))
<1>0. st \in EoNState /\ cancel \in Cancellation
  BY DEF SessionTypes, Cancellation
<1>1. CASE Cancel
  <2>1. Keeps(st)
    BY <1>0, <1>1 DEF Cancel, SetDead, EoNState, Keeps
  <2>2. cancel.pc = "idle" /\ cancel'.pc \in {"dead", "done"}
    BY <1>0, <1>1 DEF Cancel, Cancellation
  <2> QED
    BY <1>1, <2>1, <2>2 DEF Cancel, CancelUnchanged, AppElsewhere, netVars
<1>2. CASE CancelPayload
  <2>1. cancel'.pc = "ndeath" /\ cancel'.will = cancel.will
    BY <1>0, <1>2 DEF CancelPayload, Cancellation
  <2> QED
    BY <1>2, <2>1 DEF CancelPayload, CancelUnchanged, AppElsewhere, Keeps, netVars
<1>3. CASE CancelDeath
  <2>1. cancel'.pc = "stop" /\ cancel'.will = cancel.will /\ cancel.bd \in BdSeq
    BY <1>0, <1>3 DEF CancelDeath, CancelStep, Cancellation
  <2> QED
    BY <1>3, <2>1 DEF CancelDeath, CancelUnchanged, AppElsewhere, Keeps, netVars
<1>4. CASE CancelStop
  <2>1. /\ cancel'.pc = (IF cancel.will THEN "done" ELSE "disc")
        /\ cancel'.will = cancel.will
    BY <1>0, <1>4 DEF CancelStop, CancelStep, Cancellation
  <2> QED
    BY <1>4, <2>1 DEF CancelStop, CancelUnchanged, AppElsewhere, Keeps, netVars
<1>5. CASE CancelDisconnect
  <2>1. cancel.pc = "disc" /\ cancel'.pc = "done" /\ cancel'.will = cancel.will
    BY <1>0, <1>5 DEF CancelDisconnect, CancelStep, Cancellation
  <2> QED
    BY <1>5, <2>1 DEF CancelDisconnect, CancelUnchanged, AppElsewhere, Keeps, netVars
<1> QED
  BY <1>1, <1>2, <1>3, <1>4, <1>5 DEF AppStep

(* The host and the broker, and the cooldown of the node task.             *)
WorldElsewhere ==
    /\ UNCHANGED <<st, loop, cs, chan, client, broker, rebirthRx, cmds, cancel, stop>>
    /\ SameTask /\ node'.res = node.res
    /\ env'.losses = env.losses /\ env'.fails = env.fails /\ env'.cmds = env.cmds
    /\ env'.rebirths = env.rebirths

LEMMA WorldEffect ==
  ASSUME SessionTypes, HostFlips \/ OldState \/ CooldownEnds
  PROVE  WorldElsewhere
<1>1. /\ node' = node \/ node' = [node EXCEPT !.cool = FALSE]
      /\ \/ env' = env \/ env' = [env EXCEPT !.flips = @ + 1]
         \/ env' = [env EXCEPT !.olds = @ + 1]
      /\ UNCHANGED <<st, loop, cs, chan, client, broker, rebirthRx, cmds, cancel, stop>>
  BY DEF HostFlips, OldState, CooldownEnds, netVars, appVars
<1>2. SameTask /\ node'.res = node.res
  BY <1>1 DEF SessionTypes, NodeTask, SameTask, KeepsTask
<1>3. /\ env'.losses = env.losses /\ env'.fails = env.fails /\ env'.cmds = env.cmds
      /\ env'.rebirths = env.rebirths
  BY <1>1 DEF SessionTypes, Counters
<1> QED
  BY <1>1, <1>2, <1>3 DEF WorldElsewhere

-----------------------------------------------------------------------------
(* The node is birthed on a connection it knows of, and between the start  *)
(* of a birth or death and its end the bdSeq stays what it is.             *)
NodeOrder ==
    /\ st.birthed \/ node.pc = "nbirth" => st.online
    /\ st.online \/ node.pc \notin {"idle", "stopped"} => node.clientOnline
    /\ node.pc = "sub" => ~st.online
    /\ node.pc \in {"nbirth", "ndeath"} => node.bd = st.bdseq

LEMMA NodeOrderNode == ASSUME Gated, NodeOrder, NodeStep PROVE NodeOrder'
<1>0. SessionTypes /\ DeadWhileBirthing
  BY DEF Gated
<1>1. CASE NodeSend
  BY <1>0, <1>1, SendEffect DEF SameTask, KeepsTask, NodeOrder
<1>2. CASE NodeSendFails
  BY <1>0, <1>2, RefusedEffect DEF SameTask, KeepsTask, NodeOrder
<1>3. CASE Subscribed
  BY <1>0, <1>3, SubscribedEffect DEF KeepsTask, NodeOrder
<1>4. CASE SubscribeFailed
  BY <1>0, <1>4, SubscribeFailedEffect DEF NodeOrder
<1>5. CASE Birthed
  BY <1>0, <1>5, BirthedEffect DEF Keeps, KeepsTask, NodeOrder
<1>6. CASE BirthFailed
  BY <1>0, <1>6, BirthFailedEffect DEF NodeOrder, DeadWhileBirthing
<1>7. CASE DeathSent
  BY <1>0, <1>7, DeathSentEffect DEF Keeps, KeepsTask, NodeOrder
<1>8. CASE DisconnectSent
  BY <1>0, <1>8, DisconnectSentEffect DEF KeepsTask, NodeOrder
<1>9. CASE TakeOnline
  BY <1>0, <1>9, OnlineEffect DEF Tried, NodeOrder
<1>10. CASE TakeOffline
  BY <1>0, <1>10, OfflineEffect DEF NodeOrder
<1>11. CASE TakeState
  BY <1>0, <1>11, StateEffect DEF Tried, KeepsTask, NodeOrder
<1>12. CASE TakeStopped
  BY <1>0, <1>12, StoppedEffect DEF KeepsTask, NodeOrder
<1>13. CASE RetryFires
  BY <1>0, <1>13, RetryEffect DEF Tried, NodeOrder
<1>14. CASE TakeRebirth
  BY <1>0, <1>14, RebirthEffect DEF Begins, Keeps, KeepsTask, NodeOrder
<1>15. CASE TakeCommand
  BY <1>0, <1>15, CommandEffect DEF Begins, Keeps, KeepsTask, SameTask, NodeOrder
<1> QED
  BY <1>1, <1>2, <1>3, <1>4, <1>5, <1>6, <1>7, <1>8, <1>9, <1>10, <1>11, <1>12, <1>13,
     <1>14, <1>15 DEF NodeStep, NodeOnlyStep

(* What the other steps leave to the node task: a cancel() may take the    *)
(* birth back.                                                             *)
OtherStep ==
    \/ LoopStep \/ PollRequest \/ PollEvent \/ AppStep
    \/ HostFlips \/ OldState \/ CooldownEnds \/ UNCHANGED vars

LEMMA NodeLeft ==
  ASSUME SessionTypes, OtherStep
  PROVE  /\ Keeps(st) /\ (st'.birthed => st.birthed) /\ SameTask /\ node'.res = node.res
         /\ st'.birthed = st.birthed \/ cancel'.pc # "idle"
<1>1. CASE LoopStep
  <2>1. SameState /\ UNCHANGED node
    BY <1>1, RunEffect, LoopSendEffect, GotWillEffect, LoopStopEffect, DrainCheckEffect,
       DrainTimeoutEffect, LoopDoneEffect DEF LoopStep, LoopElsewhere
  <2> QED
    BY <2>1 DEF SameState, SameTask, KeepsTask
<1>2. CASE PollRequest \/ PollEvent
  <2>1. UNCHANGED <<st, node>>
    BY <1>2, ConnectEffect, StateMessageEffect, CommandMessageEffect,
       LostEffect, KickEffect, ClosedEffect DEF PollRequest, PollEvent, PollElsewhere
  <2> QED
    BY <2>1 DEF Keeps, SameTask, KeepsTask
<1>3. CASE Rebirth
  BY <1>3, RebirthCallEffect DEF AppElsewhere, SameTask, KeepsTask
<1>4. CASE AppStep /\ ~Rebirth
  <2>1. Keeps(st) /\ UNCHANGED node /\ cancel'.pc # "idle"
    BY <1>4, CancelEffect DEF AppElsewhere
  <2>2. st' = st \/ st' = SetDead(st)
    BY <1>4 DEF AppStep, Cancel, CancelPayload, CancelDeath, CancelStop, CancelDisconnect
  <2>3. st'.birthed => st.birthed
    BY <2>2 DEF SetDead, SessionTypes, EoNState
  <2> QED
    BY <2>1, <2>3 DEF SameTask, KeepsTask
<1>5. CASE HostFlips \/ OldState \/ CooldownEnds
  BY <1>5, WorldEffect DEF WorldElsewhere, Keeps
<1>6. CASE UNCHANGED vars
  BY <1>6 DEF vars, Keeps, SameTask, KeepsTask
<1> QED
  BY <1>1, <1>2, <1>3, <1>4, <1>5, <1>6 DEF OtherStep

LEMMA NodeOrderKept == ASSUME Gated, NodeOrder, [Next]_vars PROVE NodeOrder'
<1>1. CASE NodeStep
  BY <1>1, NodeOrderNode
<1>2. CASE ~NodeStep
  BY <1>2, NodeLeft DEF Next, OtherStep, Gated, NodeOrder, Keeps, SameTask, KeepsTask
<1> QED
  BY <1>1, <1>2

-----------------------------------------------------------------------------
(* The node task knows that it has no connection, or a message that says   *)
(* so will not be overtaken by one that says the opposite.                 *)
Disconnected == ~node.clientOnline /\ (cs # <<>> => Head(cs).kind # "Online")

(* The event loop hands the loss of a connection to the node task before   *)
(* it connects again: it waits for the answer to its Offline, and only     *)
(* the drain that run() abandons leaves one behind.                        *)
Handover ==
    /\ cs # <<>> /\ Head(cs).kind = "Offline" =>
           \/ loop.mode = "last"
           \/ loop.pc = "will" /\ loop.reply = Pending /\ Head(cs).awaited
    /\ loop.pc = "will" /\ loop.reply # Pending /\ loop.mode # "last" => Disconnected
    /\ loop.mode = "last" => loop.pc \in {"send", "will", "stopping", "done"}
    /\ loop.mode # "last" =>
           /\ loop.pc = "will" => client.conn # "up"
           /\ loop.pc = "send" /\ loop.ev.kind = "Offline" => client.conn # "up"
    /\ loop.pc = "send" /\ loop.ev.kind # "Offline" => client.conn = "up"
    /\ loop.pc \in {"poll", "check"} /\ client.conn # "up" => Disconnected
    /\ loop.mode = "drain" /\ loop.pc = "poll" => client.conn = "up"
    /\ loop.pc = "start" => loop.mode = "run" /\ Disconnected
    /\ loop.ev.kind = "Offline" => loop.ev.awaited

(* What the steps of the node task but on_offline() leave to the loop.     *)
LEMMA NodeQuiet ==
  ASSUME SessionTypes, NodeStep, ~TakeOffline
  PROVE  /\ UNCHANGED loop /\ (cs' = cs \/ cs' = <<>>)
         /\ Disconnected => ~node'.clientOnline
         /\ st'.bdseq = st.bdseq
<1>1. CASE NodeSend
  BY <1>1, SendEffect DEF SameTask, KeepsTask, Disconnected
<1>2. CASE NodeSendFails
  BY <1>2, RefusedEffect DEF SameTask, KeepsTask, Disconnected
<1>3. CASE Subscribed
  BY <1>3, SubscribedEffect DEF KeepsTask, Disconnected
<1>4. CASE SubscribeFailed
  BY <1>4, SubscribeFailedEffect DEF Disconnected
<1>5. CASE Birthed
  BY <1>5, BirthedEffect DEF Keeps, KeepsTask, Disconnected
<1>6. CASE BirthFailed
  BY <1>6, BirthFailedEffect DEF Disconnected
<1>7. CASE DeathSent
  BY <1>7, DeathSentEffect DEF Keeps, KeepsTask, Disconnected
<1>8. CASE DisconnectSent
  BY <1>8, DisconnectSentEffect DEF KeepsTask, Disconnected
<1>9. CASE TakeOnline
  BY <1>9, OnlineEffect DEF Disconnected, Tried
<1>10. CASE TakeState
  BY <1>10, StateEffect DEF Disconnected, Tried, KeepsTask
<1>11. CASE TakeStopped
  BY <1>11, StoppedEffect DEF Disconnected, KeepsTask
<1>12. CASE RetryFires
  BY <1>12, RetryEffect DEF Disconnected, Tried
<1>13. CASE TakeRebirth
  BY <1>13, RebirthEffect DEF Disconnected, Begins, Keeps, KeepsTask
<1>14. CASE TakeCommand
  BY <1>14, CommandEffect DEF Disconnected, Begins, Keeps, KeepsTask, SameTask
<1> QED
  BY <1>1, <1>2, <1>3, <1>4, <1>5, <1>6, <1>7, <1>8, <1>9, <1>10, <1>11, <1>12, <1>13,
     <1>14 DEF NodeStep, NodeOnlyStep

LEMMA HandoverNode == ASSUME SessionTypes, Handover, NodeStep PROVE Handover'
<1>1. /\ client' = client
      /\ loop'.pc = loop.pc /\ loop'.mode = loop.mode /\ loop'.ev = loop.ev
  BY NodeElsewhere DEF Elsewhere
<1>2. CASE TakeOffline
  <2>1. cs' = <<>> /\ ~node'.clientOnline
    BY <1>2, OfflineEffect
  <2> QED
    BY <1>1, <2>1 DEF Handover, Disconnected
<1>3. CASE ~TakeOffline
  <2>1. /\ UNCHANGED loop /\ (cs' = cs \/ cs' = <<>>)
        /\ Disconnected => ~node'.clientOnline
    BY <1>3, NodeQuiet
  <2>2. Disconnected => Disconnected'
    BY <2>1 DEF Disconnected
  <2>3. cs' # <<>> => cs' = cs
    BY <2>1
  <2> QED
    BY <1>1, <2>1, <2>2, <2>3 DEF Handover
<1> QED
  BY <1>2, <1>3

LEMMA HandoverLoop == ASSUME Gated, NodeOrder, Handover, LoopStep PROVE Handover'
<1>0. SessionTypes /\ LoopKnows
  BY DEF Gated
<1>1. CASE Run
  BY <1>0, <1>1, RunEffect DEF Handover, Disconnected, LoopElsewhere
<1>2. CASE LoopSend
  BY <1>0, <1>2, LoopSendEffect DEF LoopKnows, Handover, Disconnected, LoopElsewhere, SameClient
<1>3. CASE LoopGotWill
  BY <1>0, <1>3, GotWillEffect DEF Handover, Disconnected, LoopElsewhere
<1>4. CASE LoopStop
  BY <1>0, <1>4, LoopStopEffect DEF Handover, Disconnected, LoopElsewhere, SameClient
<1>5. CASE DrainCheck
  <2>1. /\ loop.pc = "check" /\ loop'.pc = (IF st.online THEN "poll" ELSE "stopping")
        /\ loop'.mode = loop.mode /\ loop'.ev = loop.ev /\ loop'.reply = loop.reply
        /\ UNCHANGED <<cs, node>> /\ client'.conn = client.conn
    BY <1>0, <1>5, DrainCheckEffect DEF LoopElsewhere, SameClient
  <2>2. st.online => client.conn = "up"
    BY <2>1 DEF Handover, NodeOrder, Disconnected
  <2>3. loop.mode # "last" /\ (cs # <<>> => Head(cs).kind # "Offline")
    BY <2>1 DEF Handover
  <2>4. CASE st.online
    BY <2>1, <2>2, <2>3, <2>4 DEF Handover
  <2>5. CASE ~st.online
    BY <2>1, <2>3, <2>5 DEF Handover
  <2> QED
    BY <2>4, <2>5
<1>6. CASE DrainTimeout
  <2>1. loop'.mode = "last" /\ loop'.pc = "send" /\ loop'.ev = Offline
    BY <1>0, <1>6, DrainTimeoutEffect
  <2>2. loop'.ev.kind = "Offline" /\ loop'.ev.awaited
    BY <2>1 DEF Offline
  <2> QED
    BY <2>1, <2>2 DEF Handover
<1>7. CASE LoopDone
  BY <1>0, <1>7, LoopDoneEffect DEF Handover, Disconnected, LoopElsewhere
<1> QED
  BY <1>1, <1>2, <1>3, <1>4, <1>5, <1>6, <1>7 DEF LoopStep

LEMMA HandoverPoll == ASSUME SessionTypes, Handover, PollRequest \/ PollEvent PROVE Handover'
<1>1. CASE PollRequest
  BY <1>1, RequestTaken DEF Handover, Disconnected, PollElsewhere, Got, Offline
<1>2. CASE PollConnect
  BY <1>2, ConnectEffect DEF Handover, Disconnected, PollElsewhere, Got, Online
<1>3. CASE PollState
  BY <1>3, StateMessageEffect DEF Handover, Disconnected, PollElsewhere, Got, States
<1>4. CASE PollCommand
  BY <1>4, CommandMessageEffect DEF Handover, Disconnected, PollElsewhere
<1>5. CASE PollLost
  BY <1>5, LostEffect DEF Handover, Disconnected, PollElsewhere, Got, Offline
<1>6. CASE PollServerDisconnect
  BY <1>6, KickEffect DEF Handover, Disconnected, PollElsewhere, Got, Offline
<1>7. CASE PollClosed
  BY <1>7, ClosedEffect DEF Handover, Disconnected, PollElsewhere
<1> QED
  BY <1>1, <1>2, <1>3, <1>4, <1>5, <1>6, <1>7 DEF PollEvent

LEMMA HandoverKept == ASSUME Gated, NodeOrder, Handover, [Next]_vars PROVE Handover'
<1>0. SessionTypes
  BY DEF Gated
<1>1. CASE AppStep
  <2>1. AppElsewhere
    BY <1>0, <1>1, RebirthCallEffect, CancelEffect
  <2> QED
    BY <2>1 DEF AppElsewhere, Handover, Disconnected
<1>2. CASE HostFlips \/ OldState \/ CooldownEnds
  BY <1>0, <1>2, WorldEffect DEF WorldElsewhere, SameTask, KeepsTask, Handover, Disconnected
<1>3. CASE UNCHANGED vars
  BY <1>3 DEF vars, Handover, Disconnected
<1> QED
  BY <1>0, <1>1, <1>2, <1>3, HandoverNode, HandoverLoop, HandoverPoll DEF Next

(* From here on the request channel holds nothing but the session's.       *)
LEMMA TypesOf == (TypeOK => SessionTypes) /\ (TypeOK' => SessionTypes')
BY DEF TypeOK
USE TypesOf

-----------------------------------------------------------------------------
(* The will of a connection carries the bdSeq of the session it serves:    *)
(* the next connection's is set before it is made, from the answer to      *)
(* Offline.                                                                *)
Bds ==
    /\ loop.mode # "last" /\ loop.pc # "start" =>
           IF loop.pc = "will" /\ loop.reply \in BdSeq THEN loop.reply = st.bdseq
           ELSE client.nextWill = st.bdseq
    /\ client.conn = "up" /\ loop.mode # "last" => client.will = st.bdseq

LEMMA BdsKept == ASSUME IInv, Handover, Bds, [Next]_vars PROVE Bds'
<1>0. /\ TypeOK /\ Pending \notin BdSeq /\ NoBd \notin BdSeq
      /\ loop.reply \in BdSeq \cup {NoBd, Pending}
  BY Constants DEF IInv, Gated, TypeOK, SessionTypes, LoopTask, NoBd, Pending, BdSeq
<1>1. CASE TakeOffline
  <2>1. /\ client' = client /\ loop'.pc = loop.pc /\ loop'.mode = loop.mode
    BY <1>0, <1>1, NodeElsewhere DEF Elsewhere, NodeStep
  <2>2. CASE loop.mode # "last"
    <3>1. /\ loop.pc = "will" /\ loop.reply = Pending /\ client.conn # "up"
          /\ loop'.reply = (IF st.online THEN st'.bdseq ELSE NoBd)
          /\ st.online => st'.bdseq \in BdSeq
          /\ ~st.online => st'.bdseq = st.bdseq
      BY <1>0, <1>1, <2>2, OfflineEffect DEF Handover
    <3> QED
      BY <1>0, <2>1, <3>1 DEF Bds
  <2> QED
    BY <2>1, <2>2 DEF Bds
<1>2. CASE NodeStep /\ ~TakeOffline
  BY <1>0, <1>2, NodeElsewhere, NodeQuiet DEF Elsewhere, Bds
<1>3. CASE ~NodeStep
  <2>1. st'.bdseq = st.bdseq
    BY <1>0, <1>3, NodeLeft DEF Next, OtherStep, Keeps
  <2>2. CASE LoopStep
    <3>1. CASE Run
      BY <1>0, <2>1, <3>1, RunEffect DEF Bds, LoopKnows, IInv, Gated
    <3>2. CASE LoopSend
      BY <1>0, <2>1, <3>2, LoopSendEffect DEF Bds, SameClient
    <3>3. CASE LoopGotWill
      BY <1>0, <2>1, <3>3, GotWillEffect DEF Bds
    <3>4. CASE LoopStop
      BY <1>0, <2>1, <3>4, LoopStopEffect DEF Bds, SameClient
    <3>5. CASE DrainCheck
      BY <1>0, <2>1, <3>5, DrainCheckEffect DEF Bds, SameClient
    <3>6. CASE DrainTimeout
      BY <1>0, <2>1, <3>6, DrainTimeoutEffect DEF Bds, SameClient
    <3>7. CASE LoopDone
      BY <1>0, <2>1, <3>7, LoopDoneEffect DEF Bds
    <3> QED
      BY <2>2, <3>1, <3>2, <3>3, <3>4, <3>5, <3>6, <3>7 DEF LoopStep
  <2>3. CASE PollRequest
    BY <1>0, <2>1, <2>3, RequestEffect DEF Bds, PollElsewhere, Got
  <2>4. CASE PollConnect
    BY <1>0, <2>1, <2>4, ConnectEffect DEF Bds, PollElsewhere, Got
  <2>5. CASE PollState
    BY <1>0, <2>1, <2>5, StateMessageEffect DEF Bds, PollElsewhere, Got
  <2>6. CASE PollCommand
    BY <1>0, <2>1, <2>6, CommandMessageEffect DEF Bds, PollElsewhere
  <2>7. CASE PollLost
    BY <1>0, <2>1, <2>7, LostEffect DEF Bds, PollElsewhere, Got
  <2>8. CASE PollServerDisconnect
    BY <1>0, <2>1, <2>8, KickEffect DEF Bds, PollElsewhere, Got
  <2>9. CASE PollClosed
    BY <1>0, <2>1, <2>9, ClosedEffect DEF Bds, PollElsewhere
  <2>10. CASE AppStep
    <3>1. AppElsewhere
      BY <1>0, <2>10, RebirthCallEffect, CancelEffect
    <3> QED
      BY <2>1, <3>1 DEF Bds, AppElsewhere
  <2>11. CASE HostFlips \/ OldState \/ CooldownEnds
    BY <1>0, <2>1, <2>11, WorldEffect DEF Bds, WorldElsewhere
  <2>12. CASE UNCHANGED vars
    BY <2>12 DEF vars, Bds
  <2> QED
    BY <1>3, <2>2, <2>3, <2>4, <2>5, <2>6, <2>7, <2>8, <2>9, <2>10, <2>11, <2>12
       DEF Next, PollEvent
<1> QED
  BY <1>1, <1>2, <1>3

-----------------------------------------------------------------------------
(* The request channel, before and after a request enters or leaves it.    *)
LEMMA AppendFacts ==
  ASSUME TypeOK, NEW r \in SessionRequests, chan' = Append(chan, r)
  PROVE  /\ Len(chan) \in Nat /\ DOMAIN chan = 1 .. Len(chan)
         /\ Len(chan') = Len(chan) + 1 /\ DOMAIN chan' = 1 .. Len(chan) + 1
         /\ chan'[Len(chan) + 1] = r /\ \A i \in DOMAIN chan : chan'[i] = chan[i]
BY DEF TypeOK, SessionTypes

LEMMA TailFacts ==
  ASSUME TypeOK, chan # <<>>, chan' = Tail(chan)
  PROVE  /\ Len(chan) \in Nat \ {0} /\ DOMAIN chan = 1 .. Len(chan)
         /\ Len(chan') = Len(chan) - 1 /\ DOMAIN chan' = 1 .. Len(chan) - 1
         /\ Head(chan) = chan[1] /\ \A i \in DOMAIN chan' : chan'[i] = chan[i + 1]
BY DEF TypeOK, SessionTypes

LEMMA RequestKinds ==
  ASSUME TypeOK, node.pc \in Awaiting
  PROVE  /\ NodeRequest \in SessionRequests
         /\ NodeRequest.kind = "SUB" <=> node.pc = "sub"
         /\ NodeRequest.kind = "NBIRTH" <=> node.pc = "nbirth"
         /\ NodeRequest.kind = "NDEATH" <=> node.pc = "ndeath"
         /\ NodeRequest.kind = "DISCONNECT" <=> node.pc = "disc"
         /\ node.pc \in {"nbirth", "ndeath"} => NodeRequest.n = node.bd
BY RequestTypes DEF NodeRequest, Request, Awaiting

LEMMA CancelRequests ==
  /\ \A bd \in BdSeq : LET r == Request("NDEATH", "node", bd)
                       IN  r \in SessionRequests /\ r.kind = "NDEATH"
  /\ LET r == Request("DISCONNECT", "node", 0)
     IN  r \in SessionRequests /\ r.kind = "DISCONNECT"
BY RequestTypes DEF Request

-----------------------------------------------------------------------------
Has(kind) == \E i \in DOMAIN chan : chan[i].kind = kind

(* A birth in the request channel belongs to the connection's session and  *)
(* follows the subscription.                                               *)
BirthsInOrder ==
    \A i \in DOMAIN chan : chan[i].kind = "NBIRTH" =>
        /\ chan[i].n = st.bdseq
        /\ broker.sub \/ \E j \in 1 .. i - 1 : chan[j].kind = "SUB"

Subscribing ==
    st.online \/ (node.pc = "sub" /\ node.res = "ok") => broker.sub \/ Has("SUB")

OnlyDeaths == \A i \in DOMAIN chan : chan[i].kind \in {"NDEATH", "DISCONNECT"}

(* As long as no connection breaks: what the client carries into the next  *)
(* connection, and what it carries to the broker.                          *)
Carried == env.losses = 0 =>
    /\ client.conn = "down" => loop.pc \in {"start", "poll", "check", "stopping", "done"}
    /\ client.conn = "down" /\ loop.pc # "done" => Disconnected /\ OnlyDeaths
    /\ client.conn = "up" /\ loop.mode # "last" => BirthsInOrder /\ Subscribing
    /\ SubscribedFirst /\ BirthCarriesWill

(* A request enters the channel.                                           *)
LEMMA BirthsAppended ==
  ASSUME TypeOK, NEW r \in SessionRequests, chan' = Append(chan, r),
         BirthsInOrder, st'.bdseq = st.bdseq, broker'.sub = broker.sub,
         r.kind = "NBIRTH" => r.n = st.bdseq /\ (broker.sub \/ Has("SUB"))
  PROVE  BirthsInOrder'
<1>1. /\ Len(chan) \in Nat /\ DOMAIN chan = 1 .. Len(chan)
      /\ Len(chan') = Len(chan) + 1 /\ DOMAIN chan' = 1 .. Len(chan) + 1
      /\ chan'[Len(chan) + 1] = r /\ \A i \in DOMAIN chan : chan'[i] = chan[i]
  BY AppendFacts
<1> SUFFICES ASSUME NEW i \in DOMAIN chan', chan'[i].kind = "NBIRTH"
             PROVE  /\ chan'[i].n = st.bdseq
                    /\ broker.sub \/ \E j \in 1 .. i - 1 : chan'[j].kind = "SUB"
  BY DEF BirthsInOrder
<1>2. CASE i \in DOMAIN chan
  <2>1. /\ chan[i].n = st.bdseq
        /\ broker.sub \/ \E j \in 1 .. i - 1 : chan[j].kind = "SUB"
    BY <1>1, <1>2 DEF BirthsInOrder
  <2>2. \A j \in 1 .. i - 1 : j \in DOMAIN chan
    BY <1>1, <1>2
  <2> QED
    BY <1>1, <1>2, <2>1, <2>2
<1>3. CASE i \notin DOMAIN chan
  <2>1. i = Len(chan) + 1 /\ chan'[i] = r
    BY <1>1, <1>3
  <2>2. 1 .. i - 1 = DOMAIN chan
    BY <1>1, <2>1
  <2> QED
    BY <1>1, <2>1, <2>2 DEF Has
<1> QED
  BY <1>2, <1>3

LEMMA HasAppended ==
  ASSUME TypeOK, NEW r \in SessionRequests, chan' = Append(chan, r), NEW kind
  PROVE  Has(kind)' <=> (Has(kind) \/ r.kind = kind)
BY AppendFacts DEF Has

LEMMA HasTail ==
  ASSUME TypeOK, chan # <<>>, chan' = Tail(chan), NEW kind
  PROVE  Has(kind) <=> (Has(kind)' \/ Head(chan).kind = kind)
<1>1. /\ Len(chan) \in Nat \ {0} /\ DOMAIN chan = 1 .. Len(chan)
      /\ Len(chan') = Len(chan) - 1 /\ DOMAIN chan' = 1 .. Len(chan) - 1
      /\ Head(chan) = chan[1] /\ \A i \in DOMAIN chan' : chan'[i] = chan[i + 1]
  BY TailFacts
<1>2. ASSUME Has(kind)' PROVE Has(kind)
  <2>1. PICK i \in DOMAIN chan' : chan'[i].kind = kind
    BY <1>2 DEF Has
  <2>2. i + 1 \in DOMAIN chan /\ chan[i + 1].kind = kind
    BY <1>1, <2>1
  <2> QED
    BY <2>2 DEF Has
<1>3. ASSUME Has(kind), Head(chan).kind # kind PROVE Has(kind)'
  <2>1. PICK i \in DOMAIN chan : chan[i].kind = kind
    BY <1>3 DEF Has
  <2>2. i - 1 \in DOMAIN chan' /\ chan'[i - 1] = chan[i]
    BY <1>1, <1>3, <2>1
  <2> QED
    BY <2>1, <2>2 DEF Has
<1>4. Head(chan).kind = kind => Has(kind)
  BY <1>1 DEF Has
<1> QED
  BY <1>2, <1>3, <1>4

(* The first request leaves it for the broker.                             *)
LEMMA BirthsTaken ==
  ASSUME TypeOK, chan # <<>>, chan' = Tail(chan), BirthsInOrder,
         st'.bdseq = st.bdseq, broker'.sub = (broker.sub \/ Head(chan).kind = "SUB")
  PROVE  /\ BirthsInOrder'
         /\ Head(chan).kind = "NBIRTH" => Head(chan).n = st.bdseq /\ broker.sub
<1>1. /\ Len(chan) \in Nat \ {0} /\ DOMAIN chan = 1 .. Len(chan)
      /\ Len(chan') = Len(chan) - 1 /\ DOMAIN chan' = 1 .. Len(chan) - 1
      /\ Head(chan) = chan[1] /\ \A i \in DOMAIN chan' : chan'[i] = chan[i + 1]
  BY TailFacts
<1>2. Head(chan).kind = "NBIRTH" => Head(chan).n = st.bdseq /\ broker.sub
  BY <1>1 DEF BirthsInOrder
<1>3. ASSUME NEW i \in DOMAIN chan', chan'[i].kind = "NBIRTH"
      PROVE  /\ chan'[i].n = st'.bdseq
             /\ broker'.sub \/ \E j \in 1 .. i - 1 : chan'[j].kind = "SUB"
  <2>1. i + 1 \in DOMAIN chan /\ chan[i + 1] = chan'[i]
    BY <1>1, <1>3
  <2>2. /\ chan[i + 1].n = st.bdseq
        /\ broker.sub \/ \E j \in 1 .. i : chan[j].kind = "SUB"
    BY <1>1, <1>3, <2>1 DEF BirthsInOrder
  <2>3. ASSUME NEW j \in 1 .. i, chan[j].kind = "SUB"
        PROVE  broker'.sub \/ \E k \in 1 .. i - 1 : chan'[k].kind = "SUB"
    <3>1. CASE j = 1
      BY <1>1, <2>3, <3>1
    <3>2. CASE j # 1
      <4>1. j - 1 \in 1 .. i - 1 /\ j - 1 \in DOMAIN chan' /\ chan'[j - 1] = chan[j]
        BY <1>1, <3>2
      <4> QED
        BY <2>3, <4>1
    <3> QED
      BY <3>1, <3>2
  <2> QED
    BY <2>1, <2>2, <2>3
<1> QED
  BY <1>2, <1>3 DEF BirthsInOrder

(* Only a request the client accepts moves the node ahead of what it has   *)
(* asked for.                                                              *)
LEMMA NodeAsks ==
  ASSUME TypeOK, NodeStep, ~NodeSend
  PROVE  /\ chan' = chan
         /\ st'.online \/ (node'.pc = "sub" /\ node'.res = "ok") =>
                st.online \/ (node.pc = "sub" /\ node.res = "ok")
<1>1. CASE NodeSendFails
  BY <1>1, RefusedEffect DEF SameTask
<1>2. CASE Subscribed
  BY <1>2, SubscribedEffect
<1>3. CASE SubscribeFailed
  BY <1>3, SubscribeFailedEffect
<1>4. CASE Birthed
  BY <1>4, BirthedEffect DEF Keeps
<1>5. CASE BirthFailed
  BY <1>5, BirthFailedEffect
<1>6. CASE DeathSent
  BY <1>6, DeathSentEffect DEF Keeps
<1>7. CASE DisconnectSent
  BY <1>7, DisconnectSentEffect
<1>8. CASE TakeOnline
  BY <1>8, OnlineEffect DEF Tried
<1>9. CASE TakeOffline
  BY <1>9, OfflineEffect
<1>10. CASE TakeState
  BY <1>10, StateEffect DEF Tried
<1>11. CASE TakeStopped
  BY <1>11, StoppedEffect
<1>12. CASE RetryFires
  BY <1>12, RetryEffect DEF Tried
<1>13. CASE TakeRebirth
  BY <1>13, RebirthEffect DEF Begins, Keeps
<1>14. CASE TakeCommand
  BY <1>14, CommandEffect DEF Begins, Keeps, SameTask
<1> QED
  BY <1>1, <1>2, <1>3, <1>4, <1>5, <1>6, <1>7, <1>8, <1>9, <1>10, <1>11, <1>12, <1>13,
     <1>14 DEF NodeStep, NodeOnlyStep

LEMMA CarriedNode ==
  ASSUME IInv, NodeOrder, Handover, Carried, NodeStep
  PROVE  Carried'
<1>0. TypeOK
  BY DEF IInv, Gated
<1>1. /\ client' = client /\ broker' = broker /\ env'.losses = env.losses
      /\ loop'.pc = loop.pc /\ loop'.mode = loop.mode
  BY <1>0, NodeElsewhere DEF Elsewhere
<1> SUFFICES ASSUME env.losses = 0
             PROVE  /\ client.conn = "down" /\ loop.pc # "done" => Disconnected' /\ OnlyDeaths'
                    /\ client.conn = "up" /\ loop.mode # "last"
                         => BirthsInOrder' /\ Subscribing'
  BY <1>1 DEF Carried, SubscribedFirst, BirthCarriesWill
<1>2. CASE NodeSend
  <2>1. /\ NodeRequest \in SessionRequests /\ chan' = Append(chan, NodeRequest)
        /\ node.pc \in Awaiting /\ node'.pc = node.pc
        /\ st' = st /\ node.clientOnline
    BY <1>0, <1>2, SendEffect, RequestKinds DEF NodeOrder, SameTask, Awaiting
  <2>2. ~Disconnected
    BY <2>1 DEF Disconnected
  <2>3. ASSUME client.conn = "up", loop.mode # "last"
        PROVE  BirthsInOrder' /\ Subscribing'
    <3>1. BirthsInOrder /\ Subscribing
      BY <2>3 DEF Carried
    <3>2. NodeRequest.kind = "NBIRTH" =>
              NodeRequest.n = st.bdseq /\ (broker.sub \/ Has("SUB"))
      BY <1>0, <2>1, <3>1, RequestKinds DEF NodeOrder, Subscribing
    <3>3. BirthsInOrder'
      BY <1>0, <1>1, <2>1, <3>1, <3>2, BirthsAppended
    <3>4. Has("SUB")' <=> (Has("SUB") \/ node.pc = "sub")
      BY <1>0, <2>1, RequestKinds, HasAppended
    <3> QED
      BY <1>1, <2>1, <3>1, <3>3, <3>4 DEF Subscribing
  <2> QED
    BY <2>2, <2>3 DEF Carried
<1>3. CASE ~NodeSend
  <2>1. /\ chan' = chan
        /\ st'.online \/ (node'.pc = "sub" /\ node'.res = "ok") =>
               st.online \/ (node.pc = "sub" /\ node.res = "ok")
    BY <1>0, <1>3, NodeAsks
  <2>2. Disconnected => Disconnected'
    <3>1. CASE TakeOffline
      BY <1>0, <3>1, OfflineEffect DEF Disconnected
    <3>2. CASE ~TakeOffline
      BY <1>0, <3>2, NodeQuiet DEF Disconnected
    <3> QED
      BY <3>1, <3>2
  <2>3. OnlyDeaths => OnlyDeaths'
    BY <2>1 DEF OnlyDeaths
  <2>4. ASSUME client.conn = "up", loop.mode # "last"
        PROVE  BirthsInOrder' /\ Subscribing'
    <3>1. BirthsInOrder /\ Subscribing
      BY <2>4 DEF Carried
    <3>2. ~TakeOffline
      BY <1>0, <2>4, OfflineEffect DEF Handover
    <3>3. st'.bdseq = st.bdseq
      BY <1>0, <3>2, NodeQuiet
    <3> QED
      BY <1>1, <2>1, <3>1, <3>3 DEF BirthsInOrder, Subscribing, Has
  <2> QED
    BY <2>2, <2>3, <2>4 DEF Carried
<1> QED
  BY <1>2, <1>3

LEMMA CarriedLoop ==
  ASSUME IInv, NodeOrder, Handover, Handover', Carried, LoopStep
  PROVE  Carried'
<1>0. TypeOK /\ LoopKnows
  BY DEF IInv, Gated
<1>1. /\ SameState /\ UNCHANGED <<node, chan, env>>
      /\ client'.will = client.will /\ broker'.sub = broker.sub /\ broker'.bd = broker.bd
      /\ client'.conn # client.conn => LoopDone
      /\ loop.mode = "last" => loop'.mode = "last"
  <2>1. LoopElsewhere
    BY <1>0, RunEffect, LoopSendEffect, GotWillEffect, LoopStopEffect, DrainCheckEffect,
       DrainTimeoutEffect, LoopDoneEffect DEF LoopStep
  <2> QED
    BY <1>0, <2>1, RunEffect, LoopSendEffect, GotWillEffect, LoopStopEffect,
       DrainCheckEffect, DrainTimeoutEffect, LoopDoneEffect
       DEF LoopStep, LoopElsewhere, SameClient
<1>2. env.losses = 0 => SubscribedFirst' /\ BirthCarriesWill'
  BY <1>1 DEF Carried, SubscribedFirst, BirthCarriesWill
<1>3. BirthsInOrder /\ Subscribing => BirthsInOrder' /\ Subscribing'
  BY <1>1 DEF BirthsInOrder, Subscribing, Has, SameState, Keeps
<1>4. OnlyDeaths => OnlyDeaths'
  BY <1>1 DEF OnlyDeaths
<1>5. CASE LoopDone
  BY <1>0, <1>1, <1>2, <1>5, LoopDoneEffect DEF Carried
<1>6. CASE ~LoopDone
  <2>1. client'.conn = client.conn
    BY <1>1, <1>6
  <2>2. CASE client.conn = "up"
    BY <1>1, <1>2, <1>3, <2>1, <2>2 DEF Carried
  <2>3. CASE client.conn = "down" /\ env.losses = 0
    <3>1. loop.pc \in {"start", "poll", "check", "stopping", "done"}
      BY <2>3 DEF Carried
    <3>2. /\ cs' = cs /\ loop'.pc \in {"poll", "check", "stopping"}
          /\ loop.pc # "done"
      <4>1. Run \/ LoopStop \/ DrainCheck
        BY <1>0, <1>6, <2>3, <3>1, LoopSendEffect, GotWillEffect, DrainTimeoutEffect
           DEF LoopStep, Handover
      <4> QED
        BY <1>0, <4>1, RunEffect, LoopStopEffect, DrainCheckEffect
    <3>3. Disconnected' /\ OnlyDeaths'
      BY <1>1, <1>4, <2>3, <3>2 DEF Carried, Disconnected
    <3> QED
      BY <1>2, <2>1, <2>3, <3>2, <3>3 DEF Carried
  <2>4. CASE client.conn = "closing"
    BY <1>1, <1>2, <2>1, <2>4 DEF Carried
  <2> QED
    BY <1>0, <1>1, <2>2, <2>3, <2>4 DEF TypeOK, SessionTypes, Carried
<1> QED
  BY <1>5, <1>6

LEMMA CarriedPoll ==
  ASSUME IInv, NodeOrder, Handover, Handover', Bds, Carried, PollRequest \/ PollEvent
  PROVE  Carried'
<1>0. TypeOK /\ env.losses \in Nat
  BY DEF IInv, Gated, TypeOK, SessionTypes, Counters
<1>1. PollElsewhere /\ loop.mode # "last" /\ UNCHANGED <<st, node, cs>>
  BY <1>0, RequestEffect, ConnectEffect, StateMessageEffect, CommandMessageEffect,
     LostEffect, KickEffect, ClosedEffect DEF PollEvent, PollElsewhere, Handover
<1>2. Disconnected => Disconnected'
  BY <1>1 DEF Disconnected
<1>3. CASE PollRequest
  <2>1. /\ env' = env /\ chan # <<>> /\ chan' = Tail(chan) /\ client.conn # "down"
        /\ client'.conn # "down" /\ client'.will = client.will
        /\ Head(chan) \in SessionRequests
        /\ client'.conn = "up" => client.conn = "up"
        /\ client.conn # "up" => broker' = broker
    BY <1>0, <1>3, RequestEffect
  <2>2. CASE client.conn = "up"
    <3>1. /\ broker'.sub = (broker.sub \/ Head(chan).kind = "SUB")
          /\ broker'.bd = IF Head(chan).kind = "NBIRTH" THEN Head(chan).n ELSE broker.bd
      BY <1>0, <1>3, <2>2, RequestEffect
    <3> SUFFICES ASSUME env.losses = 0
                 PROVE  BirthsInOrder' /\ Subscribing' /\ SubscribedFirst' /\ BirthCarriesWill'
      BY <2>1 DEF Carried
    <3>2. /\ BirthsInOrder /\ Subscribing /\ SubscribedFirst /\ BirthCarriesWill
          /\ client.will = st.bdseq
      BY <1>1, <2>2 DEF Carried, Bds
    <3>3. /\ BirthsInOrder'
          /\ Head(chan).kind = "NBIRTH" => Head(chan).n = st.bdseq /\ broker.sub
      BY <1>0, <1>1, <2>1, <3>1, <3>2, BirthsTaken
    <3>4. Has("SUB") <=> (Has("SUB")' \/ Head(chan).kind = "SUB")
      BY <1>0, <2>1, HasTail
    <3>5. Subscribing'
      BY <1>1, <3>1, <3>2, <3>4 DEF Subscribing
    <3> QED
      BY <2>1, <3>1, <3>2, <3>3, <3>5 DEF SubscribedFirst, BirthCarriesWill
  <2>3. CASE client.conn # "up"
    BY <2>1, <2>3 DEF Carried, SubscribedFirst, BirthCarriesWill
  <2> QED
    BY <2>2, <2>3
<1>4. CASE PollConnect
  <2>1. /\ client.conn = "down" /\ client'.conn = "up" /\ env' = env /\ chan' = chan
        /\ broker'.bd = NoBd /\ loop.pc = "poll"
    BY <1>0, <1>4, ConnectEffect DEF PollElsewhere
  <2> SUFFICES ASSUME env.losses = 0 PROVE BirthsInOrder' /\ Subscribing'
    BY <2>1 DEF Carried, SubscribedFirst, BirthCarriesWill
  <2>2. Disconnected /\ OnlyDeaths
    BY <2>1 DEF Carried
  <2>3. ~st.online /\ node.pc # "sub"
    BY <2>2 DEF Disconnected, NodeOrder
  <2> QED
    BY <1>1, <2>1, <2>2, <2>3 DEF OnlyDeaths, BirthsInOrder, Subscribing
<1>5. CASE PollState
  <2>1. UNCHANGED <<chan, client, broker, env>> /\ client.conn = "up"
    BY <1>0, <1>5, StateMessageEffect
  <2> QED
    BY <1>1, <2>1 DEF Carried, BirthsInOrder, Subscribing, Has, SubscribedFirst, BirthCarriesWill
<1>6. CASE PollCommand
  <2>1. UNCHANGED <<chan, client, broker>> /\ client.conn = "up" /\ env'.losses = env.losses
    BY <1>0, <1>6, CommandMessageEffect
  <2> QED
    BY <1>1, <2>1 DEF Carried, BirthsInOrder, Subscribing, Has, SubscribedFirst, BirthCarriesWill
<1>7. CASE PollLost
  BY <1>0, <1>7, LostEffect DEF Carried
<1>8. CASE PollServerDisconnect
  BY <1>0, <1>8, KickEffect DEF Carried, SubscribedFirst, BirthCarriesWill
<1>9. CASE PollClosed
  <2>1. /\ client.conn = "closing" /\ chan' = <<>> /\ broker' = broker /\ env' = env
        /\ client'.conn = "down" /\ client'.will = client.will /\ loop'.pc = "poll"
        /\ loop.pc = "poll"
    BY <1>0, <1>9, ClosedEffect DEF PollElsewhere
  <2>2. Disconnected'
    BY <1>2, <2>1 DEF Handover
  <2> QED
    BY <2>1, <2>2 DEF Carried, OnlyDeaths, SubscribedFirst, BirthCarriesWill
<1> QED
  BY <1>3, <1>4, <1>5, <1>6, <1>7, <1>8, <1>9 DEF PollEvent

LEMMA CarriedApp ==
  ASSUME IInv, Carried, AppStep
  PROVE  Carried'
<1>0. TypeOK
  BY DEF IInv, Gated
<1>1. AppElsewhere
  BY <1>0, RebirthCallEffect, CancelEffect
<1>2. env.losses = 0 => SubscribedFirst' /\ BirthCarriesWill'
  BY <1>1 DEF AppElsewhere, Carried, SubscribedFirst, BirthCarriesWill
<1>3. \/ chan' = chan
      \/ \E r \in SessionRequests : /\ r.kind \in {"NDEATH", "DISCONNECT"}
                                    /\ chan' = Append(chan, r)
  BY <1>0, RebirthCallEffect, CancelEffect, CancelRequests
<1>4. CASE chan' = chan
  <2>1. /\ BirthsInOrder /\ Subscribing => BirthsInOrder' /\ Subscribing'
        /\ OnlyDeaths => OnlyDeaths'
        /\ Disconnected => Disconnected'
    BY <1>1, <1>4 DEF AppElsewhere, Keeps, BirthsInOrder, Subscribing, Has, OnlyDeaths,
                      Disconnected
  <2> QED
    BY <1>1, <1>2, <2>1 DEF Carried, AppElsewhere
<1>5. ASSUME NEW r \in SessionRequests, r.kind \in {"NDEATH", "DISCONNECT"},
             chan' = Append(chan, r)
      PROVE  Carried'
  <2>1. BirthsInOrder => BirthsInOrder'
    BY <1>0, <1>1, <1>5, BirthsAppended DEF AppElsewhere, Keeps
  <2>2. Has("SUB") => Has("SUB")'
    BY <1>0, <1>5, HasAppended
  <2>3. Subscribing => Subscribing'
    BY <1>1, <2>2 DEF Subscribing, AppElsewhere, Keeps
  <2>4. OnlyDeaths => OnlyDeaths'
    BY <1>0, <1>5, AppendFacts DEF OnlyDeaths
  <2>5. Disconnected => Disconnected'
    BY <1>1 DEF Disconnected, AppElsewhere
  <2> QED
    BY <1>1, <1>2, <2>1, <2>3, <2>4, <2>5 DEF Carried, AppElsewhere
<1> QED
  BY <1>3, <1>4, <1>5

LEMMA CarriedKept ==
  ASSUME IInv, NodeOrder, Handover, Handover', Bds, Carried, [Next]_vars
  PROVE  Carried'
<1>1. CASE HostFlips \/ OldState \/ CooldownEnds \/ UNCHANGED vars
  <2>1. /\ UNCHANGED <<st, loop, cs, chan, client, broker>> /\ env'.losses = env.losses
        /\ node'.clientOnline = node.clientOnline /\ node'.pc = node.pc
        /\ node'.res = node.res
    BY <1>1, WorldEffect DEF IInv, Gated, WorldElsewhere, SameTask, KeepsTask, vars
  <2> QED
    BY <2>1 DEF Carried, BirthsInOrder, Subscribing, Has, OnlyDeaths, Disconnected,
                SubscribedFirst, BirthCarriesWill
<1> QED
  BY <1>1, CarriedNode, CarriedLoop, CarriedPoll, CarriedApp DEF Next

-----------------------------------------------------------------------------
(* The parts of the agreement that hold initially and are kept.            *)
Agreement == IInv /\ NodeOrder /\ Handover /\ Bds /\ Carried

LEMMA AgreementInit == ASSUME Init PROVE Agreement
<1>1. IInv
  BY InitInv
<1>2. NodeOrder /\ Handover
  BY DEF Init, NewEoNState, NodeOrder, Handover, Disconnected, Online
<1>3. Bds /\ Carried
  BY DEF Init, Bds, Carried, Disconnected, OnlyDeaths, SubscribedFirst, BirthCarriesWill
<1> QED
  BY <1>1, <1>2, <1>3 DEF Agreement

LEMMA AgreementKept == ASSUME Agreement, [Next]_vars PROVE Agreement'
<1>1. IInv /\ NodeOrder /\ Handover /\ Bds /\ Carried
  BY DEF Agreement
<1>2. IInv'
  BY <1>1, NextKeeps
<1>3. NodeOrder' /\ Handover' /\ Bds'
  <2>1. NodeOrder'
    BY <1>1, NodeOrderKept DEF IInv
  <2> QED
    BY <1>1, <2>1, HandoverKept, BdsKept DEF IInv
<1>4. Carried'
  BY <1>1, <1>3, CarriedKept
<1> QED
  BY <1>2, <1>3, <1>4 DEF Agreement

(* "Subscribe before publishing the birth message" (Node::on_online): on a *)
(* connection no other connection's breaking has left requests for, the    *)
(* broker has the node's subscription when it takes its NBIRTH, whoever    *)
(* else cancels, kicks or commands meanwhile.                              *)
THEOREM SubscriptionFirst == Spec => [](env.losses = 0 => SubscribedFirst)
<1>1. Agreement => (env.losses = 0 => SubscribedFirst)
  BY DEF Agreement, Carried
<1> QED
  BY <1>1, AgreementInit, AgreementKept, PTL DEF Spec

(* The bdSeq of a birth is the one the connection's will carries: the will *)
(* of each connection is set from the node's answer to the loss of the     *)
(* last (handle_event, on_offline, Node::death).                           *)
THEOREM BirthsMatchWills == Spec => [](env.losses = 0 => BirthCarriesWill)
<1>1. Agreement => (env.losses = 0 => BirthCarriesWill)
  BY DEF Agreement, Carried
<1> QED
  BY <1>1, AgreementInit, AgreementKept, PTL DEF Spec

-----------------------------------------------------------------------------
(* A STATE message against what the host says now.                         *)
HostMessage(h, m) == m.kind = "State" => m.ts \in 1 .. h.ts
Old(h, m) == m.kind = "State" => m.ts < h.ts
Current(h, m) == m.kind = "State" /\ m.ts = h.ts /\ m.online = h.online

(* On its way to the client, with nothing but old ones behind it; ...      *)
UnderWay ==
    \E i \in DOMAIN inbox :
        Current(host, inbox[i]) /\ \A j \in i + 1 .. Len(inbox) : Old(host, inbox[j])

AllOld == \A i \in DOMAIN inbox : Old(host, inbox[i])

(* ... in the hands of the event loop, in the client_state channel, or     *)
(* known to the node.                                                      *)
Told ==
    \/ loop.pc = "send" /\ Current(host, loop.ev)
    \/ /\ loop.pc = "send" => Old(host, loop.ev)
       /\ \/ cs # <<>> /\ Current(host, Head(cs))
          \/ /\ cs # <<>> => Old(host, Head(cs))
             /\ st.hostTs = host.ts /\ st.host = host.online

(* No timestamp is newer than the host's, and once the broker has the      *)
(* subscription the host's newest STATE is the newest of all that reach    *)
(* the node.                                                               *)
Messages ==
    /\ host.ts = 0 => ~host.online
    /\ \A i \in DOMAIN inbox : HostMessage(host, inbox[i])
    /\ HostMessage(host, loop.ev) /\ (cs # <<>> => HostMessage(host, Head(cs)))
    /\ st.hostTs <= host.ts /\ (st.host => st.hostTs > 0)

Heard ==
    client.conn = "up" /\ loop.mode = "run" /\ broker.sub =>
        UnderWay \/ (AllOld /\ Told)

(* What the node makes of its host is left alone by every other step.      *)
LEMMA NodeHost ==
  ASSUME TypeOK, NodeStep, ~TakeOffline, ~TakeState
  PROVE  /\ UNCHANGED loop /\ st'.host = st.host /\ st'.hostTs = st.hostTs
         /\ cs' = cs \/ (cs' = <<>> /\ cs # <<>> /\ Head(cs).kind # "State")
<1>1. CASE NodeSend
  BY <1>1, SendEffect
<1>2. CASE NodeSendFails
  BY <1>2, RefusedEffect
<1>3. CASE Subscribed
  BY <1>3, SubscribedEffect
<1>4. CASE SubscribeFailed
  BY <1>4, SubscribeFailedEffect
<1>5. CASE Birthed
  BY <1>5, BirthedEffect DEF Keeps
<1>6. CASE BirthFailed
  BY <1>6, BirthFailedEffect
<1>7. CASE DeathSent
  BY <1>7, DeathSentEffect DEF Keeps
<1>8. CASE DisconnectSent
  BY <1>8, DisconnectSentEffect
<1>9. CASE TakeOnline
  BY <1>9, OnlineEffect DEF Tried
<1>10. CASE TakeStopped
  BY <1>10, StoppedEffect
<1>11. CASE RetryFires
  BY <1>11, RetryEffect DEF Tried
<1>12. CASE TakeRebirth
  BY <1>12, RebirthEffect DEF Begins, Keeps
<1>13. CASE TakeCommand
  BY <1>13, CommandEffect DEF Begins, Keeps
<1> QED
  BY <1>1, <1>2, <1>3, <1>4, <1>5, <1>6, <1>7, <1>8, <1>9, <1>10, <1>11, <1>12, <1>13
     DEF NodeStep, NodeOnlyStep

(* What a STATE message does, in these terms.                              *)
LEMMA StateHost ==
  ASSUME TypeOK, TakeState
  PROVE  /\ UNCHANGED loop /\ cs # <<>> /\ cs' = <<>> /\ Head(cs) \in States
         /\ Head(cs).kind = "State"
         /\ IF Head(cs).ts < st.hostTs THEN st' = st
            ELSE st'.hostTs = Head(cs).ts /\ st'.host = Head(cs).online
<1>1. /\ UNCHANGED loop /\ cs # <<>> /\ cs' = <<>> /\ Head(cs) \in States
      /\ \/ Head(cs).ts < st.hostTs /\ st' = st
         \/ /\ Head(cs).ts >= st.hostTs /\ Head(cs).online
            /\ st'.host = TRUE /\ st'.hostTs = Head(cs).ts
         \/ /\ Head(cs).ts >= st.hostTs /\ ~Head(cs).online
            /\ ~st'.host /\ st'.hostTs = Head(cs).ts
  BY StateEffect DEF Tried
<1>2. /\ Head(cs).kind = "State" /\ Head(cs).online \in BOOLEAN /\ Head(cs).ts \in Nat
      /\ st.hostTs \in Nat
  BY <1>1 DEF States, TypeOK, SessionTypes, EoNState
<1>3. st'.host \in BOOLEAN
  BY NodeStepTypes DEF NodeStep, NodeOnlyStep, TypeOK, SessionTypes, EoNState
<1> QED
  BY <1>1, <1>2, <1>3

LEMMA HeardNode ==
  ASSUME TypeOK, Handover, Messages, Heard, NodeStep
  PROVE  Messages' /\ Heard'
<1>1. /\ UNCHANGED <<client, broker, inbox, host>> /\ loop'.pc = loop.pc
      /\ loop'.mode = loop.mode /\ loop'.ev = loop.ev
  BY NodeElsewhere DEF Elsewhere
<1>2. host.ts \in Nat /\ st.hostTs \in Nat
  BY DEF TypeOK, SessionTypes, EoNState
<1>3. (UnderWay <=> UnderWay') /\ (AllOld <=> AllOld')
  BY <1>1 DEF UnderWay, AllOld, Current, Old
<1>4. CASE TakeOffline
  <2>1. /\ cs # <<>> /\ Head(cs).kind = "Offline" /\ cs' = <<>>
        /\ ~st'.host /\ st'.hostTs = st.hostTs
    BY <1>4, OfflineEffect
  <2>2. ~(client.conn = "up" /\ loop.mode = "run")
    BY <2>1 DEF Handover
  <2> QED
    BY <1>1, <2>1, <2>2 DEF Messages, Heard, HostMessage
<1>5. CASE TakeState
  <2>1. /\ UNCHANGED loop /\ cs # <<>> /\ cs' = <<>> /\ Head(cs) \in States
        /\ Head(cs).kind = "State"
        /\ IF Head(cs).ts < st.hostTs THEN st' = st
           ELSE st'.hostTs = Head(cs).ts /\ st'.host = Head(cs).online
    BY <1>5, StateHost
  <2>2. Head(cs).ts \in 1 .. host.ts
    BY <2>1 DEF Messages, HostMessage
  <2>3. Messages'
    BY <1>1, <1>2, <2>1, <2>2 DEF Messages, HostMessage
  <2>4. Told => Told'
    BY <1>1, <1>2, <2>1, <2>2 DEF Told, Current, Old, Messages
  <2> QED
    BY <1>1, <1>3, <2>3, <2>4 DEF Heard
<1>6. CASE ~TakeOffline /\ ~TakeState
  <2>1. /\ UNCHANGED loop /\ st'.host = st.host /\ st'.hostTs = st.hostTs
        /\ cs' = cs \/ (cs' = <<>> /\ cs # <<>> /\ Head(cs).kind # "State")
    BY <1>6, NodeHost
  <2>2. Messages'
    BY <1>1, <2>1 DEF Messages, HostMessage
  <2>3. Told => Told'
    BY <1>1, <2>1 DEF Told, Current, Old
  <2> QED
    BY <1>1, <1>3, <2>2, <2>3 DEF Heard
<1> QED
  BY <1>4, <1>5, <1>6

LEMMA HeardLoop ==
  ASSUME TypeOK, Messages, Heard, LoopStep
  PROVE  Messages' /\ Heard'
<1>1. /\ SameState /\ UNCHANGED <<node, host>> /\ broker'.sub = broker.sub
      /\ loop'.mode = "run" => loop.mode = "run"
      /\ inbox' = inbox \/ LoopDone
      /\ client'.conn = client.conn \/ LoopDone
  <2>1. LoopElsewhere
    BY RunEffect, LoopSendEffect, GotWillEffect, LoopStopEffect, DrainCheckEffect,
       DrainTimeoutEffect, LoopDoneEffect DEF LoopStep
  <2> QED
    BY <2>1, RunEffect, LoopSendEffect, GotWillEffect, LoopStopEffect,
       DrainCheckEffect, DrainTimeoutEffect, LoopDoneEffect
       DEF LoopStep, LoopElsewhere, SameClient
<1>2. st'.host = st.host /\ st'.hostTs = st.hostTs
  BY <1>1 DEF SameState, Keeps
<1>3. CASE LoopDone
  BY <1>1, <1>2, <1>3, LoopDoneEffect DEF Messages, HostMessage, Heard
<1>4. CASE LoopSend
  <2>1. /\ loop.pc = "send" /\ cs = <<>> /\ cs' # <<>> /\ Head(cs') = loop.ev
        /\ loop'.ev.kind = "Online" /\ loop'.pc # "send" /\ inbox' = inbox
        /\ client'.conn = client.conn /\ loop'.mode = loop.mode
    BY <1>4, LoopSendEffect DEF SameClient
  <2>2. Messages'
    BY <1>1, <1>2, <2>1 DEF Messages, HostMessage
  <2>3. (UnderWay <=> UnderWay') /\ (AllOld <=> AllOld')
    BY <1>1, <2>1 DEF UnderWay, AllOld, Current, Old
  <2>4. Told => Told'
    BY <1>1, <1>2, <2>1 DEF Told, Current, Old
  <2> QED
    BY <1>1, <2>1, <2>2, <2>3, <2>4 DEF Heard
<1>5. CASE DrainTimeout
  <2>1. /\ loop'.mode = "last" /\ loop'.ev.kind = "Offline" /\ inbox' = inbox
        /\ cs' # <<>> => cs # <<>> /\ Head(cs').kind = Head(cs).kind
        /\ cs' # <<>> /\ Head(cs).kind # "Offline" => Head(cs') = Head(cs)
    BY <1>5, DrainTimeoutEffect DEF Offline
  <2> QED
    BY <1>1, <1>2, <2>1 DEF Messages, HostMessage, Heard
<1>6. CASE Run \/ LoopGotWill \/ LoopStop \/ DrainCheck
  <2>1. /\ inbox' = inbox /\ cs' = cs /\ loop'.ev = loop.ev
        /\ client'.conn = client.conn /\ loop.pc # "send" /\ loop'.pc # "send"
    BY <1>6, RunEffect, GotWillEffect, LoopStopEffect, DrainCheckEffect DEF SameClient
  <2>2. Messages'
    BY <1>1, <1>2, <2>1 DEF Messages, HostMessage
  <2>3. (UnderWay <=> UnderWay') /\ (AllOld <=> AllOld') /\ (Told <=> Told')
    BY <1>1, <1>2, <2>1 DEF UnderWay, AllOld, Told, Current, Old
  <2> QED
    BY <1>1, <2>1, <2>2, <2>3 DEF Heard
<1> QED
  BY <1>3, <1>4, <1>5, <1>6 DEF LoopStep

(* A STATE message joins the others.                                       *)
LEMMA InboxAppend ==
  ASSUME TypeOK, NEW m \in States, inbox' = Append(inbox, m),
         host' \in [online : BOOLEAN, ts : Nat], host.ts <= host'.ts,
         \A i \in DOMAIN inbox : HostMessage(host, inbox[i]), m.ts \in 1 .. host'.ts
  PROVE  /\ \A i \in DOMAIN inbox' : HostMessage(host', inbox'[i])
         /\ m.ts = host'.ts /\ m.online = host'.online => UnderWay'
         /\ m.ts < host'.ts /\ host' = host =>
                /\ UnderWay => UnderWay'
                /\ AllOld => AllOld'
<1>1. /\ Len(inbox) \in Nat /\ DOMAIN inbox = 1 .. Len(inbox)
      /\ Len(inbox') = Len(inbox) + 1 /\ DOMAIN inbox' = 1 .. Len(inbox) + 1
      /\ inbox'[Len(inbox) + 1] = m /\ \A i \in DOMAIN inbox : inbox'[i] = inbox[i]
  BY DEF TypeOK, SessionTypes
<1>2. host.ts \in Nat /\ host'.ts \in Nat /\ m.kind = "State"
  BY DEF TypeOK, SessionTypes, States
<1>3. ASSUME NEW i \in DOMAIN inbox' PROVE HostMessage(host', inbox'[i])
  <2>1. CASE i \in DOMAIN inbox
    BY <1>1, <1>2, <2>1 DEF HostMessage
  <2>2. CASE i \notin DOMAIN inbox
    BY <1>1, <1>2, <2>2 DEF HostMessage
  <2> QED
    BY <2>1, <2>2
<1>4. ASSUME m.ts = host'.ts, m.online = host'.online PROVE UnderWay'
  <2>1. Len(inbox) + 1 \in DOMAIN inbox' /\ Current(host', inbox'[Len(inbox) + 1])
    BY <1>1, <1>2, <1>4 DEF Current
  <2>2. \A j \in (Len(inbox) + 1) + 1 .. Len(inbox') : Old(host', inbox'[j])
    BY <1>1
  <2> QED
    BY <2>1, <2>2 DEF UnderWay
<1>5. ASSUME m.ts < host'.ts, host' = host, UnderWay PROVE UnderWay'
  <2>1. PICK i \in DOMAIN inbox :
            Current(host, inbox[i]) /\ \A j \in i + 1 .. Len(inbox) : Old(host, inbox[j])
    BY <1>5 DEF UnderWay
  <2>2. i \in DOMAIN inbox' /\ Current(host', inbox'[i])
    BY <1>1, <1>5, <2>1 DEF Current
  <2>3. ASSUME NEW j \in i + 1 .. Len(inbox') PROVE Old(host', inbox'[j])
    <3>1. CASE j \in DOMAIN inbox
      <4>1. j \in i + 1 .. Len(inbox)
        BY <1>1, <2>1, <3>1
      <4> QED
        BY <1>1, <1>5, <2>1, <3>1, <4>1 DEF Old
    <3>2. CASE j = Len(inbox) + 1
      BY <1>1, <1>5, <3>2 DEF Old
    <3> QED
      BY <1>1, <2>1, <3>1, <3>2
  <2> QED
    BY <2>2, <2>3 DEF UnderWay
<1>6. ASSUME m.ts < host'.ts, host' = host, AllOld PROVE AllOld'
  <2>1. ASSUME NEW i \in DOMAIN inbox' PROVE Old(host', inbox'[i])
    <3>1. CASE i \in DOMAIN inbox
      BY <1>1, <1>6, <3>1 DEF Old, AllOld
    <3>2. CASE i \notin DOMAIN inbox
      BY <1>1, <1>6, <3>2 DEF Old
    <3> QED
      BY <3>1, <3>2
  <2> QED
    BY <2>1 DEF AllOld
<1> QED
  BY <1>3, <1>4, <1>5, <1>6

(* The first of them is taken.                                             *)
LEMMA InboxTail ==
  ASSUME TypeOK, inbox # <<>>, inbox' = Tail(inbox), host' = host
  PROVE  /\ \A i \in DOMAIN inbox' : inbox'[i] \in {inbox[j] : j \in DOMAIN inbox}
         /\ Head(inbox) \in {inbox[j] : j \in DOMAIN inbox}
         /\ UnderWay => UnderWay' \/ (AllOld' /\ Current(host, Head(inbox)))
         /\ AllOld => AllOld' /\ Old(host, Head(inbox))
<1>1. /\ Len(inbox) \in Nat \ {0} /\ DOMAIN inbox = 1 .. Len(inbox)
      /\ Len(inbox') = Len(inbox) - 1 /\ DOMAIN inbox' = 1 .. Len(inbox) - 1
      /\ Head(inbox) = inbox[1]
      /\ \A i \in DOMAIN inbox' : inbox'[i] = inbox[i + 1] /\ i + 1 \in DOMAIN inbox
  BY DEF TypeOK, SessionTypes
<1>2. AllOld => AllOld' /\ Old(host, Head(inbox))
  BY <1>1 DEF AllOld, Old
<1>3. ASSUME UnderWay PROVE UnderWay' \/ (AllOld' /\ Current(host, Head(inbox)))
  <2>1. PICK i \in DOMAIN inbox :
            Current(host, inbox[i]) /\ \A j \in i + 1 .. Len(inbox) : Old(host, inbox[j])
    BY <1>3 DEF UnderWay
  <2>2. CASE i = 1
    <3>1. ASSUME NEW j \in DOMAIN inbox' PROVE Old(host', inbox'[j])
      <4>1. j + 1 \in i + 1 .. Len(inbox) /\ inbox'[j] = inbox[j + 1]
        BY <1>1, <2>2
      <4> QED
        BY <2>1, <4>1 DEF Old
    <3> QED
      BY <1>1, <2>1, <2>2, <3>1 DEF AllOld
  <2>3. CASE i # 1
    <3>1. i - 1 \in DOMAIN inbox' /\ inbox'[i - 1] = inbox[i]
      BY <1>1, <2>3
    <3>2. ASSUME NEW j \in (i - 1) + 1 .. Len(inbox') PROVE Old(host', inbox'[j])
      <4>1. j + 1 \in i + 1 .. Len(inbox) /\ inbox'[j] = inbox[j + 1]
        BY <1>1
      <4> QED
        BY <2>1, <4>1 DEF Old
    <3>3. Current(host', inbox'[i - 1])
      BY <2>1, <3>1 DEF Current
    <3> QED
      BY <3>1, <3>2, <3>3 DEF UnderWay
  <2> QED
    BY <2>2, <2>3
<1>4. \A i \in DOMAIN inbox' : inbox'[i] \in {inbox[j] : j \in DOMAIN inbox}
  BY <1>1
<1>5. Head(inbox) \in {inbox[j] : j \in DOMAIN inbox}
  BY <1>1
<1> QED
  BY <1>2, <1>3, <1>4, <1>5

LEMMA HeardPoll ==
  ASSUME TypeOK, Messages, Heard, PollRequest \/ PollEvent
  PROVE  Messages' /\ Heard'
<1>1. PollElsewhere
  BY RequestEffect, ConnectEffect, StateMessageEffect, CommandMessageEffect,
     LostEffect, KickEffect, ClosedEffect DEF PollEvent
<1>2. /\ UNCHANGED <<st, cs, host>> /\ loop.pc = "poll" /\ loop'.mode = loop.mode
  BY <1>1 DEF PollElsewhere
<1>3. host.ts \in Nat
  BY DEF TypeOK, SessionTypes
<1>4. CASE PollRequest
  <2> DEFINE subscribed == client.conn = "up" /\ Head(chan).kind = "SUB"
  <2>1. /\ Head(chan).kind = "DISCONNECT" => client'.conn = "closing" /\ Got(Offline)
        /\ Head(chan).kind # "DISCONNECT" =>
               client'.conn = client.conn /\ loop'.pc = loop.pc /\ loop'.ev = loop.ev
        /\ inbox' = (IF subscribed /\ host.ts > 0 THEN Append(inbox, HostState) ELSE inbox)
        /\ client.conn = "up" => broker'.sub = (broker.sub \/ subscribed)
    BY <1>4, RequestEffect
  <2>2. HostMessage(host, loop'.ev)
    BY <2>1 DEF Got, Offline, Messages, HostMessage
  <2> HIDE DEF subscribed
  <2>3. CASE subscribed /\ host.ts > 0
    <3>1. /\ HostState \in States /\ HostState.ts = host.ts /\ HostState.online = host.online
          /\ host.ts \in 1 .. host.ts /\ host.ts <= host.ts /\ inbox' = Append(inbox, HostState)
          /\ host' \in [online : BOOLEAN, ts : Nat]
      BY <1>2, <1>3, <2>1, <2>3, EventTypes DEF HostState, TypeOK, SessionTypes
    <3>2. (\A i \in DOMAIN inbox' : HostMessage(host', inbox'[i])) /\ UnderWay'
      BY <1>2, <3>1, InboxAppend DEF Messages
    <3> QED
      BY <1>2, <2>2, <3>2 DEF Messages, Heard
  <2>4. CASE ~(subscribed /\ host.ts > 0)
    <3>1. inbox' = inbox
      BY <2>1, <2>4
    <3>2. Messages'
      BY <1>2, <2>2, <3>1 DEF Messages
    <3>3. CASE subscribed
      <4>1. host.ts = 0
        BY <1>3, <2>4, <3>3
      <4>2. AllOld'
        <5>1. ASSUME NEW i \in DOMAIN inbox PROVE Old(host, inbox[i])
          BY <4>1 DEF Messages, HostMessage, Old
        <5> QED
          BY <1>2, <3>1, <5>1 DEF AllOld
      <4>3. st.hostTs = 0 /\ ~st.host /\ st.host \in BOOLEAN
        BY <4>1 DEF Messages, TypeOK, SessionTypes, EoNState
      <4>4. ~host.online /\ host.online \in BOOLEAN
        BY <4>1 DEF Messages, TypeOK, SessionTypes
      <4>5. cs # <<>> => Old(host, Head(cs))
        BY <4>1 DEF Messages, HostMessage, Old
      <4>6. loop'.pc = "send" => loop'.ev.kind # "State"
        BY <1>2, <2>1 DEF Got, Offline
      <4>7. Told'
        BY <1>2, <4>1, <4>3, <4>4, <4>5, <4>6 DEF Told, Old
      <4> QED
        BY <3>2, <4>2, <4>7 DEF Heard
    <3>4. CASE ~subscribed
      <4>1. (UnderWay <=> UnderWay') /\ (AllOld <=> AllOld')
        BY <1>2, <3>1 DEF UnderWay, AllOld
      <4>2. CASE Head(chan).kind = "DISCONNECT"
        BY <2>1, <3>2, <4>2 DEF Heard
      <4>3. CASE Head(chan).kind # "DISCONNECT"
        <5>1. Told <=> Told'
          BY <1>2, <2>1, <4>3 DEF Told
        <5> QED
          BY <1>2, <2>1, <3>2, <3>4, <4>1, <4>3, <5>1 DEF Heard
      <4> QED
        BY <4>2, <4>3
    <3> QED
      BY <3>3, <3>4
  <2> QED
    BY <2>3, <2>4
<1>5. CASE PollConnect
  BY <1>2, <1>5, ConnectEffect DEF Messages, HostMessage, Heard, Got, Online
<1>6. CASE PollState
  <2>1. /\ UNCHANGED <<client, broker>> /\ inbox # <<>> /\ inbox' = Tail(inbox)
        /\ Head(inbox) \in States /\ Got(Head(inbox)) /\ Head(inbox).kind = "State"
    BY <1>6, StateMessageEffect DEF States
  <2>2. /\ \A i \in DOMAIN inbox' : inbox'[i] \in {inbox[j] : j \in DOMAIN inbox}
        /\ Head(inbox) \in {inbox[j] : j \in DOMAIN inbox}
        /\ UnderWay => UnderWay' \/ (AllOld' /\ Current(host, Head(inbox)))
        /\ AllOld => AllOld' /\ Old(host, Head(inbox))
    BY <1>2, <2>1, InboxTail
  <2>3. /\ \A i \in DOMAIN inbox' : HostMessage(host, inbox'[i])
        /\ HostMessage(host, Head(inbox))
    BY <2>2 DEF Messages
  <2>4. HostMessage(host, loop'.ev)
    BY <2>1, <2>3 DEF Got, Messages
  <2>5. Messages'
    BY <1>2, <2>3, <2>4 DEF Messages
  <2>6. CASE loop.mode = "run"
    <3>1. loop'.pc = "send" /\ loop'.ev = Head(inbox)
      BY <2>1, <2>6 DEF Got
    <3>2. Current(host, Head(inbox)) => Told'
      BY <1>2, <3>1 DEF Told
    <3>3. Old(host, Head(inbox)) /\ Told => Told'
      BY <1>2, <3>1 DEF Told
    <3> QED
      BY <1>2, <2>1, <2>2, <2>5, <3>2, <3>3 DEF Heard
  <2>7. CASE loop.mode # "run"
    BY <1>2, <2>5, <2>7 DEF Heard
  <2> QED
    BY <2>6, <2>7
<1>7. CASE PollCommand
  <2>1. UNCHANGED <<loop, client, broker, inbox>>
    BY <1>7, CommandMessageEffect
  <2> QED
    BY <1>2, <2>1 DEF Messages, Heard, UnderWay, AllOld, Told
<1>8. CASE PollLost
  BY <1>2, <1>8, LostEffect DEF Messages, HostMessage, Heard, Got, Offline
<1>9. CASE PollServerDisconnect
  BY <1>2, <1>9, KickEffect DEF Messages, HostMessage, Heard, Got, Offline
<1>10. CASE PollClosed
  BY <1>2, <1>10, ClosedEffect DEF Messages, HostMessage, Heard
<1> QED
  BY <1>4, <1>5, <1>6, <1>7, <1>8, <1>9, <1>10 DEF PollEvent

LEMMA HeardKept ==
  ASSUME TypeOK, Handover, Messages, Heard, [Next]_vars
  PROVE  Messages' /\ Heard'
<1>1. CASE AppStep
  <2>1. AppElsewhere
    BY <1>1, RebirthCallEffect, CancelEffect
  <2>2. /\ UNCHANGED <<loop, cs, client, broker, inbox, host>>
        /\ st'.host = st.host /\ st'.hostTs = st.hostTs
    BY <2>1 DEF AppElsewhere, Keeps
  <2> QED
    BY <2>2 DEF Messages, Heard, UnderWay, AllOld, Told
<1>2. CASE HostFlips
  <2>1. /\ UNCHANGED <<st, loop, cs, client, broker>>
        /\ host'.online = ~host.online
        /\ host'.ts = IF host.online THEN host.ts ELSE host.ts + 1
        /\ host' \in [online : BOOLEAN, ts : Nat]
    BY <1>2 DEF HostFlips, TypeOK, SessionTypes
  <2>2. /\ host.ts \in Nat /\ host'.ts \in Nat \ {0} /\ host.ts <= host'.ts
        /\ st.hostTs \in Nat
    BY <2>1 DEF Messages, TypeOK, SessionTypes, EoNState
  <2>3. \A m : HostMessage(host, m) => HostMessage(host', m)
    BY <2>2 DEF HostMessage
  <2>4. CASE client.conn = "up" /\ broker.sub
    <3> DEFINE m == [kind |-> "State", online |-> host'.online, ts |-> host'.ts]
    <3>1. /\ m \in States /\ m.ts = host'.ts /\ m.online = host'.online
          /\ m.ts \in 1 .. host'.ts
      BY <2>1, <2>2 DEF States
    <3>2. inbox' = Append(inbox, m)
      BY <1>2, <2>4 DEF HostFlips
    <3> HIDE DEF m
    <3>3. (\A i \in DOMAIN inbox' : HostMessage(host', inbox'[i])) /\ UnderWay'
      BY <2>1, <2>2, <3>1, <3>2, InboxAppend DEF Messages
    <3> QED
      BY <2>1, <2>2, <2>3, <3>3 DEF Messages, Heard
  <2>5. CASE ~(client.conn = "up" /\ broker.sub)
    <3>1. inbox' = inbox
      BY <1>2, <2>5 DEF HostFlips
    <3> QED
      BY <2>1, <2>2, <2>3, <2>5, <3>1 DEF Messages, Heard
  <2> QED
    BY <2>4, <2>5
<1>3. CASE OldState
  <2>1. UNCHANGED <<st, loop, cs, client, broker, host>>
    BY <1>3 DEF OldState
  <2>2. PICK ts \in 1 .. host.ts - 1, b \in BOOLEAN :
            inbox' = Append(inbox, [kind |-> "State", online |-> b, ts |-> ts])
    BY <1>3 DEF OldState
  <2> DEFINE m == [kind |-> "State", online |-> b, ts |-> ts]
  <2>3. host.ts \in Nat /\ host' \in [online : BOOLEAN, ts : Nat] /\ host.ts <= host'.ts
    BY <2>1 DEF TypeOK, SessionTypes
  <2>4. m \in States /\ m.ts \in 1 .. host'.ts /\ m.ts < host'.ts
    BY <2>1, <2>2, <2>3 DEF States
  <2>5. inbox' = Append(inbox, m)
    BY <2>2
  <2> HIDE DEF m
  <2>6. /\ \A i \in DOMAIN inbox' : HostMessage(host', inbox'[i])
        /\ UnderWay => UnderWay'
        /\ AllOld => AllOld'
    BY <2>1, <2>3, <2>4, <2>5, InboxAppend DEF Messages
  <2>7. Told <=> Told'
    BY <2>1 DEF Told
  <2> QED
    BY <2>1, <2>6, <2>7 DEF Messages, Heard
<1>4. CASE CooldownEnds \/ UNCHANGED vars
  <2>1. UNCHANGED <<st, loop, cs, client, broker, inbox, host>>
    BY <1>4 DEF CooldownEnds, netVars, vars
  <2> QED
    BY <2>1 DEF Messages, Heard, UnderWay, AllOld, Told
<1> QED
  BY <1>1, <1>2, <1>3, <1>4, HeardNode, HeardLoop, HeardPoll DEF Next

(* The node's idea of its primary host is the host's newest STATE whenever *)
(* nothing is under way, whatever late STATE messages, lost connections,   *)
(* refused requests and cancelled sessions came before: timestamps order   *)
(* the messages (update_primary_host_timestamp), each connection starts    *)
(* from nothing (reset_primary_host), and the subscription is answered     *)
(* with the newest.                                                        *)
THEOREM HostKnownRight == Spec => []HostViewAgrees
<1> DEFINE Inv == Agreement /\ Messages /\ Heard
<1>1. Init => Inv
  <2> SUFFICES ASSUME Init PROVE Inv
    OBVIOUS
  <2>1. Messages /\ Heard
    BY DEF Init, NewEoNState, Messages, HostMessage, Heard, Online
  <2> QED
    BY <2>1, AgreementInit
<1>2. Inv /\ [Next]_vars => Inv'
  <2> SUFFICES ASSUME Inv, [Next]_vars PROVE Inv'
    OBVIOUS
  <2>1. Agreement'
    BY AgreementKept
  <2>2. Messages' /\ Heard'
    BY HeardKept DEF Agreement, IInv, Gated
  <2> QED
    BY <2>1, <2>2
<1>3. Inv => HostViewAgrees
  <2> SUFFICES ASSUME Inv, Settled, broker.sub PROVE st.host = host.online
    BY DEF HostViewAgrees
  <2>1. /\ inbox = <<>> /\ cs = <<>> /\ loop.pc = "poll" /\ loop.mode = "run"
        /\ client.conn = "up"
    BY DEF Settled
  <2>2. ~UnderWay
    BY <2>1 DEF UnderWay
  <2>3. Told
    BY <2>1, <2>2 DEF Heard
  <2> QED
    BY <2>1, <2>3 DEF Told
<1> QED
  BY <1>1, <1>2, <1>3, PTL DEF Spec

-----------------------------------------------------------------------------
(* Until somebody cancels the node its event loop runs.                    *)
Running ==
    cancel.pc = "idle" =>
        loop.mode = "run" /\ ~stop /\ loop.pc \notin {"check", "stopping", "done"}

LEMMA RunningKept == ASSUME SessionTypes, Running, [Next]_vars PROVE Running'
<1>1. CASE NodeStep
  BY <1>1, NodeElsewhere DEF Elsewhere, Running
<1>2. CASE LoopStep
  <2>1. CASE Run
    BY <2>1, RunEffect DEF Running, LoopElsewhere
  <2>2. CASE LoopSend
    BY <2>2, LoopSendEffect DEF Running, LoopElsewhere
  <2>3. CASE LoopGotWill
    BY <2>3, GotWillEffect DEF Running, LoopElsewhere
  <2>4. CASE LoopStop
    BY <2>4, LoopStopEffect DEF Running, LoopElsewhere
  <2>5. CASE DrainCheck
    BY <2>5, DrainCheckEffect DEF Running, LoopElsewhere
  <2>6. CASE DrainTimeout
    BY <2>6, DrainTimeoutEffect DEF Running, LoopElsewhere
  <2>7. CASE LoopDone
    BY <2>7, LoopDoneEffect DEF Running, LoopElsewhere
  <2> QED
    BY <1>2, <2>1, <2>2, <2>3, <2>4, <2>5, <2>6, <2>7 DEF LoopStep
<1>3. CASE PollRequest
  BY <1>3, RequestTaken DEF Running, PollElsewhere, Got
<1>4. CASE PollEvent
  <2>1. PollElsewhere /\ (UNCHANGED loop \/ \E ev : Got(ev))
    BY <1>4, ConnectEffect, StateMessageEffect, CommandMessageEffect, LostEffect,
       KickEffect, ClosedEffect DEF PollEvent
  <2> QED
    BY <2>1 DEF Running, PollElsewhere, Got
<1>5. CASE AppStep
  BY <1>5, RebirthCallEffect, CancelEffect DEF Running, AppElsewhere
<1>6. CASE HostFlips \/ OldState \/ CooldownEnds
  BY <1>6, WorldEffect DEF Running, WorldElsewhere
<1>7. CASE UNCHANGED vars
  BY <1>7 DEF Running, vars
<1> QED
  BY <1>1, <1>2, <1>3, <1>4, <1>5, <1>6, <1>7 DEF Next

-----------------------------------------------------------------------------
(* What the node task waits for when it is neither birthed nor busy: the   *)
(* host, or the retry it has armed.  A refused rebirth leaves it waiting   *)
(* for the next rebirth (the error is only logged), hence the exception.   *)
Requested ==
    /\ host.ts > 0 => PrimaryHost
    /\ rebirthRx => env.rebirths > 0
    /\ cmds > 0 => env.cmds > 0
    /\ node.pc = "nbirth" /\ node.type = "Rebirth" => env.rebirths + env.cmds > 0
    /\ node.res = "err" => env.fails > 0 \/ loop.pc = "done"

NoRefusedRebirth == env.fails = 0 \/ env.rebirths + env.cmds = 0

Waits ==
    /\ node.pc = "idle" /\ node.clientOnline /\ ~node.retry /\ ~st.birthed =>
           PrimaryHost /\ ~st.host
    /\ node.pc = "ndeath" \/ (node.pc = "disc" /\ ~node.retry) => PrimaryHost /\ ~st.host

Attempt == Requested /\ (cancel.pc = "idle" /\ NoRefusedRebirth => Waits)

(* The mail and the counters, from the node task and from outside.         *)
LEMMA NodeMail ==
  ASSUME SessionTypes, NodeStep
  PROVE  /\ (rebirthRx' => rebirthRx) /\ (cmds' > 0 => cmds > 0)
         /\ env'.rebirths = env.rebirths /\ env'.cmds = env.cmds
         /\ env.fails \in Nat /\ env'.fails \in Nat /\ env'.fails >= env.fails
<1>1. cmds \in Nat /\ env \in [Counters -> Nat] /\ env.fails \in Nat
  BY DEF SessionTypes, Counters
<1>2. (rebirthRx' => rebirthRx) /\ (cmds' = cmds \/ cmds' = cmds - 1)
  <2>1. CASE TakeRebirth
    BY <2>1 DEF TakeRebirth
  <2>2. CASE TakeCommand
    BY <2>2 DEF TakeCommand
  <2>3. CASE ~TakeRebirth /\ ~TakeCommand
    <3>1. UNCHANGED appVars
      BY <2>3 DEF NodeStep, NodeOnlyStep, NodeSend, NodeSendFails, Subscribed,
                  SubscribeFailed, Birthed, BirthFailed, DeathSent, DisconnectSent,
                  TakeOnline, TakeOffline, TakeState, TakeStopped, RetryFires
    <3> QED
      BY <3>1 DEF appVars
  <2> QED
    BY <2>1, <2>2, <2>3
<1>3. env' = env \/ env' = [env EXCEPT !.fails = @ + 1]
  BY DEF NodeStep, NodeOnlyStep, NodeSend, NodeSendFails, Subscribed, SubscribeFailed,
         Birthed, BirthFailed, DeathSent, DisconnectSent, TakeOnline, TakeOffline,
         TakeState, TakeStopped, RetryFires, TakeRebirth, TakeCommand
<1>4. /\ env'.fails = env.fails \/ env'.fails = env.fails + 1
      /\ env'.rebirths = env.rebirths /\ env'.cmds = env.cmds
  BY <1>1, <1>3 DEF Counters
<1> QED
  BY <1>1, <1>2, <1>4

LEMMA OutsideMail ==
  ASSUME SessionTypes, [Next]_vars, ~NodeStep
  PROVE  /\ (rebirthRx' => rebirthRx \/ env'.rebirths > 0)
         /\ (cmds' > 0 => cmds > 0 \/ env'.cmds > 0)
         /\ env'.rebirths >= env.rebirths /\ env'.cmds >= env.cmds
         /\ env'.fails = env.fails
         /\ cancel.pc # "idle" => cancel'.pc # "idle"
         /\ loop.pc = "done" => loop'.pc = "done"
         /\ host'.ts > 0 => host.ts > 0 \/ PrimaryHost
<1>1. env.rebirths \in Nat /\ env.cmds \in Nat
  BY DEF SessionTypes, Counters
<1>2. CASE LoopStep
  <2>1. LoopElsewhere /\ loop.pc # "done"
    BY <1>2, RunEffect, LoopSendEffect, GotWillEffect, LoopStopEffect, DrainCheckEffect,
       DrainTimeoutEffect, LoopDoneEffect DEF LoopStep
  <2> QED
    BY <1>1, <2>1 DEF LoopElsewhere
<1>3. CASE PollRequest \/ PollEvent
  <2>1. /\ PollElsewhere
        /\ \/ UNCHANGED cmds /\ env'.cmds = env.cmds
           \/ env'.cmds = env.cmds + 1
    BY <1>3, RequestTaken, ConnectEffect, StateMessageEffect, CommandMessageEffect,
       LostEffect, KickEffect, ClosedEffect DEF PollEvent
  <2> QED
    BY <1>1, <2>1 DEF PollElsewhere
<1>4. CASE Rebirth
  BY <1>1, <1>4, RebirthCallEffect DEF AppElsewhere
<1>5. CASE AppStep /\ ~Rebirth
  BY <1>1, <1>5, CancelEffect DEF AppElsewhere
<1>6. CASE HostFlips \/ OldState \/ CooldownEnds
  <2>1. WorldElsewhere
    BY <1>6, WorldEffect
  <2>2. host' = host \/ PrimaryHost
    BY <1>6 DEF HostFlips, OldState, CooldownEnds
  <2> QED
    BY <1>1, <2>1, <2>2 DEF WorldElsewhere
<1>7. CASE UNCHANGED vars
  BY <1>1, <1>7 DEF vars
<1> QED
  BY <1>2, <1>3, <1>4, <1>5, <1>6, <1>7 DEF Next

LEMMA RequestedNode ==
  ASSUME SessionTypes, Requested, NodeStep
  PROVE  Requested'
<1>1. /\ (rebirthRx' => rebirthRx) /\ (cmds' > 0 => cmds > 0)
      /\ env'.rebirths = env.rebirths /\ env'.cmds = env.cmds
      /\ env.fails \in Nat /\ env'.fails \in Nat /\ env'.fails >= env.fails
  BY NodeMail
<1>2. env.rebirths \in Nat /\ env.cmds \in Nat
  BY DEF SessionTypes, Counters
<1>3. host' = host /\ loop'.pc = loop.pc
  BY NodeElsewhere DEF Elsewhere
<1> SUFFICES /\ node'.pc = "nbirth" /\ node'.type = "Rebirth" => env.rebirths + env.cmds > 0
             /\ node'.res = "err" => node.res = "err" \/ env'.fails > 0 \/ loop.pc = "done"
  BY <1>1, <1>2, <1>3 DEF Requested
<1>4. CASE NodeSend
  BY <1>4, SendEffect DEF SameTask, Requested
<1>5. CASE NodeSendFails
  BY <1>5, RefusedEffect DEF SameTask, Requested
<1>6. CASE Subscribed
  BY <1>6, SubscribedEffect
<1>7. CASE SubscribeFailed
  BY <1>7, SubscribeFailedEffect
<1>8. CASE Birthed
  BY <1>8, BirthedEffect
<1>9. CASE BirthFailed
  BY <1>9, BirthFailedEffect
<1>10. CASE DeathSent
  BY <1>10, DeathSentEffect
<1>11. CASE DisconnectSent
  BY <1>11, DisconnectSentEffect
<1>12. CASE TakeOnline
  BY <1>12, OnlineEffect DEF Tried
<1>13. CASE TakeOffline
  BY <1>13, OfflineEffect
<1>14. CASE TakeState
  BY <1>14, StateEffect DEF Tried
<1>15. CASE TakeStopped
  BY <1>15, StoppedEffect
<1>16. CASE RetryFires
  BY <1>16, RetryEffect DEF Tried
<1>17. CASE TakeRebirth
  <2>1. env.rebirths + env.cmds > 0
    BY <1>2, <1>17, RebirthEffect DEF Requested
  <2> QED
    BY <1>17, <2>1, RebirthEffect DEF Begins
<1>18. CASE TakeCommand
  <2>1. env.rebirths + env.cmds > 0
    BY <1>2, <1>18, CommandEffect DEF Requested
  <2> QED
    BY <1>18, <2>1, CommandEffect DEF Begins, SameTask
<1> QED
  BY <1>4, <1>5, <1>6, <1>7, <1>8, <1>9, <1>10, <1>11, <1>12, <1>13, <1>14, <1>15, <1>16,
     <1>17, <1>18 DEF NodeStep, NodeOnlyStep

LEMMA RequestedKept ==
  ASSUME SessionTypes, SessionTypes', Requested, [Next]_vars
  PROVE  Requested'
<1>0. /\ env.rebirths \in Nat /\ env.cmds \in Nat
      /\ env'.rebirths \in Nat /\ env'.cmds \in Nat
  BY DEF SessionTypes, Counters
<1>1. CASE NodeStep
  BY <1>1, RequestedNode
<1>2. CASE ~NodeStep
  <2>1. /\ (rebirthRx' => rebirthRx \/ env'.rebirths > 0)
        /\ (cmds' > 0 => cmds > 0 \/ env'.cmds > 0)
        /\ env'.rebirths >= env.rebirths /\ env'.cmds >= env.cmds
        /\ env'.fails = env.fails
        /\ loop.pc = "done" => loop'.pc = "done"
        /\ host'.ts > 0 => host.ts > 0 \/ PrimaryHost
    BY <1>2, OutsideMail
  <2>2. SameTask /\ node'.res = node.res
    BY <1>2, NodeLeft DEF Next, OtherStep
  <2> QED
    BY <1>0, <2>1, <2>2 DEF Requested, SameTask
<1> QED
  BY <1>1, <1>2

LEMMA WaitsNode ==
  ASSUME TypeOK, NodeOrder, Messages, Running, Requested, Waits, cancel.pc = "idle",
         NoRefusedRebirth, NodeStep
  PROVE  Waits'
<1>1. CASE NodeSend
  BY <1>1, SendEffect DEF SameTask, KeepsTask, Waits, Awaiting
<1>2. CASE NodeSendFails
  BY <1>2, RefusedEffect DEF SameTask, KeepsTask, Waits, Awaiting
<1>3. CASE Subscribed
  BY <1>3, SubscribedEffect DEF KeepsTask, Waits
<1>4. CASE SubscribeFailed
  BY <1>4, SubscribeFailedEffect DEF Waits
<1>5. CASE Birthed
  BY <1>5, BirthedEffect DEF Waits
<1>6. CASE BirthFailed
  <2>1. node.res = "err" /\ env.fails # 0
    <3>1. env.fails > 0 /\ env.fails \in Nat
      BY <1>6, BirthFailedEffect DEF Requested, Running, TypeOK, SessionTypes, Counters
    <3> QED
      BY <1>6, <3>1, BirthFailedEffect
  <2>2. node.pc = "nbirth" /\ node.type # "Rebirth"
    <3>1. env.rebirths + env.cmds = 0
      BY <2>1 DEF NoRefusedRebirth
    <3> QED
      BY <1>6, <3>1, BirthFailedEffect DEF Requested
  <2> QED
    BY <1>6, <2>2, BirthFailedEffect DEF Waits
<1>7. CASE DeathSent
  BY <1>7, DeathSentEffect DEF Keeps, KeepsTask, Waits
<1>8. CASE DisconnectSent
  BY <1>8, DisconnectSentEffect DEF KeepsTask, Waits
<1>9. CASE TakeOnline
  BY <1>9, OnlineEffect DEF Tried, Waits
<1>10. CASE TakeOffline
  BY <1>10, OfflineEffect DEF Waits
<1>11. CASE TakeState
  <2>1. PrimaryHost
    <3>1. Head(cs).kind = "State" /\ cs # <<>>
      BY <1>11, StateHost
    <3>2. Head(cs).ts \in 1 .. host.ts /\ host.ts \in Nat
      BY <3>1 DEF Messages, HostMessage, TypeOK, SessionTypes
    <3> QED
      BY <3>2 DEF Requested
  <2>2. \/ UNCHANGED <<st, node>>
        \/ Tried(node.clientOnline, node.retry, TRUE)
        \/ /\ ~st'.host /\ st'.birthed = st.birthed /\ KeepsTask(node)
           /\ ~st.birthed => node' = node
           /\ st.birthed => node'.pc = "ndeath"
    BY <1>11, StateEffect
  <2> QED
    BY <1>11, <2>1, <2>2, StateEffect DEF Tried, KeepsTask, Waits
<1>12. CASE TakeStopped
  BY <1>12, StoppedEffect DEF Waits
<1>13. CASE RetryFires
  BY <1>13, RetryEffect DEF Tried, Waits
<1>14. CASE TakeRebirth
  BY <1>14, RebirthEffect DEF Begins, Waits
<1>15. CASE TakeCommand
  BY <1>15, CommandEffect DEF Begins, SameTask, KeepsTask, Waits
<1> QED
  BY <1>1, <1>2, <1>3, <1>4, <1>5, <1>6, <1>7, <1>8, <1>9, <1>10, <1>11, <1>12, <1>13,
     <1>14, <1>15 DEF NodeStep, NodeOnlyStep

LEMMA AttemptKept ==
  ASSUME TypeOK, NodeOrder, Messages, Running, Attempt, [Next]_vars
  PROVE  Attempt'
<1>0. /\ env.rebirths \in Nat /\ env.cmds \in Nat /\ env.fails \in Nat
      /\ env'.rebirths \in Nat /\ env'.cmds \in Nat /\ env'.fails \in Nat
  BY TypesKept DEF TypeOK, SessionTypes, Counters
<1>1. CASE NodeStep
  <2>1. /\ env'.rebirths = env.rebirths /\ env'.cmds = env.cmds /\ env'.fails >= env.fails
    BY <1>1, NodeMail
  <2>2. NoRefusedRebirth' => NoRefusedRebirth
    BY <1>0, <2>1 DEF NoRefusedRebirth
  <2>3. cancel' = cancel
    BY <1>1, NodeElsewhere DEF Elsewhere
  <2> QED
    BY <1>1, <2>2, <2>3, RequestedNode, WaitsNode DEF Attempt
<1>2. CASE ~NodeStep
  <2>1. /\ (rebirthRx' => rebirthRx \/ env'.rebirths > 0)
        /\ (cmds' > 0 => cmds > 0 \/ env'.cmds > 0)
        /\ env'.rebirths >= env.rebirths /\ env'.cmds >= env.cmds
        /\ env'.fails = env.fails
        /\ cancel.pc # "idle" => cancel'.pc # "idle"
        /\ loop.pc = "done" => loop'.pc = "done"
        /\ host'.ts > 0 => host.ts > 0 \/ PrimaryHost
    BY <1>2, OutsideMail
  <2>2. /\ Keeps(st) /\ SameTask /\ node'.res = node.res
        /\ st'.birthed = st.birthed \/ cancel'.pc # "idle"
    BY <1>2, NodeLeft DEF Next, OtherStep
  <2>3. Requested'
    BY RequestedKept, TypesKept DEF Attempt
  <2>4. NoRefusedRebirth' => NoRefusedRebirth
    BY <1>0, <2>1 DEF NoRefusedRebirth
  <2>5. cancel'.pc = "idle" /\ Waits => Waits'
    BY <2>2 DEF Waits, Keeps, SameTask, KeepsTask
  <2> QED
    BY <2>1, <2>3, <2>4, <2>5 DEF Attempt
<1> QED
  BY <1>1, <1>2

(* A node that is connected but not birthed has an attempt ahead of it: a  *)
(* first birth or a subscription that failed has armed the retry, and      *)
(* otherwise it waits for its primary host ("it disconnects and retries    *)
(* after a delay rather than stopping").  A rebirth the client refused is  *)
(* only logged: where both occur the node may wait for another rebirth.    *)
THEOREM AttemptsGoOn ==
    Spec => [](env.fails = 0 \/ env.rebirths + env.cmds = 0 => AttemptAhead)
<1> DEFINE Inv == Agreement /\ Messages /\ Heard /\ Running /\ Attempt
<1>1. Init => Inv
  <2> SUFFICES ASSUME Init PROVE Inv
    OBVIOUS
  <2>1. Messages /\ Heard
    BY DEF Init, NewEoNState, Messages, HostMessage, Heard, Online
  <2>2. Running /\ Attempt
    BY DEF Init, NewEoNState, Running, Attempt, Requested, Waits
  <2> QED
    BY <2>1, <2>2, AgreementInit
<1>2. Inv /\ [Next]_vars => Inv'
  <2> SUFFICES ASSUME Inv, [Next]_vars PROVE Inv'
    OBVIOUS
  <2>1. Agreement'
    BY AgreementKept
  <2>2. Messages' /\ Heard'
    BY HeardKept DEF Agreement, IInv, Gated
  <2>3. Running' /\ Attempt'
    BY RunningKept, AttemptKept DEF Agreement, IInv, Gated
  <2> QED
    BY <2>1, <2>2, <2>3
<1>3. Inv => (NoRefusedRebirth => AttemptAhead)
  <2> SUFFICES ASSUME Inv, NoRefusedRebirth, Settled, ~st.birthed
               PROVE  node.retry \/ (PrimaryHost /\ ~st.host)
    BY DEF AttemptAhead
  <2>1. /\ node.pc = "idle" /\ cs = <<>> /\ loop.pc = "poll" /\ loop.mode = "run"
        /\ client.conn = "up" /\ cancel.pc = "idle"
    BY DEF Settled
  <2>2. node.clientOnline
    BY <2>1 DEF Agreement, IInv, Gated, LoopKnows, ClientView
  <2> QED
    BY <2>1, <2>2 DEF Attempt, Waits
<1> QED
  BY <1>1, <1>2, <1>3, PTL DEF Spec, NoRefusedRebirth

-----------------------------------------------------------------------------
(* The deaths in the request channel.  What is dead at a place of the      *)
(* channel has no birth before it, the broker's included, that an NDEATH   *)
(* of the session does not follow.                                         *)
Death(k) == chan[k].kind = "NDEATH" /\ chan[k].n = st.bdseq

Dead(i) ==
    /\ \A j \in 1 .. i - 1 : chan[j].kind = "NBIRTH" => \E k \in j + 1 .. i - 1 : Death(k)
    /\ broker.view # NoBd => \E k \in 1 .. i - 1 : Death(k)

DeadLast == Dead(Len(chan) + 1)

FirstDisconnect(i) ==
    chan[i].kind = "DISCONNECT" /\ \A j \in 1 .. i - 1 : chan[j].kind # "DISCONNECT"

Closes == \A i \in DOMAIN chan : FirstDisconnect(i) => Dead(i)

(* A request enters the channel.                                           *)
LEMMA DeadAppended ==
  ASSUME TypeOK, NEW r \in SessionRequests, chan' = Append(chan, r),
         st'.bdseq = st.bdseq, broker'.view = broker.view
  PROVE  /\ \A i \in 1 .. Len(chan) + 1 : Dead(i)' <=> Dead(i)
         /\ r.kind = "NDEATH" /\ r.n = st.bdseq => DeadLast'
         /\ r.kind = "NBIRTH" => ~DeadLast'
         /\ r.kind # "NBIRTH" /\ DeadLast => DeadLast'
         /\ r.kind \notin {"NBIRTH", "NDEATH"} /\ DeadLast' => DeadLast
<1>0. PICK last : last = Len(chan) + 1
  OBVIOUS
<1>1. /\ Len(chan) \in Nat /\ DOMAIN chan = 1 .. Len(chan) /\ last = Len(chan) + 1
      /\ Len(chan') = last /\ chan'[last] = r
      /\ \A i \in 1 .. Len(chan) : chan'[i] = chan[i]
  BY <1>0, AppendFacts
<1>2. \A k \in 1 .. Len(chan) : Death(k)' <=> Death(k)
  BY <1>1 DEF Death
<1>3. Death(last)' <=> r.kind = "NDEATH" /\ r.n = st.bdseq
  BY <1>1 DEF Death
<1>4. ASSUME NEW i \in 1 .. last PROVE Dead(i)' <=> Dead(i)
  <2>1. \A j \in 1 .. i - 1 : j \in 1 .. Len(chan)
    BY <1>1
  <2>2. \A j \in 1 .. i - 1 : \A k \in j + 1 .. i - 1 : k \in 1 .. Len(chan)
    BY <1>1
  <2> QED
    BY <1>1, <1>2, <2>1, <2>2 DEF Dead
<1>5. /\ DeadLast' <=> Dead(last + 1)'
      /\ DeadLast <=> Dead(last)
  BY <1>1 DEF DeadLast
<1>6. last \in Nat /\ last \in 1 .. last /\ (last + 1) - 1 = last
  BY <1>1
<1>7. ASSUME r.kind = "NDEATH", r.n = st.bdseq PROVE DeadLast'
  <2>1. \A j \in 1 .. last : chan'[j].kind = "NBIRTH" => last \in j + 1 .. last
    BY <1>1, <1>6, <1>7
  <2> QED
    BY <1>3, <1>5, <1>6, <1>7, <2>1 DEF Dead
<1>8. ASSUME r.kind = "NBIRTH" PROVE ~DeadLast'
  <2>1. ~\E k \in last + 1 .. last : Death(k)'
    BY <1>6
  <2> QED
    BY <1>1, <1>5, <1>6, <1>8, <2>1 DEF Dead
<1>9. ASSUME r.kind # "NBIRTH", DeadLast PROVE DeadLast'
  <2>1. ASSUME NEW j \in 1 .. last, chan'[j].kind = "NBIRTH"
        PROVE  \E k \in j + 1 .. last : Death(k)'
    <3>1. j \in 1 .. last - 1 /\ chan[j].kind = "NBIRTH"
      BY <1>1, <1>6, <1>9, <2>1
    <3>2. PICK k \in j + 1 .. last - 1 : Death(k)
      BY <1>5, <1>9, <3>1 DEF Dead
    <3>3. k \in j + 1 .. last /\ k \in 1 .. Len(chan)
      BY <1>1, <3>1, <3>2
    <3> QED
      BY <1>2, <3>2, <3>3
  <2>2. ASSUME broker.view # NoBd PROVE \E k \in 1 .. last : Death(k)'
    <3>1. PICK k \in 1 .. last - 1 : Death(k)
      BY <1>5, <1>9, <2>2 DEF Dead
    <3>2. k \in 1 .. last /\ k \in 1 .. Len(chan)
      BY <1>1, <3>1
    <3> QED
      BY <1>2, <3>1, <3>2
  <2> QED
    BY <1>5, <1>6, <2>1, <2>2 DEF Dead
<1>10. ASSUME r.kind \notin {"NBIRTH", "NDEATH"}, DeadLast' PROVE DeadLast
  <2>1. ASSUME NEW j \in 1 .. last - 1, chan[j].kind = "NBIRTH"
        PROVE  \E k \in j + 1 .. last - 1 : Death(k)
    <3>1. j \in 1 .. last /\ chan'[j].kind = "NBIRTH"
      BY <1>1, <2>1
    <3>2. PICK k \in j + 1 .. last : Death(k)'
      BY <1>5, <1>6, <1>10, <3>1 DEF Dead
    <3>3. k # last
      BY <1>3, <1>10, <3>2
    <3>4. k \in j + 1 .. last - 1 /\ k \in 1 .. Len(chan)
      BY <1>1, <2>1, <3>2, <3>3
    <3> QED
      BY <1>2, <3>2, <3>4
  <2>2. ASSUME broker.view # NoBd PROVE \E k \in 1 .. last - 1 : Death(k)
    <3>1. PICK k \in 1 .. last : Death(k)'
      BY <1>5, <1>6, <1>10, <2>2 DEF Dead
    <3>2. k # last
      BY <1>3, <1>10, <3>1
    <3>3. k \in 1 .. last - 1 /\ k \in 1 .. Len(chan)
      BY <1>1, <3>1, <3>2
    <3> QED
      BY <1>2, <3>1, <3>3
  <2> QED
    BY <1>5, <2>1, <2>2 DEF Dead
<1>11. \A i \in 1 .. Len(chan) + 1 : Dead(i)' <=> Dead(i)
  BY <1>1, <1>4
<1> QED
  BY <1>7, <1>8, <1>9, <1>10, <1>11

(* The first request is delivered: the channel and the broker's view       *)
(* together stay as dead as they were.                                     *)
Delivered ==
    /\ chan # <<>> /\ chan' = Tail(chan) /\ st'.bdseq = st.bdseq
    /\ broker'.view = IF Head(chan).kind = "NBIRTH" THEN Head(chan).n
                      ELSE IF Head(chan).kind = "NDEATH" /\ broker.view = Head(chan).n
                           THEN NoBd ELSE broker.view

LEMMA DeadDelivered ==
  ASSUME TypeOK, Delivered, broker.view \in {NoBd, st.bdseq},
         NEW i \in 1 .. Len(chan)
  PROVE  Dead(i)' <=> Dead(i + 1)
<1>1. /\ Len(chan) \in Nat \ {0} /\ DOMAIN chan = 1 .. Len(chan)
      /\ Head(chan) = chan[1]
      /\ \A j \in 1 .. Len(chan) - 1 : chan'[j] = chan[j + 1]
  BY TailFacts DEF Delivered
<1>2. \A k \in 1 .. Len(chan) - 1 : Death(k)' <=> Death(k + 1)
  BY <1>1 DEF Death, Delivered
<1>3. /\ chan[1].kind = "NBIRTH" => broker'.view # NoBd
      /\ Death(1) => broker'.view = NoBd \/ broker.view = NoBd
      /\ chan[1].kind # "NBIRTH" => broker'.view = NoBd \/ broker'.view = broker.view
      /\ ~Death(1) /\ broker.view # NoBd => broker'.view # NoBd
      /\ Death(1) => broker'.view = NoBd
  <2>1. Head(chan) \in SessionRequests
    BY DEF TypeOK, Delivered
  <2>2. Head(chan).kind = "NBIRTH" => Head(chan).n # NoBd
    BY <2>1 DEF SessionRequests, BdSeq, NoBd
  <2>3. st.bdseq # NoBd
    BY DEF TypeOK, SessionTypes, EoNState, BdSeq, NoBd
  <2> QED
    BY <1>1, <2>2, <2>3 DEF Delivered, Death
<1>4. ASSUME Dead(i + 1) PROVE Dead(i)'
  <2>1. ASSUME NEW j \in 1 .. i - 1, chan'[j].kind = "NBIRTH"
        PROVE  \E k \in j + 1 .. i - 1 : Death(k)'
    <3>1. j + 1 \in 1 .. (i + 1) - 1 /\ chan[j + 1].kind = "NBIRTH"
      BY <1>1, <2>1
    <3>2. PICK k \in (j + 1) + 1 .. (i + 1) - 1 : Death(k)
      BY <1>4, <3>1 DEF Dead
    <3>3. k - 1 \in j + 1 .. i - 1 /\ k - 1 \in 1 .. Len(chan) - 1 /\ (k - 1) + 1 = k
      BY <1>1, <2>1, <3>2
    <3> QED
      BY <1>2, <3>2, <3>3
  <2>2. ASSUME broker'.view # NoBd PROVE \E k \in 1 .. i - 1 : Death(k)'
    <3>1. PICK k \in 2 .. (i + 1) - 1 : Death(k)
      <4>1. CASE chan[1].kind = "NBIRTH"
        <5>1. 1 \in 1 .. (i + 1) - 1 /\ 1 + 1 = 2
          BY <1>1
        <5> QED
          BY <1>4, <4>1, <5>1 DEF Dead
      <4>2. CASE chan[1].kind # "NBIRTH"
        <5>1. broker.view # NoBd
          BY <1>3, <2>2, <4>2
        <5>2. PICK k \in 1 .. (i + 1) - 1 : Death(k)
          BY <1>4, <5>1 DEF Dead
        <5>3. k # 1
          BY <1>3, <2>2, <5>2
        <5> QED
          BY <1>1, <5>2, <5>3
      <4> QED
        BY <4>1, <4>2
    <3>2. k - 1 \in 1 .. i - 1 /\ k - 1 \in 1 .. Len(chan) - 1 /\ (k - 1) + 1 = k
      BY <1>1, <3>1
    <3> QED
      BY <1>2, <3>1, <3>2
  <2> QED
    BY <2>1, <2>2 DEF Dead
<1>5. ASSUME Dead(i)' PROVE Dead(i + 1)
  <2>1. ASSUME broker'.view # NoBd PROVE \E k \in 2 .. (i + 1) - 1 : Death(k)
    <3>1. PICK k \in 1 .. i - 1 : Death(k)'
      BY <1>5, <2>1 DEF Dead
    <3>2. k + 1 \in 2 .. (i + 1) - 1 /\ k \in 1 .. Len(chan) - 1
      BY <1>1, <3>1
    <3> QED
      BY <1>2, <3>1, <3>2
  <2>2. ASSUME NEW j \in 1 .. (i + 1) - 1, chan[j].kind = "NBIRTH"
        PROVE  \E k \in j + 1 .. (i + 1) - 1 : Death(k)
    <3>1. CASE j = 1
      BY <1>3, <2>1, <2>2, <3>1
    <3>2. CASE j # 1
      <4>1. j - 1 \in 1 .. i - 1 /\ j - 1 \in 1 .. Len(chan) - 1 /\ (j - 1) + 1 = j
        BY <1>1, <3>2
      <4>2. chan'[j - 1].kind = "NBIRTH"
        BY <1>1, <2>2, <4>1
      <4>3. PICK k \in (j - 1) + 1 .. i - 1 : Death(k)'
        BY <1>5, <4>1, <4>2 DEF Dead
      <4>4. k + 1 \in j + 1 .. (i + 1) - 1 /\ k \in 1 .. Len(chan) - 1
        BY <1>1, <4>1, <4>3
      <4> QED
        BY <1>2, <4>3, <4>4
    <3> QED
      BY <3>1, <3>2
  <2>3. ASSUME broker.view # NoBd PROVE \E k \in 1 .. (i + 1) - 1 : Death(k)
    <3>1. CASE Death(1)
      <4>1. 1 \in 1 .. (i + 1) - 1
        BY <1>1
      <4> QED
        BY <3>1, <4>1
    <3>2. CASE ~Death(1)
      <4>1. PICK k \in 2 .. (i + 1) - 1 : Death(k)
        BY <1>3, <2>1, <2>3, <3>2
      <4>2. k \in 1 .. (i + 1) - 1
        BY <4>1
      <4> QED
        BY <4>1, <4>2
    <3> QED
      BY <3>1, <3>2
  <2> QED
    BY <2>2, <2>3 DEF Dead
<1> QED
  BY <1>4, <1>5

(* A DISCONNECT after what is dead leaves no birth behind.                 *)
LEMMA ClosesAppended ==
  ASSUME TypeOK, NEW r \in SessionRequests, chan' = Append(chan, r),
         st'.bdseq = st.bdseq, broker'.view = broker.view, Closes,
         r.kind = "DISCONNECT" => Has("DISCONNECT") \/ DeadLast
  PROVE  Closes'
<1>1. /\ Len(chan) \in Nat /\ DOMAIN chan = 1 .. Len(chan)
      /\ DOMAIN chan' = 1 .. Len(chan) + 1
      /\ chan'[Len(chan) + 1] = r /\ \A i \in DOMAIN chan : chan'[i] = chan[i]
  BY AppendFacts
<1>2. \A i \in 1 .. Len(chan) + 1 : Dead(i)' <=> Dead(i)
  BY DeadAppended
<1> SUFFICES ASSUME NEW i \in 1 .. Len(chan) + 1, FirstDisconnect(i)' PROVE Dead(i)
  BY <1>1, <1>2 DEF Closes
<1>3. chan'[i].kind = "DISCONNECT" /\ \A j \in 1 .. i - 1 : chan'[j].kind # "DISCONNECT"
  BY DEF FirstDisconnect
<1>4. CASE i \in 1 .. Len(chan)
  <2>1. chan[i].kind = "DISCONNECT" /\ \A j \in 1 .. i - 1 : chan[j].kind # "DISCONNECT"
    BY <1>1, <1>3, <1>4
  <2> QED
    BY <1>1, <1>4, <2>1 DEF Closes, FirstDisconnect
<1>5. CASE i = Len(chan) + 1
  <2>1. r.kind = "DISCONNECT" /\ \A j \in 1 .. Len(chan) : chan[j].kind # "DISCONNECT"
    BY <1>1, <1>3, <1>5
  <2> QED
    BY <1>1, <1>5, <2>1 DEF Has, DeadLast
<1> QED
  BY <1>1, <1>4, <1>5

(* The broker takes a request that is no DISCONNECT; or that is one, and   *)
(* then the hosts have taken the node for dead.                            *)
LEMMA ClosesDelivered ==
  ASSUME TypeOK, Delivered, broker.view \in {NoBd, st.bdseq}, Closes
  PROVE  /\ Head(chan).kind # "DISCONNECT" => Closes'
         /\ Head(chan).kind = "DISCONNECT" => broker.view = NoBd
         /\ DeadLast' <=> DeadLast
<1>1. /\ Len(chan) \in Nat \ {0} /\ DOMAIN chan = 1 .. Len(chan)
      /\ Len(chan') = Len(chan) - 1 /\ DOMAIN chan' = 1 .. Len(chan) - 1
      /\ Head(chan) = chan[1] /\ \A i \in DOMAIN chan' : chan'[i] = chan[i + 1]
  BY TailFacts DEF Delivered
<1>2. \A i \in 1 .. Len(chan) : Dead(i)' <=> Dead(i + 1)
  BY DeadDelivered
<1>3. ASSUME Head(chan).kind # "DISCONNECT" PROVE Closes'
  <2> SUFFICES ASSUME NEW i \in 1 .. Len(chan) - 1, FirstDisconnect(i)' PROVE Dead(i + 1)
    BY <1>1, <1>2 DEF Closes
  <2>1. chan'[i].kind = "DISCONNECT" /\ \A j \in 1 .. i - 1 : chan'[j].kind # "DISCONNECT"
    BY DEF FirstDisconnect
  <2>2. chan[i + 1].kind = "DISCONNECT" /\ i + 1 \in DOMAIN chan
    <3>1. i \in DOMAIN chan' /\ i + 1 \in 1 .. Len(chan)
      BY <1>1
    <3>2. chan'[i] = chan[i + 1]
      BY <1>1, <3>1
    <3> QED
      BY <1>1, <2>1, <3>1, <3>2
  <2>3. ASSUME NEW j \in 1 .. i PROVE chan[j].kind # "DISCONNECT"
    <3>1. CASE j = 1
      BY <1>1, <1>3, <3>1
    <3>2. CASE j # 1
      <4>1. j - 1 \in 1 .. i - 1 /\ j - 1 \in DOMAIN chan' /\ (j - 1) + 1 = j
        BY <1>1, <3>2
      <4>2. chan'[j - 1] = chan[(j - 1) + 1]
        BY <1>1, <4>1
      <4> QED
        BY <2>1, <4>1, <4>2
    <3> QED
      BY <3>1, <3>2
  <2>4. FirstDisconnect(i + 1)
    BY <2>2, <2>3 DEF FirstDisconnect
  <2> QED
    BY <2>2, <2>4 DEF Closes
<1>4. ASSUME Head(chan).kind = "DISCONNECT" PROVE broker.view = NoBd
  <2>1. Dead(1)
    BY <1>1, <1>4 DEF Closes, FirstDisconnect
  <2> QED
    BY <2>1 DEF Dead
<1>5. DeadLast' <=> DeadLast
  <2>1. PICK last \in Nat : last = Len(chan)
    BY <1>1
  <2>2. DeadLast <=> Dead(last + 1)
    BY <2>1 DEF DeadLast
  <2>3. Len(chan') + 1 = last
    BY <1>1, <2>1
  <2>4. DeadLast' <=> Dead(last)'
    BY <2>3 DEF DeadLast, Dead, Death
  <2> QED
    BY <1>1, <1>2, <2>1, <2>2, <2>4
<1> QED
  BY <1>3, <1>4, <1>5

-----------------------------------------------------------------------------
(* No connection broke, no request was refused, and a cancel() leaves the  *)
(* client's death to its will.                                             *)
Calm == env.losses = 0 /\ env.fails = 0 /\ (cancel.pc = "idle" \/ cancel.will)

(* The hosts take the node for alive only under the will that will tell    *)
(* them of its death, and while the connection stands.                     *)
Willed ==
    /\ loop.pc = "done" => client.conn = "down"
    /\ client.conn # "up" => broker.view = NoBd
    /\ client.conn = "up" =>
           /\ broker.view \in {NoBd, client.will}
           /\ broker.view # NoBd => broker.bd = broker.view
    /\ client.conn = "down" /\ loop.pc # "done" => ~Has("DISCONNECT")
    /\ cancel.pc # "disc"

(* The node task disconnects after its death only; and until somebody      *)
(* cancels it, it is birthed exactly when what it has sent makes it so.    *)
Dying ==
    /\ node.pc = "ndeath" /\ node.res = "ok" => DeadLast
    /\ node.pc = "disc" => node.res # "ok" /\ DeadLast

Aware ==
    /\ node.pc \in {"idle", "sub", "stopped"} => (st.birthed <=> ~DeadLast)
    /\ node.pc = "nbirth" /\ node.res = "ok" => ~DeadLast

Orderly == client.conn = "up" /\ loop.mode # "last" =>
    /\ Closes
    /\ ~Has("DISCONNECT") => Dying /\ (cancel.pc = "idle" => Aware)

Deaths == Calm => Willed /\ Orderly

(* A request the node task has sent leaves the deaths in order.            *)
LEMMA OrderlySend ==
  ASSUME IInv, NodeOrder, Orderly, NodeSend, client.conn = "up", loop.mode # "last"
  PROVE  /\ Closes'
         /\ ~Has("DISCONNECT")' => Dying' /\ (cancel.pc = "idle" => Aware')
<1>0. TypeOK
  BY DEF IInv, Gated
<1>1. /\ NodeRequest \in SessionRequests /\ chan' = Append(chan, NodeRequest)
      /\ node.pc \in Awaiting /\ node.res = "wait" /\ node'.pc = node.pc
      /\ node'.res = "ok" /\ st' = st
      /\ broker' = broker
  BY <1>0, SendEffect, RequestKinds, NodeElsewhere
     DEF SameTask, Elsewhere, NodeStep, NodeOnlyStep
<1>2. /\ NodeRequest.kind = "SUB" <=> node.pc = "sub"
      /\ NodeRequest.kind = "NBIRTH" <=> node.pc = "nbirth"
      /\ NodeRequest.kind = "NDEATH" <=> node.pc = "ndeath"
      /\ NodeRequest.kind = "DISCONNECT" <=> node.pc = "disc"
      /\ node.pc = "ndeath" => NodeRequest.n = st.bdseq
  BY <1>0, <1>1, RequestKinds DEF NodeOrder
<1>3. /\ Closes
      /\ ~Has("DISCONNECT") => Dying /\ (cancel.pc = "idle" => Aware)
  BY DEF Orderly
<1>4. Has("DISCONNECT")' <=> (Has("DISCONNECT") \/ node.pc = "disc")
  BY <1>0, <1>1, <1>2, HasAppended
<1>5. Closes'
  BY <1>0, <1>1, <1>2, <1>3, ClosesAppended DEF Dying
<1>6. /\ node.pc = "ndeath" => DeadLast'
      /\ node.pc = "nbirth" => ~DeadLast'
      /\ node.pc = "sub" => (DeadLast' <=> DeadLast)
  BY <1>0, <1>1, <1>2, DeadAppended
<1>7. ASSUME ~Has("DISCONNECT")' PROVE Dying' /\ (cancel.pc = "idle" => Aware')
  BY <1>1, <1>3, <1>4, <1>6, <1>7 DEF Dying, Aware, Awaiting
<1> QED
  BY <1>5, <1>7

(* Its other steps send nothing, and none of them is an on_offline(); as   *)
(* no request is refused, no birth fails.                                  *)
LEMMA OrderlyNode ==
  ASSUME IInv, NodeOrder, Orderly, NodeStep, ~NodeSend, ~TakeOffline,
         node.res # "err", node'.res # "err",
         client.conn = "up", loop.mode # "last"
  PROVE  /\ Closes'
         /\ ~Has("DISCONNECT")' => Dying' /\ (cancel.pc = "idle" => Aware')
<1>0. TypeOK /\ node.res \in {"wait", "ok", "err"}
  BY DEF IInv, Gated, TypeOK, SessionTypes, NodeTask
<1>1. chan' = chan /\ st'.bdseq = st.bdseq /\ broker' = broker
  BY <1>0, NodeAsks, NodeQuiet, NodeElsewhere DEF Elsewhere
<1>2. /\ Closes' <=> Closes
      /\ DeadLast' <=> DeadLast
      /\ Has("DISCONNECT")' <=> Has("DISCONNECT")
  BY <1>1 DEF Closes, FirstDisconnect, Dead, DeadLast, Death, Has
<1>3. /\ Closes
      /\ ~Has("DISCONNECT") => Dying /\ (cancel.pc = "idle" => Aware)
  BY DEF Orderly
<1> SUFFICES ASSUME Dying, cancel.pc = "idle" => Aware
             PROVE  Dying' /\ (cancel.pc = "idle" => Aware')
  BY <1>2, <1>3
<1>4. CASE NodeSendFails
  BY <1>0, <1>4, RefusedEffect
<1>5. CASE Subscribed
  BY <1>0, <1>2, <1>5, SubscribedEffect DEF Dying, Aware
<1>6. CASE SubscribeFailed
  BY <1>0, <1>6, SubscribeFailedEffect
<1>7. CASE Birthed
  BY <1>0, <1>2, <1>7, BirthedEffect DEF Dying, Aware
<1>8. CASE BirthFailed
  BY <1>0, <1>8, BirthFailedEffect
<1>9. CASE DeathSent
  BY <1>0, <1>2, <1>9, DeathSentEffect DEF Dying, Aware
<1>10. CASE DisconnectSent
  BY <1>0, <1>2, <1>10, DisconnectSentEffect DEF Dying, Aware
<1>11. CASE TakeOnline
  BY <1>0, <1>2, <1>11, OnlineEffect DEF Dying, Aware, Tried
<1>12. CASE TakeState
  BY <1>0, <1>2, <1>12, StateEffect DEF Dying, Aware, Tried
<1>13. CASE TakeStopped
  BY <1>0, <1>2, <1>13, StoppedEffect DEF Dying, Aware
<1>14. CASE RetryFires
  BY <1>0, <1>2, <1>14, RetryEffect DEF Dying, Aware, Tried
<1>15. CASE TakeRebirth
  BY <1>0, <1>2, <1>15, RebirthEffect DEF Dying, Aware, Begins
<1>16. CASE TakeCommand
  BY <1>0, <1>2, <1>16, CommandEffect DEF Dying, Aware, Begins, SameTask
<1> QED
  BY <1>4, <1>5, <1>6, <1>7, <1>8, <1>9, <1>10, <1>11, <1>12, <1>13, <1>14, <1>15, <1>16
     DEF NodeStep, NodeOnlyStep

LEMMA DeathsNode ==
  ASSUME IInv, NodeOrder, Handover, Carried, Requested, Requested', Deaths, NodeStep
  PROVE  Deaths'
<1>0. TypeOK
  BY DEF IInv, Gated
<1>1. /\ UNCHANGED <<cancel, client, broker>> /\ env'.losses = env.losses
      /\ loop'.pc = loop.pc /\ loop'.mode = loop.mode
  BY <1>0, NodeElsewhere DEF Elsewhere
<1>2. env.fails \in Nat /\ env'.fails \in Nat /\ env'.fails >= env.fails
  BY <1>0, NodeMail
<1> SUFFICES ASSUME Calm' PROVE Willed' /\ Orderly'
  BY DEF Deaths
<1>3. Calm /\ env'.fails = 0
  BY <1>1, <1>2 DEF Calm
<1>4. Willed /\ Orderly /\ env.losses = 0 /\ env.fails = 0
  BY <1>3 DEF Deaths, Calm
<1>5. Willed'
  <2>1. ASSUME client.conn = "down", loop.pc # "done" PROVE chan' = chan
    <3>1. ~node.clientOnline
      BY <1>4, <2>1 DEF Carried, Disconnected
    <3>2. ~NodeSend
      BY <1>0, <3>1, SendEffect DEF NodeOrder, Awaiting
    <3> QED
      BY <1>0, <3>2, NodeAsks
  <2> QED
    BY <1>1, <1>4, <2>1 DEF Willed, Has
<1>6. ASSUME client.conn = "up", loop.mode # "last"
      PROVE  /\ Closes'
             /\ ~Has("DISCONNECT")' => Dying' /\ (cancel.pc = "idle" => Aware')
  <2>1. loop.pc # "done"
    BY <1>4, <1>6 DEF Willed
  <2>2. node.res # "err" /\ node'.res # "err"
    BY <1>1, <1>3, <1>4, <2>1 DEF Requested
  <2>3. ~TakeOffline
    BY <1>0, <1>6, OfflineEffect DEF Handover
  <2> QED
    BY <1>4, <1>6, <2>2, <2>3, OrderlySend, OrderlyNode
<1>7. Orderly'
  BY <1>1, <1>6 DEF Orderly
<1> QED
  BY <1>5, <1>7

(* The event loop ends the connection with its will.                       *)
LEMMA DeathsLoop == ASSUME TypeOK, Deaths, LoopStep PROVE Deaths'
<1>1. /\ SameState /\ UNCHANGED <<node, chan, env, cancel>>
      /\ client'.will = client.will /\ broker'.bd = broker.bd
      /\ loop.mode = "last" => loop'.mode = "last"
      /\ loop.pc # "done"
      /\ LoopDone \/ (UNCHANGED broker /\ client'.conn = client.conn /\ loop'.pc # "done")
  <2>1. LoopElsewhere
    BY RunEffect, LoopSendEffect, GotWillEffect, LoopStopEffect, DrainCheckEffect,
       DrainTimeoutEffect, LoopDoneEffect DEF LoopStep
  <2> QED
    BY <2>1, RunEffect, LoopSendEffect, GotWillEffect, LoopStopEffect, DrainCheckEffect,
       DrainTimeoutEffect, LoopDoneEffect DEF LoopStep, LoopElsewhere, SameClient
<1> SUFFICES ASSUME Calm, Willed, Orderly PROVE Willed' /\ Orderly'
  BY <1>1 DEF Deaths, Calm
<1>2. Has("DISCONNECT")' <=> Has("DISCONNECT")
  BY <1>1 DEF Has
<1>3. CASE LoopDone
  <2>1. /\ client'.conn = "down" /\ loop'.pc = "done"
        /\ broker'.view = IF client.conn = "up" /\ broker.view = client.will THEN NoBd
                          ELSE broker.view
    BY <1>3, LoopDoneEffect
  <2>2. broker'.view = NoBd
    BY <2>1 DEF Willed
  <2> QED
    BY <1>1, <2>1, <2>2 DEF Willed, Orderly
<1>4. CASE ~LoopDone
  <2>1. UNCHANGED broker /\ client'.conn = client.conn /\ loop'.pc # "done"
    BY <1>1, <1>4
  <2>2. Willed'
    BY <1>1, <1>2, <2>1 DEF Willed
  <2>3. /\ Closes' <=> Closes
        /\ DeadLast' <=> DeadLast
        /\ st'.birthed = st.birthed
    BY <1>1, <2>1 DEF SameState, Keeps, Closes, FirstDisconnect, Dead, DeadLast, Death
  <2>4. (Dying' <=> Dying) /\ (Aware' <=> Aware)
    BY <1>1, <2>3 DEF Dying, Aware
  <2> QED
    BY <1>1, <1>2, <2>1, <2>2, <2>3, <2>4 DEF Orderly
<1> QED
  BY <1>3, <1>4

(* What the client hands to the broker keeps the order of the channel; a   *)
(* DISCONNECT ends a connection on which the node has died.                *)
LEMMA DeathsRequest ==
  ASSUME TypeOK, Bds, Carried, env.losses = 0, loop.mode # "last",
         Willed, Orderly, PollRequest
  PROVE  Willed' /\ Orderly'
<1>1. /\ UNCHANGED <<st, node, cancel>> /\ loop'.mode = loop.mode /\ loop.pc = "poll"
      /\ client.conn # "down" /\ client'.will = client.will
      /\ chan # <<>> /\ chan' = Tail(chan) /\ Head(chan) \in SessionRequests
      /\ client.conn # "up" => UNCHANGED broker
      /\ Head(chan).kind = "DISCONNECT" => client'.conn = "closing" /\ loop'.pc = "send"
      /\ Head(chan).kind # "DISCONNECT" => client'.conn = client.conn /\ loop'.pc = loop.pc
  BY RequestEffect DEF PollElsewhere, Got, Offline
<1>2. CASE client.conn # "up"
  BY <1>1, <1>2 DEF Willed, Orderly
<1>3. CASE client.conn = "up"
  <2>1. /\ broker'.bd = (IF Head(chan).kind = "NBIRTH" THEN Head(chan).n ELSE broker.bd)
        /\ broker'.view = (IF Head(chan).kind = "NBIRTH" THEN Head(chan).n
                           ELSE IF Head(chan).kind = "NDEATH" /\ broker.view = Head(chan).n
                                THEN NoBd ELSE broker.view)
    BY <1>3, RequestEffect
  <2>2. /\ client.will = st.bdseq /\ broker.view \in {NoBd, st.bdseq}
    BY <1>1, <1>3 DEF Bds, Willed
  <2>3. Closes
    BY <1>3 DEF Orderly
  <2>4. Delivered
    BY <1>1, <2>1 DEF Delivered
  <2>5. /\ Head(chan).kind # "DISCONNECT" => Closes'
        /\ Head(chan).kind = "DISCONNECT" => broker.view = NoBd
        /\ DeadLast' <=> DeadLast
    BY <2>2, <2>3, <2>4, ClosesDelivered
  <2>6. Has("DISCONNECT") <=> (Has("DISCONNECT")' \/ Head(chan).kind = "DISCONNECT")
    BY <1>1, HasTail
  <2>7. Head(chan).kind = "NBIRTH" => Head(chan).n = st.bdseq
    <3>1. Head(chan) = chan[1] /\ 1 \in DOMAIN chan
      BY <1>1, TailFacts
    <3> QED
      BY <1>3, <3>1 DEF Carried, BirthsInOrder
  <2>8. CASE Head(chan).kind = "DISCONNECT"
    BY <1>1, <2>1, <2>5, <2>8 DEF Willed, Orderly
  <2>9. CASE Head(chan).kind # "DISCONNECT"
    <3>1. Willed'
      BY <1>1, <1>3, <2>1, <2>2, <2>7, <2>9 DEF Willed
    <3>2. (Dying' <=> Dying) /\ (Aware' <=> Aware)
      BY <1>1, <2>5 DEF Dying, Aware
    <3>3. ~Has("DISCONNECT") => Dying /\ (cancel.pc = "idle" => Aware)
      BY <1>3 DEF Orderly
    <3>4. Orderly'
      BY <1>1, <2>5, <2>6, <2>9, <3>2, <3>3 DEF Orderly
    <3> QED
      BY <3>1, <3>4
  <2> QED
    BY <2>8, <2>9
<1> QED
  BY <1>2, <1>3

(* A connection starts with a node that knows of no other: nothing is      *)
(* birthed, and nothing in the channel births.                             *)
LEMMA DeathsConnect ==
  ASSUME TypeOK, NodeOrder, Carried, env.losses = 0, Willed, PollConnect
  PROVE  Willed' /\ Orderly'
<1>1. /\ UNCHANGED <<st, node, cancel, chan>> /\ loop'.mode = loop.mode /\ loop.pc = "poll"
      /\ client.conn = "down" /\ client'.conn = "up" /\ broker'.view = broker.view
      /\ loop'.pc # "done"
  BY ConnectEffect DEF PollElsewhere, Got
<1>2. Disconnected /\ OnlyDeaths /\ ~Has("DISCONNECT") /\ broker.view = NoBd
  BY <1>1 DEF Carried, Willed
<1>3. ~st.birthed /\ node.pc \in {"idle", "stopped"}
  BY <1>2 DEF Disconnected, NodeOrder
<1>4. ~Has("DISCONNECT")'
  BY <1>1, <1>2 DEF Has
<1>5. Closes'
  BY <1>4 DEF Closes, FirstDisconnect, Has
<1>6. DeadLast'
  <2>1. DOMAIN chan = 1 .. Len(chan) /\ Len(chan) \in Nat
    BY DEF TypeOK, SessionTypes
  <2>2. \A j \in 1 .. Len(chan) : chan[j].kind # "NBIRTH"
    BY <1>2, <2>1 DEF OnlyDeaths
  <2> QED
    BY <1>1, <1>2, <2>1, <2>2 DEF DeadLast, Dead
<1>7. Willed'
  BY <1>1, <1>2, <1>4 DEF Willed
<1>8. Dying' /\ Aware'
  BY <1>1, <1>3, <1>6 DEF Dying, Aware
<1> QED
  BY <1>5, <1>7, <1>8 DEF Orderly

LEMMA DeathsPoll ==
  ASSUME IInv, NodeOrder, Handover, Bds, Carried, Deaths, PollRequest \/ PollEvent
  PROVE  Deaths'
<1>0. TypeOK /\ env.losses \in Nat
  BY DEF IInv, Gated, TypeOK, SessionTypes, Counters
<1>1. /\ UNCHANGED <<st, node, cancel>> /\ loop'.mode = loop.mode /\ loop.pc = "poll"
      /\ loop.mode # "last" /\ env'.fails = env.fails
  BY <1>0, RequestEffect, ConnectEffect, StateMessageEffect, CommandMessageEffect,
     LostEffect, KickEffect, ClosedEffect DEF PollEvent, PollElsewhere, Handover
<1>2. /\ env'.losses = env.losses \/ env'.losses = env.losses + 1
      /\ PollLost => env'.losses = env.losses + 1
  BY <1>0, RequestEffect, ConnectEffect, StateMessageEffect, CommandMessageEffect,
     LostEffect, KickEffect, ClosedEffect DEF PollEvent
<1> SUFFICES ASSUME Calm' PROVE Willed' /\ Orderly'
  BY DEF Deaths
<1>3. Calm /\ env.losses = 0 /\ ~PollLost
  BY <1>0, <1>1, <1>2 DEF Calm
<1>4. Willed /\ Orderly
  BY <1>3 DEF Deaths
<1>5. CASE PollRequest
  BY <1>0, <1>1, <1>3, <1>4, <1>5, DeathsRequest
<1>6. CASE PollConnect
  BY <1>0, <1>3, <1>4, <1>6, DeathsConnect
<1>7. CASE PollState \/ PollCommand
  <2>1. UNCHANGED <<chan, client, broker>> /\ (loop' = loop \/ \E ev : Got(ev))
    BY <1>0, <1>7, StateMessageEffect, CommandMessageEffect
  <2>2. loop'.pc # "done"
    BY <1>1, <2>1 DEF Got
  <2>3. /\ Closes' <=> Closes
        /\ DeadLast' <=> DeadLast
        /\ Has("DISCONNECT")' <=> Has("DISCONNECT")
    BY <1>1, <2>1 DEF Closes, FirstDisconnect, Dead, DeadLast, Death, Has
  <2>4. (Dying' <=> Dying) /\ (Aware' <=> Aware)
    BY <1>1, <2>3 DEF Dying, Aware
  <2> QED
    BY <1>1, <1>4, <2>1, <2>2, <2>3, <2>4 DEF Willed, Orderly
<1>8. CASE PollServerDisconnect
  <2>1. /\ client.conn = "up" /\ client'.conn = "closing" /\ loop'.pc = "send"
        /\ broker'.view = IF broker.view = client.will THEN NoBd ELSE broker.view
    BY <1>0, <1>8, KickEffect DEF Got, Offline
  <2> QED
    BY <1>1, <1>4, <2>1 DEF Willed, Orderly
<1>9. CASE PollClosed
  <2>1. /\ client.conn = "closing" /\ client'.conn = "down" /\ chan' = <<>>
        /\ broker' = broker
    BY <1>0, <1>9, ClosedEffect
  <2> QED
    BY <1>1, <1>4, <2>1 DEF Willed, Orderly, Has
<1> QED
  BY <1>3, <1>5, <1>6, <1>7, <1>8, <1>9 DEF PollEvent

(* A cancel() that keeps the will adds a death certificate of its own.     *)
LEMMA DeathsApp == ASSUME TypeOK, Deaths, AppStep PROVE Deaths'
<1>1. CASE Rebirth
  <2>1. AppElsewhere /\ UNCHANGED <<st, chan, cancel>>
    BY <1>1, RebirthCallEffect
  <2>2. /\ Closes' <=> Closes
        /\ DeadLast' <=> DeadLast
        /\ Has("DISCONNECT")' <=> Has("DISCONNECT")
    BY <2>1 DEF AppElsewhere, Closes, FirstDisconnect, Dead, DeadLast, Death, Has
  <2>3. (Dying' <=> Dying) /\ (Aware' <=> Aware)
    BY <2>1, <2>2 DEF Dying, Aware, AppElsewhere
  <2> QED
    BY <2>1, <2>2, <2>3 DEF AppElsewhere, Deaths, Calm, Willed, Orderly
<1>2. CASE ~Rebirth
  <2>1. /\ AppElsewhere
        /\ cancel'.pc # "idle" /\ (cancel.pc # "idle" => cancel'.will = cancel.will)
        /\ cancel'.pc = "disc" => cancel.pc = "disc" \/ ~cancel'.will
    BY <1>2, CancelEffect
  <2> SUFFICES ASSUME Calm' PROVE Willed' /\ Orderly'
    BY DEF Deaths
  <2>2. Willed /\ Orderly
    BY <2>1 DEF Deaths, Calm, AppElsewhere
  <2>3. \/ chan' = chan
        \/ \E r \in SessionRequests : r.kind = "NDEATH" /\ chan' = Append(chan, r)
    BY <1>2, <2>2, CancelEffect, CancelRequests DEF Willed
  <2>4. cancel'.pc # "disc"
    BY <2>1, <2>2 DEF Calm, Willed
  <2>5. /\ Closes => Closes'
        /\ DeadLast => DeadLast'
        /\ Has("DISCONNECT")' <=> Has("DISCONNECT")
    <3>1. st'.bdseq = st.bdseq /\ broker'.view = broker.view
      BY <2>1 DEF AppElsewhere, Keeps
    <3>2. CASE chan' = chan
      BY <3>1, <3>2 DEF Closes, FirstDisconnect, Dead, DeadLast, Death, Has
    <3>3. ASSUME NEW r \in SessionRequests, r.kind = "NDEATH", chan' = Append(chan, r)
          PROVE  /\ Closes => Closes'
                 /\ DeadLast => DeadLast'
                 /\ Has("DISCONNECT")' <=> Has("DISCONNECT")
      BY <3>1, <3>3, ClosesAppended, DeadAppended, HasAppended
    <3> QED
      BY <2>3, <3>2, <3>3
  <2>6. Willed'
    BY <2>1, <2>2, <2>4, <2>5 DEF Willed, AppElsewhere
  <2>7. Dying => Dying'
    BY <2>1, <2>5 DEF Dying, AppElsewhere
  <2> QED
    BY <2>1, <2>2, <2>5, <2>6, <2>7 DEF Orderly, AppElsewhere
<1> QED
  BY <1>1, <1>2

LEMMA DeathsKept ==
  ASSUME IInv, NodeOrder, Handover, Bds, Carried, Requested, Requested', Deaths,
         [Next]_vars
  PROVE  Deaths'
<1>0. TypeOK
  BY DEF IInv, Gated
<1>1. CASE HostFlips \/ OldState \/ CooldownEnds \/ UNCHANGED vars
  <2>1. /\ UNCHANGED <<st, loop, chan, client, broker, cancel>>
        /\ env'.losses = env.losses /\ env'.fails = env.fails
        /\ node'.pc = node.pc /\ node'.res = node.res
    BY <1>0, <1>1, WorldEffect DEF WorldElsewhere, SameTask, vars
  <2>2. /\ Closes' <=> Closes
        /\ DeadLast' <=> DeadLast
        /\ Has("DISCONNECT")' <=> Has("DISCONNECT")
    BY <2>1 DEF Closes, FirstDisconnect, Dead, DeadLast, Death, Has
  <2>3. (Dying' <=> Dying) /\ (Aware' <=> Aware)
    BY <2>1, <2>2 DEF Dying, Aware
  <2> QED
    BY <2>1, <2>2, <2>3 DEF Deaths, Calm, Willed, Orderly
<1> QED
  BY <1>0, <1>1, DeathsNode, DeathsLoop, DeathsPoll, DeathsApp DEF Next

(* Everything that is kept, step by step.                                  *)
Order == Agreement /\ Messages /\ Heard /\ Running /\ Attempt /\ Deaths

LEMMA OrderInit == ASSUME Init PROVE Order
<1>1. Messages /\ Heard /\ Running /\ Attempt
  BY DEF Init, NewEoNState, Messages, HostMessage, Heard, Online, Running, Attempt,
         Requested, Waits
<1>2. Deaths
  BY DEF Init, Deaths, Willed, Has, Orderly
<1> QED
  BY <1>1, <1>2, AgreementInit DEF Order

LEMMA OrderKept == ASSUME Order, [Next]_vars PROVE Order'
<1>1. /\ Agreement /\ Messages /\ Heard /\ Running /\ Attempt /\ Deaths
      /\ TypeOK /\ IInv /\ NodeOrder /\ Handover /\ Bds /\ Carried /\ Requested
  BY DEF Order, Agreement, IInv, Gated, Attempt
<1>2. Agreement' /\ Messages' /\ Heard' /\ Running' /\ Attempt'
  BY <1>1, AgreementKept, HeardKept, RunningKept, AttemptKept
<1>3. Requested'
  BY <1>2 DEF Attempt
<1>4. Deaths'
  BY <1>1, <1>3, DeathsKept
<1> QED
  BY <1>2, <1>4 DEF Order

(* A node without a connection is dead for the hosts: whatever ends the    *)
(* connection, its own DISCONNECT, the broker's, or the will, has been     *)
(* preceded or is followed by a death certificate the hosts recognise.     *)
THEOREM NoGhosts == Spec => [](Calm => NoGhost)
<1>1. Order => (Calm => NoGhost)
  BY DEF Order, Deaths, Willed, NoGhost
<1> QED
  BY <1>1, OrderInit, OrderKept, PTL DEF Spec

(* After a cancel() that leaves the death to the will, the hosts have seen *)
(* the node die when run() returns, although the node task may still have  *)
(* birthed ("so the broker also publishes the registered Last Will").      *)
THEOREM CancelledNodesDie == Spec => [](env.fails = 0 => EndsDead)
<1>1. Order => (env.fails = 0 => EndsDead)
  BY DEF Order, Deaths, Calm, Willed, EndsDead
<1> QED
  BY <1>1, OrderInit, OrderKept, PTL DEF Spec

(* Node and hosts agree whenever nothing is under way: a node that takes   *)
(* itself for birthed is alive for the hosts under the bdSeq of its will   *)
(* and subscribed, and one that does not is dead, however rebirths,        *)
(* commands, kicks and the primary host's coming and going were            *)
(* interleaved.                                                            *)
THEOREM HostsAndNodeAgree ==
    Spec => [](env.losses = 0 /\ env.fails = 0 => HostsAgree)
<1>1. ASSUME Order, env.losses = 0, env.fails = 0, Settled
      PROVE  /\ st.birthed => /\ broker.view = st.bdseq /\ broker.bd = st.bdseq
                              /\ client.will = st.bdseq /\ broker.sub
             /\ ~st.birthed => broker.view = NoBd
  <2>1. /\ node.pc = "idle" /\ chan = <<>> /\ loop.mode = "run"
        /\ client.conn = "up" /\ cancel.pc = "idle"
    BY <1>1 DEF Settled
  <2>2. /\ Willed /\ Orderly /\ client.will = st.bdseq
        /\ SubscribedFirst /\ NoBd \notin BdSeq /\ st.bdseq \in BdSeq
    BY <1>1, <2>1, Constants
       DEF Order, Deaths, Calm, Agreement, Bds, Carried, IInv, Gated, TypeOK, SessionTypes, EoNState, NoBd, BdSeq
  <2>3. st.birthed <=> ~DeadLast
    BY <2>1, <2>2 DEF Orderly, Has, Aware
  <2>4. DeadLast <=> broker.view = NoBd
    BY <2>1 DEF DeadLast, Dead
  <2> QED
    BY <2>1, <2>2, <2>3, <2>4 DEF Willed, SubscribedFirst
<1>2. Order => (env.losses = 0 /\ env.fails = 0 => HostsAgree)
  BY <1>1 DEF HostsAgree, BirthAgrees, DeathAgrees
<1> QED
  BY <1>2, OrderInit, OrderKept, PTL DEF Spec

=============================================================================
