----------------------------- MODULE EonWireProofs -----------------------------
(***************************************************************************)
(* Proofs about what reaches the hosts: whose data they get, with which    *)
(* sequence numbers, and which devices they take to be alive.  All of it   *)
(* passes through the one request channel, which the node task, the device *)
(* tasks and the publishing threads fill and the event loop empties.       *)
(***************************************************************************)
EXTENDS EonNodeProofs

-----------------------------------------------------------------------------
(* The publishing threads.                                                 *)
Threads == [Publishers -> [pc : {"idle", "checked", "send"}, n : SeqNo]]

Others(p) == \A e \in Publishers \ {p} : pub'[e] = pub[e]

LEMMA PubCheckEffect ==
  ASSUME DeviceTypes, NEW p \in Publishers, PubCheck(p)
  PROVE  /\ UNCHANGED <<st, chan, registered, dev, wire>> /\ UNCHANGED sessionOnly
         /\ pub[p].pc = "idle" /\ pub'[p].pc = "checked" /\ Others(p)
         /\ p # "node" => dev[p].birthed
         /\ app'.fails = app.fails /\ app'.unregistered = app.unregistered
BY DEF PubCheck, DeviceTypes, Others

LEMMA PubSeqEffect ==
  ASSUME DeviceTypes, NEW p \in Publishers, PubSeq(p)
  PROVE  /\ UNCHANGED <<chan, registered, dev, wire, app>> /\ UNCHANGED sessionOnly
         /\ pub[p].pc = "checked" /\ Others(p)
         /\ \/ /\ HasNextSeq(st) /\ st' = GetNextSeq(st)
               /\ pub'[p].pc = "send" /\ pub'[p].n = st'.seq
            \/ pub'[p].pc = "idle" /\ st' = st
BY DEF PubSeq, DeviceTypes, Others

LEMMA PubSendEffect ==
  ASSUME ChanTypes, DeviceTypes, NEW p \in Publishers, PubSend(p)
  PROVE  /\ UNCHANGED <<st, registered, dev, wire>> /\ UNCHANGED sessionOnly
         /\ pub[p].pc = "send" /\ pub'[p].pc = "idle" /\ Others(p)
         /\ app'.fails = app.fails /\ app'.unregistered = app.unregistered
         /\ \/ chan' = chan /\ app'.dropped > 0
            \/ \E m \in AnyRequest : /\ chan' = Append(chan, m) /\ m.kind = "DATA"
                                     /\ m.from = p /\ m.n = pub[p].n
                                     /\ app'.dropped = app.dropped
<1>1. PICK m : m = Request("DATA", p, pub[p].n)
  OBVIOUS
<1>2. m \in AnyRequest /\ m.kind = "DATA" /\ m.from = p /\ m.n = pub[p].n
  BY <1>1 DEF Request, AnyRequest, DeviceRequests, DeviceTypes
<1>3. \/ chan' = chan
      \/ chan' = Append(chan, m)
  BY <1>1 DEF PubSend
<1>4. pub[p].pc = "send" /\ pub'[p].pc = "idle" /\ Others(p)
  BY DEF PubSend, DeviceTypes, Others
<1>5. /\ app'.fails = app.fails /\ app'.unregistered = app.unregistered
      /\ app'.dropped = IF chan' = chan THEN app.dropped + 1 ELSE app.dropped
      /\ app.dropped \in Nat
  BY DEF PubSend, DeviceTypes
<1>6. chan' = Append(chan, m) => chan' # chan
  BY DEF ChanTypes
<1>7. UNCHANGED <<st, registered, dev, wire>> /\ UNCHANGED sessionOnly
  BY DEF PubSend
<1> QED
  BY <1>2, <1>3, <1>4, <1>5, <1>6, <1>7

-----------------------------------------------------------------------------
(* Data comes from those the hosts know.  Until a connection is lost, a    *)
(* request refused or the node cancelled the session only ever goes        *)
(* forward: it connects, subscribes and is born, again and again.          *)
OneSession == Undisturbed /\ env.losses = 0 /\ env.kicks = 0
Unbroken == OneSession /\ app.unregistered = 0

Partings == {"NDEATH", "DISCONNECT"}

Staying == \A i \in DOMAIN chan : chan[i].kind \notin Partings
Lasting == \A i \in DOMAIN chan : chan[i].kind # "DDEATH"

Peaceful ==
    /\ client.conn # "closing" /\ node.pc \in {"idle", "sub", "nbirth"}
    /\ cs # <<>> => Head(cs).kind = "Online"
    /\ loop.pc = "send" => loop.ev.kind = "Online"
    /\ loop.pc # "will" /\ inbox = <<>>

(* No device has been asked to end.                                        *)
Willing(r) ==
    /\ r.pc # "ddeath" /\ NotRemoved(r.mail)
    /\ \A i \in DOMAIN r.reqs : r.reqs[i] # "Disable"

(* What the hosts will know once they have the requests before the k-th.   *)
ViewBefore(k) ==
    broker.view # NoBd \/ \E i \in DOMAIN chan : i < k /\ chan[i].kind = "NBIRTH"

KnownBefore(d, k) ==
    \/ broker.view # NoBd /\ NameOf[d] \in wire.alive
    \/ \E i \in DOMAIN chan : /\ i < k /\ chan[i].kind = "DBIRTH" /\ chan[i].from = d
                              /\ ViewBefore(i)

Viewed == ViewBefore(Len(chan) + 1)
Known(d) == KnownBefore(d, Len(chan) + 1)

(* Whoever may send has been announced by what is before his message.      *)
BirthsLead ==
    \/ st.birthed \/ (node.pc = "nbirth" /\ node.res = "ok")
    \/ \E p \in Publishers : pub[p].pc = "send"
    \/ \E d \in Devices : dev[d].pc = "dbirth"
    => Viewed

KnownSpeakers ==
    \A d \in Devices :
        \/ dev[d].birthed \/ (dev[d].pc = "dbirth" /\ dev[d].res = "ok")
        \/ d \in Publishers /\ pub[d].pc # "idle"
        => Known(d)

KnownData ==
    \A k \in DOMAIN chan : \A d : chan[k].kind = "DATA" /\ chan[k].from = d =>
        /\ ViewBefore(k)
        /\ d # "node" => KnownBefore(d, k)

Smooth ==
    /\ Peaceful /\ Staying /\ Lasting /\ \A d \in Devices : Willing(dev[d])
    /\ BirthsLead /\ KnownSpeakers /\ KnownData

(* Requests that enter the channel take nothing away.                      *)
LEMMA KnownAppended ==
  ASSUME ChanTypes, NEW m \in AnyRequest, chan' = Append(chan, m),
         wire' = wire, broker'.view = broker.view
  PROVE  /\ \A k \in Nat : k <= Len(chan) + 1 => (ViewBefore(k) => ViewBefore(k)')
         /\ \A d : \A k \in Nat : k <= Len(chan) + 1 => (KnownBefore(d, k) => KnownBefore(d, k)')
         /\ Viewed => Viewed'
         /\ \A d : Known(d) => Known(d)'
         /\ m.kind = "NBIRTH" => Viewed'
         /\ m.kind = "DBIRTH" /\ Viewed => Known(m.from)'
         /\ m.kind # "DDEATH" /\ Lasting => Lasting'
<1>1. chan \in Seq(AnyRequest)
  BY DEF ChanTypes
<1>2. PICK n \in Nat : n = Len(chan)
  BY <1>1
<1>3. /\ DOMAIN chan' = 1 .. n + 1 /\ DOMAIN chan = 1 .. n /\ Len(chan') = n + 1
      /\ chan'[n + 1] = m /\ n + 1 \in DOMAIN chan'
      /\ \A i \in DOMAIN chan' : i # n + 1 => i \in DOMAIN chan /\ chan'[i] = chan[i]
      /\ \A i \in DOMAIN chan : i \in DOMAIN chan' /\ chan'[i] = chan[i]
  BY <1>1, <1>2
<1>4. ASSUME NEW k \in Nat, NEW l \in Nat, k <= l
      PROVE  /\ ViewBefore(k) => ViewBefore(l)'
             /\ \A d : KnownBefore(d, k) => KnownBefore(d, l)'
  <2>1. ASSUME NEW a \in Nat, NEW b \in Nat, a <= b, ViewBefore(a) PROVE ViewBefore(b)'
    BY <1>3, <2>1 DEF ViewBefore
  <2>2. ASSUME NEW d, NEW i \in DOMAIN chan, i < k, chan[i].kind = "DBIRTH",
               chan[i].from = d, ViewBefore(i)
        PROVE  KnownBefore(d, l)'
    <3>1. i \in Nat /\ i \in DOMAIN chan' /\ chan'[i] = chan[i] /\ i < l
      BY <1>3, <1>4, <2>2
    <3>2. ViewBefore(i)'
      BY <2>1, <2>2, <3>1
    <3> QED
      BY <2>2, <3>1, <3>2 DEF KnownBefore
  <2>3. ASSUME NEW d, KnownBefore(d, k) PROVE KnownBefore(d, l)'
    BY <2>2, <2>3 DEF KnownBefore
  <2> QED
    BY <1>4, <2>1, <2>3
<1>5. m.kind = "NBIRTH" => Viewed'
  BY <1>2, <1>3 DEF Viewed, ViewBefore
<1>6. ASSUME m.kind = "DBIRTH", Viewed PROVE Known(m.from)'
  <2>1. ViewBefore(n + 1)'
    BY <1>2, <1>4, <1>6 DEF Viewed
  <2>2. n + 1 \in DOMAIN chan' /\ n + 1 < Len(chan') + 1 /\ chan'[n + 1] = m
    BY <1>2, <1>3
  <2> QED
    BY <1>6, <2>1, <2>2 DEF Known, KnownBefore
<1>7. m.kind # "DDEATH" /\ Lasting => Lasting'
  BY <1>3 DEF Lasting
<1>8. (Viewed => Viewed') /\ \A d : Known(d) => Known(d)'
  BY <1>2, <1>3, <1>4 DEF Viewed, Known
<1> QED
  BY <1>4, <1>5, <1>6, <1>7, <1>8

(* What the hosts make of a request that is no death.                      *)
LEMMA HearAlive ==
  ASSUME WireTypes, NEW m \in AnyRequest, m.kind # "DDEATH", wire' = Hear(m)
  PROVE  /\ broker.view # NoBd => wire.alive \subseteq wire'.alive
         /\ m.kind = "DBIRTH" => NameOf[m.from] \in wire'.alive
<1> DEFINE numbered == [wire EXCEPT !.seqs = @ \cup {m.n}]
<1>1. numbered.alive = wire.alive /\ "alive" \in DOMAIN numbered /\ "alive" \in DOMAIN wire
  BY DEF WireTypes
<1> HIDE DEF numbered
<1>2. m.kind = "NBIRTH" => wire'.alive = HostAlive
  BY <1>1 DEF Hear
<1>3. m.kind = "DATA" => wire' = numbered
  BY DEF Hear, numbered
<1>4. m.kind = "DBIRTH" => wire'.alive = wire.alive \cup {NameOf[m.from]}
  <2>1. m.kind = "DBIRTH" => wire' = [numbered EXCEPT !.alive = @ \cup {NameOf[m.from]},
                                                       !.born = @ \cup {NameOf[m.from]}]
    BY DEF Hear, numbered
  <2> QED
    BY <1>1, <2>1
<1>5. m.kind \notin {"NBIRTH", "DATA", "DBIRTH", "DDEATH"} => wire' = wire
  BY DEF Hear
<1> QED
  BY <1>1, <1>2, <1>3, <1>4, <1>5 DEF HostAlive

LEMMA KnownHeard ==
  ASSUME ChanTypes, WireTypes, Lasting, chan # <<>>, chan' = Tail(chan),
         wire' = Hear(Head(chan)),
         broker'.view = IF Head(chan).kind = "NBIRTH" THEN Head(chan).n ELSE broker.view
  PROVE  /\ \A k \in DOMAIN chan' : /\ chan'[k] = chan[k + 1] /\ k + 1 \in DOMAIN chan
                                    /\ ViewBefore(k + 1) => ViewBefore(k)'
                                    /\ \A d : KnownBefore(d, k + 1) => KnownBefore(d, k)'
         /\ Viewed => Viewed'
         /\ \A d : Known(d) => Known(d)'
         /\ Lasting'
<1>1. chan \in Seq(AnyRequest)
  BY DEF ChanTypes
<1>2. PICK m \in AnyRequest : m = Head(chan) /\ m = chan[1] /\ 1 \in DOMAIN chan
  BY <1>1
<1>3. /\ Len(chan) \in Nat \ {0} /\ Len(chan') = Len(chan) - 1 /\ DOMAIN chan = 1 .. Len(chan)
      /\ \A i \in DOMAIN chan' : i \in Nat \ {0} /\ i + 1 \in DOMAIN chan /\ chan'[i] = chan[i + 1]
  BY <1>1
<1>4. \A i \in DOMAIN chan : i # 1 => i - 1 \in DOMAIN chan' /\ chan'[i - 1] = chan[i]
  BY <1>1
<1>5. m.kind # "DDEATH" /\ (m.kind = "NBIRTH" => m.n # NoBd)
  <2>1. m.kind # "DDEATH"
    BY <1>2 DEF Lasting
  <2>2. m.kind = "NBIRTH" => m.n \in BdSeq
    BY <1>1, <1>2, HeadTypes DEF BirthTyped
  <2>3. NoBd \notin BdSeq
    BY Constants DEF NoBd, BdSeq
  <2> QED
    BY <2>1, <2>2, <2>3
<1>6. /\ broker.view # NoBd => broker'.view # NoBd /\ wire.alive \subseteq wire'.alive
      /\ m.kind = "NBIRTH" => broker'.view # NoBd
      /\ m.kind = "DBIRTH" => NameOf[m.from] \in wire'.alive
  BY <1>2, <1>5, HearAlive
<1>7. ASSUME NEW k \in Nat \ {0}, ViewBefore(k) PROVE ViewBefore(k - 1)'
  <2>1. CASE broker.view # NoBd
    BY <1>6, <2>1 DEF ViewBefore
  <2>2. ASSUME NEW i \in DOMAIN chan, i < k, chan[i].kind = "NBIRTH" PROVE ViewBefore(k - 1)'
    <3>1. CASE i = 1
      BY <1>2, <1>6, <2>2, <3>1 DEF ViewBefore
    <3>2. CASE i # 1
      <4>1. i - 1 \in DOMAIN chan' /\ chan'[i - 1] = chan[i] /\ i - 1 < k - 1
        BY <1>3, <1>4, <2>2, <3>2
      <4> QED
        BY <2>2, <4>1 DEF ViewBefore
    <3> QED
      BY <3>1, <3>2
  <2> QED
    BY <1>7, <2>1, <2>2 DEF ViewBefore
<1>8. ASSUME NEW d, NEW k \in Nat \ {0}, KnownBefore(d, k) PROVE KnownBefore(d, k - 1)'
  <2>1. CASE broker.view # NoBd /\ NameOf[d] \in wire.alive
    BY <1>6, <2>1 DEF KnownBefore
  <2>2. ASSUME NEW i \in DOMAIN chan, i < k, chan[i].kind = "DBIRTH", chan[i].from = d,
               ViewBefore(i)
        PROVE  KnownBefore(d, k - 1)'
    <3>1. CASE i = 1
      <4>1. broker.view # NoBd
        BY <1>3, <2>2, <3>1 DEF ViewBefore
      <4> QED
        BY <1>2, <1>6, <2>2, <3>1, <4>1 DEF KnownBefore
    <3>2. CASE i # 1
      <4>1. i - 1 \in DOMAIN chan' /\ chan'[i - 1] = chan[i] /\ i - 1 < k - 1
        BY <1>3, <1>4, <2>2, <3>2
      <4>2. ViewBefore(i - 1)'
        BY <1>3, <1>7, <2>2
      <4> QED
        BY <2>2, <4>1, <4>2 DEF KnownBefore
    <3> QED
      BY <3>1, <3>2
  <2> QED
    BY <1>8, <2>1, <2>2 DEF KnownBefore
<1>9. ASSUME NEW k \in DOMAIN chan'
      PROVE  /\ chan'[k] = chan[k + 1] /\ k + 1 \in DOMAIN chan
             /\ ViewBefore(k + 1) => ViewBefore(k)'
             /\ \A d : KnownBefore(d, k + 1) => KnownBefore(d, k)'
  <2>1. k + 1 \in Nat \ {0} /\ (k + 1) - 1 = k
    BY <1>3
  <2> QED
    BY <1>3, <1>7, <1>8, <2>1
<1>10. (Viewed => Viewed') /\ \A d : Known(d) => Known(d)'
  <2>1. Len(chan) + 1 \in Nat \ {0} /\ (Len(chan) + 1) - 1 = Len(chan') + 1
    BY <1>3
  <2> QED
    BY <1>7, <1>8, <2>1 DEF Viewed, Known
<1>11. Lasting'
  BY <1>3 DEF Lasting
<1> QED
  BY <1>9, <1>10, <1>11

(* The session, undisturbed, only appends births and subscriptions; the    *)
(* hosts hear what is taken.                                               *)
LEMMA CountersGrow ==
  ASSUME SessionTypes, [Next]_vars
  PROVE  env'.losses >= env.losses /\ env'.kicks >= env.kicks
<1>1. env' = env \/ \E c \in Counters : env' = [env EXCEPT ![c] = @ + 1]
  <2>1. CASE NodeStep
    BY <2>1 DEF NodeStep, NodeOnlyStep, NodeSend, NodeSendFails, Subscribed, SubscribeFailed,
                Birthed, BirthFailed, DeathSent, DisconnectSent, TakeOnline, TakeOffline,
                TakeState, TakeStopped, RetryFires, TakeRebirth, TakeCommand, Counters
  <2>2. CASE LoopStep
    BY <2>2 DEF LoopStep, Run, LoopSend, LoopGotWill, LoopStop, DrainCheck, DrainTimeout,
                LoopDone
  <2>3. CASE PollRequest \/ PollEvent
    BY <2>3 DEF PollRequest, PollEvent, PollConnect, PollState, PollCommand, PollLost,
                PollServerDisconnect, PollClosed, Counters
  <2>4. CASE AppStep
    BY <2>4 DEF AppStep, Rebirth, Cancel, CancelPayload, CancelDeath, CancelStop,
                CancelDisconnect, CancelUnchanged, Counters
  <2>5. CASE HostFlips \/ OldState \/ CooldownEnds
    BY <2>5 DEF HostFlips, OldState, CooldownEnds, Counters
  <2>6. CASE UNCHANGED vars
    BY <2>6 DEF vars
  <2> QED
    BY <2>1, <2>2, <2>3, <2>4, <2>5, <2>6 DEF Next
<1>2. env \in [Counters -> Nat] /\ {"losses", "kicks"} \subseteq Counters
  BY DEF SessionTypes, Counters
<1> QED
  BY <1>1, <1>2

LEMMA OneSessionBefore ==
  ASSUME SessionTypes, ChanTypes, DeviceTypes, WireTypes, [NodeNext]_nodeVars, OneSession'
  PROVE  OneSession
<1>1. CASE SessionStep
  <2>1. [Next]_vars
    BY <1>1, SessionStepIs
  <2>2. Undisturbed /\ env'.losses >= env.losses /\ env'.kicks >= env.kicks
    BY <2>1, UndisturbedBefore, CountersGrow DEF OneSession
  <2>3. env.losses \in Nat /\ env.kicks \in Nat
    BY DEF SessionTypes, Counters
  <2> QED
    BY <2>2, <2>3 DEF OneSession
<1>2. CASE AppDeviceStep \/ \E d \in Devices : DevStep(d)
  <2>1. UNCHANGED <<env, cancel>>
    BY <1>2, AppDeviceTypes, DevStepEffect DEF DeviceSide, sessionOnly
  <2> QED
    BY <2>1 DEF OneSession, Undisturbed
<1>3. CASE UNCHANGED nodeVars
  BY <1>3 DEF nodeVars, vars, OneSession, Undisturbed
<1> QED
  BY <1>1, <1>2, <1>3 DEF NodeNext

LEMMA UnbrokenBefore ==
  ASSUME SessionTypes, ChanTypes, DeviceTypes, WireTypes, [NodeNext]_nodeVars, Unbroken'
  PROVE  Unbroken
<1>0. app \in AppCounters /\ OneSession
  BY OneSessionBefore DEF DeviceTypes, AppCounters, Unbroken
<1>1. CASE SessionStep
  BY <1>0, <1>1 DEF SessionStep, Unbroken
<1>2. ASSUME NEW d \in Devices, DevStep(d) PROVE app'.unregistered = app.unregistered
  BY <1>0, <1>2 DEF DevStep, DevTakeNode, DevTakeRequest, DevSend, DevSendFails, DevSent,
                    AppCounters
<1>3. CASE AppDeviceStep
  <2>1. app'.unregistered = 0 => app.unregistered = 0
    BY <1>0, <1>3 DEF AppDeviceStep, Register, Unregister, AskDevice, PubCheck, PubSeq, PubSend,
                      AppCounters
  <2> QED
    BY <1>0, <2>1 DEF Unbroken
<1>4. CASE UNCHANGED nodeVars
  BY <1>0, <1>4 DEF nodeVars, Unbroken
<1> QED
  BY <1>0, <1>1, <1>2, <1>3, <1>4 DEF NodeNext, Unbroken

LEMMA RequestHeard ==
  ASSUME SessionTypes, ChanTypes, PollRequest, client.conn = "up"
  PROVE  /\ broker'.view = (IF Head(chan).kind = "NBIRTH" THEN Head(chan).n
                            ELSE IF Head(chan).kind = "NDEATH" /\ broker.view = Head(chan).n
                                 THEN NoBd ELSE broker.view)
         /\ host.ts = 0 => inbox' = inbox
<1>1. broker' = Deliver(broker, Head(chan))
  BY DEF PollRequest
<1>2. broker \in BrokerView
  BY DEF SessionTypes, BrokerView
<1>3. host.ts = 0 => inbox' = inbox
  BY DEF PollRequest
<1> QED
  BY <1>1, <1>2, <1>3 DEF Deliver, Dies, BrokerView

(* The three things a step of the session may be to the hosts.             *)
Nothing == chan' = chan /\ broker'.view = broker.view /\ wire' = wire
Announces ==
    /\ UNCHANGED <<wire, broker>> /\ node.pc \in {"sub", "nbirth"} /\ node'.pc = node.pc
    /\ \E m \in AnyRequest : /\ chan' = Append(chan, m) /\ m.kind \in {"SUB", "NBIRTH"}
                             /\ node.pc = "nbirth" => m.kind = "NBIRTH"
Delivers ==
    /\ chan # <<>> /\ chan' = Tail(chan) /\ wire' = Hear(Head(chan))
    /\ broker'.view = IF Head(chan).kind = "NBIRTH" THEN Head(chan).n ELSE broker.view

LEMMA NodeSmooth ==
  ASSUME ~PrimaryHost, SessionInv, ChanTypes, Peaceful, OneSession, NodeStep, wire' = wire
  PROVE  Peaceful' /\ (Nothing \/ Announces)
<1>1. SessionTypes /\ Running /\ Requested
  BY DEF SessionInv, Gated
<1>2. UNCHANGED <<client, broker, inbox>> /\ loop'.pc = loop.pc /\ loop'.ev = loop.ev
  BY <1>1, NodeElsewhere DEF Elsewhere
<1>3. node.res # "err"
  BY <1>1 DEF Running, Requested, OneSession, Undisturbed
<1>4. CASE NodeSend
  <2>1. /\ node.pc \in {"sub", "nbirth"} /\ chan' = Append(chan, NodeRequest)
        /\ cs' = cs /\ node'.pc = node.pc
    BY <1>1, <1>4, SendEffect DEF Awaiting, Peaceful, SameTask
  <2>2. node.bd \in BdSeq
    BY <1>1 DEF SessionTypes, NodeTask
  <2>3. PICK m : m = NodeRequest
    OBVIOUS
  <2>4. m \in AnyRequest /\ m.kind = (IF node.pc = "sub" THEN "SUB" ELSE "NBIRTH")
    BY <2>1, <2>2, <2>3 DEF NodeRequest, Request, AnyRequest, SessionRequests
  <2>5. Announces
    BY <1>2, <2>1, <2>3, <2>4 DEF Announces
  <2> QED
    BY <1>2, <2>1, <2>5 DEF Peaceful
<1>5. CASE ~NodeSend
  <2>1. chan' = chan
    BY <1>5 DEF NodeStep, NodeOnlyStep, NodeSendFails, Subscribed, SubscribeFailed, Birthed,
                BirthFailed, DeathSent, DisconnectSent, TakeOnline, TakeOffline, TakeState,
                TakeStopped, RetryFires, TakeRebirth, TakeCommand
  <2>2. node'.pc \in {"idle", "sub", "nbirth"} /\ (cs' = cs \/ cs' = <<>>)
    <3>1. CASE NodeSendFails
      BY <1>1, <3>1, RefusedEffect DEF SameTask, Peaceful
    <3>2. CASE Subscribed \/ Birthed
      BY <1>1, <3>2, SubscribedEffect, BirthedEffect
    <3>3. ~SubscribeFailed /\ ~BirthFailed
      BY <1>3 DEF SubscribeFailed, BirthFailed
    <3>4. ~DeathSent /\ ~DisconnectSent
      BY DEF DeathSent, DisconnectSent, Peaceful
    <3>5. CASE TakeOnline \/ RetryFires
      BY <1>1, <3>5, OnlineEffect, RetryEffect DEF Tried
    <3>6. ~TakeOffline /\ ~TakeState /\ ~TakeStopped
      BY DEF TakeOffline, TakeState, TakeStopped, TakeClientState, Peaceful
    <3>7. CASE TakeRebirth \/ TakeCommand
      BY <1>1, <3>7, RebirthEffect, CommandEffect DEF Begins, SameTask
    <3> QED
      BY <1>5, <3>1, <3>2, <3>3, <3>4, <3>5, <3>6, <3>7 DEF NodeStep, NodeOnlyStep
  <2> QED
    BY <1>2, <2>1, <2>2 DEF Peaceful, Nothing
<1> QED
  BY <1>4, <1>5

LEMMA OthersSmooth ==
  ASSUME ~PrimaryHost, SessionInv, ChanTypes, Peaceful, Staying, OneSession, OneSession',
         \/ HostsHear
         \/ /\ LoopStep \/ PollEvent \/ AppStep \/ HostFlips \/ OldState \/ CooldownEnds
            /\ wire' = wire
  PROVE  Peaceful' /\ node' \in NodeTask /\ node'.pc = node.pc /\ (Nothing \/ Delivers)
<1>1. SessionTypes /\ Running /\ Requested
  BY DEF SessionInv, Gated
<1>2. /\ loop.mode = "run" /\ ~stop /\ loop.pc \notin {"check", "stopping", "done"}
      /\ host.ts = 0 /\ cancel.pc = "idle" /\ cancel'.pc = "idle"
  BY <1>1 DEF Running, Requested, OneSession, Undisturbed, SessionTypes
<1>3. CASE HostsHear
  <2>1. PollRequest /\ client.conn = "up"
    BY <1>1, <1>3, RequestTaken DEF HostsHear, Peaceful, SessionTypes
  <2>2. /\ chan # <<>> /\ chan' = Tail(chan) /\ UNCHANGED <<node, cs>>
        /\ Head(chan).kind # "DISCONNECT" =>
                client'.conn = client.conn /\ loop'.pc = loop.pc /\ loop'.ev = loop.ev
    BY <1>1, <2>1, RequestTaken DEF PollElsewhere
  <2>4. Head(chan).kind # "DISCONNECT" /\ Head(chan).kind # "NDEATH"
    <3>1. 1 \in DOMAIN chan /\ Head(chan) = chan[1]
      BY <2>2 DEF ChanTypes
    <3> QED
      BY <3>1 DEF Staying, Partings
  <2>5. wire' = Hear(Head(chan))
    BY <1>3, <2>1 DEF HostsHear
  <2>6. Delivers /\ inbox' = inbox
    BY <1>1, <1>2, <2>1, <2>2, <2>4, <2>5, RequestHeard DEF Delivers
  <2>7. Peaceful'
    BY <2>2, <2>4, <2>6 DEF Peaceful
  <2> QED
    BY <1>1, <2>2, <2>6, <2>7 DEF SessionTypes
<1>4. CASE LoopStep /\ wire' = wire
  <2>1. Run \/ LoopSend
    BY <1>2, <1>4 DEF LoopStep, LoopGotWill, LoopStop, DrainCheck, DrainTimeout, LoopDone,
                      Peaceful
  <2>2. CASE Run
    BY <1>1, <1>4, <2>2, RunEffect DEF LoopElsewhere, Peaceful, Nothing, SessionTypes
  <2>3. CASE LoopSend
    BY <1>1, <1>4, <2>3, LoopSendEffect
    DEF LoopElsewhere, SameClient, Peaceful, Nothing, SessionTypes
  <2> QED
    BY <2>1, <2>2, <2>3
<1>5. CASE PollConnect /\ wire' = wire
  BY <1>1, <1>2, <1>5, ConnectEffect
  DEF PollElsewhere, Got, Online, Peaceful, Nothing, SessionTypes
<1>6. CASE PollEvent /\ ~PollConnect /\ wire' = wire
  <2>1. env.losses = 0 /\ env'.losses = 0 /\ env.kicks = 0 /\ env'.kicks = 0
    BY DEF OneSession
  <2>2. ~PollState /\ ~PollLost /\ ~PollClosed
    BY <1>1, <2>1, LostEffect DEF PollState, PollClosed, Peaceful
  <2>3. ~PollServerDisconnect
    BY <1>1, <2>1 DEF PollServerDisconnect, SessionTypes, Counters
  <2>4. PollCommand
    BY <1>6, <2>2, <2>3 DEF PollEvent
  <2> QED
    BY <1>1, <1>6, <2>4, CommandMessageEffect DEF PollElsewhere, Peaceful, Nothing, SessionTypes
<1>7. CASE AppStep /\ wire' = wire
  <2>1. Rebirth
    BY <1>1, <1>2, <1>7, CancelEffect
  <2> QED
    BY <1>1, <1>7, <2>1, RebirthCallEffect DEF AppElsewhere, Peaceful, Nothing, SessionTypes
<1>8. CASE (HostFlips \/ OldState \/ CooldownEnds) /\ wire' = wire
  <2>1. ~HostFlips
    BY DEF HostFlips
  <2>2. ~OldState
    BY <1>2 DEF OldState
  <2>3. CooldownEnds
    BY <1>8, <2>1, <2>2
  <2>4. inbox' = inbox /\ node' \in NodeTask
    BY <1>1, <2>3 DEF CooldownEnds, netVars, SessionTypes, NodeTask
  <2> QED
    BY <1>1, <1>8, <2>4, WorldEffect DEF WorldElsewhere, SameTask, Peaceful, Nothing
<1> QED
  BY <1>3, <1>4, <1>5, <1>6, <1>7, <1>8

LEMMA StayingKept ==
  ASSUME ChanTypes, Staying,
         \/ Nothing \/ Announces \/ Delivers
         \/ \E m \in AnyRequest : chan' = Append(chan, m) /\ m.kind \notin Partings
  PROVE  Staying'
<1>1. chan \in Seq(AnyRequest)
  BY DEF ChanTypes
<1>2. CASE Nothing
  BY <1>2 DEF Nothing, Staying
<1>3. ASSUME NEW m \in AnyRequest, chan' = Append(chan, m), m.kind \notin Partings
      PROVE  Staying'
  <2>1. \A i \in DOMAIN chan' : (i \in DOMAIN chan /\ chan'[i] = chan[i]) \/ chan'[i] = m
    BY <1>1, <1>3
  <2> QED
    BY <1>3, <2>1 DEF Staying
<1>4. CASE Announces
  BY <1>3, <1>4 DEF Announces, Partings
<1>5. CASE Delivers
  <2>1. \A i \in DOMAIN chan' : i + 1 \in DOMAIN chan /\ chan'[i] = chan[i + 1]
    BY <1>1, <1>5 DEF Delivers
  <2> QED
    BY <2>1 DEF Staying
<1> QED
  BY <1>2, <1>3, <1>4, <1>5

(* What is known stays known, and data that is sent is from the known.     *)
LEMMA DataAppended ==
  ASSUME ChanTypes, Lasting, KnownData, NEW m \in AnyRequest, chan' = Append(chan, m),
         m.kind # "DDEATH", wire' = wire, broker'.view = broker.view,
         m.kind = "DATA" => Viewed /\ (m.from # "node" => Known(m.from))
  PROVE  Lasting' /\ KnownData'
<1>1. chan \in Seq(AnyRequest)
  BY DEF ChanTypes
<1>2. PICK n \in Nat : n = Len(chan)
  BY <1>1
<1>3. /\ DOMAIN chan' = 1 .. n + 1 /\ chan'[n + 1] = m
      /\ \A i \in DOMAIN chan' : i # n + 1 => /\ i \in DOMAIN chan /\ chan'[i] = chan[i]
                                              /\ i \in Nat /\ i <= Len(chan) + 1
  BY <1>1, <1>2
<1>4. /\ \A k \in Nat : k <= Len(chan) + 1 => (ViewBefore(k) => ViewBefore(k)')
      /\ \A d : \A k \in Nat : k <= Len(chan) + 1 => (KnownBefore(d, k) => KnownBefore(d, k)')
      /\ Lasting'
  BY KnownAppended
<1>5. ASSUME NEW k \in DOMAIN chan', NEW d, chan'[k].kind = "DATA", chan'[k].from = d
      PROVE  /\ ViewBefore(k)'
             /\ d # "node" => KnownBefore(d, k)'
  <2>1. CASE k = n + 1
    <3>1. n + 1 \in Nat /\ n + 1 <= Len(chan) + 1 /\ chan'[k] = m
      BY <1>2, <1>3, <2>1
    <3>2. ViewBefore(n + 1) /\ (d # "node" => KnownBefore(d, n + 1))
      BY <1>2, <1>5, <3>1 DEF Viewed, Known
    <3> QED
      BY <1>4, <2>1, <3>1, <3>2
  <2>2. CASE k # n + 1
    <3>1. /\ k \in DOMAIN chan /\ chan'[k] = chan[k] /\ k \in Nat /\ k <= Len(chan) + 1
      BY <1>3, <2>2
    <3>2. ViewBefore(k) /\ (d # "node" => KnownBefore(d, k))
      BY <1>5, <3>1 DEF KnownData
    <3> QED
      BY <1>4, <3>1, <3>2
  <2> QED
    BY <2>1, <2>2
<1> QED
  BY <1>4, <1>5 DEF KnownData

LEMMA KnowledgeKept ==
  ASSUME ChanTypes, WireTypes, Lasting, KnownData, Nothing \/ Announces \/ Delivers
  PROVE  /\ (Viewed => Viewed') /\ \A d : Known(d) => Known(d)'
         /\ Lasting' /\ KnownData'
         /\ Announces /\ node.pc = "nbirth" => Viewed'
<1>1. CASE Nothing
  <2>1. /\ \A k : ViewBefore(k)' <=> ViewBefore(k)
        /\ \A k, d : KnownBefore(d, k)' <=> KnownBefore(d, k)
    BY <1>1 DEF Nothing, ViewBefore, KnownBefore
  <2>2. chan' = chan
    BY <1>1 DEF Nothing
  <2>3. ~Announces
    <3>1. Len(Append(chan, 0)) # Len(chan) /\ \A m : Len(Append(chan, m)) = Len(chan) + 1
      BY DEF ChanTypes
    <3> QED
      BY <2>2, <3>1 DEF Announces, ChanTypes
  <2> QED
    BY <2>1, <2>2, <2>3 DEF Viewed, Known, Lasting, KnownData
<1>2. CASE Announces
  <2>1. PICK m \in AnyRequest : /\ chan' = Append(chan, m) /\ m.kind \in {"SUB", "NBIRTH"}
                                /\ node.pc = "nbirth" => m.kind = "NBIRTH"
    BY <1>2 DEF Announces
  <2>2. wire' = wire /\ broker'.view = broker.view
    BY <1>2 DEF Announces
  <2>3. m.kind # "DDEATH"
    BY <2>1
  <2> QED
    BY <2>1, <2>2, <2>3, KnownAppended, DataAppended
<1>3. CASE Delivers
  <2>1. /\ \A k \in DOMAIN chan' : /\ chan'[k] = chan[k + 1] /\ k + 1 \in DOMAIN chan
                                   /\ ViewBefore(k + 1) => ViewBefore(k)'
                                   /\ \A d : KnownBefore(d, k + 1) => KnownBefore(d, k)'
        /\ Viewed => Viewed'
        /\ \A d : Known(d) => Known(d)'
        /\ Lasting'
    BY <1>3, KnownHeard DEF Delivers
  <2>2. KnownData'
    BY <2>1 DEF KnownData
  <2>3. ~Announces
    <3>1. \A m : Len(Append(chan, m)) # Len(Tail(chan))
      BY <1>3 DEF ChanTypes, Delivers
    <3> QED
      BY <1>3, <3>1 DEF Announces, Delivers
  <2> QED
    BY <2>1, <2>2, <2>3
<1> QED
  BY <1>1, <1>2, <1>3

(* The steps of the session keep all of it,                                *)
LEMMA SessionSmooth ==
  ASSUME ~PrimaryHost, NodeTypeOK, SessionInv, Smooth, Unbroken, Unbroken', SessionStep
  PROVE  Smooth'
<1>1. /\ SessionTypes /\ ChanTypes /\ DeviceTypes /\ WireTypes
      /\ Peaceful /\ Staying /\ Lasting /\ BirthsLead /\ KnownSpeakers /\ KnownData
      /\ \A d \in Devices : Willing(dev[d])
  BY NodeTypesAre DEF Smooth
<1>2. /\ Peaceful' /\ (Nothing \/ Announces \/ Delivers) /\ pub' = pub
      /\ st'.birthed => st.birthed \/ (node.pc = "nbirth" /\ node.res = "ok")
      /\ node'.pc = "nbirth" /\ node'.res = "ok" =>
             (node.pc = "nbirth" /\ node.res = "ok") \/ (Announces /\ node.pc = "nbirth")
  <2>1. CASE NodeStep /\ wire' = wire
    <3>1. Peaceful' /\ (Nothing \/ Announces)
      BY <1>1, <2>1, NodeSmooth DEF Unbroken
    <3>2. st'.birthed => st.birthed \/ (node.pc = "nbirth" /\ node.res = "ok")
      <4>1. CASE Birthed
        BY <4>1 DEF Birthed
      <4>2. CASE ~Birthed
        BY <1>1, <2>1, <4>2, BirthedByBirth DEF NodeStep
      <4> QED
        BY <4>1, <4>2
    <3>3. ASSUME node'.pc = "nbirth", node'.res = "ok" PROVE Announces /\ node.pc = "nbirth"
      <4>1. node.res # "err"
        BY DEF SessionInv, Running, Requested, Unbroken, OneSession, Undisturbed
      <4>2. CASE NodeSend
        <5>1. chan' # chan
          <6>1. chan' = Append(chan, NodeRequest)
            BY <4>2 DEF NodeSend
          <6>2. chan \in Seq(AnyRequest)
            BY <1>1 DEF ChanTypes
          <6>3. Len(Append(chan, NodeRequest)) # Len(chan)
            BY <6>2
          <6> QED
            BY <6>1, <6>3
        <5>2. Announces
          BY <3>1, <5>1 DEF Nothing
        <5>3. node'.pc = node.pc
          BY <1>1, <4>2, SendEffect DEF SameTask
        <5> QED
          BY <3>3, <5>2, <5>3
      <4>3. ~NodeSendFails
        BY <1>1, <3>3, RefusedEffect
      <4>4. CASE Subscribed \/ Birthed \/ TakeOnline \/ RetryFires
        BY <1>1, <3>3, <4>4, SubscribedEffect, BirthedEffect, OnlineEffect, RetryEffect
        DEF Tried
      <4>5. ~SubscribeFailed /\ ~BirthFailed
        BY <4>1 DEF SubscribeFailed, BirthFailed
      <4>6. ~DeathSent /\ ~DisconnectSent
        BY <1>1 DEF DeathSent, DisconnectSent, Peaceful
      <4>7. ~TakeOffline /\ ~TakeState /\ ~TakeStopped
        BY <1>1 DEF TakeOffline, TakeState, TakeStopped, TakeClientState, Peaceful
      <4>8. CASE TakeRebirth \/ TakeCommand
        BY <1>1, <3>3, <4>8, RebirthEffect, CommandEffect DEF Begins, SameTask
      <4> QED
        BY <2>1, <4>2, <4>3, <4>4, <4>5, <4>6, <4>7, <4>8 DEF NodeStep, NodeOnlyStep
    <3> QED
      BY <3>1, <3>2, <3>3 DEF SessionStep
  <2>2. CASE \/ HostsHear
             \/ /\ LoopStep \/ PollEvent \/ AppStep \/ HostFlips \/ OldState \/ CooldownEnds
                /\ wire' = wire
    <3>1. Peaceful' /\ (Nothing \/ Delivers) /\ node'.pc = node.pc
      BY <1>1, <2>2, OthersSmooth DEF Unbroken
    <3>2. node'.res = node.res /\ (st'.birthed => st.birthed)
      BY <1>1, <2>2, NodeLeft DEF OtherStep, HostsHear
    <3> QED
      BY <3>1, <3>2 DEF SessionStep
  <2> QED
    BY <2>1, <2>2 DEF SessionStep, NodeBirthed, NodeOffline, NodeDeathSent, NodeStep
<1>3. /\ (Viewed => Viewed') /\ \A d : Known(d) => Known(d)'
      /\ Staying' /\ Lasting' /\ KnownData'
      /\ Announces /\ node.pc = "nbirth" => Viewed'
  BY <1>1, <1>2, KnowledgeKept, StayingKept
<1>4. \A d \in Devices : /\ dev'[d].pc = dev[d].pc /\ dev'[d].res = dev[d].res
                         /\ dev'[d].birthed = dev[d].birthed /\ Willing(dev'[d])
  <2>1. CASE dev' = dev
    BY <1>1, <2>1
  <2>2. ASSUME NEW m \in MailWords, Notify(m), m # "Removed", NEW d \in Devices
        PROVE  /\ dev'[d].pc = dev[d].pc /\ dev'[d].res = dev[d].res
               /\ dev'[d].birthed = dev[d].birthed /\ Willing(dev'[d])
    <3>1. /\ dev'[d].pc = dev[d].pc /\ dev'[d].res = dev[d].res
          /\ dev'[d].birthed = dev[d].birthed /\ dev'[d].reqs = dev[d].reqs
          /\ dev'[d].mail = IF d \in registered THEN Append(dev[d].mail, m) ELSE dev[d].mail
      BY <1>1, <2>2, NotifyEffect
    <3>2. dev[d].mail \in Seq(MailWords) /\ NotRemoved(dev[d].mail)
      BY <1>1, TaskFields DEF Willing
    <3>3. NotRemoved(Append(dev[d].mail, m))
      BY <2>2, <3>2, MailAppended
    <3>4. NotRemoved(dev'[d].mail)
      BY <3>1, <3>2, <3>3
    <3> QED
      BY <1>1, <3>1, <3>4 DEF Willing
  <2>3. node.type \in MailWords /\ node.type # "Removed" /\ "Death" \in MailWords
    BY <1>1 DEF SessionTypes, NodeTask, MailWords, Births
  <2> QED
    BY <2>1, <2>2, <2>3 DEF SessionStep, NodeBirthed, NodeOffline, NodeDeathSent
<1>5. BirthsLead'
  BY <1>1, <1>2, <1>3, <1>4 DEF BirthsLead
<1>6. KnownSpeakers'
  BY <1>1, <1>2, <1>3, <1>4 DEF KnownSpeakers
<1> QED
  BY <1>2, <1>3, <1>4, <1>5, <1>6 DEF Smooth

(* those of the devices                                                    *)
LEMMA StaysWilling ==
  ASSUME NEW r \in DeviceTask, NEW q \in DeviceTask, TaskStep(r, q), Willing(r)
  PROVE  Willing(q)
<1>1. r.mail \in Seq(MailWords) /\ r.reqs \in Seq({"Enable", "Disable", "Rebirth"})
  BY DEF DeviceTask, MailWords, Births
<1>2. CASE TookWord(r, q)
  <2>1. r.mail # <<>> /\ q.mail = Tail(r.mail)
    BY <1>2 DEF TookWord
  <2>2. NotRemoved(q.mail) /\ Head(r.mail) # "Removed"
    BY <1>1, <2>1, MailTaken DEF Willing
  <2> QED
    BY <1>2, <2>2 DEF TookWord, Willing
<1>3. CASE TookRequest(r, q)
  <2>1. r.reqs # <<>> /\ q.reqs = Tail(r.reqs) /\ q.mail = <<>>
    BY <1>3 DEF TookRequest
  <2>2. Head(r.reqs) = r.reqs[1] /\ 1 \in DOMAIN r.reqs
    BY <1>1, <2>1
  <2>3. \A i \in DOMAIN Tail(r.reqs) : i + 1 \in DOMAIN r.reqs /\ Tail(r.reqs)[i] = r.reqs[i + 1]
    BY <1>1, <2>1
  <2>4. Head(r.reqs) # "Disable" /\ \A i \in DOMAIN q.reqs : q.reqs[i] # "Disable"
    BY <2>1, <2>2, <2>3 DEF Willing
  <2> QED
    BY <1>3, <2>1, <2>4 DEF TookRequest, Willing, NotRemoved
<1>4. CASE Answered(r, q) \/ WasAnswered(r, q)
  BY <1>4 DEF Answered, WasAnswered, Willing
<1> QED
  BY <1>2, <1>3, <1>4 DEF TaskStep

LEMMA DevSmooth ==
  ASSUME NodeTypeOK, SessionInv, DevicesRest, Smooth, NEW d \in Devices, DevStep(d)
  PROVE  Smooth'
<1>1. /\ SessionTypes /\ ChanTypes /\ DeviceTypes /\ WireTypes
      /\ Peaceful /\ Staying /\ Lasting /\ BirthsLead /\ KnownSpeakers /\ KnownData
      /\ \A e \in Devices : Willing(dev[e])
  BY NodeTypesAre DEF Smooth
<1>2. DeviceSide /\ UNCHANGED <<pub, wire>>
  BY <1>1, DevStepEffect
<1>3. PICK q : /\ Becomes(d, q) /\ TaskStep(dev[d], q)
               /\ \/ chan' = chan /\ ~(Answered(dev[d], q) /\ q.res = "ok")
                  \/ /\ Answered(dev[d], q)
                     /\ \E m \in AnyRequest :
                           /\ chan' = Append(chan, m) /\ m.from = d /\ m.n = dev[d].n
                           /\ m.kind = (IF dev[d].pc = "dbirth" THEN "DBIRTH" ELSE "DDEATH")
  BY <1>1, DevStepSends
<1>4. /\ dev[d] \in DeviceTask /\ q \in DeviceTask
      /\ \A e \in Devices : dev'[e] = IF e = d THEN q ELSE dev[e]
  BY <1>1, <1>3, TaskFields DEF Becomes, DeviceTypes
<1>5. UNCHANGED <<node, cs, loop, client, broker, inbox>> /\ st'.birthed = st.birthed
  BY <1>1, <1>2, SeqTaken DEF DeviceSide, sessionOnly, SessionTypes
<1>6. Peaceful' /\ \A e \in Devices : Willing(dev'[e])
  BY <1>1, <1>3, <1>4, <1>5, StaysWilling DEF Peaceful
<1>7. dev[d].pc # "ddeath"
  BY <1>1 DEF Willing
<1>8. /\ (Viewed => Viewed') /\ \A e : Known(e) => Known(e)'
      /\ Staying' /\ Lasting' /\ KnownData'
      /\ q.pc = "dbirth" /\ q.res = "ok" /\ ~(dev[d].pc = "dbirth" /\ dev[d].res = "ok")
             /\ Answered(dev[d], q) => Known(d)'
  <2>1. CASE chan' = chan /\ ~(Answered(dev[d], q) /\ q.res = "ok")
    <3>1. Nothing
      BY <1>2, <1>5, <2>1 DEF Nothing
    <3> QED
      BY <1>1, <2>1, <3>1, KnowledgeKept, StayingKept
  <2>2. ASSUME Answered(dev[d], q), NEW m \in AnyRequest, chan' = Append(chan, m), m.from = d,
               m.kind = (IF dev[d].pc = "dbirth" THEN "DBIRTH" ELSE "DDEATH")
        PROVE  /\ (Viewed => Viewed') /\ \A e : Known(e) => Known(e)'
               /\ Staying' /\ Lasting' /\ KnownData' /\ Known(d)'
    <3>1. dev[d].pc = "dbirth" /\ m.kind = "DBIRTH"
      BY <1>7, <2>2 DEF Answered
    <3>2. Viewed
      BY <1>1, <3>1 DEF BirthsLead
    <3>3. m.kind # "DDEATH" /\ m.kind # "DATA" /\ m.kind \notin Partings
      BY <3>1 DEF Partings
    <3>4. wire' = wire /\ broker'.view = broker.view
      BY <1>2, <1>5
    <3> QED
      BY <1>1, <2>2, <3>1, <3>2, <3>3, <3>4, KnownAppended, DataAppended, StayingKept
  <2> QED
    BY <1>3, <2>1, <2>2
<1>9. /\ q.pc = "dbirth" => dev[d].pc = "dbirth" \/ st.birthed
      /\ q.birthed => dev[d].birthed \/ (dev[d].pc = "dbirth" /\ dev[d].res = "ok")
      /\ q.pc = "dbirth" /\ q.res = "ok" =>
             \/ dev[d].pc = "dbirth" /\ dev[d].res = "ok"
             \/ Answered(dev[d], q)
  BY <1>3
  DEF DevicesRest, Resting, TaskStep, TookWord, TookRequest, Answered, WasAnswered, Died,
      HasNextSeq
<1>10. BirthsLead'
  BY <1>1, <1>2, <1>4, <1>5, <1>8, <1>9 DEF BirthsLead
<1>11. KnownSpeakers'
  BY <1>1, <1>2, <1>4, <1>8, <1>9 DEF KnownSpeakers
<1> QED
  BY <1>6, <1>8, <1>10, <1>11 DEF Smooth

(* and those of the application.                                           *)
LEMMA AppSmooth ==
  ASSUME "Disable" \notin Requests, NodeTypeOK, Smooth, Unbroken', AppDeviceStep
  PROVE  Smooth'
<1>1. /\ SessionTypes /\ ChanTypes /\ DeviceTypes /\ WireTypes
      /\ Peaceful /\ Staying /\ Lasting /\ BirthsLead /\ KnownSpeakers /\ KnownData
      /\ \A e \in Devices : Willing(dev[e])
  BY NodeTypesAre DEF Smooth
<1>2. DeviceSide /\ wire' = wire
  <2>1. wire' = wire
    BY DEF AppDeviceStep, Register, Unregister, AskDevice, PubCheck, PubSeq, PubSend
  <2> QED
    BY <1>1, <2>1, AppDeviceTypes
<1>3. /\ UNCHANGED <<node, cs, loop, client, broker, inbox>> /\ st'.birthed = st.birthed
      /\ Peaceful'
  BY <1>1, <1>2, SeqTaken DEF DeviceSide, sessionOnly, SessionTypes, Peaceful
<1>4. ASSUME chan' = chan
      PROVE  /\ (Viewed => Viewed') /\ \A e : Known(e) => Known(e)'
             /\ Staying' /\ Lasting' /\ KnownData'
  <2>1. Nothing
    BY <1>2, <1>3, <1>4 DEF Nothing
  <2> QED
    BY <1>1, <2>1, KnowledgeKept, StayingKept
<1>5. ASSUME NEW d \in Devices, Register(d) PROVE Smooth'
  <2>1. PICK q : /\ Becomes(d, q) /\ q.pc = "idle" /\ q.mail = dev[d].mail /\ dev[d].pc = "new"
                 /\ q.res = dev[d].res /\ q.birthed = dev[d].birthed /\ q.reqs = dev[d].reqs
    BY <1>1, <1>5, RegisterEffect
  <2>2. \A e \in Devices : dev'[e] = IF e = d THEN q ELSE dev[e]
    BY <1>1, <2>1 DEF Becomes, DeviceTypes
  <2>3. chan' = chan /\ pub' = pub
    BY <1>5 DEF Register
  <2>4. \A e \in Devices : Willing(dev'[e])
    BY <1>1, <2>1, <2>2 DEF Willing
  <2>5. BirthsLead' /\ KnownSpeakers'
    BY <1>1, <1>3, <1>4, <2>1, <2>2, <2>3 DEF BirthsLead, KnownSpeakers
  <2> QED
    BY <1>3, <1>4, <2>3, <2>4, <2>5 DEF Smooth
<1>6. ASSUME NEW d \in Devices, NEW r \in Requests, AskDevice(d, r) PROVE Smooth'
  <2>1. PICK q : /\ Becomes(d, q) /\ q.pc = dev[d].pc /\ q.mail = dev[d].mail
                 /\ q.res = dev[d].res /\ q.birthed = dev[d].birthed
                 /\ q.reqs = Append(dev[d].reqs, r)
    BY <1>1, <1>6, AskDeviceEffect
  <2>2. \A e \in Devices : dev'[e] = IF e = d THEN q ELSE dev[e]
    BY <1>1, <2>1 DEF Becomes, DeviceTypes
  <2>3. chan' = chan /\ pub' = pub
    BY <1>6 DEF AskDevice
  <2>4. Willing(q)
    <3>1. dev[d].reqs \in Seq({"Enable", "Disable", "Rebirth"}) /\ r # "Disable"
      BY <1>1, <1>6, TaskFields
    <3>2. PICK reqs : reqs = dev[d].reqs
      OBVIOUS
    <3>3. \A i \in DOMAIN Append(reqs, r) :
              \/ i \in DOMAIN reqs /\ Append(reqs, r)[i] = reqs[i]
              \/ Append(reqs, r)[i] = r
      BY <3>1, <3>2
    <3>4. \A i \in DOMAIN q.reqs : q.reqs[i] # "Disable"
      BY <1>1, <2>1, <3>1, <3>2, <3>3 DEF Willing
    <3> QED
      BY <1>1, <2>1, <3>4 DEF Willing
  <2>5. \A e \in Devices : Willing(dev'[e])
    BY <1>1, <2>2, <2>4
  <2>6. BirthsLead' /\ KnownSpeakers'
    BY <1>1, <1>3, <1>4, <2>1, <2>2, <2>3 DEF BirthsLead, KnownSpeakers
  <2> QED
    BY <1>3, <1>4, <2>3, <2>5, <2>6 DEF Smooth
<1>7. ASSUME NEW d \in Devices, Unregister(d) PROVE FALSE
  BY <1>1, <1>7, UnregisterEffect DEF Unbroken, AppCounters
<1>8. ASSUME NEW p \in Publishers, PubCheck(p) PROVE Smooth'
  <2>1. /\ UNCHANGED <<chan, dev>> /\ pub'[p].pc = "checked" /\ Others(p)
        /\ p # "node" => dev[p].birthed
    BY <1>1, <1>8, PubCheckEffect
  <2>2. \A d \in Devices : d # "node"
    BY NodeAssumption
  <2>3. BirthsLead'
    BY <1>1, <1>3, <1>4, <2>1 DEF BirthsLead, Others
  <2>4. KnownSpeakers'
    BY <1>1, <1>4, <2>1, <2>2 DEF KnownSpeakers, Others
  <2> QED
    BY <1>1, <1>3, <1>4, <2>1, <2>3, <2>4 DEF Smooth
<1>9. ASSUME NEW p \in Publishers, PubSeq(p) PROVE Smooth'
  <2>1. /\ UNCHANGED <<chan, dev>> /\ pub[p].pc = "checked" /\ Others(p)
        /\ pub'[p].pc = "send" => st.birthed
    BY <1>1, <1>9, PubSeqEffect DEF HasNextSeq
  <2>2. BirthsLead'
    BY <1>1, <1>3, <1>4, <2>1 DEF BirthsLead, Others
  <2>3. KnownSpeakers'
    BY <1>1, <1>4, <2>1 DEF KnownSpeakers, Others
  <2> QED
    BY <1>1, <1>3, <1>4, <2>1, <2>2, <2>3 DEF Smooth
<1>10. ASSUME NEW p \in Publishers, PubSend(p) PROVE Smooth'
  <2>1. /\ dev' = dev /\ pub[p].pc = "send" /\ pub'[p].pc = "idle" /\ Others(p)
        /\ \/ chan' = chan
           \/ \E m \in AnyRequest : chan' = Append(chan, m) /\ m.kind = "DATA" /\ m.from = p
    BY <1>1, <1>10, PubSendEffect
  <2>2. Viewed /\ (p # "node" => Known(p))
    BY <1>1, <2>1, NodeAssumption DEF BirthsLead, KnownSpeakers
  <2>3. /\ (Viewed => Viewed') /\ \A e : Known(e) => Known(e)'
        /\ Staying' /\ Lasting' /\ KnownData'
    <3>1. ASSUME NEW m \in AnyRequest, chan' = Append(chan, m), m.kind = "DATA", m.from = p
          PROVE  /\ (Viewed => Viewed') /\ \A e : Known(e) => Known(e)'
                 /\ Staying' /\ Lasting' /\ KnownData'
      <4>1. m.kind # "DDEATH" /\ wire' = wire /\ broker'.view = broker.view
        BY <1>2, <1>3, <3>1
      <4>2. m.kind \notin Partings
        BY <3>1 DEF Partings
      <4> QED
        BY <1>1, <2>2, <3>1, <4>1, <4>2, KnownAppended, DataAppended, StayingKept
    <3> QED
      BY <1>4, <2>1, <3>1
  <2>4. BirthsLead'
    BY <1>1, <1>3, <2>1, <2>3 DEF BirthsLead, Others
  <2>5. KnownSpeakers'
    BY <1>1, <2>1, <2>3 DEF KnownSpeakers, Others
  <2> QED
    BY <1>1, <1>3, <2>1, <2>3, <2>4, <2>5 DEF Smooth
<1> QED
  BY <1>5, <1>6, <1>7, <1>8, <1>9, <1>10 DEF AppDeviceStep

LEMMA SmoothInit == ASSUME NodeInit PROVE Smooth
<1>1. /\ chan = <<>> /\ client.conn = "down" /\ node.pc = "idle" /\ ~st.birthed
      /\ cs = <<>> /\ loop.pc # "send" /\ loop.pc # "will" /\ inbox = <<>>
  BY DEF NodeInit, Init, NewEoNState
<1>2. \A d \in Devices : dev[d] = [pc |-> "new", res |-> "wait", n |-> 0, enabled |-> FALSE,
                                   birthed |-> FALSE, unsaid |-> FALSE,
                                   mail |-> <<>>, reqs |-> <<>>]
  BY DEF NodeInit
<1>3. \A p \in Publishers : pub[p].pc = "idle"
  BY DEF NodeInit
<1>4. Peaceful /\ Staying /\ Lasting /\ KnownData
  BY <1>1 DEF Peaceful, Staying, Lasting, KnownData
<1>5. \A d \in Devices : Willing(dev[d])
  BY <1>2 DEF Willing, NotRemoved
<1>6. BirthsLead /\ KnownSpeakers
  BY <1>1, <1>2, <1>3 DEF BirthsLead, KnownSpeakers
<1> QED
  BY <1>4, <1>5, <1>6 DEF Smooth

LEMMA SmoothKept ==
  ASSUME ~PrimaryHost, "Disable" \notin Requests, DeviceInv, Unbroken => Smooth,
         [NodeNext]_nodeVars, Unbroken'
  PROVE  Smooth'
<1>1. /\ NodeTypeOK /\ SessionInv /\ DevicesRest
      /\ SessionTypes /\ ChanTypes /\ DeviceTypes /\ WireTypes
  BY NodeTypesAre DEF DeviceInv
<1>2. Unbroken /\ Smooth
  BY <1>1, UnbrokenBefore
<1>3. CASE UNCHANGED nodeVars
  <2>1. /\ \A k : ViewBefore(k)' <=> ViewBefore(k)
        /\ \A k, d : KnownBefore(d, k)' <=> KnownBefore(d, k)
    BY <1>3 DEF nodeVars, vars, ViewBefore, KnownBefore
  <2>2. (Viewed' <=> Viewed) /\ \A d : Known(d)' <=> Known(d)
    BY <1>3, <2>1 DEF nodeVars, vars, Viewed, Known
  <2> QED
    BY <1>2, <1>3, <2>1, <2>2
    DEF nodeVars, vars, Smooth, Peaceful, Staying, Lasting, BirthsLead, KnownSpeakers, KnownData
<1> QED
  BY <1>1, <1>2, <1>3, SessionSmooth, DevSmooth, AppSmooth DEF NodeNext

(* The hosts get data only from what they know to be alive, if no request  *)
(* is refused, no device disabled or unregistered and the node is not      *)
(* cancelled: however births, rebirths and publishers interleave, the      *)
(* message of a publisher that found its device birthed comes after the    *)
(* DBIRTH, and that one after an NBIRTH.  (With a refused subscription it  *)
(* does not hold: the node disconnects, and a publisher that waited sends  *)
(* to a broker that has buried the node.)                                  *)
THEOREM DataFromKnown ==
  ~PrimaryHost /\ "Disable" \notin Requests =>
      (NodeSpec /\ [](Undisturbed /\ app.unregistered = 0) => DataFromAlive)
<1> SUFFICES ASSUME ~PrimaryHost, "Disable" \notin Requests
             PROVE  NodeSpec /\ [](Undisturbed /\ app.unregistered = 0) => DataFromAlive
  OBVIOUS
<1>1. NodeInit => DeviceInv /\ (Unbroken => Smooth)
  BY DeviceInvInit, SmoothInit
<1>2. DeviceInv /\ (Unbroken => Smooth) /\ [NodeNext]_nodeVars
        => DeviceInv' /\ (Unbroken => Smooth)'
  BY DeviceInvKept, SmoothKept
<1>3. DeviceInv /\ (Unbroken => Smooth) /\ (Undisturbed /\ app.unregistered = 0) =>
        [/\ HostsHear /\ client.conn = "up" /\ Head(chan).kind = "DATA"
         /\ NeverReconnects
         => /\ broker.view # NoBd
            /\ Head(chan).from # "node" =>
                  NameOf[Head(chan).from] \in HostAlive \cup wire.dead
        ]_nodeVars
  <2> SUFFICES ASSUME DeviceInv, Unbroken => Smooth, Undisturbed, app.unregistered = 0,
                      HostsHear, Head(chan).kind = "DATA", NeverReconnects
               PROVE  /\ broker.view # NoBd
                      /\ Head(chan).from # "node" => NameOf[Head(chan).from] \in HostAlive
    OBVIOUS
  <2>1. SessionTypes /\ chan \in Seq(AnyRequest)
    BY NodeTypesAre DEF DeviceInv, ChanTypes
  <2>2. chan # <<>> /\ Smooth
    <3>1. env.losses \in Nat /\ env.kicks \in Nat /\ env.fails \in Nat
      BY <2>1 DEF SessionTypes, Counters
    <3> QED
      BY <3>1 DEF HostsHear, PollRequest, Unbroken, OneSession, NeverReconnects
  <2>3. 1 \in DOMAIN chan /\ Head(chan) = chan[1] /\ DOMAIN chan \subseteq Nat \ {0}
    BY <2>1, <2>2
  <2>4. PICK d : d = chan[1].from
    OBVIOUS
  <2>5. ViewBefore(1) /\ (d # "node" => KnownBefore(d, 1))
    BY <2>2, <2>3, <2>4 DEF Smooth, KnownData
  <2>6. ~\E i \in DOMAIN chan : i < 1
    BY <2>3
  <2> QED
    BY <2>3, <2>4, <2>5, <2>6 DEF ViewBefore, KnownBefore, HostAlive
<1> QED
  BY <1>1, <1>2, <1>3, PTL DEF NodeSpec, DataFromAlive

-----------------------------------------------------------------------------
(* A device that was disabled or removed has been declared dead, unless it *)
(* once had no number for its DDEATH.                                      *)
(* "Removed" is the last word a device gets.                               *)
LastWord(mail) == \A i \in DOMAIN mail : mail[i] = "Removed" => i = Len(mail)

Leaves(r) == r.mail # <<>> /\ r.mail[Len(r.mail)] = "Removed"
Left(r) == r.mail = <<>> /\ r.reqs = <<>> /\ ~Believes(r)

Leaving ==
    \A d \in Devices : /\ LastWord(dev[d].mail)
                       /\ d \in registered \/ Leaves(dev[d]) \/ Left(dev[d])

(* The device answers for its name: it is birthed, is being birthed or is  *)
(* about to publish its DDEATH; or it once gave its DDEATH up.             *)
Owns(r) == Believes(r) \/ (r.pc = "ddeath" /\ r.res = "wait") \/ r.unsaid

Names(m, kind, x) == m.kind = kind /\ NameOf[m.from] = x
Spared(x, k) == \A i \in DOMAIN chan : i > k => ~Names(chan[i], "DDEATH", x)

(* The hosts will take the name to be alive once they have all requests.   *)
LivesOn(x) ==
    \/ x \in wire.alive /\ Spared(x, 0)
    \/ \E k \in DOMAIN chan : Names(chan[k], "DBIRTH", x) /\ Spared(x, k)

Owned == \A x : LivesOn(x) => \E d \in Devices : NameOf[d] = x /\ Owns(dev[d])

Untroubled ==
    /\ Peaceful /\ Staying
    /\ \A d \in Devices : ~Unread(dev[d].mail, "Death")

Unrefused == \A d \in Devices : dev[d].res # "err"

DeathInv ==
    /\ DeviceInv /\ AllSane /\ Leaving
    /\ OneSession => Untroubled
    /\ OneSession /\ app.fails = 0 => Unrefused /\ Owned

(* The words of the node and of the application.                           *)
LEMMA LastWordAppended ==
  ASSUME NEW s \in Seq(MailWords), NEW m \in MailWords, NotRemoved(s)
  PROVE  /\ LastWord(Append(s, m))
         /\ Append(s, m) # <<>> /\ Append(s, m)[Len(Append(s, m))] = m
<1> DEFINE t == Append(s, m)
<1>1. /\ DOMAIN t = 1 .. Len(s) + 1 /\ Len(t) = Len(s) + 1 /\ Len(s) \in Nat
      /\ t[Len(s) + 1] = m /\ t # <<>>
      /\ \A i \in DOMAIN t : i # Len(s) + 1 => i \in DOMAIN s /\ t[i] = s[i]
  OBVIOUS
<1> HIDE DEF t
<1>2. LastWord(t) /\ t # <<>> /\ t[Len(t)] = m
  BY <1>1 DEF LastWord, NotRemoved
<1> QED
  BY <1>2 DEF t

LEMMA LastWordTaken ==
  ASSUME NEW s \in Seq(MailWords), s # <<>>, LastWord(s)
  PROVE  /\ LastWord(Tail(s))
         /\ Head(s) = "Removed" => Tail(s) = <<>>
         /\ Head(s) # "Removed" /\ s[Len(s)] = "Removed" =>
                Tail(s) # <<>> /\ Tail(s)[Len(Tail(s))] = "Removed"
<1> DEFINE t == Tail(s)
<1>1. /\ Len(s) \in Nat \ {0} /\ DOMAIN s = 1 .. Len(s) /\ DOMAIN t = 1 .. Len(s) - 1
      /\ Head(s) = s[1] /\ 1 \in DOMAIN s /\ Len(t) = Len(s) - 1
      /\ t \in Seq(MailWords)
      /\ \A i \in DOMAIN t : i \in Nat \ {0} /\ i + 1 \in DOMAIN s /\ t[i] = s[i + 1]
  OBVIOUS
<1> HIDE DEF t
<1>2. Len(t) = 0 => t = <<>>
  BY <1>1
<1>3. LastWord(t)
  BY <1>1 DEF LastWord
<1>4. Head(s) = "Removed" => t = <<>>
  BY <1>1, <1>2 DEF LastWord
<1>5. Head(s) # "Removed" /\ s[Len(s)] = "Removed" => t # <<>> /\ t[Len(t)] = "Removed"
  <2>1. Len(s) # 1 => Len(t) \in DOMAIN t /\ Len(t) + 1 = Len(s)
    BY <1>1
  <2> QED
    BY <1>1, <2>1
<1> QED
  BY <1>3, <1>4, <1>5 DEF t

(* One step of a device: it leaves when told so,                           *)
LEMMA TaskLeaves ==
  ASSUME NEW r \in DeviceTask, NEW q \in DeviceTask, TaskStep(r, q), Resting(r), Sane(r),
         LastWord(r.mail)
  PROVE  LastWord(q.mail) /\ (Leaves(r) \/ Left(r) => Leaves(q) \/ Left(q))
<1>1. r.mail \in Seq(MailWords)
  BY DEF DeviceTask, MailWords, Births
<1>2. CASE TookWord(r, q)
  <2>1. /\ r.mail # <<>> /\ q.mail = Tail(r.mail)
        /\ Head(r.mail) = "Removed" => q.reqs = <<>> /\ Died(r, q)
    BY <1>2 DEF TookWord, Births
  <2>2. /\ LastWord(q.mail)
        /\ Head(r.mail) = "Removed" => q.mail = <<>>
        /\ Head(r.mail) # "Removed" /\ Leaves(r) => Leaves(q)
    BY <1>1, <2>1, LastWordTaken DEF Leaves
  <2>3. Head(r.mail) = "Removed" => Left(q)
    BY <2>1, <2>2 DEF Left, Died, Believes
  <2> QED
    BY <2>1, <2>2, <2>3 DEF Left
<1>3. CASE TookRequest(r, q)
  BY <1>3 DEF TookRequest, LastWord, Leaves, Left
<1>4. CASE Answered(r, q)
  BY <1>4 DEF Answered, Leaves, Left, Believes
<1>5. CASE WasAnswered(r, q)
  BY <1>5 DEF WasAnswered, Leaves, Left, Believes
<1> QED
  BY <1>2, <1>3, <1>4, <1>5 DEF TaskStep

(* and answers for its name until its DDEATH is accepted.                  *)
LEMMA TaskOwns ==
  ASSUME NEW r \in DeviceTask, NEW q \in DeviceTask, TaskStep(r, q), Resting(r), Sane(r),
         ~Unread(r.mail, "Death"), r.res # "err", q.res # "err", Owns(r)
  PROVE  Owns(q) \/ (r.pc = "ddeath" /\ Answered(r, q) /\ q.res = "ok")
<1>1. r.mail \in Seq(MailWords) /\ r.res \in {"wait", "ok", "err"} /\ q.res \in {"wait", "ok", "err"}
  BY DEF DeviceTask, MailWords, Births
<1>0. CASE r.unsaid
  <2>1. q.unsaid
    BY <1>0 DEF TaskStep, TookWord, TookRequest, Answered, WasAnswered
  <2> QED
    BY <2>1 DEF Owns
<1>2. CASE ~r.unsaid /\ TookWord(r, q)
  <2>1. r.mail # <<>> /\ r.birthed /\ q.res = "wait" /\ r.pc = "idle"
    BY <1>2 DEF TookWord, Owns, Believes, Resting
  <2>2. Head(r.mail) # "Death"
    BY <1>1, <2>1, UnreadTaken
  <2> QED
    BY <1>2, <2>1, <2>2 DEF TookWord, Died, Owns, Believes
<1>3. CASE ~r.unsaid /\ TookRequest(r, q)
  <2>1. r.birthed /\ q.res = "wait" /\ r.pc = "idle"
    BY <1>3 DEF TookRequest, Owns, Believes, Resting
  <2> QED
    BY <1>3, <2>1 DEF TookRequest, Died, Owns, Believes
<1>4. CASE ~r.unsaid /\ Answered(r, q)
  BY <1>1, <1>4 DEF Answered, Owns, Believes, Sane
<1>5. CASE ~r.unsaid /\ WasAnswered(r, q)
  BY <1>1, <1>5 DEF WasAnswered, Owns, Believes, Sane
<1> QED
  BY <1>0, <1>2, <1>3, <1>4, <1>5 DEF TaskStep

(* Who lives on when a request enters the channel, and when the hosts get  *)
(* one.                                                                    *)
LEMMA LivesAppended ==
  ASSUME ChanTypes, NEW m \in AnyRequest, chan' = Append(chan, m), wire' = wire, NEW x,
         LivesOn(x)'
  PROVE  ~Names(m, "DDEATH", x) /\ (LivesOn(x) \/ Names(m, "DBIRTH", x))
<1>1. chan \in Seq(AnyRequest)
  BY DEF ChanTypes
<1>2. PICK n \in Nat : n = Len(chan)
  BY <1>1
<1>3. /\ DOMAIN chan' = 1 .. n + 1 /\ DOMAIN chan = 1 .. n
      /\ chan'[n + 1] = m /\ n + 1 \in DOMAIN chan'
      /\ \A i \in DOMAIN chan' : i # n + 1 => i \in DOMAIN chan /\ chan'[i] = chan[i]
      /\ \A i \in DOMAIN chan : i \in DOMAIN chan' /\ chan'[i] = chan[i]
  BY <1>1, <1>2
<1>4. \A k \in Nat : k <= n /\ Spared(x, k)' => Spared(x, k) /\ ~Names(m, "DDEATH", x)
  BY <1>3 DEF Spared
<1>5. CASE x \in wire'.alive /\ Spared(x, 0)'
  BY <1>2, <1>4, <1>5 DEF LivesOn
<1>6. ASSUME NEW k \in DOMAIN chan', Names(chan'[k], "DBIRTH", x), Spared(x, k)'
      PROVE  ~Names(m, "DDEATH", x) /\ (LivesOn(x) \/ Names(m, "DBIRTH", x))
  <2>1. CASE k = n + 1
    BY <1>3, <1>6, <2>1 DEF Names
  <2>2. CASE k # n + 1
    <3>1. k \in DOMAIN chan /\ chan'[k] = chan[k] /\ k \in Nat /\ k <= n
      BY <1>3, <2>2
    <3> QED
      BY <1>4, <1>6, <3>1 DEF LivesOn
  <2> QED
    BY <2>1, <2>2
<1> QED
  BY <1>5, <1>6 DEF LivesOn

LEMMA HearLives ==
  ASSUME WireTypes, NEW m \in AnyRequest, wire' = Hear(m), NEW x, x \in wire'.alive
  PROVE  Names(m, "DBIRTH", x) \/ (x \in wire.alive /\ ~Names(m, "DDEATH", x))
<1> DEFINE numbered == [wire EXCEPT !.seqs = @ \cup {m.n}]
<1>1. numbered.alive = wire.alive /\ "alive" \in DOMAIN numbered /\ "alive" \in DOMAIN wire
  BY DEF WireTypes
<1> HIDE DEF numbered
<1>2. CASE m.kind = "NBIRTH"
  <2>1. wire'.alive = HostAlive
    BY <1>1, <1>2 DEF Hear
  <2> QED
    BY <1>2, <2>1 DEF HostAlive, Names
<1>3. CASE m.kind = "DATA"
  <2>1. wire' = numbered
    BY <1>3 DEF Hear, numbered
  <2> QED
    BY <1>1, <1>3, <2>1 DEF Names
<1>4. CASE m.kind = "DBIRTH"
  <2>1. wire' = [numbered EXCEPT !.alive = @ \cup {NameOf[m.from]}, !.born = @ \cup {NameOf[m.from]}]
    BY <1>4 DEF Hear, numbered
  <2>2. wire'.alive = wire.alive \cup {NameOf[m.from]}
    BY <1>1, <2>1
  <2> QED
    BY <1>4, <2>2 DEF Names
<1>5. CASE m.kind = "DDEATH"
  <2>1. wire' = [numbered EXCEPT !.alive = @ \ {NameOf[m.from]},
                                 !.born = @ \ {NameOf[m.from]},
                                 !.dead = @ \cup {NameOf[m.from]}]
    BY <1>5 DEF Hear, numbered
  <2>2. wire'.alive = wire.alive \ {NameOf[m.from]}
    BY <1>1, <2>1
  <2> QED
    BY <1>5, <2>2 DEF Names
<1>6. CASE m.kind \notin {"NBIRTH", "DATA", "DBIRTH", "DDEATH"}
  BY <1>6 DEF Hear, Names
<1> QED
  BY <1>2, <1>3, <1>4, <1>5, <1>6

LEMMA LivesHeard ==
  ASSUME ChanTypes, WireTypes, Delivers, NEW x, LivesOn(x)'
  PROVE  LivesOn(x)
<1>1. chan \in Seq(AnyRequest) /\ chan # <<>> /\ chan' = Tail(chan)
  BY DEF ChanTypes, Delivers
<1>2. PICK m \in AnyRequest : m = Head(chan) /\ m = chan[1] /\ 1 \in DOMAIN chan
  BY <1>1
<1>3. /\ DOMAIN chan \subseteq Nat \ {0}
      /\ \A i \in DOMAIN chan' : i \in Nat \ {0} /\ i + 1 \in DOMAIN chan /\ chan'[i] = chan[i + 1]
      /\ \A i \in DOMAIN chan : i # 1 => i - 1 \in DOMAIN chan' /\ chan'[i - 1] = chan[i]
  BY <1>1
<1>4. \A k \in Nat : Spared(x, k)' => Spared(x, k + 1)
  <2> SUFFICES ASSUME NEW k \in Nat, Spared(x, k)', NEW i \in DOMAIN chan, i > k + 1
               PROVE  ~Names(chan[i], "DDEATH", x)
    BY DEF Spared
  <2>1. i - 1 \in DOMAIN chan' /\ chan'[i - 1] = chan[i] /\ i - 1 > k
    BY <1>3
  <2> QED
    BY <2>1 DEF Spared
<1>5. CASE x \in wire'.alive /\ Spared(x, 0)'
  <2>1. Names(m, "DBIRTH", x) \/ (x \in wire.alive /\ ~Names(m, "DDEATH", x))
    BY <1>2, <1>5, HearLives DEF Delivers
  <2>2. Spared(x, 1)
    BY <1>4, <1>5
  <2>3. ~Names(m, "DDEATH", x) => Spared(x, 0)
    BY <1>2, <1>3, <2>2 DEF Spared
  <2> QED
    BY <1>2, <2>1, <2>2, <2>3 DEF LivesOn
<1>6. ASSUME NEW k \in DOMAIN chan', Names(chan'[k], "DBIRTH", x), Spared(x, k)'
      PROVE  LivesOn(x)
  <2>1. k + 1 \in DOMAIN chan /\ Names(chan[k + 1], "DBIRTH", x) /\ Spared(x, k + 1)
    BY <1>3, <1>4, <1>6
  <2> QED
    BY <2>1 DEF LivesOn
<1> QED
  BY <1>5, <1>6 DEF LivesOn

(* The steps of the session keep who answers for which name,               *)
LEMMA SessionDeaths ==
  ASSUME ~PrimaryHost, DeathInv, SessionStep
  PROVE  /\ AllSane' /\ Leaving'
         /\ OneSession /\ OneSession' => Untroubled'
         /\ OneSession /\ OneSession' /\ app'.fails = 0 => Unrefused' /\ Owned'
<1>1. /\ NodeTypeOK /\ SessionInv /\ DevicesRest
      /\ SessionTypes /\ ChanTypes /\ DeviceTypes /\ WireTypes
      /\ AllSane /\ Leaving
  BY NodeTypesAre DEF DeathInv, DeviceInv
<1>2. registered' = registered /\ app' = app
  BY DEF SessionStep
<1>3. PICK m \in MailWords :
         /\ m # "Removed" /\ (m = "Death" => ~Peaceful)
         /\ Notify(m) \/ dev' = dev
  <2>1. node.type \in MailWords \ {"Death", "Removed"} /\ "Death" \in MailWords
    BY <1>1 DEF SessionTypes, NodeTask, MailWords, Births
  <2>2. NodeBirthed => Notify(node.type)
    BY DEF NodeBirthed
  <2>3. NodeOffline \/ NodeDeathSent => /\ Notify("Death") \/ dev' = dev
                                        /\ ~Peaceful
    BY DEF NodeOffline, NodeDeathSent, TakeOffline, TakeClientState, DeathSent, Peaceful
  <2> QED
    BY <2>1, <2>2, <2>3 DEF SessionStep
<1>4. ASSUME NEW d \in Devices
      PROVE  /\ dev'[d].pc = dev[d].pc /\ dev'[d].res = dev[d].res
             /\ dev'[d].enabled = dev[d].enabled /\ dev'[d].birthed = dev[d].birthed
             /\ dev'[d].reqs = dev[d].reqs /\ dev'[d].unsaid = dev[d].unsaid
             /\ \/ dev'[d].mail = dev[d].mail
                \/ d \in registered /\ dev'[d].mail = Append(dev[d].mail, m)
  BY <1>1, <1>3, NotifyEffect
<1>5. AllSane'
  BY <1>1, <1>4 DEF AllSane, Sane, Believes
<1>6. Leaving'
  <2> SUFFICES ASSUME NEW d \in Devices
               PROVE  /\ LastWord(dev'[d].mail)
                      /\ d \in registered \/ Leaves(dev'[d]) \/ Left(dev'[d])
    BY <1>2 DEF Leaving
  <2>1. CASE dev'[d].mail = dev[d].mail
    BY <1>1, <1>4, <2>1 DEF Leaving, Leaves, Left, Believes
  <2>2. CASE d \in registered /\ dev'[d].mail = Append(dev[d].mail, m)
    <3>1. dev[d].mail \in Seq(MailWords) /\ NotRemoved(dev[d].mail)
      BY <1>1, <2>2, TaskFields DEF DevicesRest
    <3> QED
      BY <2>2, <3>1, LastWordAppended
  <2> QED
    BY <1>4, <2>1, <2>2
<1>7. ASSUME OneSession, OneSession'
      PROVE  Peaceful' /\ (Nothing \/ Announces \/ Delivers) /\ Staying'
  <2>1. Peaceful /\ Staying
    BY <1>7 DEF DeathInv, Untroubled
  <2>2. CASE NodeStep /\ wire' = wire
    BY <1>1, <1>7, <2>1, <2>2, NodeSmooth, StayingKept
  <2>3. CASE \/ HostsHear
             \/ /\ LoopStep \/ PollEvent \/ AppStep \/ HostFlips \/ OldState \/ CooldownEnds
                /\ wire' = wire
    BY <1>1, <1>7, <2>1, <2>3, OthersSmooth, StayingKept
  <2> QED
    BY <2>2, <2>3 DEF SessionStep, NodeBirthed, NodeOffline, NodeDeathSent, NodeStep
<1>8. ASSUME OneSession, OneSession' PROVE Untroubled'
  <2>1. Peaceful /\ \A d \in Devices : ~Unread(dev[d].mail, "Death")
    BY <1>8 DEF DeathInv, Untroubled
  <2>2. m # "Death"
    BY <1>3, <2>1
  <2>3. ASSUME NEW d \in Devices PROVE ~Unread(dev'[d].mail, "Death")
    <3>1. dev[d].mail \in Seq(MailWords)
      BY <1>1, TaskFields
    <3>2. ~Unread(Append(dev[d].mail, m), "Death")
      BY <2>1, <2>2, <3>1, UnreadAppended
    <3> QED
      BY <1>4, <2>1, <3>2
  <2> QED
    BY <1>7, <1>8, <2>3 DEF Untroubled
<1>9. ASSUME OneSession, OneSession', app'.fails = 0 PROVE Unrefused' /\ Owned'
  <2>1. Unrefused /\ Owned
    BY <1>2, <1>9 DEF DeathInv
  <2>2. ASSUME NEW x, LivesOn(x)' PROVE LivesOn(x)
    <3>1. CASE Nothing
      BY <2>2, <3>1 DEF Nothing, LivesOn, Spared
    <3>2. CASE Announces
      <4>1. PICK a \in AnyRequest : chan' = Append(chan, a) /\ a.kind \in {"SUB", "NBIRTH"}
        BY <3>2 DEF Announces
      <4>2. ~Names(a, "DBIRTH", x) /\ wire' = wire
        BY <3>2, <4>1 DEF Names, Announces
      <4> QED
        BY <1>1, <2>2, <4>1, <4>2, LivesAppended
    <3>3. CASE Delivers
      BY <1>1, <2>2, <3>3, LivesHeard
    <3> QED
      BY <1>7, <1>9, <3>1, <3>2, <3>3
  <2>3. ASSUME NEW x, LivesOn(x)' PROVE \E d \in Devices : NameOf[d] = x /\ Owns(dev'[d])
    <3>1. PICK d \in Devices : NameOf[d] = x /\ Owns(dev[d])
      BY <2>1, <2>2, <2>3 DEF Owned
    <3> QED
      BY <1>4, <3>1 DEF Owns, Believes
  <2> QED
    BY <1>4, <2>1, <2>3 DEF Unrefused, Owned
<1> QED
  BY <1>5, <1>6, <1>8, <1>9

(* those of the devices                                                    *)
LEMMA DevDeaths ==
  ASSUME DeathInv, NEW d \in Devices, DevStep(d)
  PROVE  /\ AllSane' /\ Leaving'
         /\ OneSession => Untroubled'
         /\ OneSession /\ app'.fails = 0 => Unrefused' /\ Owned'
<1>1. /\ NodeTypeOK /\ SessionInv /\ DevicesRest
      /\ SessionTypes /\ ChanTypes /\ DeviceTypes /\ WireTypes
      /\ AllSane /\ Leaving
  BY NodeTypesAre DEF DeathInv, DeviceInv
<1>2. DeviceSide /\ UNCHANGED <<pub, wire, registered>> /\ app'.fails >= app.fails
  BY <1>1, DevStepEffect
<1>3. PICK q : /\ Becomes(d, q) /\ TaskStep(dev[d], q)
               /\ \/ chan' = chan /\ ~(Answered(dev[d], q) /\ q.res = "ok")
                  \/ /\ Answered(dev[d], q)
                     /\ \E m \in AnyRequest :
                           /\ chan' = Append(chan, m) /\ m.from = d /\ m.n = dev[d].n
                           /\ m.kind = (IF dev[d].pc = "dbirth" THEN "DBIRTH" ELSE "DDEATH")
  BY <1>1, DevStepSends
<1>4. /\ dev[d] \in DeviceTask /\ q \in DeviceTask
      /\ \A e \in Devices : dev'[e] = IF e = d THEN q ELSE dev[e]
      /\ dev[d].mail \in Seq(MailWords)
  BY <1>1, <1>3, TaskFields DEF Becomes, DeviceTypes
<1>5. /\ Sane(dev[d]) /\ Resting(dev[d]) /\ LastWord(dev[d].mail)
      /\ d \in registered \/ Leaves(dev[d]) \/ Left(dev[d])
  BY <1>1 DEF AllSane, DevicesRest, Leaving
<1>6. AllSane' /\ Leaving'
  <2>1. Sane(q) /\ LastWord(q.mail) /\ (d \in registered \/ Leaves(q) \/ Left(q))
    BY <1>3, <1>4, <1>5, TaskBelieves, TaskLeaves
  <2> QED
    BY <1>1, <1>2, <1>4, <2>1 DEF AllSane, Leaving
<1>7. UNCHANGED <<node, cs, loop, client, broker, inbox, env, cancel>>
  BY <1>2 DEF DeviceSide, sessionOnly
<1>8. ASSUME OneSession PROVE Untroubled'
  <2>1. Untroubled
    BY <1>8 DEF DeathInv
  <2>2. Staying'
    <3>1. CASE chan' = chan
      BY <2>1, <3>1 DEF Untroubled, Staying
    <3>2. CASE chan' # chan
      <4>1. PICK m \in AnyRequest : chan' = Append(chan, m) /\ m.kind \in {"DBIRTH", "DDEATH"}
        BY <1>3, <3>2
      <4> QED
        BY <1>1, <2>1, <4>1, StayingKept DEF Untroubled, Partings
    <3> QED
      BY <3>1, <3>2
  <2>3. ~Unread(q.mail, "Death")
    <3>1. ~Unread(dev[d].mail, "Death")
      BY <2>1 DEF Untroubled
    <3>2. q.mail = dev[d].mail \/ (dev[d].mail # <<>> /\ q.mail = Tail(dev[d].mail))
      BY <1>3 DEF TaskStep, TookWord, TookRequest, Answered, WasAnswered
    <3> QED
      BY <1>4, <3>1, <3>2, UnreadTaken
  <2> QED
    BY <1>4, <1>7, <2>1, <2>2, <2>3 DEF Untroubled, Peaceful
<1>9. ASSUME OneSession, app'.fails = 0 PROVE Unrefused' /\ Owned'
  <2>1. app.fails = 0 /\ loop.pc # "done"
    BY <1>1, <1>2, <1>9 DEF DeviceTypes, SessionInv, Running, OneSession, Undisturbed
  <2>2. Unrefused /\ Owned /\ Untroubled
    BY <1>9, <2>1 DEF DeathInv
  <2>3. q.res # "err"
    BY <1>3, <1>9, <2>1, <2>2
    DEF Unrefused, TaskStep, TookWord, TookRequest, Answered, WasAnswered
  <2>4. Owns(dev[d]) => Owns(q) \/ (dev[d].pc = "ddeath" /\ Answered(dev[d], q) /\ q.res = "ok")
    <3>2. ~Unread(dev[d].mail, "Death") /\ dev[d].res # "err"
      BY <2>2 DEF Unrefused, Untroubled
    <3> QED
      BY <1>3, <1>4, <1>5, <2>3, <3>2, TaskOwns
  <2>5. ASSUME NEW x, LivesOn(x)' PROVE \E e \in Devices : NameOf[e] = x /\ Owns(dev'[e])
    <3>1. CASE chan' = chan /\ ~(Answered(dev[d], q) /\ q.res = "ok")
      <4>1. LivesOn(x)
        BY <1>2, <2>5, <3>1 DEF LivesOn, Spared
      <4>2. PICK e \in Devices : NameOf[e] = x /\ Owns(dev[e])
        BY <2>2, <4>1 DEF Owned
      <4>3. Owns(dev'[e])
        BY <1>4, <2>4, <3>1, <4>2
      <4> QED
        BY <4>2, <4>3
    <3>2. ASSUME Answered(dev[d], q), NEW m \in AnyRequest, chan' = Append(chan, m), m.from = d,
                 m.kind = (IF dev[d].pc = "dbirth" THEN "DBIRTH" ELSE "DDEATH")
          PROVE  \E e \in Devices : NameOf[e] = x /\ Owns(dev'[e])
      <4>1. ~Names(m, "DDEATH", x) /\ (LivesOn(x) \/ Names(m, "DBIRTH", x))
        BY <1>1, <1>2, <2>5, <3>2, LivesAppended
      <4>2. CASE Names(m, "DBIRTH", x)
        <5>1. NameOf[d] = x /\ q.pc = "dbirth"
          BY <3>2, <4>2 DEF Names, Answered
        <5> QED
          BY <1>4, <5>1 DEF Owns, Believes
      <4>3. CASE ~Names(m, "DBIRTH", x)
        <5>1. PICK e \in Devices : NameOf[e] = x /\ Owns(dev[e])
          BY <2>2, <4>1, <4>3 DEF Owned
        <5>2. e # d
          <6>1. dev[d].pc \in {"dbirth", "ddeath"}
            BY <3>2 DEF Answered
          <6>2. m.kind \in {"DBIRTH", "DDEATH"}
            BY <3>2
          <6>3. NameOf[d] # x
            BY <3>2, <4>1, <4>3, <6>2 DEF Names
          <6> QED
            BY <5>1, <6>3
        <5>3. dev'[e] = dev[e]
          BY <1>4, <5>2
        <5> QED
          BY <5>1, <5>3
      <4> QED
        BY <4>2, <4>3
    <3> QED
      BY <1>3, <3>1, <3>2
  <2>6. Unrefused'
    BY <1>4, <2>2, <2>3 DEF Unrefused
  <2> QED
    BY <2>5, <2>6 DEF Owned
<1> QED
  BY <1>6, <1>8, <1>9

(* and those of the application.                                           *)
DeathsSettled ==
  /\ AllSane' /\ Leaving'
  /\ OneSession => Untroubled'
  /\ OneSession /\ app'.fails = 0 => Unrefused' /\ Owned'

LEMMA AppDeaths == ASSUME DeathInv, AppDeviceStep PROVE DeathsSettled
<1>1. /\ NodeTypeOK /\ SessionInv /\ DevicesRest
      /\ SessionTypes /\ ChanTypes /\ DeviceTypes /\ WireTypes
      /\ AllSane /\ Leaving
  BY NodeTypesAre DEF DeathInv, DeviceInv
<1>2. DeviceSide /\ wire' = wire
  <2>1. wire' = wire
    BY DEF AppDeviceStep, Register, Unregister, AskDevice, PubCheck, PubSeq, PubSend
  <2> QED
    BY <1>1, <2>1, AppDeviceTypes
<1>3. UNCHANGED <<node, cs, loop, client, broker, inbox, env, cancel>>
  BY <1>2 DEF DeviceSide, sessionOnly
(* What a call leaves of every device is enough.                           *)
<1>4. ASSUME app'.fails = app.fails,
             \/ chan' = chan
             \/ \E m \in AnyRequest : chan' = Append(chan, m) /\ m.kind = "DATA",
             \A e \in Devices :
                 /\ dev'[e].res = dev[e].res /\ dev'[e].birthed = dev[e].birthed
                 /\ dev'[e].enabled = dev[e].enabled /\ dev'[e].unsaid = dev[e].unsaid
                 /\ \/ dev'[e].pc = dev[e].pc
                    \/ dev[e].pc = "new" /\ dev'[e].pc = "idle"
                 /\ LastWord(dev'[e].mail)
                 /\ e \in registered' \/ Leaves(dev'[e]) \/ Left(dev'[e])
                 /\ \/ dev'[e].mail = dev[e].mail
                    \/ dev'[e].mail = Append(dev[e].mail, "Removed")
      PROVE  DeathsSettled
  <2>1. AllSane' /\ Leaving'
    BY <1>1, <1>4 DEF AllSane, Sane, Believes, Leaving
  <2>2. ASSUME OneSession PROVE Untroubled'
    <3>1. Untroubled
      BY <2>2 DEF DeathInv
    <3>2. Staying'
      <4>1. CASE chan' = chan
        BY <3>1, <4>1 DEF Untroubled, Staying
      <4>2. ASSUME NEW m \in AnyRequest, chan' = Append(chan, m), m.kind = "DATA"
            PROVE  Staying'
        BY <1>1, <3>1, <4>2, StayingKept DEF Untroubled, Partings
      <4> QED
        BY <1>4, <4>1, <4>2
    <3>3. ASSUME NEW e \in Devices PROVE ~Unread(dev'[e].mail, "Death")
      <4>1. dev[e].mail \in Seq(MailWords) /\ "Removed" \in MailWords /\ ~Unread(dev[e].mail, "Death")
        BY <1>1, <3>1, TaskFields DEF Untroubled, MailWords
      <4>2. ~Unread(Append(dev[e].mail, "Removed"), "Death")
        BY <4>1, UnreadAppended
      <4> QED
        BY <1>4, <4>1, <4>2
    <3> QED
      BY <1>3, <3>1, <3>2, <3>3 DEF Untroubled, Peaceful
  <2>3. ASSUME OneSession, app'.fails = 0 PROVE Unrefused' /\ Owned'
    <3>1. Unrefused /\ Owned
      BY <1>4, <2>3 DEF DeathInv
    <3>2. ASSUME NEW x, LivesOn(x)' PROVE LivesOn(x)
      <4>1. CASE chan' = chan
        BY <1>2, <3>2, <4>1 DEF LivesOn, Spared
      <4>2. ASSUME NEW m \in AnyRequest, chan' = Append(chan, m), m.kind = "DATA"
            PROVE  LivesOn(x)
        BY <1>1, <1>2, <3>2, <4>2, LivesAppended DEF Names
      <4> QED
        BY <1>4, <4>1, <4>2
    <3>3. ASSUME NEW e \in Devices, Owns(dev[e]) PROVE Owns(dev'[e])
      BY <1>1, <1>4, <3>3 DEF AllSane, Sane, Owns, Believes
    <3>4. Unrefused'
      BY <1>4, <3>1 DEF Unrefused
    <3> QED
      BY <3>1, <3>2, <3>3, <3>4 DEF Owned
  <2> QED
    BY <2>1, <2>2, <2>3 DEF DeathsSettled
<1>5. ASSUME NEW d \in Devices, Register(d) PROVE DeathsSettled
  <2>1. PICK q : /\ Becomes(d, q) /\ q.pc = "idle" /\ q.mail = dev[d].mail /\ dev[d].pc = "new"
                 /\ q.res = dev[d].res /\ q.birthed = dev[d].birthed
                 /\ q.enabled = dev[d].enabled /\ q.unsaid = dev[d].unsaid
    BY <1>1, <1>5, RegisterEffect
  <2>2. \A e \in Devices : dev'[e] = IF e = d THEN q ELSE dev[e]
    BY <1>1, <2>1 DEF Becomes, DeviceTypes
  <2>3. chan' = chan /\ app' = app /\ registered' = registered \cup {d}
    BY <1>5 DEF Register
  <2> QED
    BY <1>1, <1>4, <2>1, <2>2, <2>3 DEF Leaving
<1>6. ASSUME NEW d \in Devices, Unregister(d) PROVE DeathsSettled
  <2>1. PICK q : /\ Becomes(d, q) /\ q.pc = dev[d].pc /\ q.res = dev[d].res
                 /\ q.mail = Append(dev[d].mail, "Removed")
                 /\ q.enabled = dev[d].enabled /\ q.unsaid = dev[d].unsaid /\ q.birthed = dev[d].birthed
    BY <1>1, <1>6, UnregisterEffect
  <2>2. \A e \in Devices : dev'[e] = IF e = d THEN q ELSE dev[e]
    BY <1>1, <2>1 DEF Becomes, DeviceTypes
  <2>3. /\ chan' = chan /\ app'.fails = app.fails /\ registered' = registered \ {d}
        /\ d \in registered
    BY <1>1, <1>6, UnregisterEffect
  <2>4. dev[d].mail \in Seq(MailWords) /\ NotRemoved(dev[d].mail) /\ "Removed" \in MailWords
    BY <1>1, <2>3, TaskFields DEF DevicesRest, MailWords
  <2>5. LastWord(q.mail) /\ Leaves(q)
    BY <2>1, <2>4, LastWordAppended DEF Leaves
  <2>6. ASSUME NEW e \in Devices
        PROVE  /\ dev'[e].res = dev[e].res /\ dev'[e].birthed = dev[e].birthed
               /\ dev'[e].enabled = dev[e].enabled /\ dev'[e].pc = dev[e].pc
               /\ dev'[e].unsaid = dev[e].unsaid
               /\ LastWord(dev'[e].mail)
               /\ e \in registered' \/ Leaves(dev'[e]) \/ Left(dev'[e])
               /\ \/ dev'[e].mail = dev[e].mail
                  \/ dev'[e].mail = Append(dev[e].mail, "Removed")
    <3>1. CASE e = d
      BY <2>1, <2>2, <2>5, <3>1
    <3>2. CASE e # d
      BY <1>1, <2>2, <2>3, <3>2 DEF Leaving
    <3> QED
      BY <3>1, <3>2
  <2> QED
    BY <1>4, <2>3, <2>6
<1>7. ASSUME NEW d \in Devices, NEW r \in Requests, AskDevice(d, r) PROVE DeathsSettled
  <2>1. PICK q : /\ Becomes(d, q) /\ q.pc = dev[d].pc /\ q.res = dev[d].res
                 /\ q.mail = dev[d].mail
                 /\ q.enabled = dev[d].enabled /\ q.unsaid = dev[d].unsaid /\ q.birthed = dev[d].birthed
    BY <1>1, <1>7, AskDeviceEffect
  <2>2. \A e \in Devices : dev'[e] = IF e = d THEN q ELSE dev[e]
    BY <1>1, <2>1 DEF Becomes, DeviceTypes
  <2>3. /\ chan' = chan /\ app'.fails = app.fails /\ registered' = registered
        /\ d \in registered
    BY <1>1, <1>7, AskDeviceEffect
  <2> QED
    BY <1>1, <1>4, <2>1, <2>2, <2>3 DEF Leaving
<1>8. ASSUME NEW p \in Publishers, PubStep(p) PROVE DeathsSettled
  <2>1. /\ UNCHANGED <<registered, dev>> /\ app'.fails = app.fails
        /\ \/ chan' = chan
           \/ \E m \in AnyRequest : m.kind = "DATA" /\ chan' = Append(chan, m)
    BY <1>1, <1>8, PubStepEffect
  <2> QED
    BY <1>1, <1>4, <2>1 DEF Leaving
<1> QED
  BY <1>5, <1>6, <1>7, <1>8 DEF AppDeviceStep, PubStep

LEMMA DeathInvKept ==
  ASSUME ~PrimaryHost, DeathInv, [NodeNext]_nodeVars
  PROVE  DeathInv'
<1>1. /\ DeviceInv /\ NodeTypeOK /\ SessionTypes /\ ChanTypes /\ DeviceTypes /\ WireTypes
      /\ app.fails \in Nat
  BY NodeTypesAre DEF DeathInv, DeviceInv, DeviceTypes
<1>2. DeviceInv' /\ (OneSession' => OneSession)
  BY <1>1, DeviceInvKept, OneSessionBefore
<1>3. CASE SessionStep
  <2>1. app' = app
    BY <1>3 DEF SessionStep
  <2> QED
    BY <1>2, <1>3, <2>1, SessionDeaths DEF DeathInv
<1>4. ASSUME NEW d \in Devices, DevStep(d) PROVE DeathInv'
  BY <1>2, <1>4, DevDeaths DEF DeathInv
<1>5. CASE AppDeviceStep
  BY <1>2, <1>5, AppDeaths DEF DeathInv, DeathsSettled
<1>6. CASE UNCHANGED nodeVars
  <2>1. \A x : LivesOn(x)' <=> LivesOn(x)
    BY <1>6 DEF nodeVars, vars, LivesOn, Spared
  <2> QED
    BY <1>2, <1>6, <2>1
    DEF DeathInv, nodeVars, vars, AllSane, Leaving, OneSession, Undisturbed, Untroubled,
        Peaceful, Staying, Unrefused, Owned
<1> QED
  BY <1>3, <1>4, <1>5, <1>6 DEF NodeNext

LEMMA DeathInvInit == ASSUME NodeInit PROVE DeathInv
<1>1. /\ DeviceInv /\ Smooth
      /\ wire.alive = {} /\ chan = <<>>
  BY DeviceInvInit, SmoothInit DEF NodeInit, Init
<1>2. \A d \in Devices : dev[d] = [pc |-> "new", res |-> "wait", n |-> 0, enabled |-> FALSE,
                                   birthed |-> FALSE, unsaid |-> FALSE,
                                   mail |-> <<>>, reqs |-> <<>>]
  BY DEF NodeInit
<1>3. AllSane /\ Unrefused
  BY <1>2 DEF AllSane, Sane, Believes, Unrefused
<1>4. Leaving
  BY <1>2 DEF Leaving, LastWord, Left, Believes
<1>5. Untroubled
  BY <1>1, <1>2 DEF Untroubled, Smooth, Unread
<1>6. Owned
  BY <1>1 DEF Owned, LivesOn
<1> QED
  BY <1>1, <1>3, <1>4, <1>5, <1>6 DEF DeathInv

(* Nobody but the enabled devices that are registered is alive for the     *)
(* hosts, once everything has come to rest, save a device that gave up its *)
(* DDEATH for want of a sequence number, which is what happens to a        *)
(* disable() or unregister_device() that comes while the node is born      *)
(* again (see the run NodeDisableRebirth): however many devices there are, *)
(* whichever share a name, and however often the node is born again.       *)
THEOREM DeathsDeclared == ~PrimaryHost => (NodeSpec => []OnlyGivenUpGhosts)
<1> SUFFICES ASSUME ~PrimaryHost PROVE NodeSpec => []OnlyGivenUpGhosts
  OBVIOUS
<1>1. NodeInit => DeathInv
  BY DeathInvInit
<1>2. DeathInv /\ [NodeNext]_nodeVars => DeathInv'
  BY DeathInvKept
<1>3. DeathInv => OnlyGivenUpGhosts
  <2> SUFFICES ASSUME DeathInv, Quiet, NeverReconnects, app.fails = 0, NEW x \in HostAlive
               PROVE  \/ \E e \in registered : NameOf[e] = x /\ dev[e].enabled
                      \/ \E e \in Devices : NameOf[e] = x /\ dev[e].unsaid
    BY DEF OnlyGivenUpGhosts
  <2>0. OneSession
    <3>1. env.losses \in Nat /\ env.kicks \in Nat /\ env.fails \in Nat
      BY NodeTypesAre DEF DeathInv, DeviceInv, SessionTypes, Counters
    <3> QED
      BY <3>1 DEF NeverReconnects, OneSession, Undisturbed, Quiet, Settled
  <2>1. Owned /\ AllSane /\ Leaving /\ chan = <<>>
    BY <2>0 DEF DeathInv, Quiet, Settled
  <2>2. LivesOn(x)
    BY <2>1 DEF HostAlive, LivesOn, Spared
  <2>3. PICK e \in Devices : NameOf[e] = x /\ Owns(dev[e])
    BY <2>1, <2>2 DEF Owned
  <2>4. dev[e].pc \in {"new", "idle"} /\ dev[e].mail = <<>>
    BY DEF Quiet
  <2>5. dev[e].unsaid \/ (dev[e].enabled /\ e \in registered)
    BY <2>1, <2>3, <2>4 DEF Owns, Believes, AllSane, Sane, Leaving, Leaves, Left
  <2> QED
    BY <2>3, <2>5
<1> QED
  BY <1>1, <1>2, <1>3, PTL DEF NodeSpec

-----------------------------------------------------------------------------
(* The sequence numbers.  A number is taken in one step and sent in        *)
(* another: meanwhile a thread or the task of a device holds it.           *)
Counted(m) == m.kind \in {"DATA", "DBIRTH", "DDEATH"}

Sending(d) == dev[d].pc \in {"dbirth", "ddeath"} /\ dev[d].res = "wait"

Held(n) ==
    \/ \E p \in Publishers : pub[p].pc = "send" /\ pub[p].n = n
    \/ \E d \in Devices : Sending(d) /\ dev[d].n = n

(* It is queued where it counts: behind every NBIRTH in the channel.       *)
Follows(i) == \A j \in DOMAIN chan : chan[j].kind = "NBIRTH" => j < i

Queued(n) == \E i \in DOMAIN chan : Counted(chan[i]) /\ chan[i].n = n /\ Follows(i)

Coming(n) == Held(n) \/ Queued(n)

BirthQueued == \E i \in DOMAIN chan : chan[i].kind = "NBIRTH"

(* Every number given out since the NBIRTH is with the hosts or on its way *)
(* to them, and so is the 0 of the NBIRTH itself.                          *)
Complete ==
    /\ BirthQueued \/ 0 \in wire.seqs
    /\ \A n \in 1 .. st.seq : Coming(n) \/ (~BirthQueued /\ n \in wire.seqs)

Announcer == node.pc = "nbirth" /\ node.res = "ok"
Lossless == app.fails = 0 /\ app.dropped = 0
Counting == client.conn = "up" /\ (st.birthed \/ Announcer) /\ Lossless

NumberInv ==
    /\ DeviceInv
    /\ node.pc = "nbirth" => st.seq = 0
    /\ loop.pc = "done" => client.conn # "up"
    /\ Counting => Complete

SameHolders == \A n : Held(n)' <=> Held(n)

(* The request channel, as a sequence.                                     *)
LEMMA Appended ==
  ASSUME ChanTypes, NEW m \in AnyRequest, chan' = Append(chan, m)
  PROVE  /\ Len(chan) \in Nat /\ DOMAIN chan = 1 .. Len(chan)
         /\ DOMAIN chan' = 1 .. Len(chan) + 1
         /\ \A i \in DOMAIN chan : chan'[i] = chan[i]
         /\ chan'[Len(chan) + 1] = m
BY DEF ChanTypes

LEMMA Advanced ==
  ASSUME ChanTypes, chan # <<>>, chan' = Tail(chan)
  PROVE  /\ Len(chan) \in Nat /\ DOMAIN chan = 1 .. Len(chan) /\ 1 \in DOMAIN chan
         /\ DOMAIN chan' = 1 .. Len(chan) - 1
         /\ \A i \in DOMAIN chan' : i + 1 \in DOMAIN chan /\ chan'[i] = chan[i + 1]
         /\ \A i \in DOMAIN chan : i # 1 => i - 1 \in DOMAIN chan' /\ chan'[i - 1] = chan[i]
         /\ Head(chan) = chan[1]
BY DEF ChanTypes

(* What is appended to the channel is behind every NBIRTH in it.           *)
LEMMA QueuedAppended ==
  ASSUME ChanTypes, NEW m \in AnyRequest, chan' = Append(chan, m), m.kind # "NBIRTH"
  PROVE  /\ \A n : Queued(n) => Queued(n)'
         /\ Counted(m) => \A n : n = m.n => Queued(n)'
         /\ BirthQueued' <=> BirthQueued
<1>1. /\ Len(chan) \in Nat /\ DOMAIN chan = 1 .. Len(chan)
      /\ DOMAIN chan' = 1 .. Len(chan) + 1
      /\ \A i \in DOMAIN chan : chan'[i] = chan[i]
      /\ chan'[Len(chan) + 1] = m
  BY Appended
<1>2. \A i \in DOMAIN chan' : chan'[i].kind = "NBIRTH" =>
          i \in DOMAIN chan /\ chan[i].kind = "NBIRTH"
  BY <1>1
<1>3. ASSUME NEW n, Queued(n) PROVE Queued(n)'
  <2>1. PICK i \in DOMAIN chan : Counted(chan[i]) /\ chan[i].n = n /\ Follows(i)
    BY <1>3 DEF Queued
  <2>2. i \in DOMAIN chan' /\ chan'[i] = chan[i]
    BY <1>1
  <2>3. \A j \in DOMAIN chan' : chan'[j].kind = "NBIRTH" => j < i
    BY <1>2, <2>1 DEF Follows
  <2> QED
    BY <2>1, <2>2, <2>3 DEF Queued, Follows
<1>4. ASSUME Counted(m), NEW n, n = m.n PROVE Queued(n)'
  <2>1. \A j \in DOMAIN chan' : chan'[j].kind = "NBIRTH" => j < Len(chan) + 1
    BY <1>1, <1>2
  <2> QED
    BY <1>1, <1>4, <2>1 DEF Queued, Follows
<1>5. BirthQueued' <=> BirthQueued
  BY <1>1, <1>2 DEF BirthQueued
<1> QED
  BY <1>3, <1>4, <1>5

(* The number after the last: it starts again at 0.                        *)
LEMMA NextNumber ==
  ASSUME st \in EoNState, st' = GetNextSeq(st)
  PROVE  /\ st'.seq \in SeqNo
         /\ st'.seq = st.seq + 1 \/ st'.seq = 0
<1>1. SeqMod \in Nat /\ SeqMod > 0 /\ st.seq \in 0 .. SeqMod - 1
  BY Constants DEF EoNState, SeqNo
<1>2. st'.seq = (st.seq + 1) % SeqMod
  BY DEF GetNextSeq, EoNState
<1>3. CASE st.seq + 1 < SeqMod
  <2>1. (st.seq + 1) % SeqMod = st.seq + 1
    BY <1>1, <1>3
  <2> QED
    BY <1>1, <1>2, <1>3, <2>1 DEF SeqNo
<1>4. CASE st.seq + 1 = SeqMod
  <2>1. SeqMod % SeqMod = 0
    BY <1>1
  <2> QED
    BY <1>1, <1>2, <1>4, <2>1 DEF SeqNo
<1> QED
  BY <1>1, <1>3, <1>4

(* The step of a carrier, or of nobody who carries: it may take a number,  *)
(* and what was on its way stays so.                                       *)
LEMMA CompleteKept ==
  ASSUME st \in EoNState, Complete, wire' = wire, BirthQueued' <=> BirthQueued,
         \A n : Coming(n) => Coming(n)',
         \/ st'.seq = st.seq
         \/ st' = GetNextSeq(st) /\ \A n : n = st'.seq => Coming(n)'
  PROVE  Complete'
<1>1. st.seq \in Nat
  BY Constants DEF EoNState, SeqNo
<1>2. ASSUME NEW n \in 1 .. st'.seq PROVE n \in 1 .. st.seq \/ Coming(n)'
  <2>1. CASE st'.seq = st.seq
    BY <1>2, <2>1
  <2>2. CASE st' = GetNextSeq(st) /\ \A k : k = st'.seq => Coming(k)'
    <3>1. st'.seq = st.seq + 1 \/ st'.seq = 0
      BY <2>2, NextNumber
    <3>2. n \in 1 .. st.seq \/ n = st'.seq
      BY <1>1, <1>2, <3>1
    <3> QED
      BY <2>2, <3>2
  <2> QED
    BY <2>1, <2>2
<1>3. ASSUME NEW n \in 1 .. st'.seq PROVE Coming(n)' \/ (~BirthQueued' /\ n \in wire'.seqs)
  BY <1>2, <1>3 DEF Complete
<1> QED
  BY <1>3 DEF Complete

(* What the session does to the numbers: a birth starts them over.         *)
Restarts == st'.seq = 0 /\ ~st'.birthed /\ node'.pc = "nbirth" /\ node'.res = "wait"
GoesOn == st'.seq = st.seq /\ (node'.pc = "nbirth" => node.pc = "nbirth")

LEMMA BirthRestarts ==
  ASSUME NEW s \in EoNState, NEW n \in NodeTask, NEW type, BeginBirth(s, n, type)
  PROVE  Restarts
BY DEF BeginBirth, StartBirth, Await, EoNState, NodeTask, Restarts

LEMMA EnsureCounts ==
  ASSUME NEW s \in EoNState, NEW n \in NodeTask, EnsureBirthed(s, n), s.seq = st.seq
  PROVE  Restarts \/ (st'.seq = st.seq /\ node'.pc # "nbirth")
<1>1. CASE st' = s /\ node' = Idle(n)
  BY <1>1 DEF Idle, NodeTask
<1>2. CASE BeginBirth(s, n, "Birth")
  BY <1>2, BirthRestarts
<1> QED
  BY <1>1, <1>2 DEF EnsureBirthed

LEMMA TryCounts ==
  ASSUME NEW s \in EoNState, NEW n \in NodeTask, TryOnline(s, n), s.seq = st.seq
  PROVE  Restarts \/ (st'.seq = st.seq /\ node'.pc # "nbirth")
<1>1. CASE st' = s /\ node' = Idle(n)
  BY <1>1 DEF Idle, NodeTask
<1>2. CASE st' = s /\ node' = Await(n, "sub")
  BY <1>2 DEF Await, NodeTask
<1>3. CASE EnsureBirthed(s, n)
  BY <1>3, EnsureCounts
<1> QED
  BY <1>1, <1>2, <1>3 DEF TryOnline

LEMMA NodeCounts == ASSUME SessionTypes, NodeStep PROVE Restarts \/ GoesOn
<1>0. st \in EoNState /\ node \in NodeTask
  BY DEF SessionTypes
<1>1. CASE NodeSend \/ NodeSendFails
  BY <1>0, <1>1, SendEffect, RefusedEffect DEF SameTask, GoesOn
<1>2. CASE Subscribed
  <2>1. SetOnline(st, TRUE) \in EoNState /\ SetOnline(st, TRUE).seq = st.seq
    BY <1>0 DEF SetOnline, EoNState
  <2> QED
    BY <1>0, <1>2, <2>1, EnsureCounts DEF Subscribed, GoesOn
<1>3. CASE SubscribeFailed \/ DisconnectSent \/ TakeStopped
  BY <1>0, <1>3, SubscribeFailedEffect, DisconnectSentEffect, StoppedEffect DEF GoesOn
<1>4. CASE Birthed \/ DeathSent
  <2>1. st'.seq = st.seq
    BY <1>0, <1>4 DEF Birthed, DeathSent, BirthCompleted, SetDead, EoNState
  <2> QED
    BY <1>4, <2>1, BirthedEffect, DeathSentEffect DEF GoesOn
<1>5. CASE BirthFailed
  <2>1. st'.seq = st.seq
    BY <1>0, <1>5 DEF BirthFailed, SetOnline, EoNState
  <2> QED
    BY <1>5, <2>1, BirthFailedEffect DEF GoesOn
<1>6. CASE TakeOnline
  <2>1. [node EXCEPT !.clientOnline = TRUE] \in NodeTask
    BY <1>0 DEF NodeTask
  <2> QED
    BY <1>0, <1>6, <2>1, TryCounts DEF TakeOnline, GoesOn
<1>7. CASE TakeOffline
  <2>1. st'.seq = st.seq
    BY <1>0, <1>7
    DEF TakeOffline, ResetPrimaryHost, SetPrimaryHostOnline, SetOnline, SetDead, NextBdSeq, EoNState
  <2> QED
    BY <1>7, <2>1, OfflineEffect DEF GoesOn
<1>8. CASE TakeState
  <2>1. PICK m : m = Head(cs)
    OBVIOUS
  <2>2. PICK s : s = UpdatePrimaryHostTimestamp(SetPrimaryHostOnline(st, m.online), m.ts)
    OBVIOUS
  <2>3. m \in States /\ m.online \in BOOLEAN /\ m.ts \in Nat
    BY <1>8, <2>1, StateEffect DEF States
  <2>4. s.seq = st.seq /\ s \in EoNState
    BY <1>0, <2>2, <2>3, StateTypes DEF UpdatePrimaryHostTimestamp, SetPrimaryHostOnline, EoNState
  <2>5. \/ UNCHANGED <<st, node>>
        \/ TryOnline(s, node)
        \/ st' = s
    BY <1>8, <2>1, <2>2 DEF TakeState
  <2>6. CASE TryOnline(s, node)
    BY <1>0, <2>4, <2>6, TryCounts DEF GoesOn
  <2>7. CASE UNCHANGED <<st, node>>
    BY <2>7 DEF GoesOn
  <2>8. CASE st' = s /\ ~TryOnline(s, node)
    <3>1. node' = node \/ node'.pc = "ndeath"
      BY <1>0, <1>8, <2>1, <2>2, <2>8 DEF TakeState, Await, NodeTask
    <3> QED
      BY <2>4, <2>8, <3>1 DEF GoesOn
  <2> QED
    BY <2>5, <2>6, <2>7, <2>8
<1>9. CASE RetryFires
  <2>1. [node EXCEPT !.retry = FALSE] \in NodeTask
    BY <1>0 DEF NodeTask
  <2> QED
    BY <1>0, <1>9, <2>1, TryCounts DEF RetryFires, GoesOn
<1>10. CASE TakeRebirth
  BY <1>0, <1>10, BirthRestarts DEF TakeRebirth, GoesOn
<1>11. CASE TakeCommand
  <2>1. SetDead(st) \in EoNState /\ [node EXCEPT !.cool = TRUE] \in NodeTask
    BY <1>0, StateTypes DEF NodeTask
  <2>2. CASE BeginBirth(SetDead(st), [node EXCEPT !.cool = TRUE], "Rebirth")
    BY <2>1, <2>2, BirthRestarts
  <2>3. CASE st' = st
    <3>1. \/ node' = node \/ node' = [node EXCEPT !.cool = TRUE]
          \/ BeginBirth(SetDead(st), [node EXCEPT !.cool = TRUE], "Rebirth")
      BY <1>11 DEF TakeCommand
    <3>2. [node EXCEPT !.cool = TRUE].pc = node.pc
      BY <1>0 DEF NodeTask
    <3> QED
      BY <2>2, <2>3, <3>1, <3>2 DEF GoesOn
  <2> QED
    BY <1>11, <2>2, <2>3 DEF TakeCommand
<1> QED
  BY <1>1, <1>2, <1>3, <1>4, <1>5, <1>6, <1>7, <1>8, <1>9, <1>10, <1>11
  DEF NodeStep, NodeOnlyStep

LEMMA OthersCount == ASSUME SessionTypes, OtherStep PROVE GoesOn
<1>1. st'.seq = st.seq
  <2>1. \/ st' = st \/ st' = SetDead(st)
        \/ \E b \in BOOLEAN : st' = [st EXCEPT !.running = b]
    <3>1. CASE LoopStep
      BY <3>1 DEF LoopStep, Run, LoopSend, LoopGotWill, LoopStop, DrainCheck, DrainTimeout, LoopDone
    <3>2. CASE PollRequest \/ PollEvent
      BY <3>2 DEF PollRequest, PollEvent, PollConnect, PollState, PollCommand, PollLost,
                  PollServerDisconnect, PollClosed
    <3>3. CASE AppStep
      BY <3>3 DEF AppStep, Rebirth, Cancel, CancelPayload, CancelDeath, CancelStop,
                  CancelDisconnect
    <3>4. CASE HostFlips \/ OldState \/ CooldownEnds \/ UNCHANGED vars
      BY <3>4 DEF HostFlips, OldState, CooldownEnds, vars
    <3> QED
      BY <3>1, <3>2, <3>3, <3>4 DEF OtherStep
  <2> QED
    BY <2>1 DEF SessionTypes, EoNState, SetDead
<1> QED
  BY <1>1, NodeLeft DEF SameTask, GoesOn

(* What the session does to the channel and to what the hosts have heard.  *)
LEMMA CountsAppended ==
  ASSUME st \in EoNState, ChanTypes, SameHolders, st'.seq = st.seq,
         NEW m \in AnyRequest, chan' = Append(chan, m)
  PROVE  /\ wire' = wire /\ m.kind # "NBIRTH" /\ Complete => Complete'
         /\ m.kind = "NBIRTH" /\ st.seq = 0 => Complete'
<1>1. ASSUME wire' = wire, m.kind # "NBIRTH", Complete PROVE Complete'
  <2>1. (\A n : Queued(n) => Queued(n)') /\ (BirthQueued' <=> BirthQueued)
    BY <1>1, QueuedAppended
  <2>2. \A n : Coming(n) => Coming(n)'
    BY <2>1 DEF Coming, SameHolders
  <2> QED
    BY <1>1, <2>1, <2>2, CompleteKept
<1>2. ASSUME m.kind = "NBIRTH", st.seq = 0 PROVE Complete'
  <2>1. Len(chan) + 1 \in DOMAIN chan' /\ chan'[Len(chan) + 1] = m
    BY Appended
  <2>2. BirthQueued'
    BY <1>2, <2>1 DEF BirthQueued
  <2>3. \A n : n \notin 1 .. st'.seq
    BY <1>2
  <2> QED
    BY <2>2, <2>3 DEF Complete
<1> QED
  BY <1>1, <1>2

LEMMA CountsUnmoved ==
  ASSUME st \in EoNState, SameHolders, chan' = chan, wire' = wire, st'.seq = st.seq, Complete
  PROVE  Complete'
<1>1. (\A n : Queued(n) => Queued(n)') /\ (BirthQueued' <=> BirthQueued)
  BY DEF Queued, Follows, BirthQueued
<1>2. \A n : Coming(n) => Coming(n)'
  BY <1>1 DEF Coming, SameHolders
<1> QED
  BY <1>1, <1>2, CompleteKept

(* The hosts hear the first request of the channel: with an NBIRTH they    *)
(* start over, and what counts is still behind it.                         *)
LEMMA CountsHeard ==
  ASSUME st \in EoNState, ChanTypes, WireTypes, SameHolders, st'.seq = st.seq,
         chan # <<>>, chan' = Tail(chan), wire' = Hear(Head(chan)), Complete
  PROVE  Complete'
<1>1. /\ Len(chan) \in Nat /\ DOMAIN chan = 1 .. Len(chan) /\ 1 \in DOMAIN chan
      /\ DOMAIN chan' = 1 .. Len(chan) - 1
      /\ \A i \in DOMAIN chan' : i + 1 \in DOMAIN chan /\ chan'[i] = chan[i + 1]
      /\ \A i \in DOMAIN chan : i # 1 => i - 1 \in DOMAIN chan' /\ chan'[i - 1] = chan[i]
      /\ Head(chan) = chan[1]
  BY Advanced
<1>2. PICK m : m = Head(chan)
  OBVIOUS
<1>3. BirthQueued' => BirthQueued
  BY <1>1 DEF BirthQueued
<1>4. ASSUME NEW i \in DOMAIN chan, i # 1, Follows(i)
      PROVE  \A j \in DOMAIN chan' : chan'[j].kind = "NBIRTH" => j < i - 1
  <2>1. \A j \in DOMAIN chan' : chan'[j].kind = "NBIRTH" => j + 1 < i
    BY <1>1, <1>4 DEF Follows
  <2> QED
    BY <1>1, <2>1
<1>5. ASSUME NEW n, Queued(n) PROVE Queued(n)' \/ (Counted(m) /\ m.n = n /\ ~BirthQueued)
  <2>1. PICK i \in DOMAIN chan : Counted(chan[i]) /\ chan[i].n = n /\ Follows(i)
    BY <1>5 DEF Queued
  <2>2. CASE i # 1
    <3>1. i - 1 \in DOMAIN chan' /\ chan'[i - 1] = chan[i]
      BY <1>1, <2>2
    <3>2. \A j \in DOMAIN chan' : chan'[j].kind = "NBIRTH" => j < i - 1
      BY <1>4, <2>1, <2>2
    <3> QED
      BY <2>1, <3>1, <3>2 DEF Queued, Follows
  <2>3. CASE i = 1
    <3>1. \A j \in DOMAIN chan : chan[j].kind # "NBIRTH"
      BY <1>1, <2>1, <2>3 DEF Follows
    <3> QED
      BY <1>1, <1>2, <2>1, <2>3, <3>1 DEF BirthQueued
  <2> QED
    BY <2>2, <2>3
<1>6. CASE m.kind = "NBIRTH"
  <2>1. wire'.seqs = {0}
    BY <1>2, <1>6 DEF Hear, WireTypes
  <2>2. BirthQueued /\ ~Counted(m)
    BY <1>1, <1>2, <1>6 DEF BirthQueued, Counted
  <2>3. \A n : Coming(n) => Coming(n)'
    BY <1>5, <2>2 DEF Coming, SameHolders
  <2> QED
    BY <2>1, <2>2, <2>3 DEF Complete
<1>7. CASE m.kind # "NBIRTH"
  <2>1. /\ wire.seqs \subseteq wire'.seqs
        /\ Counted(m) => \A n : n = m.n => n \in wire'.seqs
    BY <1>2, <1>7 DEF Hear, Counted, WireTypes
  <2>2. BirthQueued => BirthQueued'
    <3>1. ASSUME NEW i \in DOMAIN chan, chan[i].kind = "NBIRTH" PROVE BirthQueued'
      <4>1. i # 1
        BY <1>1, <1>2, <1>7, <3>1
      <4> QED
        BY <1>1, <3>1, <4>1 DEF BirthQueued
    <3> QED
      BY <3>1 DEF BirthQueued
  <2>3. ASSUME NEW n, Coming(n) PROVE Coming(n)' \/ (~BirthQueued /\ n \in wire'.seqs)
    BY <1>5, <2>1, <2>3 DEF Coming, SameHolders
  <2>4. \A n \in 1 .. st'.seq : Coming(n)' \/ (~BirthQueued /\ n \in wire'.seqs)
    BY <2>1, <2>3 DEF Complete
  <2> QED
    BY <1>3, <2>1, <2>2, <2>4 DEF Complete
<1> QED
  BY <1>6, <1>7

(* The node task announces the node by an NBIRTH, and by nothing else.     *)
LEMMA NodeAnnounces ==
  ASSUME SessionInv, ChanTypes, NodeStep
  PROVE  /\ UNCHANGED client /\ loop'.pc = loop.pc
         /\ \/ /\ chan' = chan /\ ~Announcer'
               /\ st'.birthed => st.birthed \/ Announcer
            \/ /\ st' = st
               /\ \E m \in AnyRequest : /\ chan' = Append(chan, m) /\ ~Counted(m)
                                        /\ m.kind = "NBIRTH" <=> node.pc = "nbirth"
               /\ Announcer' => node.pc = "nbirth"
<1>1. SessionTypes
  BY DEF SessionInv, Gated
<1>2. UNCHANGED client /\ loop'.pc = loop.pc
  BY <1>1, NodeElsewhere DEF Elsewhere
<1>3. CASE NodeSend
  <2>1. /\ node.pc \in Awaiting /\ chan' = Append(chan, NodeRequest) /\ st' = st
        /\ node'.pc = node.pc
    BY <1>1, <1>3, SendEffect DEF SameTask
  <2>2. node.bd \in BdSeq
    BY <1>1 DEF SessionTypes, NodeTask
  <2>3. PICK m : m = NodeRequest
    OBVIOUS
  <2>4. m \in AnyRequest /\ ~Counted(m) /\ (m.kind = "NBIRTH" <=> node.pc = "nbirth")
    BY <2>1, <2>2, <2>3
    DEF Awaiting, NodeRequest, Request, AnyRequest, SessionRequests, Counted
  <2> QED
    BY <1>2, <2>1, <2>3, <2>4 DEF Announcer
<1>4. CASE ~NodeSend
  <2>1. chan' = chan
    BY <1>4 DEF NodeStep, NodeOnlyStep, NodeSendFails, Subscribed, SubscribeFailed, Birthed,
                BirthFailed, DeathSent, DisconnectSent, TakeOnline, TakeOffline, TakeState,
                TakeStopped, RetryFires, TakeRebirth, TakeCommand
  <2>2. ~Announcer'
    <3>1. CASE NodeSendFails \/ Subscribed \/ SubscribeFailed \/ Birthed \/ BirthFailed
      BY <1>1, <3>1, RefusedEffect, SubscribedEffect, SubscribeFailedEffect, BirthedEffect,
         BirthFailedEffect DEF Announcer
    <3>2. CASE DeathSent \/ DisconnectSent \/ TakeOffline \/ TakeStopped
      BY <1>1, <3>2, DeathSentEffect, DisconnectSentEffect, OfflineEffect, StoppedEffect
      DEF Announcer
    <3>3. CASE TakeOnline \/ RetryFires
      BY <1>1, <3>3, OnlineEffect, RetryEffect DEF Tried, Announcer
    <3>4. CASE TakeState
      BY <1>1, <3>4, StateEffect DEF Tried, Announcer
    <3>5. CASE TakeRebirth \/ TakeCommand
      BY <1>1, <3>5, RebirthEffect, CommandEffect DEF Begins, SameTask, Announcer
    <3> QED
      BY <1>4, <3>1, <3>2, <3>3, <3>4, <3>5 DEF NodeStep, NodeOnlyStep
  <2>3. st'.birthed => st.birthed \/ Announcer
    <3>1. CASE Birthed
      BY <3>1 DEF Birthed, Announcer
    <3>2. CASE NodeOnlyStep \/ TakeOffline \/ DeathSent
      BY <3>2, BirthedByBirth
    <3> QED
      BY <3>1, <3>2 DEF NodeStep
  <2> QED
    BY <1>2, <2>1, <2>2, <2>3
<1> QED
  BY <1>3, <1>4

(* What the others of the session do to the channel and the connection: a  *)
(* connection is made when the node is not announced.                      *)
Beside == LoopStep \/ PollEvent \/ AppStep \/ HostFlips \/ OldState \/ CooldownEnds

LEMMA OthersCarry ==
  ASSUME SessionInv, ChanTypes, Beside
  PROVE  /\ \/ chan' = chan
            \/ \E m \in AnyRequest : chan' = Append(chan, m) /\ ~Counted(m) /\ m.kind # "NBIRTH"
            \/ chan' = <<>> /\ client'.conn = "down"
         /\ client'.conn = "up" /\ (st'.birthed \/ Announcer') =>
                client.conn = "up" /\ (st.birthed \/ Announcer)
         /\ loop'.pc = "done" => client'.conn # "up" \/ (loop.pc = "done" /\ client' = client)
<1>1. SessionTypes /\ NodeOrder /\ Handover
  BY DEF SessionInv, Gated
<1>2. (st'.birthed => st.birthed) /\ (Announcer' => Announcer)
  BY <1>1, NodeLeft DEF Beside, OtherStep, SameTask, Announcer
<1>3. CASE LoopStep
  <2>1. chan' = chan
    BY <1>1, <1>3, RunEffect, LoopSendEffect, GotWillEffect, LoopStopEffect, DrainCheckEffect,
       DrainTimeoutEffect, LoopDoneEffect DEF LoopStep, LoopElsewhere
  <2>2. client'.conn = client.conn \/ client'.conn = "down"
    BY <1>1, <1>3, RunEffect, LoopSendEffect, GotWillEffect, LoopStopEffect, DrainCheckEffect,
       DrainTimeoutEffect, LoopDoneEffect DEF LoopStep, SameClient
  <2>3. loop'.pc = "done" => client'.conn # "up"
    BY <1>1, <1>3, RunEffect, LoopSendEffect, GotWillEffect, LoopStopEffect, DrainCheckEffect,
       DrainTimeoutEffect, LoopDoneEffect DEF LoopStep
  <2> QED
    BY <1>2, <2>1, <2>2, <2>3
<1>4. CASE PollConnect
  <2>1. /\ chan' = chan /\ UNCHANGED <<st, node>> /\ loop.pc = "poll" /\ client.conn = "down"
        /\ loop'.pc \in {"send", "check"}
    BY <1>1, <1>4, ConnectEffect DEF PollElsewhere, Got
  <2>2. ~node.clientOnline
    BY <1>1, <2>1 DEF Handover, Disconnected
  <2>3. ~st.birthed /\ ~Announcer
    BY <1>1, <2>2 DEF NodeOrder, Announcer
  <2> QED
    BY <1>2, <2>1, <2>3
<1>5. CASE PollState \/ PollCommand \/ PollServerDisconnect
  <2>1. /\ chan' = chan /\ loop.pc = "poll" /\ loop'.pc \in {"poll", "send", "check"}
        /\ client'.conn \in {client.conn, "closing"}
    BY <1>1, <1>5, StateMessageEffect, CommandMessageEffect, KickEffect DEF PollElsewhere, Got
  <2> QED
    BY <1>2, <2>1
<1>6. CASE PollLost \/ PollClosed
  <2>1. chan' = <<>> /\ client'.conn = "down"
    BY <1>1, <1>6, LostEffect, ClosedEffect
  <2> QED
    BY <2>1
<1>7. CASE AppStep
  <2>1. client' = client /\ loop' = loop
    BY <1>1, <1>7, RebirthCallEffect, CancelEffect DEF AppElsewhere
  <2>2. \/ chan' = chan
        \/ \E m \in AnyRequest : chan' = Append(chan, m) /\ ~Counted(m) /\ m.kind # "NBIRTH"
    <3>1. CASE Rebirth
      BY <1>1, <3>1, RebirthCallEffect
    <3>2. ASSUME cancel.bd \in BdSeq,
                 chan' = Append(chan, Request("NDEATH", "node", cancel.bd))
          PROVE  \E m \in AnyRequest : chan' = Append(chan, m) /\ ~Counted(m)
                                         /\ m.kind # "NBIRTH"
      BY <3>2 DEF Request, AnyRequest, SessionRequests, Counted
    <3>3. ASSUME chan' = Append(chan, Request("DISCONNECT", "node", 0))
          PROVE  \E m \in AnyRequest : chan' = Append(chan, m) /\ ~Counted(m)
                                         /\ m.kind # "NBIRTH"
      BY <3>3 DEF Request, AnyRequest, SessionRequests, Counted
    <3> QED
      BY <1>1, <1>7, <3>1, <3>2, <3>3, CancelEffect
  <2> QED
    BY <1>2, <2>1, <2>2
<1>8. CASE HostFlips \/ OldState \/ CooldownEnds
  <2>1. UNCHANGED <<chan, client, loop>>
    BY <1>1, <1>8, WorldEffect DEF WorldElsewhere
  <2> QED
    BY <1>2, <2>1
<1> QED
  BY <1>3, <1>4, <1>5, <1>6, <1>7, <1>8 DEF Beside, PollEvent

LEMMA RequestCarries ==
  ASSUME SessionInv, ChanTypes, PollRequest
  PROVE  /\ chan # <<>> /\ chan' = Tail(chan)
         /\ client'.conn = "up" /\ (st'.birthed \/ Announcer') =>
                client.conn = "up" /\ (st.birthed \/ Announcer)
         /\ loop'.pc # "done"
<1>1. SessionTypes
  BY DEF SessionInv, Gated
<1>2. (st'.birthed => st.birthed) /\ (Announcer' => Announcer)
  BY <1>1, NodeLeft DEF OtherStep, SameTask, Announcer
<1>3. /\ chan # <<>> /\ chan' = Tail(chan) /\ client.conn # "down" /\ loop.pc = "poll"
      /\ client'.conn \in {client.conn, "closing"}
      /\ loop'.pc \in {"poll", "send", "check"}
  BY <1>1, RequestTaken DEF PollElsewhere, Got
<1> QED
  BY <1>2, <1>3

LEMMA SessionCounts ==
  ASSUME NumberInv, SessionStep
  PROVE  /\ node'.pc = "nbirth" => st'.seq = 0
         /\ loop'.pc = "done" => client'.conn # "up"
         /\ Counting' => Complete'
<1>1. /\ NodeTypeOK /\ SessionInv /\ st \in EoNState /\ node.type \in Births
      /\ SessionTypes /\ ChanTypes /\ DeviceTypes /\ WireTypes
      /\ (node.pc = "nbirth" => st.seq = 0)
      /\ loop.pc = "done" => client.conn # "up"
      /\ Counting => Complete
  BY NodeTypesAre DEF NumberInv, DeviceInv, SessionTypes, NodeTask, Births
<1>2. SameHolders /\ app' = app
  <2>1. app' = app /\ pub' = pub
    BY DEF SessionStep
  <2>2. \A d \in Devices : /\ dev'[d].pc = dev[d].pc /\ dev'[d].res = dev[d].res
                           /\ dev'[d].n = dev[d].n
    <3>1. dev' = dev \/ \E m \in MailWords : Notify(m)
      BY <1>1 DEF SessionStep, NodeBirthed, NodeOffline, NodeDeathSent, MailWords
    <3> QED
      BY <1>1, <3>1, NotifyEffect
  <2> QED
    BY <2>1, <2>2 DEF SameHolders, Held, Sending
<1>3. \/ NodeStep /\ wire' = wire
      \/ HostsHear
      \/ Beside /\ wire' = wire
  BY DEF SessionStep, NodeBirthed, NodeOffline, NodeDeathSent, NodeStep, Beside
<1>4. Restarts \/ GoesOn
  BY <1>1, <1>3, NodeCounts, OthersCount DEF OtherStep, Beside, HostsHear
<1>5. node'.pc = "nbirth" => st'.seq = 0
  BY <1>1, <1>4 DEF Restarts, GoesOn
<1>6. CASE NodeStep /\ wire' = wire
  <2>1. UNCHANGED client /\ loop'.pc = loop.pc
    BY <1>1, <1>6, NodeAnnounces
  <2>2. CASE /\ chan' = chan /\ ~Announcer'
             /\ st'.birthed => st.birthed \/ Announcer
    <3>1. Counting' => Counting
      BY <1>2, <2>1, <2>2 DEF Counting, Lossless
    <3>2. Restarts => ~Counting'
      BY <2>2 DEF Counting, Restarts
    <3>3. GoesOn /\ Complete => Complete'
      BY <1>1, <1>2, <1>6, <2>2, CountsUnmoved DEF GoesOn
    <3> QED
      BY <1>1, <1>4, <1>5, <2>1, <3>1, <3>2, <3>3
  <2>3. ASSUME st' = st, NEW m \in AnyRequest, chan' = Append(chan, m), ~Counted(m),
               m.kind = "NBIRTH" <=> node.pc = "nbirth", Announcer' => node.pc = "nbirth"
        PROVE  Counting' => Complete'
    <3>1. CASE node.pc = "nbirth"
      BY <1>1, <1>2, <2>3, <3>1, CountsAppended
    <3>2. CASE node.pc # "nbirth"
      <4>1. Counting' => Counting
        BY <1>2, <2>1, <2>3, <3>2 DEF Counting, Lossless
      <4> QED
        BY <1>1, <1>2, <1>6, <2>3, <3>2, <4>1, CountsAppended
    <3> QED
      BY <3>1, <3>2
  <2> QED
    BY <1>1, <1>5, <1>6, <2>1, <2>2, <2>3, NodeAnnounces
<1>7. CASE HostsHear
  <2>1. PollRequest /\ st' = st
    BY <1>7 DEF HostsHear, PollRequest
  <2>2. /\ chan # <<>> /\ chan' = Tail(chan) /\ loop'.pc # "done"
        /\ Counting' => Counting /\ client.conn = "up"
    BY <1>1, <1>2, <2>1, RequestCarries DEF Counting, Lossless
  <2>3. ASSUME Counting' PROVE Complete'
    <3>1. wire' = Hear(Head(chan)) /\ Complete
      BY <1>1, <1>7, <2>2, <2>3 DEF HostsHear
    <3> QED
      BY <1>1, <1>2, <2>1, <2>2, <3>1, CountsHeard
  <2> QED
    BY <1>5, <2>2, <2>3
<1>8. CASE Beside /\ wire' = wire
  <2>1. st'.seq = st.seq
    BY <1>1, <1>8, OthersCount DEF OtherStep, Beside, GoesOn
  <2>2. loop'.pc = "done" => client'.conn # "up"
    BY <1>1, <1>8, OthersCarry
  <2>3. Counting' => Counting /\ client'.conn = "up"
    BY <1>1, <1>2, <1>8, OthersCarry DEF Counting, Lossless
  <2>4. ASSUME chan' = chan PROVE Counting' => Complete'
    BY <1>1, <1>2, <1>8, <2>1, <2>3, <2>4, CountsUnmoved
  <2>5. ASSUME NEW m \in AnyRequest, chan' = Append(chan, m), ~Counted(m), m.kind # "NBIRTH"
        PROVE  Counting' => Complete'
    BY <1>1, <1>2, <1>8, <2>1, <2>3, <2>5, CountsAppended
  <2>6. ASSUME chan' = <<>>, client'.conn = "down" PROVE ~Counting'
    BY <2>3, <2>6
  <2>7. Counting' => Complete'
    BY <1>1, <1>8, <2>4, <2>5, <2>6, OthersCarry
  <2> QED
    BY <1>5, <2>2, <2>7
<1> QED
  BY <1>3, <1>6, <1>7, <1>8

(* The devices and the threads.                                            *)
LEMMA TaskNumbers ==
  ASSUME NEW r \in DeviceTask, NEW q \in DeviceTask, TaskStep(r, q), Resting(r)
  PROVE  \/ /\ r.pc = "idle" /\ q.pc \in {"dbirth", "ddeath"} /\ q.res = "wait"
            /\ Numbered(q) /\ HasNextSeq(st)
         \/ Answered(r, q) /\ (q.res = "err" => app'.fails > 0 \/ loop.pc = "done")
         \/ /\ st' = st /\ q.pc = "idle"
            /\ ~(r.pc \in {"dbirth", "ddeath"} /\ r.res = "wait")
BY DEF TaskStep, TookWord, TookRequest, Died, WasAnswered, Resting

(* Only a publisher gives a message up.                                    *)
LEMMA DropsKept ==
  ASSUME DeviceTypes,
         \/ \E d \in Devices : DevStep(d) \/ Register(d) \/ Unregister(d)
         \/ \E d \in Devices, r \in Requests : AskDevice(d, r)
  PROVE  app'.dropped = app.dropped
BY DEF DeviceTypes, DevStep, DevTakeNode, DevTakeRequest, DevSend, DevSendFails, DevSent,
       Register, Unregister, AskDevice

LEMMA DevCounts ==
  ASSUME NumberInv, NEW d \in Devices, DevStep(d), Counting'
  PROVE  Complete'
<1>1. /\ NodeTypeOK /\ SessionTypes /\ ChanTypes /\ DeviceTypes /\ WireTypes
      /\ st \in EoNState /\ app.fails \in Nat
      /\ Resting(dev[d]) /\ (Counting => Complete)
      /\ loop.pc = "done" => client.conn # "up"
  BY NodeTypesAre DEF NumberInv, DeviceInv, DevicesRest, SessionTypes, DeviceTypes
<1>2. /\ DeviceSide /\ UNCHANGED <<pub, wire>> /\ app'.fails >= app.fails /\ app'.fails \in Nat
      /\ st' \in EoNState /\ st'.birthed = st.birthed
  BY <1>1, DevStepEffect, SeqTaken DEF DeviceTypes
<1>3. PICK q : /\ Becomes(d, q) /\ TaskStep(dev[d], q)
               /\ \/ chan' = chan /\ ~(Answered(dev[d], q) /\ q.res = "ok")
                  \/ /\ Answered(dev[d], q)
                     /\ \E m \in AnyRequest :
                           /\ chan' = Append(chan, m) /\ m.from = d /\ m.n = dev[d].n
                           /\ m.kind = (IF dev[d].pc = "dbirth" THEN "DBIRTH" ELSE "DDEATH")
  BY <1>1, DevStepSends
<1>4. q \in DeviceTask /\ dev[d] \in DeviceTask
      /\ \A e \in Devices : dev'[e] = IF e = d THEN q ELSE dev[e]
  BY <1>1, <1>3 DEF Becomes, DeviceTypes
<1>5. ASSUME NEW n, Held(n) PROVE Held(n)' \/ (Sending(d) /\ dev[d].n = n)
  BY <1>2, <1>4, <1>5 DEF Held, Sending
<1>6. UNCHANGED <<node, client, loop>> /\ Complete
  <2>1. UNCHANGED <<node, client, loop>>
    BY <1>2 DEF DeviceSide, sessionOnly
  <2>2. app'.dropped = app.dropped
    BY <1>1, DropsKept
  <2> QED
    BY <1>1, <1>2, <2>1, <2>2 DEF Counting, Lossless, Announcer
<1>7. ASSUME chan' = chan
      PROVE  (\A n : Queued(n) => Queued(n)') /\ (BirthQueued' <=> BirthQueued)
  BY <1>7 DEF Queued, Follows, BirthQueued
<1>8. CASE /\ dev[d].pc = "idle" /\ q.pc \in {"dbirth", "ddeath"} /\ q.res = "wait"
           /\ Numbered(q) /\ HasNextSeq(st)
  <2>1. chan' = chan
    BY <1>3, <1>8 DEF Answered
  <2>2. \A n : Coming(n) => Coming(n)'
    BY <1>5, <1>7, <1>8, <2>1 DEF Coming, Sending
  <2>3. st' = GetNextSeq(st) /\ \A n : n = st'.seq => Coming(n)'
    BY <1>4, <1>8 DEF Numbered, Coming, Held, Sending
  <2> QED
    BY <1>1, <1>2, <1>6, <1>7, <2>1, <2>2, <2>3, CompleteKept
<1>9. CASE Answered(dev[d], q) /\ chan' # chan
  <2>1. PICK m \in AnyRequest :
           /\ chan' = Append(chan, m) /\ m.n = dev[d].n
           /\ m.kind = (IF dev[d].pc = "dbirth" THEN "DBIRTH" ELSE "DDEATH")
    BY <1>3, <1>9
  <2>2. Counted(m) /\ m.kind # "NBIRTH" /\ st' = st
    BY <1>9, <2>1 DEF Counted, Answered
  <2>3. /\ \A n : Queued(n) => Queued(n)'
        /\ \A n : n = dev[d].n => Queued(n)'
        /\ BirthQueued' <=> BirthQueued
    BY <1>1, <2>1, <2>2, QueuedAppended
  <2>4. \A n : Coming(n) => Coming(n)'
    BY <1>5, <2>3 DEF Coming
  <2> QED
    BY <1>1, <1>2, <1>6, <2>2, <2>3, <2>4, CompleteKept
<1>10. CASE Answered(dev[d], q) /\ chan' = chan
  <2>1. q.res = "err"
    BY <1>1, <1>3, <1>10 DEF Answered, ChanTypes
  <2>2. app'.fails > 0 \/ loop.pc = "done"
    BY <1>3, <1>10, <2>1 DEF TaskStep, TookWord, TookRequest, Answered, WasAnswered
  <2> QED
    BY <1>1, <1>2, <1>6, <2>2 DEF Counting, Lossless
<1>11. CASE /\ st' = st /\ q.pc = "idle"
            /\ ~(dev[d].pc \in {"dbirth", "ddeath"} /\ dev[d].res = "wait")
  <2>1. chan' = chan
    BY <1>3, <1>11 DEF Answered
  <2>2. \A n : Coming(n) => Coming(n)'
    BY <1>5, <1>7, <1>11, <2>1 DEF Coming, Sending
  <2> QED
    BY <1>1, <1>2, <1>6, <1>7, <1>11, <2>1, <2>2, CompleteKept
<1> QED
  BY <1>1, <1>3, <1>4, <1>8, <1>9, <1>10, <1>11, TaskNumbers

LEMMA ThreadCounts ==
  ASSUME NumberInv, NEW p \in Publishers, PubStep(p), Counting'
  PROVE  Complete'
<1>1. /\ NodeTypeOK /\ SessionTypes /\ ChanTypes /\ DeviceTypes /\ WireTypes
      /\ st \in EoNState /\ (Counting => Complete)
      /\ app.dropped \in Nat /\ app.fails \in Nat
  BY NodeTypesAre DEF NumberInv, DeviceInv, SessionTypes, DeviceTypes
<1>2. /\ DeviceSide /\ UNCHANGED <<dev, wire>> /\ app'.fails = app.fails
      /\ st'.birthed = st.birthed
  BY <1>1, PubStepEffect, SeqTaken
<1>3. UNCHANGED <<node, client, loop>>
  BY <1>2 DEF DeviceSide, sessionOnly
<1>4. app'.dropped = app.dropped => Complete
  BY <1>1, <1>2, <1>3 DEF Counting, Lossless, Announcer
<1>5. ASSUME Others(p), NEW n, Held(n) PROVE Held(n)' \/ (pub[p].pc = "send" /\ pub[p].n = n)
  BY <1>2, <1>5 DEF Held, Sending, Others
<1>6. ASSUME chan' = chan
      PROVE  (\A n : Queued(n) => Queued(n)') /\ (BirthQueued' <=> BirthQueued)
  BY <1>6 DEF Queued, Follows, BirthQueued
<1>7. CASE PubCheck(p)
  <2>1. st' = st /\ chan' = chan /\ pub[p].pc = "idle" /\ Others(p)
    BY <1>1, <1>7, PubCheckEffect
  <2>2. app'.dropped = app.dropped
    BY <1>1, <1>7 DEF PubCheck, DeviceTypes
  <2>3. \A n : Coming(n) => Coming(n)'
    BY <1>5, <1>6, <2>1 DEF Coming
  <2> QED
    BY <1>1, <1>2, <1>4, <1>6, <2>1, <2>2, <2>3, CompleteKept
<1>8. CASE PubSeq(p)
  <2>1. /\ chan' = chan /\ app' = app /\ pub[p].pc = "checked" /\ Others(p)
        /\ \/ /\ HasNextSeq(st) /\ st' = GetNextSeq(st)
              /\ pub'[p].pc = "send" /\ pub'[p].n = st'.seq
           \/ pub'[p].pc = "idle" /\ st' = st
    BY <1>1, <1>8, PubSeqEffect
  <2>2. \A n : Coming(n) => Coming(n)'
    BY <1>5, <1>6, <2>1 DEF Coming
  <2>3. pub'[p].pc = "send" => \A n : n = pub'[p].n => Coming(n)'
    BY DEF Coming, Held
  <2> QED
    BY <1>1, <1>2, <1>4, <1>6, <2>1, <2>2, <2>3, CompleteKept
<1>9. CASE PubSend(p)
  <2>1. /\ st' = st /\ pub[p].pc = "send" /\ Others(p)
        /\ \/ chan' = chan /\ app'.dropped > 0
           \/ \E m \in AnyRequest : /\ chan' = Append(chan, m) /\ m.kind = "DATA"
                                    /\ m.from = p /\ m.n = pub[p].n
                                    /\ app'.dropped = app.dropped
    BY <1>1, <1>9, PubSendEffect
  <2>2. ~(app'.dropped > 0)
    BY DEF Counting, Lossless
  <2>3. PICK m \in AnyRequest : /\ chan' = Append(chan, m) /\ m.kind = "DATA"
                                /\ m.n = pub[p].n /\ app'.dropped = app.dropped
    BY <2>1, <2>2
  <2>4. /\ \A n : Queued(n) => Queued(n)'
        /\ \A n : n = pub[p].n => Queued(n)'
        /\ BirthQueued' <=> BirthQueued
    BY <1>1, <2>3, QueuedAppended DEF Counted
  <2>5. \A n : Coming(n) => Coming(n)'
    BY <1>5, <2>1, <2>4 DEF Coming
  <2> QED
    BY <1>1, <1>2, <1>4, <2>1, <2>3, <2>4, <2>5, CompleteKept
<1> QED
  BY <1>7, <1>8, <1>9 DEF PubStep

LEMMA CallCounts ==
  ASSUME NumberInv, Counting',
         \E d \in Devices : \/ Register(d) \/ Unregister(d)
                            \/ \E r \in Requests : AskDevice(d, r)
  PROVE  Complete'
<1>1. NodeTypeOK /\ SessionTypes /\ DeviceTypes /\ (Counting => Complete) /\ st \in EoNState
  BY NodeTypesAre DEF NumberInv, DeviceInv, SessionTypes
<1>2. PICK d \in Devices :
         \/ Register(d) \/ Unregister(d) \/ \E r \in Requests : AskDevice(d, r)
  OBVIOUS
<1>3. /\ DeviceSide /\ UNCHANGED <<pub, wire, chan, st>> /\ app'.fails = app.fails
      /\ \E q : /\ Becomes(d, q) /\ q.res = dev[d].res /\ q.n = dev[d].n
                /\ q.pc = dev[d].pc \/ (dev[d].pc = "new" /\ q.pc = "idle")
  <2>1. CASE Register(d)
    BY <1>1, <2>1, RegisterEffect
  <2>2. CASE Unregister(d)
    BY <1>1, <2>2, UnregisterEffect
  <2>3. ASSUME NEW r \in Requests, AskDevice(d, r)
        PROVE  /\ DeviceSide /\ UNCHANGED <<pub, wire, chan, st>> /\ app'.fails = app.fails
               /\ \E q : /\ Becomes(d, q) /\ q.res = dev[d].res /\ q.n = dev[d].n
                         /\ q.pc = dev[d].pc \/ (dev[d].pc = "new" /\ q.pc = "idle")
    BY <1>1, <2>3, AskDeviceEffect
  <2> QED
    BY <1>2, <2>1, <2>2, <2>3
<1>4. SameHolders
  <2>1. PICK q : /\ Becomes(d, q) /\ q.res = dev[d].res /\ q.n = dev[d].n
                 /\ q.pc = dev[d].pc \/ (dev[d].pc = "new" /\ q.pc = "idle")
    BY <1>3
  <2>2. \A e \in Devices : dev'[e] = IF e = d THEN q ELSE dev[e]
    BY <1>1, <2>1 DEF Becomes, DeviceTypes
  <2> QED
    BY <1>3, <2>1, <2>2 DEF SameHolders, Held, Sending
<1>5. app'.dropped = app.dropped
  BY <1>1, DropsKept
<1>6. Counting
  BY <1>3, <1>5 DEF Counting, Lossless, Announcer, DeviceSide, sessionOnly
<1> QED
  BY <1>1, <1>3, <1>4, <1>6, CountsUnmoved

LEMMA NumberInvKept ==
  ASSUME NumberInv, [NodeNext]_nodeVars
  PROVE  NumberInv'
<1>1. DeviceInv'
  BY DeviceInvKept DEF NumberInv
<1>2. /\ SessionTypes /\ ChanTypes /\ DeviceTypes /\ WireTypes
      /\ node.pc = "nbirth" => st.seq = 0
      /\ loop.pc = "done" => client.conn # "up"
      /\ SessionInv
  BY NodeTypesAre DEF NumberInv, DeviceInv
<1>3. ASSUME DeviceSide, node.pc = "nbirth" => ~HasNextSeq(st)
      PROVE  /\ node'.pc = "nbirth" => st'.seq = 0
             /\ loop'.pc = "done" => client'.conn # "up"
  BY <1>2, <1>3 DEF DeviceSide, sessionOnly
<1>4. node.pc = "nbirth" => ~HasNextSeq(st)
  BY <1>2 DEF SessionInv, Gated, DeadWhileBirthing, HasNextSeq
<1>5. CASE SessionStep
  BY <1>1, <1>5, SessionCounts DEF NumberInv
<1>6. ASSUME NEW d \in Devices, DevStep(d) PROVE NumberInv'
  BY <1>1, <1>2, <1>3, <1>4, <1>6, DevStepEffect, DevCounts DEF NumberInv
<1>7. CASE AppDeviceStep
  <2>1. DeviceSide
    BY <1>2, <1>7, AppDeviceTypes
  <2>2. Counting' => Complete'
    BY <1>7, ThreadCounts, CallCounts DEF AppDeviceStep, PubStep
  <2> QED
    BY <1>1, <1>3, <1>4, <2>1, <2>2 DEF NumberInv
<1>8. CASE UNCHANGED nodeVars
  <2>1. UNCHANGED <<st, node, loop, client, chan, wire, app, pub, dev>>
    BY <1>8 DEF nodeVars, vars
  <2>2. SameHolders /\ (Counting' <=> Counting) /\ st \in EoNState
    BY <1>2, <2>1 DEF SameHolders, Held, Sending, Counting, Lossless, Announcer, SessionTypes
  <2>3. Complete => Complete'
    BY <2>1, <2>2, CountsUnmoved
  <2> QED
    BY <1>1, <1>2, <2>1, <2>2, <2>3 DEF NumberInv
<1> QED
  BY <1>5, <1>6, <1>7, <1>8 DEF NodeNext

LEMMA NumberInvInit == ASSUME NodeInit PROVE NumberInv
<1>1. DeviceInv
  BY DeviceInvInit
<1>2. client.conn = "down" /\ node.pc = "idle" /\ loop.pc = "start"
  BY DEF NodeInit, Init
<1> QED
  BY <1>1, <1>2 DEF NumberInv, Counting

(* Whatever publishers allocate in one step and send in another, whoever   *)
(* of them waits for the client, whichever rebirths start the numbers over *)
(* while a message is under way, wherever the numbers wrap, and whichever  *)
(* connections are lost: once everything has come to rest the hosts have   *)
(* every number from the NBIRTH's 0 to the last one given out, unless the  *)
(* client refused a message or a publisher gave one up.                    *)
THEOREM NumbersComplete == NodeSpec => []NoHoles
<1>1. NodeInit => NumberInv
  BY NumberInvInit
<1>2. NumberInv /\ [NodeNext]_nodeVars => NumberInv'
  BY NumberInvKept
<1>3. NumberInv => NoHoles
  <2> SUFFICES ASSUME NumberInv, Quiet, st.birthed, app.fails = 0, app.dropped = 0
               PROVE  0 .. st.seq \subseteq wire.seqs
    BY DEF NoHoles
  <2>1. chan = <<>> /\ Counting /\ st.seq \in Nat
    BY Constants DEF NumberInv, DeviceInv, NodeTypeOK, SessionTypes, EoNState, SeqNo, Quiet,
                     Settled, Counting, Lossless
  <2>2. \A n : ~Coming(n)
    BY <2>1 DEF Coming, Queued, Held, Sending, Quiet
  <2>3. ~BirthQueued /\ Complete
    BY <2>1 DEF BirthQueued, NumberInv
  <2>4. 0 \in wire.seqs /\ \A n \in 1 .. st.seq : n \in wire.seqs
    BY <2>2, <2>3 DEF Complete
  <2>5. \A n \in 0 .. st.seq : n = 0 \/ n \in 1 .. st.seq
    BY <2>1
  <2> QED
    BY <2>4, <2>5
<1> QED
  BY <1>1, <1>2, <1>3, PTL DEF NodeSpec

=============================================================================
