---------------------------- MODULE AppNodeProofs ----------------------------
(***************************************************************************)
(* Proofs about AppNode for every set of devices, every configuration and  *)
(* capacity, whatever the network and the edge node do.                    *)
(***************************************************************************)
EXTENDS AppNode, ResequencerProofs, SequenceTheorems, FiniteSetTheorems

(* The fields of Node.                                                     *)
IsNode(nd) ==
    /\ nd = [life |-> nd.life, birth_timestamp |-> nd.birth_timestamp,
             stale_timestamp |-> nd.stale_timestamp, bdseq |-> nd.bdseq, rs |-> nd.rs,
             timer |-> nd.timer, cooling |-> nd.cooling, devices |-> nd.devices]
    /\ nd.life \in {"Stale", "Birthed"}
    /\ DOMAIN nd.devices = Device

(* A stale node holds nothing back and knows no device to be alive.        *)
Tidy(nd) ==
    nd.life = "Stale" =>
        /\ nd.rs = NewResequencer /\ nd.timer = "none"
        /\ \A d \in Device : nd.devices[d] # "Birthed"

Sound(nd) == IsNode(nd) /\ Tidy(nd)

(* The drain loop runs on a Birthed node only: every way to Stale ends it. *)
IInv == Sound(node) /\ (pc = "draining" => node.life = "Birthed")

-----------------------------------------------------------------------------
(* The methods of Node keep it sound.                                      *)
LEMMA CancelTimerSound ==
  ASSUME NEW nd, Sound(nd)
  PROVE  Sound(CancelTimer(nd)) /\ CancelTimer(nd).life = nd.life
BY DEF Sound, IsNode, Tidy, CancelTimer

LEMMA SetStaleSound ==
  ASSUME NEW nd, NEW ts, Sound(nd)
  PROVE  Sound(SetStale(nd, ts))
<1>1. CASE nd.life = "Stale" \/ ts < nd.birth_timestamp
  BY <1>1 DEF SetStale
<1>2. CASE ~(nd.life = "Stale" \/ ts < nd.birth_timestamp)
  <2> DEFINE devs == [d \in Device |-> IF nd.devices[d] = "unknown" THEN nd.devices[d]
                                       ELSE "Stale"]
  <2>1. SetStale(nd, ts) =
            [life |-> "Stale", birth_timestamp |-> nd.birth_timestamp,
             stale_timestamp |-> ts, bdseq |-> nd.bdseq, rs |-> NewResequencer,
             timer |-> "none", cooling |-> nd.cooling, devices |-> devs]
    BY <1>2 DEF SetStale, CancelTimer, Reset, Sound, IsNode
  <2>2. \A d \in Device : devs[d] # "Birthed"
    OBVIOUS
  <2> QED
    BY <2>1, <2>2 DEF Sound, IsNode, Tidy
<1> QED
  BY <1>1, <1>2

LEMMA BornSound ==
  ASSUME NEW nd, NEW m, IsNode(nd)
  PROVE  Sound(Born(nd, m)) /\ Born(nd, m).life = "Birthed"
<1> DEFINE off == CancelTimer(nd)
           rs1 == SetNextSequence(Reset(off.rs), 1 % SeqMod)
<1>1. /\ IsNode(off)
      /\ off.timer = "none"
  BY DEF CancelTimer, IsNode
<1>2. Born(nd, m) = [off EXCEPT !.life = "Birthed", !.birth_timestamp = m.ts,
                                !.bdseq = m.bd, !.rs = rs1]
  BY Zenon DEF Born
<1> HIDE DEF off, rs1
<1>3. /\ IsNode(Born(nd, m))
      /\ Born(nd, m).life = "Birthed"
  BY <1>1, <1>2 DEF IsNode
<1> QED
  BY <1>3 DEF Sound, Tidy

LEMMA AppliedSound ==
  ASSUME NEW nd, NEW m, Sound(nd), nd.life = "Birthed"
  PROVE  Sound(Applied(nd, m)) /\ Applied(nd, m).life = "Birthed"
<1> DEFINE devs == Applied(nd, m).devices
<1>1. Applied(nd, m) =
          [life |-> nd.life, birth_timestamp |-> nd.birth_timestamp,
           stale_timestamp |-> nd.stale_timestamp, bdseq |-> nd.bdseq, rs |-> nd.rs,
           timer |-> nd.timer, cooling |-> nd.cooling, devices |-> devs]
  BY DEF Applied, Sound, IsNode
<1>2. DOMAIN devs = Device
  BY DEF Applied, Sound, IsNode
<1> QED
  BY <1>1, <1>2 DEF Sound, IsNode, Tidy

(* A change of the resequencer or of the timer of a Birthed node.          *)
LEMMA BufferSound ==
  ASSUME NEW nd, NEW rs, Sound(nd), nd.life = "Birthed"
  PROVE  /\ Sound([nd EXCEPT !.rs = rs]) /\ [nd EXCEPT !.rs = rs].life = "Birthed"
         /\ Sound(StartTimer(nd))
BY DEF Sound, IsNode, Tidy, StartTimer

LEMMA IssueRebirthSound ==
  ASSUME NEW nd, NEW reason, Sound(nd), IssueRebirth(nd, reason)
  PROVE  Sound(node') /\ pc' # "draining"
<1>1. CASE ~EvalRebirth(nd, reason)
  BY <1>1 DEF IssueRebirth
<1>2. CASE EvalRebirth(nd, reason)
  <2>1. Sound(SetStale(nd, clock))
    BY SetStaleSound
  <2>2. node' = [SetStale(nd, clock) EXCEPT !.cooling = config.cooldown] /\ pc' = "publishing"
    BY <1>2 DEF IssueRebirth
  <2> QED
    BY <2>1, <2>2 DEF Sound, IsNode, Tidy
<1> QED
  BY <1>1, <1>2

-----------------------------------------------------------------------------
LEMMA InitInv ==
  Init => IInv
BY DEF Init, NewNode, IInv, Sound, IsNode, Tidy

LEMMA HandleOrderedInv ==
  ASSUME IInv, NEW m, HandleOrdered(m)
  PROVE  IInv'
<1> DEFINE seq == m.n % SeqMod
           nd == [node EXCEPT !.rs = Process(@, seq, m)]
           error == ApplyError(node, m)
<1>1. Sound(node) /\ node.life = "Birthed"
  BY DEF IInv, HandleOrdered
<1>2. Sound(nd) /\ nd.life = "Birthed"
  BY <1>1, BufferSound
<1>3. CASE ProcessResult(node.rs, seq) = "DuplicateMessageSequence"
  <2>1. IssueRebirth(node, "ReorderFail")
    BY <1>3 DEF HandleOrdered
  <2> QED
    BY <2>1, <1>1, IssueRebirthSound DEF IInv
<1>4. CASE ProcessResult(node.rs, seq) = "OutOfSequenceMessageInserted"
  <2>1. node' = StartTimer(nd) /\ pc' = "ready"
    BY <1>4 DEF HandleOrdered, Done
  <2> QED
    BY <2>1, <1>2, BufferSound DEF IInv
<1>5. CASE /\ ProcessResult(node.rs, seq) # "DuplicateMessageSequence"
           /\ ProcessResult(node.rs, seq) # "OutOfSequenceMessageInserted"
  <2>1. IF error = Ok THEN node' = Applied(nd, m) /\ pc' = "draining"
        ELSE IssueRebirth(Applied(nd, m), error)
    BY <1>5 DEF HandleOrdered
  <2>2. Sound(Applied(nd, m)) /\ Applied(nd, m).life = "Birthed"
    BY <1>2, AppliedSound
  <2> QED
    BY <2>1, <2>2, IssueRebirthSound DEF IInv
<1> QED
  BY <1>3, <1>4, <1>5

LEMMA HandleMessageInv ==
  ASSUME IInv, HandleMessage
  PROVE  IInv'
<1> DEFINE m == Head(queue)
<1> USE DEF IInv
<1>1. Sound(node)
  OBVIOUS
<1>2. CASE HandleUndecodable(m)
  BY <1>2, IssueRebirthSound DEF HandleUndecodable
<1>3. CASE HandleBirth(m)
  <2>1. CASE Done(node)
    BY <2>1 DEF Done
  <2>2. CASE IssueRebirth(node, "InvalidPayload")
    BY <2>2, IssueRebirthSound
  <2>3. CASE Done(Born(node, m))
    BY <2>3, BornSound DEF Done, Sound
  <2> QED
    BY <1>3, <2>1, <2>2, <2>3 DEF HandleBirth
<1>4. CASE HandleDeath(m)
  <2> DEFINE ts == IF m.ts = Unstamped THEN clock ELSE m.ts
             nd == SetStale(CancelTimer(node), ts)
  <2>1. Sound(nd)
    BY CancelTimerSound, SetStaleSound
  <2>2. IF Expected(m) THEN Done(nd) ELSE IssueRebirth(nd, "OutOfSyncBdSeq")
    BY <1>4 DEF HandleDeath
  <2> QED
    BY <2>1, <2>2, IssueRebirthSound DEF Done
<1>5. CASE HandleIgnored(m)
  BY <1>5 DEF HandleIgnored, Done
<1>6. CASE HandleStale(m)
  BY <1>6, IssueRebirthSound DEF HandleStale
<1>7. CASE HandleUnordered(m)
  <2>1. node.life = "Birthed" /\ IssueRebirth(Applied(node, m), ApplyError(node, m))
    BY <1>7 DEF HandleUnordered
  <2>2. Sound(Applied(node, m))
    BY <2>1, AppliedSound
  <2> QED
    BY <2>1, <2>2, IssueRebirthSound
<1>8. CASE HandleOrdered(m)
  BY <1>8, HandleOrderedInv
<1>9. CASE HandleOffline(m)
  BY <1>9, SetStaleSound DEF HandleOffline, Done
<1> QED
  BY <1>2, <1>3, <1>4, <1>5, <1>6, <1>7, <1>8, <1>9 DEF HandleMessage

LEMMA DrainMessageInv ==
  ASSUME IInv, DrainMessage
  PROVE  IInv'
<1>1. Sound(node) /\ node.life = "Birthed" /\ pc = "draining"
  BY DEF IInv, DrainMessage
<1>2. PICK k \in SeqNo :
        LET m == node.rs.buffer[k]
            nd == [node EXCEPT !.rs = Pop(@, k)]
            error == ApplyError(node, m)
        IN  IF error = Ok THEN node' = Applied(nd, m) /\ pc' = pc
            ELSE IssueRebirth(Applied(nd, m), error)
  BY DEF DrainMessage
<1> DEFINE m == node.rs.buffer[k]
           nd == [node EXCEPT !.rs = Pop(@, k)]
<1>3. Sound(nd) /\ nd.life = "Birthed"
  BY <1>1, BufferSound
<1>4. Sound(Applied(nd, m)) /\ Applied(nd, m).life = "Birthed"
  BY <1>3, AppliedSound
<1> QED
  BY <1>1, <1>2, <1>4, IssueRebirthSound DEF IInv

LEMMA DrainEndInv ==
  ASSUME IInv, DrainEnd
  PROVE  IInv'
BY CancelTimerSound DEF IInv, DrainEnd, Done, AfterDrain

LEMMA TimersInv ==
  ASSUME IInv, TimerFires \/ CooldownEnds
  PROVE  IInv'
BY DEF IInv, TimerFires, CooldownEnds, Sound, IsNode, Tidy

LEMMA StepInv ==
  IInv /\ [Next]_vars => IInv'
<1> SUFFICES ASSUME IInv, [Next]_vars
             PROVE  IInv'
  OBVIOUS
<1>1. CASE HandleMessage
  BY <1>1, HandleMessageInv
<1>2. CASE DrainMessage
  BY <1>2, DrainMessageInv
<1>3. CASE DrainEnd
  BY <1>3, DrainEndInv
<1>4. CASE TakeRebirth
  BY <1>4, IssueRebirthSound DEF IInv, TakeRebirth
<1>5. CASE Publish \/ PublishFails
  BY <1>5 DEF IInv, Publish, PublishFails
<1>6. CASE TimerFires \/ CooldownEnds
  BY <1>6, TimersInv
<1>7. CASE UNCHANGED <<node, pc>>
  BY <1>7 DEF IInv
<1>8. ASSUME \/ Unblock \/ Poll \/ PollOffline \/ PollRequest
             \/ \E i \in DOMAIN net, raw \in Raw : PollDuplicate(i, raw)
             \/ \E i \in DOMAIN net : Lose(i)
             \/ \E err \in Faults \cup {Ok} : EdgeStarts(err)
             \/ EdgeRebirths \/ EdgeDies
             \/ \E kind \in {"NDATA", "DDATA", "DBIRTH", "DDEATH"}, dev \in Device \cup {NoDevice},
                   err \in Faults \cup {Ok} : EdgePublishes(kind, dev, err)
             \/ UNCHANGED vars
      PROVE  UNCHANGED <<node, pc>>
  BY <1>8 DEF Unblock, Poll, PollMessage, PollOffline, PollRequest, PollDuplicate, Lose,
              EdgeStarts, EdgeRebirths, EdgeDies, EdgePublishes, host, vars
<1> QED
  BY <1>1, <1>2, <1>3, <1>4, <1>5, <1>6, <1>7, <1>8 DEF Next

(* A stale node has nothing held back and no reorder timer: what arrived   *)
(* before a death, a loss of connection or a rebirth request is never      *)
(* applied after it.                                                       *)
THEOREM StaleIsEmpty == Spec => []StaleEmpty
<1>1. IInv => StaleEmpty
  BY DEF IInv, Sound, Tidy, StaleEmpty
<1> QED
  BY <1>1, InitInv, StepInv, PTL DEF Spec

(* A stale node has no device that is alive.                               *)
StaleIsDead == node.life = "Stale" => Alive = {}

THEOREM DevicesDie == Spec => []StaleIsDead
<1>1. IInv => StaleIsDead
  BY DEF IInv, Sound, Tidy, StaleIsDead, Alive
<1> QED
  BY <1>1, InitInv, StepInv, PTL DEF Spec

-----------------------------------------------------------------------------
(* The promise of NodeView.  What its proof needs of the environment is    *)
(* when messages were published: births and messages of later births carry *)
(* later timestamps.                                                       *)
Messages ==
    [kind : {"NBIRTH", "NDEATH", "NDATA", "DBIRTH", "DDEATH", "DDATA", "Offline"},
     e : Nat, n : Nat, dev : Device \cup {NoDevice}, ts : Nat \cup {Unstamped},
     err : Faults \cup {Ok}, bd : Int]

EnvTypes ==
    /\ net \in Seq(Messages) /\ queue \in Seq(Messages) /\ held \in Seq(Messages)
    /\ clock \in Nat
    /\ edge \in [alive : BOOLEAN, asked : BOOLEAN, bd : Int, birth : Nat, sent : Nat,
                 up : SUBSET Device]
    /\ IsFiniteSet(edge.up)
    /\ view \in [birth : Nat, last : Nat, of : Nat]
    /\ node.birth_timestamp \in Nat
    /\ WellFormed(node.rs, Messages)

Elements(s) == {s[i] : i \in DOMAIN s}

(* Every message the host may still apply.                                 *)
InFlight == Elements(net) \cup Elements(queue) \cup Elements(held) \cup Elements(node.rs.buffer)

Stamped(m) == Sequenced(m) \/ m.kind = "NBIRTH"

(* m was published after the birth b, or is b, exactly if its timestamp    *)
(* says so.                                                                *)
InOrder(b, m) == (m.e < b.e => m.ts < b.ts) /\ (m.e >= b.e => m.ts >= b.ts)

(* The birth the node has recorded.                                        *)
Recorded == [e |-> view.birth, ts |-> node.birth_timestamp]

Chronology ==
    /\ view.birth <= edge.birth /\ node.birth_timestamp <= clock
    /\ \A m \in InFlight : Stamped(m) =>
          /\ m.e <= edge.birth /\ m.ts \in 0 .. clock
          /\ InOrder(Recorded, m)
          /\ m.kind = "NBIRTH" => InOrder(m, Recorded)
          /\ \A b \in InFlight : b.kind = "NBIRTH" => InOrder(b, m)

(* A birth is followed by fewer messages than there are sequence numbers.  *)
FewMessages == config.reorder => edge.sent < SeqMod

Numbered ==
    \A m \in InFlight : Sequenced(m) => m.n >= 1 /\ (config.reorder => m.n < SeqMod)

(* What is held back is not of an earlier birth and has the number its key *)
(* stands for; the number expected is that of the next message to apply.   *)
Expecting(nd, v) ==
    /\ \A k \in DOMAIN nd.rs.buffer :
          Sequenced(nd.rs.buffer[k]) /\ nd.rs.buffer[k].e >= v.birth
    /\ config.reorder /\ nd.life = "Birthed" =>
        /\ v.last < SeqMod
        /\ nd.rs.next_seq = (v.last + 1) % SeqMod
        /\ \A k \in DOMAIN nd.rs.buffer :
              WrapAdd(k, nd.rs.state) = nd.rs.buffer[k].n % SeqMod

ViewInv == IInv /\ EnvTypes /\ Chronology /\ Numbered /\ Expecting(node, view)

-----------------------------------------------------------------------------
(* What the methods of Node leave alone.  A step of the actor leaves the   *)
(* node as it is but for its timers, or stale.                             *)
StaleFrom(nd2, nd) ==
    /\ Sound(nd2) /\ nd2.birth_timestamp = nd.birth_timestamp
    /\ \/ nd2.life = nd.life /\ nd2.rs = nd.rs /\ nd2.devices = nd.devices
       \/ nd2.life = "Stale"

LEMMA SetStaleEffect ==
  ASSUME NEW nd, NEW ts, Sound(nd)
  PROVE  StaleFrom(SetStale(nd, ts), nd)
<1>1. Sound(SetStale(nd, ts))
  BY SetStaleSound
<1>2. CASE nd.life = "Stale" \/ ts < nd.birth_timestamp
  BY <1>1, <1>2 DEF SetStale, StaleFrom
<1>3. CASE ~(nd.life = "Stale" \/ ts < nd.birth_timestamp)
  <2> DEFINE devs == [d \in Device |-> IF nd.devices[d] = "unknown" THEN nd.devices[d]
                                       ELSE "Stale"]
  <2>1. SetStale(nd, ts) =
            [life |-> "Stale", birth_timestamp |-> nd.birth_timestamp,
             stale_timestamp |-> ts, bdseq |-> nd.bdseq, rs |-> NewResequencer,
             timer |-> "none", cooling |-> nd.cooling, devices |-> devs]
    BY <1>3 DEF SetStale, CancelTimer, Reset, Sound, IsNode
  <2> HIDE DEF devs
  <2> QED
    BY <1>1, <2>1 DEF StaleFrom
<1> QED
  BY <1>2, <1>3

LEMMA IssueRebirthEffect ==
  ASSUME NEW nd, NEW reason, Sound(nd), IssueRebirth(nd, reason)
  PROVE  StaleFrom(node', nd)
<1>1. CASE ~EvalRebirth(nd, reason)
  BY <1>1 DEF IssueRebirth, StaleFrom
<1>2. CASE EvalRebirth(nd, reason)
  <2> DEFINE sd == SetStale(nd, clock)
  <2>1. StaleFrom(sd, nd)
    BY SetStaleEffect
  <2>2. node' = [sd EXCEPT !.cooling = config.cooldown]
    BY <1>2 DEF IssueRebirth
  <2> HIDE DEF sd
  <2>3. /\ node'.birth_timestamp = sd.birth_timestamp /\ node'.life = sd.life
        /\ node'.rs = sd.rs /\ node'.devices = sd.devices
    BY <2>1, <2>2 DEF StaleFrom, Sound, IsNode
  <2>4. Sound(node')
    BY IssueRebirthSound
  <2> QED
    BY <2>1, <2>3, <2>4 DEF StaleFrom
<1> QED
  BY <1>1, <1>2

LEMMA CancelTimerEffect ==
  ASSUME NEW nd, Sound(nd)
  PROVE  StaleFrom(CancelTimer(nd), nd)
BY CancelTimerSound DEF CancelTimer, StaleFrom, Sound, IsNode

(* A node that goes stale twice.                                           *)
LEMMA StaleTwice ==
  ASSUME NEW a, NEW b, NEW c, StaleFrom(b, a), StaleFrom(c, b)
  PROVE  StaleFrom(c, a)
BY DEF StaleFrom

LEMMA AppliedEffect ==
  ASSUME NEW nd, NEW m, Sound(nd), nd.life = "Birthed"
  PROVE  /\ Sound(Applied(nd, m)) /\ Applied(nd, m).life = "Birthed"
         /\ Applied(nd, m).rs = nd.rs
         /\ Applied(nd, m).birth_timestamp = nd.birth_timestamp
<1>1. Applied(nd, m) = [nd EXCEPT !.devices = Applied(nd, m).devices]
  BY DEF Applied, Sound, IsNode
<1> DEFINE devs == Applied(nd, m).devices
<1> HIDE DEF devs
<1>2. Applied(nd, m) = [nd EXCEPT !.devices = devs]
  BY <1>1 DEF devs
<1> QED
  BY <1>2, AppliedSound DEF Sound, IsNode

LEMMA BornEffect ==
  ASSUME NEW nd, NEW m, Sound(nd)
  PROVE  /\ Sound(Born(nd, m)) /\ Born(nd, m).life = "Birthed"
         /\ Born(nd, m).birth_timestamp = m.ts
         /\ Born(nd, m).rs = SetNextSequence(NewResequencer, 1 % SeqMod)
         /\ Born(nd, m).devices = nd.devices
<1> DEFINE off == CancelTimer(nd)
           rs1 == SetNextSequence(NewResequencer, 1 % SeqMod)
<1>1. IsNode(off) /\ off.devices = nd.devices
  BY DEF CancelTimer, Sound, IsNode
<1>2. Born(nd, m) = [off EXCEPT !.life = "Birthed", !.birth_timestamp = m.ts,
                                !.bdseq = m.bd, !.rs = rs1]
  BY Zenon DEF Born, Reset
<1> HIDE DEF off, rs1
<1>3. /\ Born(nd, m).life = "Birthed" /\ Born(nd, m).birth_timestamp = m.ts
      /\ Born(nd, m).rs = rs1 /\ Born(nd, m).devices = nd.devices
  BY <1>1, <1>2 DEF IsNode
<1> QED
  BY <1>3, BornSound DEF Sound, rs1

(* A Birthed node with another buffer, or with its timer started.          *)
LEMMA BufferEffect ==
  ASSUME NEW nd, NEW rs, Sound(nd), nd.life = "Birthed"
  PROVE  /\ Sound([nd EXCEPT !.rs = rs]) /\ [nd EXCEPT !.rs = rs].life = "Birthed"
         /\ [nd EXCEPT !.rs = rs].rs = rs
         /\ [nd EXCEPT !.rs = rs].birth_timestamp = nd.birth_timestamp
         /\ [nd EXCEPT !.rs = rs].devices = nd.devices
         /\ StaleFrom(StartTimer(nd), nd)
<1>1. Sound([nd EXCEPT !.rs = rs]) /\ [nd EXCEPT !.rs = rs].life = "Birthed" /\ Sound(StartTimer(nd))
  BY BufferSound
<1>2. /\ [nd EXCEPT !.rs = rs].rs = rs
      /\ [nd EXCEPT !.rs = rs].birth_timestamp = nd.birth_timestamp
      /\ [nd EXCEPT !.rs = rs].devices = nd.devices
  BY DEF Sound, IsNode
<1>3. /\ StartTimer(nd).life = nd.life /\ StartTimer(nd).rs = nd.rs
      /\ StartTimer(nd).devices = nd.devices
      /\ StartTimer(nd).birth_timestamp = nd.birth_timestamp
  BY DEF StartTimer, Sound, IsNode
<1> QED
  BY <1>1, <1>2, <1>3 DEF StaleFrom

-----------------------------------------------------------------------------
(* Frames.  New messages carry the number and the time of the birth they   *)
(* follow.                                                                 *)
New(m) ==
    /\ m.e = edge'.birth /\ m.ts = clock' /\ clock' > clock
    /\ m.kind = "NBIRTH" => edge'.birth > edge.birth
    /\ Sequenced(m) => m.n >= 1 /\ m.n <= edge'.sent

LEMMA InFlightTypes ==
  ASSUME EnvTypes
  PROVE  \A m \in InFlight : m \in Messages
<1>1. ASSUME NEW s \in Seq(Messages) PROVE Elements(s) \subseteq Messages
  BY DEF Elements
<1>2. Elements(node.rs.buffer) \subseteq Messages
  <2>1. node.rs.buffer \in [DOMAIN node.rs.buffer -> Messages]
    BY DEF EnvTypes, WellFormed, IsResequencer
  <2> QED
    BY <2>1 DEF Elements
<1>3. net \in Seq(Messages) /\ queue \in Seq(Messages) /\ held \in Seq(Messages)
  BY DEF EnvTypes
<1> QED
  BY <1>1, <1>2, <1>3 DEF InFlight

LEMMA FlightInv ==
  ASSUME ViewInv, EnvTypes', FewMessages', UNCHANGED config,
         clock' >= clock, edge'.birth >= edge.birth,
         node'.birth_timestamp = node.birth_timestamp, view'.birth = view.birth,
         \A m \in InFlight' : Stamped(m) => m \in InFlight \/ New(m)
  PROVE  Chronology' /\ Numbered'
<1>1. /\ clock \in Nat /\ clock' \in Nat /\ edge.birth \in Nat /\ edge'.birth \in Nat
      /\ edge'.sent \in Nat /\ view.birth \in Nat /\ node.birth_timestamp \in Nat
      /\ SeqMod \in Nat
  BY SeqModAssumption DEF ViewInv, EnvTypes
<1>2. \A m \in InFlight : m \in Messages
  BY InFlightTypes DEF ViewInv
<1>3. \A m \in InFlight' : m \in Messages
  BY DEF EnvTypes, InFlight, Elements, WellFormed, IsResequencer
<1>4. Recorded' = Recorded /\ Recorded.e = view.birth /\ Recorded.ts = node.birth_timestamp
  BY DEF Recorded
<1>5. view.birth <= edge.birth /\ node.birth_timestamp <= clock
  BY DEF ViewInv, Chronology
<1>6. ASSUME NEW m \in InFlight, Stamped(m)
      PROVE  /\ m.e \in Nat /\ m.ts \in Nat /\ m.e <= edge.birth /\ m.ts <= clock
             /\ InOrder(Recorded, m)
             /\ m.kind = "NBIRTH" => InOrder(m, Recorded)
             /\ \A b \in InFlight : b.kind = "NBIRTH" => InOrder(b, m)
  <2>1. m.e \in Nat
    BY <1>2 DEF Messages
  <2>2. Chronology
    BY DEF ViewInv
  <2>3. m.ts \in 0 .. clock
    BY <1>6, <2>2 DEF Chronology
  <2> QED
    BY <1>1, <1>6, <2>1, <2>2, <2>3 DEF Chronology
<1>7. ASSUME NEW m, New(m)
      PROVE  /\ m.e \in Nat /\ m.ts \in Nat /\ m.e <= edge'.birth /\ m.ts <= clock'
             /\ InOrder(Recorded, m)
             /\ m.kind = "NBIRTH" => InOrder(m, Recorded)
  BY <1>1, <1>4, <1>5, <1>7 DEF New, InOrder
<1>8. ASSUME NEW m \in InFlight', Stamped(m)
      PROVE  /\ m.e <= edge'.birth /\ m.ts \in 0 .. clock'
             /\ InOrder(Recorded, m)
             /\ m.kind = "NBIRTH" => InOrder(m, Recorded)
  <2>1. CASE m \in InFlight
    BY <1>1, <1>6, <1>8, <2>1
  <2>2. CASE New(m)
    BY <1>1, <1>7, <2>2
  <2> QED
    BY <1>8, <2>1, <2>2
<1>9. ASSUME NEW m \in InFlight', Stamped(m), NEW b \in InFlight', b.kind = "NBIRTH"
      PROVE  InOrder(b, m)
  <2>1. Stamped(b)
    BY <1>9 DEF Stamped
  <2>2. CASE m \in InFlight /\ b \in InFlight
    BY <1>6, <1>9, <2>2
  <2>3. CASE m \in InFlight /\ New(b)
    <3>1. m.e \in Nat /\ m.ts \in Nat /\ m.e <= edge.birth /\ m.ts <= clock
      BY <1>6, <1>9, <2>3
    <3>2. b.e = edge'.birth /\ b.ts = clock' /\ clock' > clock /\ edge'.birth > edge.birth
      BY <1>9, <2>3 DEF New
    <3> QED
      BY <1>1, <3>1, <3>2 DEF InOrder
  <2>4. CASE New(m) /\ b \in InFlight
    <3>1. b.e \in Nat /\ b.ts \in Nat /\ b.e <= edge.birth /\ b.ts <= clock
      BY <1>6, <2>1, <2>4
    <3>2. m.e = edge'.birth /\ m.ts = clock' /\ clock' > clock
      BY <2>4 DEF New
    <3> QED
      BY <1>1, <3>1, <3>2 DEF InOrder
  <2>5. CASE New(m) /\ New(b)
    BY <1>1, <2>5 DEF InOrder, New
  <2> QED
    BY <1>9, <2>1, <2>2, <2>3, <2>4, <2>5
<1>10. Chronology'
  BY <1>1, <1>4, <1>5, <1>8, <1>9 DEF Chronology
<1>11. Numbered'
  <2> SUFFICES ASSUME NEW m \in InFlight', Sequenced(m)
               PROVE  m.n >= 1 /\ (config.reorder => m.n < SeqMod)
    BY DEF Numbered
  <2>1. m.n \in Nat
    BY <1>3 DEF Messages
  <2>2. m \in InFlight \/ New(m)
    BY DEF Stamped
  <2>3. config.reorder => edge'.sent < SeqMod
    BY DEF FewMessages
  <2>4. CASE m \in InFlight
    BY <2>4 DEF ViewInv, Numbered
  <2>5. CASE New(m)
    BY <1>1, <2>1, <2>3, <2>5 DEF New
  <2> QED
    BY <2>2, <2>4, <2>5
<1> QED
  BY <1>10, <1>11

(* A step of the environment: the node is not concerned.                   *)
LEMMA OutsideInv ==
  ASSUME ViewInv, EnvTypes', FewMessages', IInv',
         UNCHANGED <<config, view, node.rs, node.life, node.birth_timestamp>>,
         clock' >= clock, edge'.birth >= edge.birth,
         \A m \in InFlight' : Stamped(m) => m \in InFlight \/ New(m)
  PROVE  ViewInv'
<1>1. Chronology' /\ Numbered'
  BY FlightInv
<1>2. Expecting(node, view)'
  BY DEF ViewInv, Expecting
<1> QED
  BY <1>1, <1>2 DEF ViewInv

(* A step of the actor that records no birth: the node is nd, or nd gone   *)
(* stale.                                                                  *)
LEMMA NodeInv ==
  ASSUME ViewInv, FewMessages', IInv', NEW nd, StaleFrom(node', nd),
         nd.birth_timestamp = node.birth_timestamp,
         UNCHANGED <<config, edge, clock, net, held>>,
         queue' \in Seq(Messages), Elements(queue') \subseteq Elements(queue),
         view' \in [birth : Nat, last : Nat, of : Nat], view'.birth = view.birth,
         WellFormed(nd.rs, Messages),
         \A k \in DOMAIN nd.rs.buffer : nd.rs.buffer[k] \in InFlight,
         Expecting(nd, view')
  PROVE  ViewInv'
<1>1. \/ node'.life = nd.life /\ node'.rs = nd.rs
      \/ node'.life = "Stale" /\ node'.rs = NewResequencer
  BY DEF StaleFrom, Sound, Tidy
<1>2. 1 % SeqMod \in SeqNo
  BY SeqModAssumption, DivMod DEF SeqNo
<1>3. WellFormed(node'.rs, Messages)
  BY <1>1, <1>2, NewWellFormed
<1>4. DOMAIN NewResequencer.buffer = {}
  BY <1>2, NewWellFormed
<1>5. EnvTypes'
  BY <1>3 DEF EnvTypes, StaleFrom, ViewInv
<1>6. \A m \in InFlight' : m \in InFlight
  BY <1>1, <1>4 DEF InFlight, Elements
<1>7. Chronology' /\ Numbered'
  <2>1. clock \in Nat /\ edge.birth \in Nat
    BY DEF ViewInv, EnvTypes
  <2>2. clock' >= clock /\ edge'.birth >= edge.birth
    BY <2>1
  <2> QED
    BY <1>5, <1>6, <2>2, FlightInv DEF StaleFrom
<1>8. Expecting(node, view)'
  BY <1>1, <1>4 DEF Expecting
<1> QED
  BY <1>5, <1>7, <1>8 DEF ViewInv

-----------------------------------------------------------------------------
(* Steps of the actor, and what they are to NodeView.                      *)
Kept == [Promise!Next]_(Promise!vars)

(* The node stays as it is or goes stale.                                  *)
LEMMA QuietKept ==
  ASSUME Sound(node), StaleFrom(node', node), UNCHANGED <<config, view>>
  PROVE  Kept
<1>1. CASE node'.life = node.life /\ node'.devices = node.devices
  BY <1>1 DEF Kept, Promise!vars, Alive
<1>2. CASE node'.life = "Stale"
  <2>1. Alive' = {}
    BY <1>2 DEF StaleFrom, Sound, Tidy, Alive
  <2>2. Promise!GoStale
    BY <1>2, <2>1 DEF Promise!GoStale
  <2> QED
    BY <2>2 DEF Kept, Promise!Next
<1> QED
  BY <1>1, <1>2 DEF StaleFrom

LEMMA QuietInv ==
  ASSUME ViewInv, FewMessages', IInv', StaleFrom(node', node),
         UNCHANGED <<config, edge, clock, net, held, view>>,
         queue' \in Seq(Messages), Elements(queue') \subseteq Elements(queue)
  PROVE  ViewInv' /\ Kept
<1>1. Sound(node) /\ EnvTypes
  BY DEF ViewInv, IInv
<1>2. /\ view' \in [birth : Nat, last : Nat, of : Nat] /\ view'.birth = view.birth
      /\ WellFormed(node.rs, Messages)
  BY <1>1 DEF EnvTypes
<1>3. \A k \in DOMAIN node.rs.buffer : node.rs.buffer[k] \in InFlight
  BY DEF InFlight, Elements
<1>4. Expecting(node, view')
  BY DEF ViewInv
<1>5. ViewInv'
  BY <1>1, <1>2, <1>3, <1>4, NodeInv
<1> QED
  BY <1>1, <1>5, QuietKept

(* A message is applied.                                                   *)
LEMMA ApplyKept ==
  ASSUME node.life = "Birthed", NEW nd, nd.life = "Birthed", StaleFrom(node', nd),
         UNCHANGED config, EnvTypes, NEW m \in Messages, m.e >= view.birth,
         config.reorder => m.n = view.last + 1, Record(m)
  PROVE  Kept /\ view' \in [birth : Nat, last : Nat, of : Nat]
         /\ view'.birth = view.birth /\ view'.last = m.n
<1>1. view \in [birth : Nat, last : Nat, of : Nat] /\ m.n \in Nat /\ m.e \in Nat
  BY DEF EnvTypes, Messages
<1>2. /\ view' \in [birth : Nat, last : Nat, of : Nat]
      /\ view'.birth = view.birth /\ view'.last = m.n /\ view'.of = m.e
  BY <1>1 DEF Record
<1>3. node'.life \in {"Birthed", "Stale"}
  BY DEF StaleFrom
<1>4. Alive' \subseteq Device
  BY DEF Alive
<1>5. node'.life = "Stale" => Alive' = {}
  BY DEF StaleFrom, Sound, Tidy, Alive
<1>6. Promise!Apply
  BY <1>2, <1>3, <1>4, <1>5 DEF Promise!Apply, Promise!StaleIsDead
<1> QED
  BY <1>2, <1>6 DEF Kept, Promise!Next

(* The next message of the queue.                                          *)
LEMMA NextQueued ==
  ASSUME EnvTypes, queue # <<>>
  PROVE  /\ Head(queue) \in Messages /\ Head(queue) \in InFlight
         /\ Tail(queue) \in Seq(Messages) /\ Elements(Tail(queue)) \subseteq Elements(queue)
<1>1. queue \in Seq(Messages)
  BY DEF EnvTypes
<1>2. /\ Head(queue) \in Messages /\ Head(queue) = queue[1] /\ 1 \in DOMAIN queue
      /\ Tail(queue) \in Seq(Messages)
      /\ \A i \in DOMAIN Tail(queue) : i + 1 \in DOMAIN queue /\ Tail(queue)[i] = queue[i + 1]
  BY <1>1
<1> QED
  BY <1>2 DEF InFlight, Elements

(* A birth is recorded: it is newer than the one recorded before.          *)
LEMMA BirthKept ==
  ASSUME ViewInv, FewMessages', IInv', NEW m \in InFlight, m.kind = "NBIRTH", Newer(m),
         node' = Born(node, m), view' = [birth |-> m.e, last |-> 0, of |-> m.e],
         UNCHANGED <<config, edge, clock, net, held>>,
         queue' \in Seq(Messages), Elements(queue') \subseteq Elements(queue)
  PROVE  ViewInv' /\ Kept
<1>1. Sound(node) /\ EnvTypes /\ Chronology /\ m \in Messages /\ Stamped(m)
  BY InFlightTypes DEF ViewInv, IInv, Stamped
<1>2. /\ m.e \in Nat /\ m.ts \in Nat /\ m.e <= edge.birth /\ m.ts <= clock
      /\ clock \in Nat /\ edge.birth \in Nat /\ view.birth \in Nat
      /\ node.birth_timestamp \in Nat
  <2>1. m.e \in Nat /\ clock \in Nat
    BY <1>1 DEF Messages, EnvTypes
  <2>2. m.ts \in 0 .. clock /\ m.e <= edge.birth
    BY <1>1 DEF Chronology
  <2> QED
    BY <1>1, <2>1, <2>2 DEF EnvTypes
<1>3. 1 % SeqMod \in SeqNo
  BY SeqModAssumption, DivMod DEF SeqNo
<1> DEFINE r == SetNextSequence(NewResequencer, 1 % SeqMod)
<1>4. WellFormed(r, Messages) /\ r.next_seq = 1 % SeqMod /\ DOMAIN r.buffer = {}
  BY <1>3, NewWellFormed
<1> HIDE DEF r
<1>5. /\ Sound(node') /\ node'.life = "Birthed" /\ node'.birth_timestamp = m.ts
      /\ node'.rs = r /\ node'.devices = node.devices
  BY <1>1, BornEffect DEF r
<1>6. m.e > view.birth
  <2>1. InOrder(m, Recorded) /\ InOrder(Recorded, m)
    BY <1>1 DEF Chronology
  <2>2. m.ts > node.birth_timestamp
    BY DEF Newer
  <2> QED
    BY <1>2, <2>1, <2>2 DEF InOrder, Recorded
<1>7. Kept
  <2>1. Alive' = Alive
    BY <1>5 DEF Alive
  <2>2. Promise!Birth
    BY <1>5, <1>6, <2>1 DEF Promise!Birth
  <2> QED
    BY <2>2 DEF Kept, Promise!Next
<1>8. EnvTypes'
  BY <1>1, <1>2, <1>4, <1>5 DEF EnvTypes
<1>9. \A x \in InFlight' : x \in InFlight
  BY <1>4, <1>5 DEF InFlight, Elements
<1>10. Recorded'.e = m.e /\ Recorded'.ts = m.ts
  BY <1>5 DEF Recorded
<1>11. Chronology'
  <2>1. view'.birth <= edge'.birth /\ node'.birth_timestamp <= clock'
    BY <1>2, <1>5
  <2>2. ASSUME NEW x \in InFlight', Stamped(x)
        PROVE  /\ x.e <= edge'.birth /\ x.ts \in 0 .. clock'
               /\ InOrder(Recorded', x)
               /\ x.kind = "NBIRTH" => InOrder(x, Recorded')
               /\ \A b \in InFlight' : b.kind = "NBIRTH" => InOrder(b, x)
    <3>1. x \in InFlight
      BY <1>9
    <3>2. /\ x.e <= edge.birth /\ x.ts \in 0 .. clock
          /\ \A b \in InFlight : b.kind = "NBIRTH" => InOrder(b, x)
      BY <1>1, <2>2, <3>1 DEF Chronology
    <3>3. x.kind = "NBIRTH" => InOrder(x, m)
      BY <1>1, <3>1 DEF Chronology
    <3>4. InOrder(m, x)
      BY <3>2
    <3>5. InOrder(Recorded', x) /\ (x.kind = "NBIRTH" => InOrder(x, Recorded'))
      BY <1>10, <3>3, <3>4 DEF InOrder
    <3> QED
      BY <1>9, <3>2, <3>5
  <2> QED
    BY <2>1, <2>2 DEF Chronology, Stamped, Sequenced
<1>12. Numbered'
  BY <1>9 DEF ViewInv, Numbered
<1>13. Expecting(node, view)'
  <2>1. 0 < SeqMod /\ (0 + 1) % SeqMod = 1 % SeqMod
    BY SeqModAssumption
  <2> QED
    BY <1>4, <1>5, <2>1 DEF Expecting
<1> QED
  BY <1>7, <1>8, <1>11, <1>12, <1>13 DEF ViewInv

(* Below SeqMod, the number expected is carried by the next message only.  *)
LEMMA NextNumber ==
  ASSUME NEW next \in Nat, next <= SeqMod, NEW n \in Nat, n >= 1, n < SeqMod,
         n % SeqMod = next % SeqMod
  PROVE  n = next
<1>1. n % SeqMod = n
  BY SeqModAssumption, SmallRemainder
<1>2. next % SeqMod = IF next < SeqMod THEN next ELSE next - SeqMod
  <2>1. next \in 0 .. 2 * SeqMod - 1
    BY SeqModAssumption
  <2> QED
    BY <2>1, SeqModAssumption, SmallRemainder
<1> DEFINE r == next % SeqMod
<1>3. n = r /\ r = IF next < SeqMod THEN next ELSE next - SeqMod
  BY <1>1, <1>2
<1> HIDE DEF r
<1> QED
  BY <1>3, SeqModAssumption

(* The actor applies m and is left with the resequencer rs.                *)
LEMMA ApplyInv ==
  ASSUME ViewInv, FewMessages', IInv', node.life = "Birthed",
         NEW m \in InFlight, Sequenced(m), m.e >= view.birth,
         NEW rs, WellFormed(rs, Messages),
         \A k \in DOMAIN rs.buffer :
            /\ k \in DOMAIN node.rs.buffer /\ rs.buffer[k] = node.rs.buffer[k]
            /\ rs.state = node.rs.state,
         config.reorder => /\ m.n % SeqMod = node.rs.next_seq
                           /\ rs.next_seq = WrapAdd(node.rs.next_seq, 1),
         NEW nd, nd = Applied([node EXCEPT !.rs = rs], m), StaleFrom(node', nd), Record(m),
         UNCHANGED <<config, edge, clock, net, held>>,
         queue' \in Seq(Messages), Elements(queue') \subseteq Elements(queue)
  PROVE  ViewInv' /\ Kept
<1>1. Sound(node) /\ EnvTypes /\ m \in Messages /\ Numbered /\ Expecting(node, view)
  BY InFlightTypes DEF ViewInv, IInv
<1>2. /\ nd.life = "Birthed" /\ nd.rs = rs /\ nd.birth_timestamp = node.birth_timestamp
  <2> DEFINE b == [node EXCEPT !.rs = rs]
  <2>1. Sound(b) /\ b.life = "Birthed" /\ b.rs = rs /\ b.birth_timestamp = node.birth_timestamp
    BY <1>1, BufferEffect
  <2>2. nd = Applied(b, m)
    OBVIOUS
  <2> HIDE DEF b
  <2> QED
    BY <2>1, <2>2, AppliedEffect
<1>3. /\ view.last \in Nat /\ view.birth \in Nat /\ m.n \in Nat /\ m.e \in Nat
  BY <1>1 DEF EnvTypes, Messages
<1>4. config.reorder => m.n = view.last + 1 /\ m.n < SeqMod
  <2> SUFFICES ASSUME config.reorder PROVE m.n = view.last + 1 /\ m.n < SeqMod
    OBVIOUS
  <2>1. m.n >= 1 /\ m.n < SeqMod
    BY <1>1 DEF Numbered
  <2>2. view.last < SeqMod /\ node.rs.next_seq = (view.last + 1) % SeqMod
    BY <1>1 DEF Expecting
  <2>3. view.last + 1 \in Nat /\ view.last + 1 <= SeqMod
    BY <1>3, <2>2, SeqModAssumption
  <2>4. m.n % SeqMod = (view.last + 1) % SeqMod
    BY <2>2
  <2> QED
    BY <1>3, <2>1, <2>3, <2>4, NextNumber
<1>5. Kept /\ view' \in [birth : Nat, last : Nat, of : Nat]
      /\ view'.birth = view.birth /\ view'.last = m.n
  BY <1>1, <1>2, <1>4, ApplyKept
<1>6. \A k \in DOMAIN rs.buffer : rs.buffer[k] \in InFlight
  BY DEF InFlight, Elements
<1>7. Expecting(nd, view')
  <2>1. \A k \in DOMAIN nd.rs.buffer :
          Sequenced(nd.rs.buffer[k]) /\ nd.rs.buffer[k].e >= view'.birth
    BY <1>1, <1>2, <1>5 DEF Expecting
  <2>2. ASSUME config.reorder
        PROVE  nd.rs.next_seq = (view'.last + 1) % SeqMod
    <3>1. node.rs.next_seq = m.n % SeqMod
      BY <2>2
    <3>2. (m.n + 1) % SeqMod = ((m.n % SeqMod) + 1) % SeqMod
      BY <1>3, SeqModAssumption, SuccRemainder
    <3> QED
      BY <1>2, <1>5, <2>2, <3>1, <3>2 DEF WrapAdd
  <2>3. ASSUME config.reorder
        PROVE  \A k \in DOMAIN nd.rs.buffer :
                 WrapAdd(k, nd.rs.state) = nd.rs.buffer[k].n % SeqMod
    BY <1>1, <1>2, <2>3 DEF Expecting
  <2> QED
    BY <1>2, <1>4, <1>5, <2>1, <2>2, <2>3 DEF Expecting
<1>8. ViewInv'
  BY <1>2, <1>5, <1>6, <1>7, NodeInv
<1> QED
  BY <1>5, <1>8

(* A message that is not old was not published before the birth recorded.  *)
LEMMA NotOld ==
  ASSUME ViewInv, NEW m \in InFlight, Sequenced(m), ~Old(m)
  PROVE  m.e >= view.birth
<1>1. EnvTypes /\ Chronology /\ m \in Messages /\ Stamped(m)
  BY InFlightTypes DEF ViewInv, Stamped
<1>2. /\ m.e \in Nat /\ view.birth \in Nat /\ node.birth_timestamp \in Nat /\ clock \in Nat
  BY <1>1 DEF Messages, EnvTypes
<1>3. m.ts \in 0 .. clock /\ InOrder(Recorded, m)
  BY <1>1 DEF Chronology
<1>4. m.ts >= node.birth_timestamp
  BY <1>2, <1>3 DEF Old
<1> QED
  BY <1>2, <1>3, <1>4 DEF InOrder, Recorded

(* HandleOrdered: the message is one too many, kept back, or applied.      *)
LEMMA OrderedKept ==
  ASSUME ViewInv, FewMessages', IInv', NEW m \in InFlight, HandleOrdered(m),
         UNCHANGED <<config, edge, clock, net, held>>,
         queue' \in Seq(Messages), Elements(queue') \subseteq Elements(queue)
  PROVE  ViewInv' /\ Kept
<1> DEFINE seq == m.n % SeqMod
           rs == Process(node.rs, seq, m)
           nd == [node EXCEPT !.rs = rs]
           error == ApplyError(node, m)
<1>1. /\ Sound(node) /\ EnvTypes /\ m \in Messages /\ Expecting(node, view)
      /\ Sequenced(m) /\ ~Old(m) /\ node.life = "Birthed" /\ config.reorder
  BY InFlightTypes DEF ViewInv, IInv, HandleOrdered
<1>2. m.e >= view.birth
  BY <1>1, NotOld
<1>3. seq \in SeqNo
  BY <1>1, SeqModAssumption, DivMod DEF Messages, SeqNo
<1>4. WellFormed(node.rs, Messages)
  BY <1>1 DEF EnvTypes
<1>5. /\ WellFormed(rs, Messages)
      /\ \/ /\ ProcessResult(node.rs, seq) = "DuplicateMessageSequence"
            /\ rs = node.rs
         \/ /\ ProcessResult(node.rs, seq) = "MessageNextInSequence"
            /\ seq = node.rs.next_seq
            /\ rs.next_seq = WrapAdd(node.rs.next_seq, 1)
            /\ rs.buffer = node.rs.buffer
            /\ rs.state = node.rs.state
         \/ /\ ProcessResult(node.rs, seq) = "OutOfSequenceMessageInserted"
            /\ rs.next_seq = node.rs.next_seq
            /\ \A k \in DOMAIN rs.buffer :
                 \/ /\ k \in DOMAIN node.rs.buffer
                    /\ rs.buffer[k] = node.rs.buffer[k]
                    /\ rs.state = node.rs.state
                 \/ /\ rs.buffer[k] = m
                    /\ WrapAdd(k, rs.state) = seq
  BY <1>1, <1>3, <1>4, ProcessEffect
<1>6. /\ Sound(nd) /\ nd.life = "Birthed" /\ nd.rs = rs
      /\ nd.birth_timestamp = node.birth_timestamp /\ nd.devices = node.devices
      /\ StaleFrom(StartTimer(nd), nd)
  <2> HIDE DEF rs
  <2>1. /\ Sound(nd) /\ nd.life = "Birthed" /\ nd.rs = rs
        /\ nd.birth_timestamp = node.birth_timestamp /\ nd.devices = node.devices
    BY <1>1, BufferEffect
  <2> HIDE DEF nd
  <2> QED
    BY <2>1, BufferEffect
<1>7. CASE ProcessResult(node.rs, seq) = "DuplicateMessageSequence"
  <2>1. IssueRebirth(node, "ReorderFail") /\ UNCHANGED view
    BY <1>7 DEF HandleOrdered
  <2> QED
    BY <1>1, <2>1, IssueRebirthEffect, QuietInv
<1>8. CASE ProcessResult(node.rs, seq) = "OutOfSequenceMessageInserted"
  <2>1. node' = StartTimer(nd) /\ UNCHANGED view
    BY <1>8 DEF HandleOrdered, Done
  <2> HIDE DEF nd, rs, seq
  <2>2. StaleFrom(node', nd)
    BY <1>6, <2>1
  <2>3. \A k \in DOMAIN nd.rs.buffer : nd.rs.buffer[k] \in InFlight
    <3>1. \A k \in DOMAIN node.rs.buffer : node.rs.buffer[k] \in InFlight
      BY DEF InFlight, Elements
    <3> QED
      BY <1>5, <1>6, <1>8, <3>1
  <2>4. Expecting(nd, view')
    <3>1. /\ rs.next_seq = node.rs.next_seq
          /\ \A k \in DOMAIN rs.buffer :
                 \/ /\ k \in DOMAIN node.rs.buffer
                    /\ rs.buffer[k] = node.rs.buffer[k]
                    /\ rs.state = node.rs.state
                 \/ /\ rs.buffer[k] = m
                    /\ WrapAdd(k, rs.state) = seq
      BY <1>5, <1>8
    <3>2. \A k \in DOMAIN rs.buffer : Sequenced(rs.buffer[k]) /\ rs.buffer[k].e >= view.birth
      BY <1>1, <1>2, <3>1 DEF Expecting
    <3>3. \A k \in DOMAIN rs.buffer : WrapAdd(k, rs.state) = rs.buffer[k].n % SeqMod
      BY <1>1, <3>1 DEF Expecting, seq
    <3> QED
      BY <1>1, <1>6, <2>1, <3>1, <3>2, <3>3 DEF Expecting
  <2>5. view' \in [birth : Nat, last : Nat, of : Nat] /\ view'.birth = view.birth
    BY <1>1, <2>1 DEF EnvTypes
  <2>6. ViewInv'
    BY <1>5, <1>6, <2>2, <2>3, <2>4, <2>5, NodeInv
  <2>7. node'.life = node.life /\ node'.devices = node.devices
    BY <1>1, <1>6, <2>2, <2>1 DEF StaleFrom, StartTimer
  <2>8. Kept
    BY <2>1, <2>7 DEF Kept, Promise!vars, Alive
  <2> QED
    BY <2>6, <2>8
<1>9. CASE ProcessResult(node.rs, seq) = "MessageNextInSequence"
  <2>1. /\ IF error = Ok THEN node' = Applied(nd, m) /\ pc' = "draining"
           ELSE IssueRebirth(Applied(nd, m), error)
        /\ Record(m)
    BY <1>9 DEF HandleOrdered
  <2>2. Sound(Applied(nd, m))
    BY <1>6, AppliedEffect
  <2>3. StaleFrom(node', Applied(nd, m))
    BY <2>1, <2>2, IssueRebirthEffect DEF StaleFrom
  <2>4. /\ seq = node.rs.next_seq /\ rs.next_seq = WrapAdd(node.rs.next_seq, 1)
        /\ rs.buffer = node.rs.buffer /\ rs.state = node.rs.state
    BY <1>5, <1>9
  <2> HIDE DEF rs
  <2> QED
    BY <1>1, <1>2, <1>5, <2>1, <2>3, <2>4, ApplyInv
<1> QED
  BY <1>5, <1>7, <1>8, <1>9

(* Each message of the queue.                                              *)
LEMMA HandleMessageKept ==
  ASSUME ViewInv, FewMessages', IInv', HandleMessage
  PROVE  ViewInv' /\ Kept
<1> DEFINE m == Head(queue)
<1>1. Sound(node) /\ EnvTypes
  BY DEF ViewInv, IInv
<1>2. queue # <<>> /\ queue' = Tail(queue) /\ UNCHANGED <<config, edge, clock, net, held>>
  BY DEF HandleMessage
<1>3. /\ m \in Messages /\ m \in InFlight
      /\ queue' \in Seq(Messages) /\ Elements(queue') \subseteq Elements(queue)
  BY <1>1, <1>2, NextQueued
<1>4. ASSUME StaleFrom(node', node), UNCHANGED view
      PROVE  ViewInv' /\ Kept
  BY <1>2, <1>3, <1>4, QuietInv
<1>5. StaleFrom(node, node)
  BY <1>1 DEF StaleFrom
<1>6. \/ HandleUndecodable(m) \/ HandleBirth(m) \/ HandleDeath(m)
      \/ HandleIgnored(m) \/ HandleStale(m) \/ HandleUnordered(m)
      \/ HandleOrdered(m) \/ HandleOffline(m)
  BY DEF HandleMessage
<1> HIDE DEF m
<1>7. CASE HandleUndecodable(m)
  BY <1>1, <1>4, <1>7, IssueRebirthEffect DEF HandleUndecodable
<1>8. CASE HandleBirth(m)
  <2>1. CASE Done(node) /\ UNCHANGED view
    BY <1>4, <1>5, <2>1 DEF Done
  <2>2. CASE IssueRebirth(node, "InvalidPayload") /\ UNCHANGED view
    BY <1>1, <1>4, <2>2, IssueRebirthEffect
  <2>3. CASE /\ Newer(m) /\ Done(Born(node, m))
             /\ view' = [birth |-> m.e, last |-> 0, of |-> m.e]
    BY <1>2, <1>3, <1>8, <2>3, BirthKept DEF Done, HandleBirth
  <2> QED
    BY <1>8, <2>1, <2>2, <2>3 DEF HandleBirth
<1>9. CASE HandleDeath(m)
  <2> DEFINE ts == IF m.ts = Unstamped THEN clock ELSE m.ts
             off == CancelTimer(node)
             nd == SetStale(off, ts)
  <2>1. StaleFrom(nd, node)
    <3>1. StaleFrom(off, node) /\ Sound(off)
      BY <1>1, CancelTimerEffect, CancelTimerSound
    <3> HIDE DEF off, ts
    <3> QED
      BY <3>1, SetStaleEffect, StaleTwice
  <2>2. (IF Expected(m) THEN Done(nd) ELSE IssueRebirth(nd, "OutOfSyncBdSeq")) /\ UNCHANGED view
    BY <1>9 DEF HandleDeath
  <2> HIDE DEF nd
  <2>3. Sound(nd)
    BY <2>1 DEF StaleFrom
  <2>4. StaleFrom(node', nd)
    BY <2>2, <2>3, IssueRebirthEffect DEF Done, StaleFrom
  <2> QED
    BY <1>4, <2>1, <2>2, <2>4, StaleTwice
<1>10. CASE HandleIgnored(m)
  BY <1>4, <1>5, <1>10 DEF HandleIgnored, Done
<1>11. CASE HandleStale(m)
  BY <1>1, <1>4, <1>11, IssueRebirthEffect DEF HandleStale
<1>12. CASE HandleUnordered(m)
  <2>1. /\ node.life = "Birthed" /\ ~config.reorder /\ Sequenced(m) /\ ~Old(m)
        /\ IssueRebirth(Applied(node, m), ApplyError(node, m)) /\ Record(m)
    BY <1>12 DEF HandleUnordered
  <2>2. m.e >= view.birth
    BY <1>3, <2>1, NotOld
  <2>3. node = [node EXCEPT !.rs = node.rs]
    BY <1>1 DEF Sound, IsNode
  <2>4. StaleFrom(node', Applied(node, m))
    BY <1>1, <2>1, AppliedEffect, IssueRebirthEffect
  <2>5. WellFormed(node.rs, Messages)
    BY <1>1 DEF EnvTypes
  <2>6. Applied(node, m) = Applied([node EXCEPT !.rs = node.rs], m)
    BY <2>3
  <2> QED
    BY <1>2, <1>3, <2>1, <2>2, <2>4, <2>5, <2>6, ApplyInv
<1>13. CASE HandleOrdered(m)
  BY <1>2, <1>3, <1>13, OrderedKept
<1>14. CASE HandleOffline(m)
  BY <1>1, <1>4, <1>14, SetStaleEffect DEF HandleOffline, Done
<1> QED
  BY <1>6, <1>7, <1>8, <1>9, <1>10, <1>11, <1>12, <1>13, <1>14

(* What drain() finds is the message that was missing.                     *)
LEMMA DrainMessageKept ==
  ASSUME ViewInv, FewMessages', IInv', DrainMessage
  PROVE  ViewInv' /\ Kept
<1>1. /\ Sound(node) /\ node.life = "Birthed" /\ EnvTypes /\ Expecting(node, view)
      /\ UNCHANGED <<config, edge, clock, net, held, queue>>
  BY DEF ViewInv, IInv, DrainMessage
<1>2. PICK k \in SeqNo :
        /\ CanPop(node.rs, k)
        /\ LET m == node.rs.buffer[k]
               nd == [node EXCEPT !.rs = Pop(@, k)]
               error == ApplyError(node, m)
           IN /\ IF error = Ok THEN node' = Applied(nd, m) /\ pc' = pc
                 ELSE IssueRebirth(Applied(nd, m), error)
              /\ Record(m)
  BY DEF DrainMessage
<1> DEFINE m == node.rs.buffer[k]
           rs == Pop(node.rs, k)
           nd == Applied([node EXCEPT !.rs = rs], m)
<1>3. WellFormed(node.rs, Messages) /\ queue' \in Seq(Messages)
      /\ Elements(queue') \subseteq Elements(queue)
  BY <1>1 DEF EnvTypes
<1>4. /\ WellFormed(rs, Messages) /\ k \in DOMAIN node.rs.buffer
      /\ WrapAdd(k, node.rs.state) = node.rs.next_seq
      /\ rs.next_seq = WrapAdd(node.rs.next_seq, 1)
      /\ \A j \in DOMAIN rs.buffer :
           /\ j \in DOMAIN node.rs.buffer /\ rs.buffer[j] = node.rs.buffer[j]
           /\ rs.state = node.rs.state
  BY <1>2, <1>3, PopEffect
<1>5. m \in InFlight
  BY <1>4 DEF InFlight, Elements
<1>6. /\ Sequenced(m) /\ m.e >= view.birth
      /\ config.reorder => m.n % SeqMod = node.rs.next_seq
  BY <1>1, <1>4 DEF Expecting
<1>7. Record(m)
  BY <1>2
<1>8. StaleFrom(node', nd)
  <2>1. node' = nd \/ IssueRebirth(nd, ApplyError(node, m))
    BY <1>2
  <2>2. Sound(nd)
    <3> DEFINE b == [node EXCEPT !.rs = rs]
    <3>1. Sound(b) /\ b.life = "Birthed"
      BY <1>1, BufferEffect
    <3> HIDE DEF b
    <3>2. Sound(Applied(b, m))
      BY <3>1, AppliedEffect
    <3> QED
      BY <3>2 DEF b
  <2> HIDE DEF nd
  <2> QED
    BY <2>1, <2>2, IssueRebirthEffect DEF StaleFrom
<1>9. nd = Applied([node EXCEPT !.rs = rs], m)
  OBVIOUS
<1> HIDE DEF m, rs, nd
<1> QED
  BY <1>1, <1>3, <1>4, <1>5, <1>6, <1>7, <1>8, <1>9, ApplyInv

(* The rest of the actor and the timers.                                   *)
LEMMA OtherActorKept ==
  ASSUME ViewInv, FewMessages', IInv',
         DrainEnd \/ TakeRebirth \/ Publish \/ PublishFails \/ TimerFires \/ CooldownEnds
  PROVE  ViewInv' /\ Kept
<1>1. Sound(node) /\ Sound(node') /\ queue \in Seq(Messages)
  BY DEF ViewInv, IInv, EnvTypes
<1>2. UNCHANGED <<config, edge, clock, net, held, queue, view>>
  BY DEF DrainEnd, TakeRebirth, Publish, PublishFails, TimerFires, CooldownEnds
<1>3. StaleFrom(node', node)
  <2>1. CASE DrainEnd
    BY <1>1, <2>1, CancelTimerEffect DEF DrainEnd, Done, AfterDrain, StaleFrom
  <2>2. CASE TakeRebirth
    BY <1>1, <2>2, IssueRebirthEffect DEF TakeRebirth
  <2>3. CASE Publish \/ PublishFails
    BY <1>1, <2>3 DEF Publish, PublishFails, StaleFrom
  <2>4. CASE TimerFires \/ CooldownEnds
    BY <1>1, <2>4 DEF TimerFires, CooldownEnds, StaleFrom, Sound, IsNode
  <2> QED
    BY <2>1, <2>2, <2>3, <2>4
<1> QED
  BY <1>1, <1>2, <1>3, QuietInv

-----------------------------------------------------------------------------
(* Steps of the environment: the dispatcher, the network, the edge node.   *)

(* One element of a sequence less, or one more.                            *)
LEMMA RemoveElements ==
  ASSUME NEW S, NEW s \in Seq(S), NEW i \in DOMAIN s
  PROVE  RemoveNth(s, i) \in Seq(S) /\ Elements(RemoveNth(s, i)) \subseteq Elements(s)
<1>1. /\ Len(s) \in Nat /\ i \in 1 .. Len(s) /\ DOMAIN s = 1 .. Len(s)
      /\ DOMAIN RemoveNth(s, i) = 1 .. Len(s) - 1
  BY DEF RemoveNth
<1>2. ASSUME NEW j \in 1 .. Len(s) - 1
      PROVE  \E k \in DOMAIN s : RemoveNth(s, i)[j] = s[k]
  <2>1. j \in DOMAIN s /\ j + 1 \in DOMAIN s
    BY <1>1
  <2> QED
    BY <2>1 DEF RemoveNth
<1>3. \A j \in 1 .. Len(s) - 1 : RemoveNth(s, i)[j] \in S
  BY <1>2
<1>4. RemoveNth(s, i) \in [1 .. Len(s) - 1 -> S] /\ Len(s) - 1 \in Nat
  BY <1>1, <1>3 DEF RemoveNth
<1>5. RemoveNth(s, i) \in Seq(S)
  BY <1>4
<1> QED
  BY <1>1, <1>2, <1>5 DEF Elements

LEMMA AppendElements ==
  ASSUME NEW S, NEW s \in Seq(S), NEW m \in S
  PROVE  Append(s, m) \in Seq(S) /\ Elements(Append(s, m)) = Elements(s) \cup {m}
<1>1. /\ Append(s, m) \in Seq(S) /\ Len(s) \in Nat /\ DOMAIN s = 1 .. Len(s)
      /\ DOMAIN Append(s, m) = 1 .. Len(s) + 1
      /\ \A i \in 1 .. Len(s) : Append(s, m)[i] = s[i]
      /\ Append(s, m)[Len(s) + 1] = m
  OBVIOUS
<1>2. Len(s) + 1 \in 1 .. Len(s) + 1 /\ 1 .. Len(s) + 1 = (1 .. Len(s)) \cup {Len(s) + 1}
  BY <1>1
<1> QED
  BY <1>1, <1>2 DEF Elements

LEMMA ConcatElements ==
  ASSUME NEW S, NEW s \in Seq(S), NEW t \in Seq(S)
  PROVE  s \o t \in Seq(S) /\ Elements(s \o t) \subseteq Elements(s) \cup Elements(t)
<1>1. /\ s \o t \in Seq(S) /\ Len(s) \in Nat /\ Len(t) \in Nat
      /\ DOMAIN s = 1 .. Len(s) /\ DOMAIN t = 1 .. Len(t)
      /\ DOMAIN (s \o t) = 1 .. Len(s) + Len(t)
      /\ \A i \in 1 .. Len(s) + Len(t) :
            (s \o t)[i] = IF i <= Len(s) THEN s[i] ELSE t[i - Len(s)]
  BY ConcatProperties
<1>2. ASSUME NEW i \in 1 .. Len(s) + Len(t)
      PROVE  (s \o t)[i] \in Elements(s) \cup Elements(t)
  <2>1. CASE i <= Len(s)
    BY <1>1, <2>1 DEF Elements
  <2>2. CASE i > Len(s)
    <3>1. i - Len(s) \in DOMAIN t /\ (s \o t)[i] = t[i - Len(s)]
      BY <1>1, <2>2
    <3> QED
      BY <3>1 DEF Elements
  <2> QED
    BY <1>1, <2>1, <2>2
<1> QED
  BY <1>1, <1>2 DEF Elements

LEMMA SingleElement ==
  ASSUME NEW S, NEW m \in S
  PROVE  <<m>> \in Seq(S) /\ Elements(<<m>>) = {m} /\ Elements(<<>>) = {} /\ <<>> \in Seq(S)
BY DEF Elements

LEMMA OutsideKept ==
  ASSUME ViewInv, EnvTypes', FewMessages', IInv', UNCHANGED <<config, view, node>>,
         clock' >= clock, edge'.birth >= edge.birth,
         \A m \in InFlight' : Stamped(m) => m \in InFlight \/ New(m)
  PROVE  ViewInv' /\ Kept
<1>1. ViewInv'
  BY OutsideInv
<1>2. Kept
  BY DEF Kept, Promise!vars, Alive
<1> QED
  BY <1>1, <1>2

(* The dispatcher passes on what it is handed, or nothing; only a death is *)
(* given another timestamp.                                                *)
LEMMA SendMessageEffect ==
  ASSUME EnvTypes, NEW m \in Messages, SendMessage(m)
  PROVE  /\ queue' \in Seq(Messages) /\ held' \in Seq(Messages)
         /\ Elements(queue') \cup Elements(held')
                \subseteq Elements(queue) \cup Elements(held) \cup {m}
<1>1. queue \in Seq(Messages) /\ held \in Seq(Messages)
  BY DEF EnvTypes
<1>2. CASE queue' = Append(queue, m) /\ UNCHANGED held
  BY <1>1, <1>2, AppendElements
<1>3. CASE held' = <<m>> /\ UNCHANGED queue
  BY <1>1, <1>3, SingleElement
<1> QED
  BY <1>2, <1>3 DEF SendMessage

LEMMA DispatchEffect ==
  ASSUME EnvTypes, NEW m \in Messages, NEW raw, Dispatch(m, raw)
  PROVE  /\ queue' \in Seq(Messages) /\ held' \in Seq(Messages)
         /\ \A x \in Elements(queue') \cup Elements(held') :
               Stamped(x) => x \in Elements(queue) \cup Elements(held) \cup {m}
<1> DEFINE x == IF m.kind = "NDEATH" /\ ~raw THEN [m EXCEPT !.ts = clock] ELSE m
<1>1. queue \in Seq(Messages) /\ held \in Seq(Messages) /\ clock \in Nat
  BY DEF EnvTypes
<1>2. x \in Messages
  BY <1>1 DEF Messages
<1>3. Stamped(x) => x = m
  <2>1. m.kind = "NDEATH" => [m EXCEPT !.ts = clock].kind = "NDEATH"
    BY DEF Messages
  <2> QED
    BY <2>1 DEF Stamped, Sequenced
<1>4. UNCHANGED <<queue, held>> \/ SendMessage(x)
  BY DEF Dispatch
<1> HIDE DEF x
<1>5. CASE UNCHANGED <<queue, held>>
  BY <1>1, <1>5
<1>6. CASE SendMessage(x)
  BY <1>2, <1>3, <1>6, SendMessageEffect
<1> QED
  BY <1>4, <1>5, <1>6

LEMMA PollKept ==
  ASSUME ViewInv, FewMessages', IInv', NEW i \in DOMAIN net, NEW raw,
         PollMessage(i, raw) \/ PollDuplicate(i, raw)
  PROVE  ViewInv' /\ Kept
<1>1. EnvTypes /\ net \in Seq(Messages) /\ net[i] \in Messages /\ net[i] \in Elements(net)
  BY DEF ViewInv, EnvTypes, Elements
<1>2. /\ Dispatch(net[i], raw) /\ UNCHANGED <<config, node, view, edge, clock>>
      /\ net' = RemoveNth(net, i) \/ net' = net
  BY DEF PollMessage, PollDuplicate
<1>3. net' \in Seq(Messages) /\ Elements(net') \subseteq Elements(net)
  BY <1>1, <1>2, RemoveElements
<1>4. /\ queue' \in Seq(Messages) /\ held' \in Seq(Messages)
      /\ \A x \in Elements(queue') \cup Elements(held') :
            Stamped(x) => x \in Elements(queue) \cup Elements(held) \cup {net[i]}
  BY <1>1, <1>2, DispatchEffect
<1>5. EnvTypes'
  BY <1>1, <1>2, <1>3, <1>4 DEF EnvTypes
<1>6. \A x \in InFlight' : Stamped(x) => x \in InFlight
  BY <1>1, <1>2, <1>3, <1>4 DEF InFlight
<1>7. clock' >= clock /\ edge'.birth >= edge.birth
  BY <1>1, <1>2 DEF EnvTypes
<1> QED
  BY <1>2, <1>5, <1>6, <1>7, OutsideKept

LEMMA UnblockKept ==
  ASSUME ViewInv, FewMessages', IInv', Unblock
  PROVE  ViewInv' /\ Kept
<1>1. /\ EnvTypes /\ UNCHANGED <<config, node, view, edge, net, clock>>
      /\ held # <<>> /\ queue' = Append(queue, held[1]) /\ held' = <<>>
  BY DEF ViewInv, Unblock
<1>2. queue \in Seq(Messages) /\ held \in Seq(Messages)
  BY <1>1 DEF EnvTypes
<1>3. held[1] \in Messages /\ held[1] \in Elements(held)
  BY <1>1, <1>2 DEF Elements
<1>4. /\ queue' \in Seq(Messages) /\ Elements(queue') = Elements(queue) \cup {held[1]}
      /\ held' \in Seq(Messages) /\ Elements(held') = {}
  <2>1. queue' \in Seq(Messages) /\ Elements(queue') = Elements(queue) \cup {held[1]}
    BY <1>1, <1>2, <1>3, AppendElements
  <2>2. held' \in Seq(Messages) /\ Elements(held') = {}
    BY <1>1, <1>3, SingleElement
  <2> QED
    BY <2>1, <2>2
<1>5. EnvTypes'
  BY <1>1, <1>4 DEF EnvTypes
<1>6. \A x \in InFlight' : x \in InFlight
  BY <1>1, <1>3, <1>4 DEF InFlight
<1>7. clock' >= clock /\ edge'.birth >= edge.birth
  BY <1>1 DEF EnvTypes
<1> QED
  BY <1>1, <1>5, <1>6, <1>7, OutsideKept

LEMMA PollOfflineKept ==
  ASSUME ViewInv, FewMessages', IInv', PollOffline
  PROVE  ViewInv' /\ Kept
<1> DEFINE m == Message("Offline", 0, 0, NoDevice, clock, Ok)
<1>1. /\ EnvTypes /\ UNCHANGED <<config, node, view, edge, clock>> /\ net' = <<>>
      /\ SendMessage(m) \/ UNCHANGED <<queue, held>>
  BY DEF ViewInv, PollOffline
<1>2. m \in Messages /\ ~Stamped(m)
  BY <1>1 DEF Message, Messages, EnvTypes, Stamped, Sequenced
<1> HIDE DEF m
<1>3. /\ queue' \in Seq(Messages) /\ held' \in Seq(Messages)
      /\ Elements(queue') \cup Elements(held')
             \subseteq Elements(queue) \cup Elements(held) \cup {m}
  BY <1>1, <1>2, SendMessageEffect DEF EnvTypes
<1>4. net' \in Seq(Messages) /\ Elements(net') = {}
  BY <1>1, <1>2, SingleElement
<1>5. EnvTypes'
  BY <1>1, <1>3, <1>4 DEF EnvTypes
<1>6. \A x \in InFlight' : Stamped(x) => x \in InFlight
  BY <1>1, <1>2, <1>3, <1>4 DEF InFlight
<1>7. clock' >= clock /\ edge'.birth >= edge.birth
  BY <1>1 DEF EnvTypes
<1> QED
  BY <1>1, <1>5, <1>6, <1>7, OutsideKept

LEMMA LoseKept ==
  ASSUME ViewInv, FewMessages', IInv', NEW i \in DOMAIN net, Lose(i)
  PROVE  ViewInv' /\ Kept
<1>1. /\ EnvTypes /\ net \in Seq(Messages) /\ net' = RemoveNth(net, i)
      /\ UNCHANGED <<config, node, queue, held, view, edge, clock>>
  BY DEF ViewInv, EnvTypes, Lose, host
<1>2. net' \in Seq(Messages) /\ Elements(net') \subseteq Elements(net)
  BY <1>1, RemoveElements
<1>3. EnvTypes'
  BY <1>1, <1>2 DEF EnvTypes
<1>4. \A x \in InFlight' : x \in InFlight
  BY <1>1, <1>2 DEF InFlight
<1>5. clock' >= clock /\ edge'.birth >= edge.birth
  BY <1>1 DEF EnvTypes
<1> QED
  BY <1>1, <1>3, <1>4, <1>5, OutsideKept

(* What an EdgePublishes or an EdgeBirth adds to the network.              *)
LEMMA PublishedKept ==
  ASSUME ViewInv, FewMessages', IInv', NEW ms \in Seq(Messages), net' = net \o ms,
         UNCHANGED <<config, node, queue, held, view>>, clock' \in Nat, clock' >= clock,
         edge' \in [alive : BOOLEAN, asked : BOOLEAN, bd : Int, birth : Nat, sent : Nat,
                    up : SUBSET Device],
         IsFiniteSet(edge'.up), edge'.birth >= edge.birth,
         \A x \in Elements(ms) : Stamped(x) => New(x)
  PROVE  ViewInv' /\ Kept
<1>1. EnvTypes /\ net \in Seq(Messages)
  BY DEF ViewInv, EnvTypes
<1>2. net' \in Seq(Messages) /\ Elements(net') \subseteq Elements(net) \cup Elements(ms)
  BY <1>1, ConcatElements
<1>3. EnvTypes'
  BY <1>1, <1>2 DEF EnvTypes
<1>4. \A x \in InFlight' : Stamped(x) => x \in InFlight \/ New(x)
  BY <1>2 DEF InFlight
<1> QED
  BY <1>3, <1>4, OutsideKept

(* A message, whether of this session or of the next.                      *)
LEMMA MessageType ==
  ASSUME NEW kind \in {"NBIRTH", "NDEATH", "NDATA", "DBIRTH", "DDEATH", "DDATA", "Offline"},
         NEW e \in Nat, NEW n \in Nat, NEW dev \in Device \cup {NoDevice},
         NEW ts \in Nat \cup {Unstamped}, NEW err \in Faults \cup {Ok}, NEW bd \in Int,
         NEW m, m = [kind |-> kind, e |-> e, n |-> n, dev |-> dev, ts |-> ts, err |-> err,
                     bd |-> bd]
  PROVE  /\ m \in Messages
         /\ m.kind = kind /\ m.e = e /\ m.n = n /\ m.ts = ts
BY DEF Messages

LEMMA MessageFields ==
  ASSUME NEW kind, NEW e, NEW n, NEW dev, NEW ts, NEW err, NEW bd
  PROVE  /\ Message(kind, e, n, dev, ts, err) =
                [kind |-> kind, e |-> e, n |-> n, dev |-> dev, ts |-> ts, err |-> err,
                 bd |-> edge.bd]
         /\ [Message(kind, e, n, dev, ts, err) EXCEPT !.bd = bd] =
                [kind |-> kind, e |-> e, n |-> n, dev |-> dev, ts |-> ts, err |-> err,
                 bd |-> bd]
BY DEF Message

(* The edge node's record with some of its fields set.                     *)
Edges == [alive : BOOLEAN, asked : BOOLEAN, bd : Int, birth : Nat, sent : Nat,
          up : SUBSET Device]

LEMMA EdgeAsked ==
  ASSUME edge \in Edges, NEW asked \in BOOLEAN
  PROVE  /\ [edge EXCEPT !.asked = asked] \in Edges
         /\ [edge EXCEPT !.asked = asked].birth = edge.birth
         /\ [edge EXCEPT !.asked = asked].up = edge.up
BY DEF Edges

LEMMA EdgeFields ==
  ASSUME edge \in Edges, NEW sent \in Nat, NEW up \in SUBSET Device
  PROVE  /\ [edge EXCEPT !.sent = sent, !.up = up] \in Edges
         /\ [edge EXCEPT !.sent = sent, !.up = up].birth = edge.birth
         /\ [edge EXCEPT !.sent = sent, !.up = up].sent = sent
         /\ [edge EXCEPT !.sent = sent, !.up = up].up = up
         /\ [edge EXCEPT !.sent = sent] = [edge EXCEPT !.sent = sent, !.up = edge.up]
BY DEF Edges

(* An NBIRTH and its DBIRTHs, numbered from 1 on.                           *)
LEMMA BirthsNew ==
  ASSUME EnvTypes, NEW bd \in Int, NEW up \in SUBSET Device, IsFiniteSet(up),
         NEW err \in Faults \cup {Ok}, EdgeBirth(bd, up, err)
  PROVE  /\ Births(bd, up, err) \in Seq(Messages)
         /\ \A x \in Elements(Births(bd, up, err)) : New(x)
<1> DEFINE N == Cardinality(up)
           e == edge.birth + 1
           ts == clock + 1
           first == [Message("NBIRTH", e, 0, NoDevice, ts, err) EXCEPT !.bd = bd]
           Covers(s) == {s[i] : i \in DOMAIN s} = up
           devs == CHOOSE s \in [1 .. N -> up] : Covers(s)
           D(i) == [Message("DBIRTH", e, i, devs[i], ts, Ok) EXCEPT !.bd = bd]
           rest == [i \in DOMAIN devs |-> D(i)]
<1>1. /\ edge.birth \in Nat /\ clock \in Nat /\ edge.bd \in Int
      /\ edge'.birth = e /\ edge'.sent = N /\ clock' = ts
      /\ edge'.birth > edge.birth /\ clock' > clock
  BY DEF EnvTypes, EdgeBirth
<1>2. N \in Nat /\ devs \in [1 .. N -> up]
  <2>1. N \in Nat /\ ExistsBijection(1 .. N, up)
    BY FS_CardinalityType
  <2>2. PICK f : f \in Bijection(1 .. N, up)
    BY <2>1 DEF ExistsBijection
  <2>3. f \in [1 .. N -> up] /\ Covers(f)
    BY <2>2 DEF Bijection, Surjection, Injection
  <2>4. \E s \in [1 .. N -> up] : Covers(s)
    BY <2>3
  <2> HIDE DEF Covers, N
  <2> QED
    BY <2>1, <2>4
<1>3. Births(bd, up, err) = <<first>> \o rest
  BY DEF Births
<1> HIDE DEF devs
<1>4. /\ first = [kind |-> "NBIRTH", e |-> e, n |-> 0, dev |-> NoDevice, ts |-> ts, err |-> err,
                  bd |-> bd]
      /\ \A i : D(i) = [kind |-> "DBIRTH", e |-> e, n |-> i, dev |-> devs[i], ts |-> ts,
                        err |-> Ok, bd |-> bd]
  BY MessageFields
<1> HIDE DEF first, D
<1>5. first \in Messages /\ New(first)
  <2>1. /\ first \in Messages /\ first.kind = "NBIRTH" /\ first.e = e /\ first.ts = ts
    <3>1. e \in Nat /\ ts \in Nat
      BY <1>1
    <3> HIDE DEF e, ts
    <3> QED
      BY <1>4, <3>1, MessageType
  <2> HIDE DEF e, ts
  <2> QED
    BY <1>1, <2>1 DEF New, Sequenced
<1>6. ASSUME NEW i \in 1 .. N
      PROVE  D(i) \in Messages /\ New(D(i))
  <2>1. devs[i] \in Device /\ i \in Nat /\ i >= 1 /\ i <= N
    BY <1>2
  <2>2. D(i) \in Messages /\ D(i).kind = "DBIRTH" /\ D(i).e = e /\ D(i).ts = ts /\ D(i).n = i
    <3>1. /\ e \in Nat /\ ts \in Nat \cup {Unstamped} /\ devs[i] \in Device \cup {NoDevice}
          /\ Ok \in Faults \cup {Ok} /\ i \in Nat
      BY <1>1, <2>1
    <3>2. D(i) = [kind |-> "DBIRTH", e |-> e, n |-> i, dev |-> devs[i], ts |-> ts,
                  err |-> Ok, bd |-> bd]
      BY <1>4
    <3> HIDE DEF e, ts
    <3>3. D(i) \in Messages
      BY <1>1, <3>1, <3>2 DEF Messages
    <3> QED
      BY <3>2, <3>3
  <2> HIDE DEF e, ts
  <2>3. New(D(i))
    BY <1>1, <2>1, <2>2 DEF New
  <2> QED
    BY <2>2, <2>3
<1>7. rest \in Seq(Messages) /\ \A x \in Elements(rest) : New(x)
  <2>1. DOMAIN devs = 1 .. N
    BY <1>2
  <2>2. rest \in [1 .. N -> Messages]
    BY <1>6, <2>1
  <2>3. rest \in Seq(Messages)
    BY <1>2, <2>2
  <2>4. \A x \in Elements(rest) : \E i \in 1 .. N : x = D(i)
    BY <2>1 DEF Elements
  <2> QED
    BY <1>6, <2>3, <2>4
<1> HIDE DEF rest
<1>8. <<first>> \in Seq(Messages) /\ Elements(<<first>>) = {first}
  BY <1>5, SingleElement
<1>9. /\ <<first>> \o rest \in Seq(Messages)
      /\ Elements(<<first>> \o rest) \subseteq Elements(<<first>>) \cup Elements(rest)
  BY <1>7, <1>8, ConcatElements
<1>10. \A x \in Elements(<<first>> \o rest) : New(x)
  BY <1>5, <1>7, <1>8, <1>9
<1> QED
  BY <1>3, <1>9, <1>10

LEMMA EdgeBirthKept ==
  ASSUME ViewInv, FewMessages', IInv', NEW bd \in Int, NEW up \in SUBSET Device,
         IsFiniteSet(up), NEW err \in Faults \cup {Ok}, EdgeBirth(bd, up, err),
         UNCHANGED host
  PROVE  ViewInv' /\ Kept
<1>1. EnvTypes /\ UNCHANGED <<config, node, queue, held, view>>
  BY DEF ViewInv, host
<1> DEFINE ms == Births(bd, up, err)
<1>2. ms \in Seq(Messages) /\ \A x \in Elements(ms) : New(x)
  BY <1>1, BirthsNew
<1>3. net' = net \o ms
  BY DEF EdgeBirth
<1>4. /\ clock' \in Nat /\ clock' >= clock
      /\ edge' \in [alive : BOOLEAN, asked : BOOLEAN, bd : Int, birth : Nat, sent : Nat,
                    up : SUBSET Device]
      /\ IsFiniteSet(edge'.up) /\ edge'.birth >= edge.birth
  <2>1. Cardinality(up) \in Nat
    BY FS_CardinalityType
  <2>2. edge.birth \in Nat /\ clock \in Nat
    BY <1>1 DEF EnvTypes
  <2> QED
    BY <2>1, <2>2 DEF EdgeBirth
<1> HIDE DEF ms
<1> QED
  BY <1>1, <1>2, <1>3, <1>4, PublishedKept

LEMMA EdgePublishesKept ==
  ASSUME ViewInv, FewMessages', IInv', NEW kind \in {"NDATA", "DDATA", "DBIRTH", "DDEATH"},
         NEW dev \in Device \cup {NoDevice}, NEW err \in Faults \cup {Ok},
         EdgePublishes(kind, dev, err)
  PROVE  ViewInv' /\ Kept
<1> DEFINE m == Message(kind, edge.birth, edge.sent + 1, dev, clock + 1, err)
<1>1. /\ EnvTypes /\ UNCHANGED <<config, node, queue, held, view>> /\ net \in Seq(Messages)
      /\ clock \in Nat /\ edge.birth \in Nat /\ edge.sent \in Nat /\ edge.bd \in Int
      /\ edge.up \in SUBSET Device /\ IsFiniteSet(edge.up)
  BY DEF ViewInv, EnvTypes, EdgePublishes, host
<1>2. net' = Append(net, m) /\ clock' = clock + 1
  BY DEF EdgePublishes
<1>3. \E up \in {edge.up, edge.up \cup {dev}, edge.up \ {dev}} :
        up \in SUBSET Device /\ edge' = [edge EXCEPT !.sent = edge.sent + 1, !.up = up]
  <2>1. edge.sent + 1 \in Nat
    BY <1>1
  <2>2. /\ edge \in Edges
        /\ [edge EXCEPT !.sent = edge.sent + 1] =
                [edge EXCEPT !.sent = edge.sent + 1, !.up = edge.up]
    BY <1>1, <2>1, EdgeFields DEF EnvTypes, Edges
  <2>3. \/ edge' = [edge EXCEPT !.sent = edge.sent + 1]
        \/ dev \in Device /\ edge' = [edge EXCEPT !.sent = edge.sent + 1, !.up = edge.up \cup {dev}]
        \/ edge' = [edge EXCEPT !.sent = edge.sent + 1, !.up = edge.up \ {dev}]
    BY DEF EdgePublishes
  <2> QED
    BY <1>1, <2>2, <2>3
<1>4. /\ edge' \in Edges /\ edge'.birth = edge.birth /\ edge'.sent = edge.sent + 1
      /\ IsFiniteSet(edge'.up)
  <2>1. PICK up \in {edge.up, edge.up \cup {dev}, edge.up \ {dev}} :
          up \in SUBSET Device /\ edge' = [edge EXCEPT !.sent = edge.sent + 1, !.up = up]
    BY <1>3
  <2>2. IsFiniteSet(up)
    BY <1>1, <2>1, FS_AddElement, FS_RemoveElement
  <2>3. edge \in Edges /\ edge.sent + 1 \in Nat
    BY <1>1 DEF EnvTypes, Edges
  <2> QED
    BY <2>1, <2>2, <2>3, EdgeFields
<1>5. m \in Messages /\ New(m)
  <2>1. m = [kind |-> kind, e |-> edge.birth, n |-> edge.sent + 1, dev |-> dev,
             ts |-> clock + 1, err |-> err, bd |-> edge.bd]
    BY DEF Message
  <2> HIDE DEF m
  <2>2. /\ edge.sent + 1 \in Nat /\ clock + 1 \in Nat \cup {Unstamped}
        /\ kind \in {"NBIRTH", "NDEATH", "NDATA", "DBIRTH", "DDEATH", "DDATA", "Offline"}
    BY <1>1
  <2>3. m \in Messages
    BY <1>1, <2>1, <2>2 DEF Messages
  <2>4. m.kind = kind /\ m.e = edge.birth /\ m.n = edge.sent + 1 /\ m.ts = clock + 1
    BY <2>1
  <2> QED
    BY <1>1, <1>2, <1>4, <2>3, <2>4 DEF New
<1> HIDE DEF m
<1>6. net' = net \o <<m>> /\ <<m>> \in Seq(Messages) /\ Elements(<<m>>) = {m}
  BY <1>1, <1>2, <1>5, AppendIsConcat, SingleElement
<1>7. /\ \A x \in Elements(<<m>>) : New(x)
      /\ clock' \in Nat /\ clock' >= clock /\ edge'.birth >= edge.birth
  BY <1>1, <1>2, <1>4, <1>5, <1>6
<1> QED
  BY <1>1, <1>4, <1>6, <1>7, PublishedKept DEF Edges

LEMMA EdgeDiesKept ==
  ASSUME ViewInv, FewMessages', IInv', EdgeDies
  PROVE  ViewInv' /\ Kept
<1> DEFINE m == Message("NDEATH", edge.birth, 0, NoDevice, Unstamped, Ok)
<1>1. /\ EnvTypes /\ UNCHANGED <<config, node, queue, held, view, clock>>
      /\ net \in Seq(Messages) /\ clock \in Nat /\ edge.birth \in Nat /\ edge.bd \in Int
      /\ net' = Append(net, m)
      /\ edge' = [edge EXCEPT !.alive = FALSE, !.asked = FALSE, !.up = {}]
  BY DEF ViewInv, EnvTypes, EdgeDies, host
<1>2. m \in Messages /\ ~Stamped(m)
  <2>1. m = [kind |-> "NDEATH", e |-> edge.birth, n |-> 0, dev |-> NoDevice,
             ts |-> Unstamped, err |-> Ok, bd |-> edge.bd]
    BY DEF Message
  <2> HIDE DEF m
  <2>2. /\ Unstamped \in Nat \cup {Unstamped} /\ Ok \in Faults \cup {Ok}
        /\ NoDevice \in Device \cup {NoDevice} /\ 0 \in Nat
    OBVIOUS
  <2>3. m \in Messages
    BY <1>1, <2>1, <2>2 DEF Messages
  <2>4. m.kind = "NDEATH"
    BY <2>1
  <2> QED
    BY <2>3, <2>4 DEF Stamped, Sequenced
<1> HIDE DEF m
<1>3. net' = net \o <<m>> /\ <<m>> \in Seq(Messages) /\ Elements(<<m>>) = {m}
  BY <1>1, <1>2, AppendIsConcat, SingleElement
<1>4. /\ edge' \in [alive : BOOLEAN, asked : BOOLEAN, bd : Int, birth : Nat, sent : Nat,
                    up : SUBSET Device]
      /\ edge'.birth = edge.birth /\ edge'.up = {}
  BY <1>1 DEF EnvTypes
<1>5. /\ IsFiniteSet(edge'.up) /\ clock' \in Nat /\ clock' >= clock
      /\ edge'.birth >= edge.birth /\ \A x \in Elements(<<m>>) : Stamped(x) => New(x)
  BY <1>1, <1>2, <1>3, <1>4, FS_EmptySet
<1> QED
  BY <1>1, <1>3, <1>4, <1>5, PublishedKept

LEMMA PollRequestKept ==
  ASSUME ViewInv, FewMessages', IInv', PollRequest
  PROVE  ViewInv' /\ Kept
<1>1. /\ EnvTypes /\ UNCHANGED <<config, node, queue, held, view, net, clock>>
      /\ edge' = [edge EXCEPT !.asked = edge.alive]
  BY DEF ViewInv, PollRequest
<1>2. edge' \in Edges /\ edge'.birth = edge.birth /\ edge'.up = edge.up
  <2>1. edge \in Edges /\ edge.alive \in BOOLEAN
    BY <1>1 DEF EnvTypes, Edges
  <2> QED
    BY <1>1, <2>1, EdgeAsked
<1>3. EnvTypes' /\ clock' >= clock /\ edge'.birth >= edge.birth
  <2>1. clock \in Nat /\ edge.birth \in Nat
    BY <1>1 DEF EnvTypes
  <2>2. clock' >= clock /\ edge'.birth >= edge.birth
    BY <1>1, <1>2, <2>1
  <2>3. WellFormed(node.rs, Messages)'
    BY <1>1 DEF EnvTypes
  <2>4. EnvTypes'
    <3>1. edge' \in [alive : BOOLEAN, asked : BOOLEAN, bd : Int, birth : Nat, sent : Nat,
                     up : SUBSET Device]
      BY <1>2 DEF Edges
    <3>2. IsFiniteSet(edge'.up)
      BY <1>1, <1>2 DEF EnvTypes
    <3> QED
      BY <1>1, <2>3, <3>1, <3>2 DEF EnvTypes
  <2> QED
    BY <2>2, <2>4
<1>4. \A x \in InFlight' : x \in InFlight
  BY <1>1 DEF InFlight
<1> QED
  BY <1>1, <1>3, <1>4, OutsideKept

-----------------------------------------------------------------------------
LEMMA EdgeStartsKept ==
  ASSUME ViewInv, FewMessages', IInv', NEW err \in Faults \cup {Ok}, EdgeStarts(err)
  PROVE  ViewInv' /\ Kept
<1>1. edge.bd + 1 \in Int
  BY DEF ViewInv, EnvTypes
<1>2. EdgeBirth(edge.bd + 1, {}, err) /\ UNCHANGED host
  BY DEF EdgeStarts
<1>3. {} \in SUBSET Device /\ IsFiniteSet({})
  BY FS_EmptySet
<1> QED
  BY <1>1, <1>2, <1>3, EdgeBirthKept

LEMMA EdgeRebirthsKept ==
  ASSUME ViewInv, FewMessages', IInv', EdgeRebirths
  PROVE  ViewInv' /\ Kept
<1>1. edge.bd \in Int /\ edge.up \in SUBSET Device /\ IsFiniteSet(edge.up)
  BY DEF ViewInv, EnvTypes
<1>2. EdgeBirth(edge.bd, edge.up, Ok) /\ UNCHANGED host /\ Ok \in Faults \cup {Ok}
  BY DEF EdgeRebirths
<1> QED
  BY <1>1, <1>2, EdgeBirthKept

LEMMA StutterKept ==
  ASSUME ViewInv, IInv', UNCHANGED vars
  PROVE  ViewInv' /\ Kept
<1>1. ViewInv'
  <2>1. UNCHANGED <<config, node, queue, held, view, edge, net, clock>>
    BY DEF vars, host
  <2>2. EnvTypes'
    BY <2>1 DEF ViewInv, EnvTypes
  <2>3. InFlight' = InFlight /\ Recorded' = Recorded
    BY <2>1 DEF InFlight, Recorded
  <2>4. Chronology'
    BY <2>1, <2>3 DEF ViewInv, Chronology
  <2>5. Numbered' /\ Expecting(node, view)'
    BY <2>1, <2>3 DEF ViewInv, Numbered, Expecting
  <2> QED
    BY <2>2, <2>4, <2>5 DEF ViewInv
<1>2. Kept
  BY DEF Kept, Promise!vars, Alive, vars, host
<1> QED
  BY <1>1, <1>2

LEMMA StepKept ==
  ViewInv /\ FewMessages' /\ [Next]_vars => ViewInv' /\ Kept
<1> SUFFICES ASSUME ViewInv, FewMessages', [Next]_vars
             PROVE  ViewInv' /\ Kept
  OBVIOUS
<1>0. IInv'
  BY StepInv DEF ViewInv
<1>1. CASE HandleMessage
  BY <1>0, <1>1, HandleMessageKept
<1>2. CASE DrainMessage
  BY <1>0, <1>2, DrainMessageKept
<1>3. CASE DrainEnd \/ TakeRebirth \/ Publish \/ PublishFails \/ TimerFires \/ CooldownEnds
  BY <1>0, <1>3, OtherActorKept
<1>4. CASE Unblock
  BY <1>0, <1>4, UnblockKept
<1>5. CASE Poll \/ \E i \in DOMAIN net, raw \in Raw : PollDuplicate(i, raw)
  <2>1. PICK i \in DOMAIN net, raw \in Raw : PollMessage(i, raw) \/ PollDuplicate(i, raw)
    BY <1>5 DEF Poll
  <2> QED
    BY <1>0, <2>1, PollKept
<1>6. CASE PollOffline
  BY <1>0, <1>6, PollOfflineKept
<1>7. CASE PollRequest
  BY <1>0, <1>7, PollRequestKept
<1>8. CASE \E i \in DOMAIN net : Lose(i)
  BY <1>0, <1>8, LoseKept
<1>9. CASE \E err \in Faults \cup {Ok} : EdgeStarts(err)
  BY <1>0, <1>9, EdgeStartsKept
<1>10. CASE EdgeRebirths
  BY <1>0, <1>10, EdgeRebirthsKept
<1>11. CASE EdgeDies
  BY <1>0, <1>11, EdgeDiesKept
<1>12. CASE \E kind \in {"NDATA", "DDATA", "DBIRTH", "DDEATH"},
               dev \in Device \cup {NoDevice}, err \in Faults \cup {Ok} :
                  EdgePublishes(kind, dev, err)
  BY <1>0, <1>12, EdgePublishesKept
<1>13. CASE UNCHANGED vars
  BY <1>0, <1>13, StutterKept
<1> QED
  BY <1>1, <1>2, <1>3, <1>4, <1>5, <1>6, <1>7, <1>8, <1>9, <1>10, <1>11, <1>12, <1>13
  DEF Next

LEMMA InitView ==
  Init => ViewInv /\ Promise!Init
<1> SUFFICES ASSUME Init
             PROVE  ViewInv /\ Promise!Init
  OBVIOUS
<1>1. /\ net = << >> /\ queue = << >> /\ held = << >> /\ clock = 0
      /\ view = [birth |-> 0, last |-> 0, of |-> 0]
      /\ edge = [alive |-> FALSE, asked |-> FALSE, bd |-> -1, birth |-> 0, sent |-> 0,
                 up |-> {}]
      /\ node.birth_timestamp = 0 /\ node.rs = NewResequencer /\ node.life = "Stale"
      /\ node.devices = [d \in Device |-> "unknown"]
  BY DEF Init, NewNode
<1>2. WellFormed(NewResequencer, Messages) /\ DOMAIN NewResequencer.buffer = {}
  <2>1. 0 \in SeqNo
    BY SeqModAssumption DEF SeqNo
  <2> QED
    BY <2>1, NewWellFormed
<1>3. EnvTypes
  BY <1>1, <1>2, FS_EmptySet DEF EnvTypes
<1>4. InFlight = {}
  BY <1>1, <1>2 DEF InFlight, Elements
<1>5. Chronology /\ Numbered
  BY <1>1, <1>4 DEF Chronology, Numbered
<1>6. Expecting(node, view)
  BY <1>1, <1>2 DEF Expecting
<1>7. Promise!Init
  <2>1. config.reorder \in BOOLEAN
    BY AppNodeAssumption DEF Init
  <2>2. Alive = {}
    BY <1>1 DEF Alive
  <2> QED
    BY <1>1, <2>1, <2>2 DEF Promise!Init
<1> QED
  BY <1>3, <1>5, <1>6, <1>7, InitInv DEF ViewInv

(* AppNode keeps the promise of NodeView: births are recorded in the order *)
(* they were published, only a Birthed node applies messages, none of them *)
(* of an earlier birth and, resequenced, each after the one before it,     *)
(* whatever the network reorders, loses or repeats.  Where messages are    *)
(* resequenced the edge node must not send SeqMod messages after one       *)
(* birth: a late duplicate of a number that has come round again cannot be *)
(* told from the message that is due.                                      *)
THEOREM PromiseKept == Spec /\ []FewMessages => KeepsPromise
<1>1. Init => ViewInv /\ Promise!Init
  BY InitView
<1>2. ViewInv /\ FewMessages' /\ [Next]_vars => ViewInv' /\ [Promise!Next]_(Promise!vars)
  BY StepKept DEF Kept
<1> QED
  BY <1>1, <1>2, PTL DEF Spec, KeepsPromise, Promise!Spec

=============================================================================
