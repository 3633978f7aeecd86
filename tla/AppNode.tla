------------------------------- MODULE AppNode -------------------------------
(***************************************************************************)
(* One edge node as a host application follows it: the Node actor of       *)
(* srad-app/src/generic_app.rs with its message queue, its rebirth channel *)
(* and its reorder timer, the Application that dispatches events to it,    *)
(* and, as the environment, the edge node, a network that reorders, loses  *)
(* and repeats messages, and the host's own connection.                    *)
(*                                                                         *)
(* Message n of birth e is the n-th message the edge node numbered after   *)
(* its e-th NBIRTH (n = 0).  A metric store is registered for the node and *)
(* for each device; whether it accepts a message is part of the message.   *)
(***************************************************************************)
EXTENDS Resequencer, Sequences, FiniteSets

CONSTANTS
    Device,        \* names of the edge node's devices
    Configs,       \* the configurations of the application, see Config
    Raw,           \* may the client hand over payloads encoded, decoded, or both
    QCap,          \* AppConfig::node_queue_size
    ReqCap,        \* requests the MQTT client takes before it is polled
    Window,        \* how far ahead in the network a message may overtake
    OvertakeBirth, \* may it overtake an NBIRTH of its own session
    Faults,        \* what a payload may suffer from, besides Ok
    MaxPub,        \* bound: device changes and data the edge node publishes
    MaxDeath,      \* bound: edge sessions that end
    MaxFault       \* bound: messages lost, spoilt or repeated, connections lost

Ok == "Ok"

(* In place of the device: a message of the node itself.                   *)
NoDevice == "none"

Reasons == {"InvalidPayload", "OutOfSyncBdSeq", "UnknownNode", "UnknownDevice",
            "UnknownMetric", "ReorderTimeout", "ReorderFail",
            "RecordedStateStale"}

(* AppConfig: the reasons RebirthConfig asks for a rebirth, whether its    *)
(* rebirth_cooldown is longer than zero, and resequence_messages.          *)
Config(on, cooldown, reorder) == [on |-> on, cooldown |-> cooldown, reorder |-> reorder]

(* What RebirthConfig::default enables.                                    *)
DefaultReasons == Reasons \ {"InvalidPayload"}

ASSUME AppNodeAssumption ==
    /\ Configs \subseteq [on : SUBSET Reasons, cooldown : BOOLEAN, reorder : BOOLEAN]
    /\ NoDevice \notin Device
    /\ OvertakeBirth \in BOOLEAN
    /\ Raw \subseteq BOOLEAN /\ Raw # {}
    /\ Faults \subseteq {"Undecodable", "Malformed", "InvalidValue", "UnknownMetric"}
    /\ QCap \in Nat \ {0} /\ ReqCap \in Nat \ {0} /\ Window \in Nat \ {0}
    /\ {MaxPub, MaxDeath, MaxFault} \subseteq Nat

VARIABLES
    config,    \* Node::config, the same for all nodes
    node,      \* the other fields of Node
    pc,        \* the actor: "ready", "draining" or "publishing" a rebirth NCMD
    rebirth,   \* rebirth_rx, a channel with room for one reason: <<>> or <<r>>
    queue,     \* Node::rx
    known,     \* ApplicationState::nodes has the node
    held,      \* the message send_message() waits to queue: <<>> or <<m>>
    requests,  \* rebirth NCMDs the client has taken and not yet sent
    view,      \* history: the birth recorded and the last message applied to it
    edge,      \* the edge node
    net,       \* messages published and not yet delivered, oldest first
    clock,     \* milliseconds: the timestamps of the edge node and the host
    count      \* counters of the bounded environment

host == <<config, node, pc, rebirth, queue, known, held, requests, view>>
vars == <<host, edge, net, clock, count>>

-----------------------------------------------------------------------------
(* The Node record.                                                        *)

NewNode ==
    [life |-> "Stale", birth_timestamp |-> 0, stale_timestamp |-> 0,
     bdseq |-> 0, rs |-> NewResequencer, timer |-> "none", cooling |-> FALSE,
     devices |-> [d \in Device |-> "unknown"]]

(* resequence_timeout_task: the handle stays set once the timer has fired. *)
StartTimer(nd) ==
    IF nd.timer = "none" /\ "ReorderTimeout" \in config.on
    THEN [nd EXCEPT !.timer = "armed"] ELSE nd

(* Mutant: the timer is aborted and its handle kept.                       *)
CancelTimerKeepsHandle(nd) ==
    [nd EXCEPT !.timer = IF @ = "armed" THEN "fired" ELSE @]

CancelTimer(nd) == [nd EXCEPT !.timer = "none"]

(* Mutant: the buffer keeps its messages.                                  *)
SetStaleKeepsBuffer(nd, ts) ==
    IF nd.life = "Stale" \/ ts < nd.birth_timestamp THEN nd
    ELSE [CancelTimer(nd) EXCEPT !.life = "Stale", !.stale_timestamp = ts,
            !.devices = [d \in Device |-> IF @[d] = "unknown" THEN @[d] ELSE "Stale"]]

SetStale(nd, ts) ==
    IF nd.life = "Stale" \/ ts < nd.birth_timestamp THEN nd
    ELSE [CancelTimer(nd) EXCEPT
            !.life = "Stale", !.stale_timestamp = ts, !.rs = Reset(@),
            !.devices = [d \in Device |-> IF @[d] = "unknown" THEN @[d] ELSE "Stale"]]

Born(nd, m) ==
    [CancelTimer(nd) EXCEPT
        !.life = "Birthed", !.birth_timestamp = m.ts, !.bdseq = m.bd,
        !.rs = SetNextSequence(Reset(@), 1 % SeqMod)]

(* process_in_sequence_message: the node after the message, and the error. *)
Applied(nd, m) ==
    [nd EXCEPT !.devices =
        IF m.dev \notin Device THEN @
        ELSE [@ EXCEPT ![m.dev] =
            CASE m.kind = "DBIRTH" /\ m.err = Ok                   -> "Birthed"
              [] m.kind = "DBIRTH" /\ m.err # Ok /\ @ = "unknown"  -> "Stale"
              [] m.kind = "DDEATH" /\ @ # "unknown"                -> "Stale"
              [] OTHER                                             -> @]]

ApplyError(nd, m) ==
    CASE m.kind \in {"DDEATH", "DDATA"} /\ nd.devices[m.dev] = "unknown" -> "UnknownDevice"
      [] m.kind = "DDATA" /\ nd.devices[m.dev] = "Stale" -> "RecordedStateStale"
      [] m.kind = "DDATA" /\ nd.devices[m.dev] = "Birthed" /\ m.err = "UnknownMetric"
                                                         -> "UnknownMetric"
      [] m.kind # "DDEATH" /\ m.err # Ok                 -> "InvalidPayload"
      [] OTHER                                           -> Ok

-----------------------------------------------------------------------------
Fault == count.bad + count.dup

(* The actor: one action per message and per channel it selects on.        *)

Message(kind, e, n, dev, ts, err) ==
    [kind |-> kind, e |-> e, n |-> n, dev |-> dev, ts |-> ts, err |-> err,
     bd |-> edge.bd]

(* An NDEATH is given the time it is received.                             *)
Unstamped == -1

(* issue_rebirth: configured, and not within the cooldown of the last one. *)
EvalRebirth(nd, reason) == reason \in config.on /\ ~nd.cooling

IssueRebirth(nd, reason) ==
    \/ /\ ~EvalRebirth(nd, reason)
       /\ node' = nd
       /\ pc' = "ready"
    \/ /\ EvalRebirth(nd, reason)
       /\ node' = [SetStale(nd, clock) EXCEPT !.cooling = config.cooldown]
       /\ pc' = "publishing"

(* The actor goes on to the next message.                                  *)
Done(nd) == node' = nd /\ pc' = "ready"

(* rebirth_tx.try_send                                                     *)
TrySend(reason) == rebirth' = IF rebirth = <<>> THEN <<reason>> ELSE rebirth

Decodes(m) == m.err \notin {"Undecodable", "Malformed"}

(* A message whose payload the actor itself cannot decode.                 *)
HandleUndecodable(m) ==
    /\ ~Decodes(m)
    /\ IssueRebirth(node, "InvalidPayload")
    /\ UNCHANGED view

(* An NBIRTH counts if it is newer than the one recorded.                  *)
Newer(m) == m.ts > node.birth_timestamp

(* A node that is Birthed with the same bdSeq has told its metric store.   *)
StoreTold(m) == node.life = "Birthed" /\ node.bdseq = m.bd

HandleBirth(m) ==
    /\ m.kind = "NBIRTH" /\ Decodes(m)
    /\ \/ /\ ~Newer(m)
          /\ Done(node)
          /\ UNCHANGED view
       \/ /\ Newer(m) /\ ~StoreTold(m) /\ m.err # Ok
          /\ IssueRebirth(node, "InvalidPayload")
          /\ UNCHANGED view
       \/ /\ Newer(m)
          /\ StoreTold(m) \/ m.err = Ok
          /\ Done(Born(node, m))
          /\ view' = [birth |-> m.e, last |-> 0, of |-> m.e]

(* Mutant: the bdSeq of a death is not compared.                           *)
ExpectedAny(m) == TRUE

Expected(m) == m.bd = node.bdseq

(* handle_death: a death that was not expected asks for a rebirth.         *)
HandleDeath(m) ==
    /\ m.kind = "NDEATH" /\ Decodes(m)
    /\ LET ts == IF m.ts = Unstamped THEN clock ELSE m.ts
           nd == SetStale(CancelTimer(node), ts)
       IN IF Expected(m) THEN Done(nd) ELSE IssueRebirth(nd, "OutOfSyncBdSeq")
    /\ UNCHANGED view

(* What the history keeps of a message that has been applied.              *)
Record(m) == view' = [view EXCEPT !.last = m.n, !.of = m.e]

Sequenced(m) == m.kind \in {"NDATA", "DBIRTH", "DDEATH", "DDATA"}

(* Mutant: the timestamps are not looked at.                               *)
OldNever(m) == FALSE

Old(m) == m.ts < node.birth_timestamp \/ m.ts < node.stale_timestamp

(* handle_resequencable_message up to the drain loop, with its wrapper.    *)
HandleIgnored(m) ==
    /\ Sequenced(m) /\ Decodes(m)
    /\ Old(m)
    /\ Done(node)
    /\ UNCHANGED view

HandleStale(m) ==
    /\ Sequenced(m) /\ Decodes(m)
    /\ ~Old(m) /\ node.life = "Stale"
    /\ IssueRebirth(node, "RecordedStateStale")
    /\ UNCHANGED view

(* The messages are applied as they come.                                  *)
HandleUnordered(m) ==
    /\ Sequenced(m) /\ Decodes(m)
    /\ ~Old(m) /\ node.life = "Birthed" /\ ~config.reorder
    /\ IssueRebirth(Applied(node, m), ApplyError(node, m))
    /\ Record(m)

HandleOrdered(m) ==
    /\ Sequenced(m) /\ Decodes(m)
    /\ ~Old(m) /\ node.life = "Birthed" /\ config.reorder
    /\ LET seq == m.n % SeqMod
           nd == [node EXCEPT !.rs = Process(@, seq, m)]
           error == ApplyError(node, m)
       IN CASE ProcessResult(node.rs, seq) = "DuplicateMessageSequence" ->
                    IssueRebirth(node, "ReorderFail") /\ UNCHANGED view
            [] ProcessResult(node.rs, seq) = "OutOfSequenceMessageInserted" ->
                    Done(StartTimer(nd)) /\ UNCHANGED view
            [] OTHER ->
                 /\ IF error = Ok THEN node' = Applied(nd, m) /\ pc' = "draining"
                    ELSE IssueRebirth(Applied(nd, m), error)
                 /\ Record(m)

HandleOffline(m) ==
    /\ m.kind = "Offline"
    /\ Done(SetStale(node, clock))
    /\ UNCHANGED view

HandleMessage ==
    /\ pc = "ready" /\ queue # <<>>
    /\ LET m == Head(queue)
       IN \/ HandleUndecodable(m) \/ HandleBirth(m) \/ HandleDeath(m)
          \/ HandleIgnored(m) \/ HandleStale(m) \/ HandleUnordered(m)
          \/ HandleOrdered(m) \/ HandleOffline(m)
    /\ queue' = Tail(queue)
    /\ UNCHANGED <<config, rebirth, known, held, requests, edge, net, clock, count>>

(* drain_resequence_buffer, one message at a time; an error ends the loop  *)
(* with what is left still in the buffer.                                  *)
DrainMessage ==
    /\ pc = "draining"
    /\ \E k \in SeqNo :
          /\ CanPop(node.rs, k)
          /\ LET m == node.rs.buffer[k]
                 nd == [node EXCEPT !.rs = Pop(@, k)]
                 error == ApplyError(node, m)
             IN /\ IF error = Ok THEN node' = Applied(nd, m) /\ pc' = pc
                   ELSE IssueRebirth(Applied(nd, m), error)
                /\ Record(m)
    /\ UNCHANGED <<config, rebirth, queue, known, held, requests, edge, net, clock, count>>

AfterDrain(nd) == IF DrainResult(nd.rs) = "Empty" THEN CancelTimer(nd) ELSE nd

DrainEnd ==
    /\ pc = "draining" /\ DrainResult(node.rs) # "Message"
    /\ Done(AfterDrain(node))
    /\ UNCHANGED <<config, rebirth, queue, known, held, requests, view, edge, net, clock, count>>

TakeRebirth ==
    /\ pc = "ready" /\ rebirth # <<>>
    /\ rebirth' = <<>>
    /\ IssueRebirth(node, rebirth[1])
    /\ UNCHANGED <<config, queue, known, held, requests, view, edge, net, clock, count>>

(* publish_node_rebirth waits for room in the client; its error is only    *)
(* logged.                                                                 *)
Publish ==
    /\ pc = "publishing" /\ requests < ReqCap
    /\ pc' = "ready"
    /\ requests' = requests + 1
    /\ UNCHANGED <<config, node, rebirth, queue, known, held, view, edge, net, clock, count>>

PublishFails ==
    /\ pc = "publishing" /\ Fault < MaxFault
    /\ pc' = "ready"
    /\ count' = [count EXCEPT !.bad = @ + 1]
    /\ UNCHANGED <<config, node, rebirth, queue, known, held, requests, view, edge, net, clock>>

(* The task of start_reorder_timeout.                                      *)
TimerFires ==
    /\ node.timer = "armed"
    /\ node' = [node EXCEPT !.timer = "fired"]
    /\ TrySend("ReorderTimeout")
    /\ UNCHANGED <<config, pc, queue, known, held, requests, view, edge, net, clock, count>>

CooldownEnds ==
    /\ node.cooling
    /\ node' = [node EXCEPT !.cooling = FALSE]
    /\ UNCHANGED <<config, pc, rebirth, queue, known, held, requests, view, edge, net, clock, count>>

-----------------------------------------------------------------------------
(* The dispatcher, Application::run, and the event loop it polls.  It is   *)
(* not polled while it waits for room in the queue of a node.              *)

SendMessage(m) ==
    IF Len(queue) < QCap THEN queue' = Append(queue, m) /\ UNCHANGED held
    ELSE held' = <<m>> /\ UNCHANGED queue

Unblock ==
    /\ held # <<>> /\ Len(queue) < QCap
    /\ queue' = Append(queue, held[1])
    /\ held' = <<>>
    /\ UNCHANGED <<config, node, pc, rebirth, known, requests, view, edge, net, clock, count>>

(* handle_event for a message the client hands over, decoded or raw.       *)
Dispatch(m, raw) ==
    \/ /\ ~raw /\ m.err = "Undecodable"
       /\ UNCHANGED <<known, rebirth, queue, held>>
    \/ /\ ~raw /\ m.err = "Malformed"
       /\ IF "InvalidPayload" \in config.on
          THEN known' = TRUE /\ TrySend("InvalidPayload")
          ELSE UNCHANGED <<known, rebirth>>
       /\ UNCHANGED <<queue, held>>
    \/ /\ raw \/ Decodes(m)
       /\ known \/ m.kind = "NBIRTH"
       /\ known' = TRUE
       /\ SendMessage(IF m.kind = "NDEATH" /\ ~raw THEN [m EXCEPT !.ts = clock] ELSE m)
       /\ UNCHANGED rebirth
    \/ /\ raw \/ Decodes(m)
       /\ ~known /\ m.kind = "NDEATH"
       /\ UNCHANGED <<known, rebirth, queue, held>>
    \/ /\ raw \/ Decodes(m)
       /\ ~known /\ m.kind \notin {"NBIRTH", "NDEATH"}
       /\ known' = TRUE
       /\ TrySend("UnknownNode")
       /\ UNCHANGED <<queue, held>>

(* m may not overtake the births of its session unless OvertakeBirth.      *)
MayOvertake(m, x) == OvertakeBirth \/ x.bd # m.bd \/ (x.kind # "NBIRTH" /\ m.kind # "NDEATH")

Deliverable(i) ==
    /\ i <= Window
    /\ \A j \in 1 .. i - 1 : MayOvertake(net[i], net[j])

RemoveNth(s, i) == [j \in 1 .. Len(s) - 1 |-> IF j < i THEN s[j] ELSE s[j + 1]]

PollMessage(i, raw) ==
    /\ held = <<>>
    /\ Deliverable(i)
    /\ Dispatch(net[i], raw)
    /\ net' = RemoveNth(net, i)
    /\ UNCHANGED <<config, node, pc, requests, view, edge, clock, count>>

PollDuplicate(i, raw) ==
    /\ held = <<>>
    /\ Deliverable(i)
    /\ Fault < MaxFault
    /\ Dispatch(net[i], raw)
    /\ count' = [count EXCEPT !.dup = @ + 1]
    /\ UNCHANGED <<config, node, pc, requests, view, edge, net, clock>>

(* AppEvent::Offline reaches the node, if it is known, as a message.  What *)
(* was on its way is lost with the connection.                             *)
PollOffline ==
    /\ held = <<>>
    /\ Fault < MaxFault
    /\ count' = [count EXCEPT !.bad = @ + 1]
    /\ IF known THEN SendMessage(Message("Offline", 0, 0, NoDevice, clock, Ok)) ELSE UNCHANGED <<queue, held>>
    /\ net' = <<>>
    /\ requests' = 0
    /\ UNCHANGED <<config, node, pc, rebirth, known, view, edge, clock>>

PollRequest ==
    /\ held = <<>> /\ requests > 0
    /\ requests' = requests - 1
    /\ edge' = [edge EXCEPT !.asked = edge.alive]
    /\ UNCHANGED <<config, node, pc, rebirth, queue, known, held, view, net, clock, count>>

-----------------------------------------------------------------------------
(* The environment: the edge node and the network.                         *)

(* An NBIRTH, and a DBIRTH for every device that is up.                    *)
Births(bd, up, err) ==
    LET e == edge.birth + 1
        first == [Message("NBIRTH", e, 0, NoDevice, clock + 1, err) EXCEPT !.bd = bd]
        devs == CHOOSE s \in [1 .. Cardinality(up) -> up] : {s[i] : i \in DOMAIN s} = up
    IN <<first>> \o [i \in DOMAIN devs |->
            [Message("DBIRTH", e, i, devs[i], clock + 1, Ok) EXCEPT !.bd = bd]]

Spoil(err) ==
    \/ err = Ok /\ UNCHANGED count
    \/ err # Ok /\ Fault < MaxFault /\ count' = [count EXCEPT !.bad = @ + 1]

EdgeBirth(bd, up, err) ==
    /\ net' = net \o Births(bd, up, err)
    /\ edge' = [alive |-> TRUE, asked |-> FALSE, bd |-> bd, birth |-> edge.birth + 1,
                sent |-> Cardinality(up), up |-> up]
    /\ clock' = clock + 1

EdgeStarts(err) ==
    /\ ~edge.alive
    /\ EdgeBirth(edge.bd + 1, {}, err)
    /\ Spoil(err)
    /\ UNCHANGED host

EdgeRebirths ==
    /\ edge.alive /\ edge.asked
    /\ EdgeBirth(edge.bd, edge.up, Ok)
    /\ UNCHANGED <<host, count>>

EdgeDies ==
    /\ edge.alive /\ count.death < MaxDeath
    /\ count' = [count EXCEPT !.death = @ + 1]
    /\ net' = Append(net, Message("NDEATH", edge.birth, 0, NoDevice, Unstamped, Ok))
    /\ edge' = [edge EXCEPT !.alive = FALSE, !.asked = FALSE, !.up = {}]
    /\ UNCHANGED <<host, clock>>

EdgePublishes(kind, dev, err) ==
    /\ edge.alive /\ count.pub < MaxPub
    /\ err = Ok \/ Fault < MaxFault
    /\ \/ kind = "NDATA" /\ dev = NoDevice /\ edge' = [edge EXCEPT !.sent = @ + 1]
       \/ kind = "DDATA" /\ dev \in edge.up /\ edge' = [edge EXCEPT !.sent = @ + 1]
       \/ /\ kind = "DBIRTH" /\ dev \in Device \ edge.up
          /\ edge' = [edge EXCEPT !.sent = @ + 1, !.up = @ \cup {dev}]
       \/ /\ kind = "DDEATH" /\ dev \in edge.up
          /\ edge' = [edge EXCEPT !.sent = @ + 1, !.up = @ \ {dev}]
    /\ net' = Append(net, Message(kind, edge.birth, edge.sent + 1, dev, clock + 1, err))
    /\ clock' = clock + 1
    /\ count' = [count EXCEPT !.pub = @ + 1, !.bad = IF err = Ok THEN @ ELSE @ + 1]
    /\ UNCHANGED host

Lose(i) ==
    /\ Fault < MaxFault
    /\ count' = [count EXCEPT !.bad = @ + 1]
    /\ net' = RemoveNth(net, i)
    /\ UNCHANGED <<host, edge, clock>>

-----------------------------------------------------------------------------
Init ==
    /\ config \in Configs
    /\ node = NewNode /\ pc = "ready" /\ rebirth = <<>> /\ queue = <<>>
    /\ known = FALSE /\ held = <<>> /\ requests = 0
    /\ view = [birth |-> 0, last |-> 0, of |-> 0]
    /\ edge = [alive |-> FALSE, asked |-> FALSE, bd |-> -1, birth |-> 0, sent |-> 0, up |-> {}]
    /\ net = <<>> /\ clock = 0
    /\ count = [pub |-> 0, death |-> 0, bad |-> 0, dup |-> 0]

Actor == HandleMessage \/ DrainMessage \/ DrainEnd \/ TakeRebirth \/ Publish

Poll == \E i \in DOMAIN net, raw \in Raw : PollMessage(i, raw)

Next ==
    \/ HandleMessage \/ DrainMessage \/ DrainEnd \/ TakeRebirth \/ Publish \/ PublishFails
    \/ TimerFires \/ CooldownEnds
    \/ Unblock \/ Poll \/ PollOffline \/ PollRequest
    \/ \E i \in DOMAIN net, raw \in Raw : PollDuplicate(i, raw)
    \/ \E i \in DOMAIN net : Lose(i)
    \/ \E err \in Faults \cup {Ok} : EdgeStarts(err)
    \/ EdgeRebirths \/ EdgeDies
    \/ \E kind \in {"NDATA", "DDATA", "DBIRTH", "DDEATH"}, dev \in Device \cup {NoDevice},
          err \in Faults \cup {Ok} : EdgePublishes(kind, dev, err)

Spec == Init /\ [][Next]_vars

(* The tasks of the runtime run on, time passes, the broker delivers what  *)
(* it has and the edge node answers commands and comes back.               *)
Fairness ==
    /\ WF_vars(HandleMessage) /\ WF_vars(DrainMessage) /\ WF_vars(DrainEnd)
    /\ SF_vars(TakeRebirth) /\ WF_vars(Publish)
    /\ WF_vars(TimerFires) /\ WF_vars(CooldownEnds)
    /\ WF_vars(Unblock) /\ WF_vars(Poll) /\ WF_vars(PollRequest)
    /\ WF_vars(EdgeStarts(Ok)) /\ WF_vars(EdgeRebirths)

FairSpec == Spec /\ Fairness

-----------------------------------------------------------------------------
(* The actor keeps the promise of NodeView: births in order, no message of *)
(* an earlier birth, none left out or swapped, and no device alive under a *)
(* node that is stale, whatever the network reorders, loses or repeats.    *)
Alive == {d \in Device : node.devices[d] = "Birthed"}

Promise == INSTANCE NodeView WITH
    Device <- Device, ordered <- config.reorder, life <- node.life, birth <- view.birth,
    source <- view.of, last <- view.last, alive <- Alive

KeepsPromise == Promise!Spec

(* A stale node has nothing left to apply and no reorder timer, so that a  *)
(* new birth starts from an empty buffer.                                  *)
StaleEmpty == node.life = "Stale" => node.rs = NewResequencer /\ node.timer = "none"

(* The configuration the next properties are about: resequencing, and no   *)
(* rebirth request dropped because another was just issued.                *)
Prompt == config.reorder /\ ~config.cooldown

(* Messages are not held back for ever: the missing one arrives, or the    *)
(* reorder timer has the node born again.                                  *)
GapEnds == Prompt => ((node.rs.state # Good) ~> (node.rs.state = Good))

(* The host's picture of an edge node is right in the end, whatever was    *)
(* reordered or delivered twice and however often the edge node came and   *)
(* went, as long as nothing was lost or spoilt.                            *)
InSync ==
    IF edge.alive
    THEN /\ node.life = "Birthed" /\ view.birth = edge.birth /\ view.last = edge.sent
         /\ edge.up \subseteq Alive
    ELSE node.life = "Stale"

Convergence == Prompt => <>[](count.bad > 0 \/ InSync)

-----------------------------------------------------------------------------
(* For TLC: the default configuration without its cooldown, and one that   *)
(* applies messages as they come and asks for a rebirth, with a cooldown,  *)
(* only because of a payload.                                              *)
MCConfigs == {Config(DefaultReasons, FALSE, TRUE), Config({"InvalidPayload"}, TRUE, FALSE)}
=============================================================================
