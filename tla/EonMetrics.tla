----------------------------- MODULE EonMetrics -----------------------------
(***************************************************************************)
(* The way of a metric: registered with a SimpleMetricManager              *)
(* (srad-eon/src/metric_manager/simple_manager.rs), announced by the       *)
(* births of the node and of a device with an id of its own, updated and   *)
(* published by the application, commanded by a host, and stored by the    *)
(* host under the ids of the birth it applied last (srad-app/src/          *)
(* metrics.rs and the metric store of srad-app/src/generic_app.rs).        *)
(*                                                                         *)
(* A value names the metric it is meant for, and the tick of its update.   *)
(* A host applies messages in the order of their sequence numbers, except  *)
(* what was numbered before the NBIRTH it applied last (EonNode, AppNode). *)
(* Here a message takes its number and is applied in one step: what a host *)
(* does late, on an old view, it could have done before, and its commands  *)
(* wait as long as they like.  Devices stay enabled (EonNode).             *)
(***************************************************************************)
EXTENDS Births

CONSTANTS
    Device,        \* names of the devices
    Names,         \* of each object: the metrics registered before its birth
    Late,          \* of each object: those that may be registered at any time
    Commanded,     \* the metrics that have a command handler
    Alias,         \* the alias configuration of each metric
    Template,      \* of each device: the template its template metric uses, or None
    MaxTick,       \* bound: updates
    MaxBirth,      \* bound: births
    MaxCmd         \* bound: commands

Node == "node"
Objects == Device \cup {Node}

ASSUME EonMetricsAssumption ==
    /\ Node \notin Device
    /\ \A o \in Objects : Names[o] \cap Late[o] = {}
    /\ {MaxTick, MaxBirth, MaxCmd} \subseteq Nat

VARIABLES
    ids,        \* DeviceState::id
    mgr,        \* SimpleMetricManagerInner and its MetricData
    registry,   \* the node's template registry
    snapshot,   \* the devices' template registries
    due,        \* NodeStateMessage::Birth waiting for a device: the registry, or None
    offering,   \* the node has birthed and not yet told its devices
    life,       \* "dead", "birthing" or "birthed"
    payload,    \* the birth being published
    task,       \* what the application holds to publish: metric and PublishMetric or None
    running,    \* the command handlers under way, in the same form
    cmds,       \* commands for the edge node
    view,       \* the host's metric store of each object
    defs,       \* the template definitions the host knows
    missed,     \* history: updates newer than the last birth whose publish was refused
    epoch, seen,       \* NBIRTHs begun, and applied by the host
    tick, births, count
edge == <<mgr, registry, snapshot, due, offering, life, payload, task, running, missed, epoch>>
host == <<view, defs, seen>>
vars == <<ids, edge, cmds, host, tick, births, count>>

Value(name, at) == [of |-> name, at |-> at]
WrongType == -1

(* register_device: each name is given its id as it comes.                 *)
DeviceIds ==
    LET order == SetToSeq(Device)
    IN  FoldLeft(LAMBDA known, d : known @@ (d :> GenerateDeviceId(d, { known[e] : e \in DOMAIN known })),
                 <<>>, order)

NewManager(order) ==
    [order |-> order, value |-> [n \in ToSet(order) |-> Value(n, 0)],
     token |-> [n \in ToSet(order) |-> None], born |-> [n \in ToSet(order) |-> None],
     lookup |-> <<>>]
NoView == [alive |-> FALSE, names |-> <<>>, values |-> <<>>, refs |-> {}]

Init ==
    /\ ids = DeviceIds @@ (Node :> ObjectIdNode)
    /\ mgr \in [Objects -> UNION { { NewManager(s) : s \in SetToSeqs(Names[o]) } : o \in Objects }]
    /\ \A o \in Objects : ToSet(mgr[o].order) = Names[o]
    /\ registry = {} /\ snapshot = [d \in Device |-> {}] /\ due = [d \in Device |-> None]
    /\ offering = FALSE
    /\ life = [o \in Objects |-> "dead"] /\ payload = [o \in Objects |-> <<>>]
    /\ task = [o \in Objects |-> <<>>] /\ running = [o \in Objects |-> <<>>]
    /\ cmds = <<>>
    /\ view = [o \in Objects |-> NoView] /\ defs = {} /\ seen = 0
    /\ missed = {} /\ epoch = 0 /\ tick = 0 /\ births = 0 /\ count = 0

-----------------------------------------------------------------------------
(* The host.  Its metric store is the application's: keyed by the ids of   *)
(* the birth, refusing what it does not know.  An instance of a template   *)
(* contains instances of the templates nested in it.                       *)

RECURSIVE Carries(_)
Carries(t) == {t} \cup UNION { Carries(Uses[t][k]) : k \in DOMAIN Uses[t] }

StoreBirth(details) ==
    LET plain == SelectSeq(details, LAMBDA d : d.dt # "Template")
        shapes == SelectSeq(details, LAMBDA d : d.dt = "Template")
    IN  [alive |-> TRUE,
         names |-> FoldLeft(LAMBDA f, d : (d.id :> d.name) @@ f, <<>>, plain),
         values |-> FoldLeft(LAMBDA f, d : (d.name :> d.value) @@ f, <<>>, plain),
         refs |-> UNION { Carries(shapes[k].value.v) : k \in DOMAIN shapes }]
StoreData(v, details) ==
    [v EXCEPT !.values = FoldLeft(LAMBDA f, d : (v.names[d.id] :> d.value) @@ f, @, details)]

HostApplies(m) ==
    LET birth == MetricBirthDetails(m.metrics)
        data == MetricIdsAndDetails(m.metrics)
    IN  IF m.kind = "birth" /\ birth.ok /\ (m.of = Node \/ m.epoch = seen)
        THEN /\ view' = [view EXCEPT ![m.of] = StoreBirth(birth.v)]
             /\ defs' = IF m.of = Node THEN m.defs ELSE defs
             /\ seen' = m.epoch
        ELSE IF m.kind = "data" /\ data.ok /\ m.epoch = seen /\ view[m.of].alive
                /\ \A k \in DOMAIN data.v : data.v[k].id \in DOMAIN view[m.of].names
        THEN view' = [view EXCEPT ![m.of] = StoreData(@, data.v)] /\ UNCHANGED <<defs, seen>>
        ELSE UNCHANGED host

-----------------------------------------------------------------------------
(* The manager.  Its hash map is iterated in some order, which changes     *)
(* only when a metric is inserted.                                         *)

RegisterLate(o) ==
    /\ \E n \in Late[o] \ ToSet(mgr[o].order) :
          \E s \in { InsertAt(mgr[o].order, k, n) : k \in 1..(Len(mgr[o].order) + 1) } :
             mgr' = [mgr EXCEPT ![o] =
                 [order |-> s, value |-> @.value @@ (n :> Value(n, 0)),
                  token |-> @.token @@ (n :> None), born |-> @.born @@ (n :> None),
                  lookup |-> @.lookup]]
    /\ UNCHANGED <<ids, registry, snapshot, due, offering, life, payload, task, running, missed,
                   epoch, cmds, host, tick, births, count>>

(* SimpleManagerMetric::update, and what it gives the caller to publish.   *)
Updated(m, n, v) == [m EXCEPT !.value[n] = v]
ToPublish(m, n, v) ==
    [name |-> n, value |-> Some(v),
     metric |-> IF m.token[n] = None THEN None ELSE Some(PublishMetric(m.token[n].v, Some(v), v.at))]

Update(o) ==
    /\ tick < MaxTick /\ tick' = tick + 1
    /\ Len(task[o]) < 2
    /\ \E n \in DOMAIN mgr[o].value \ Commanded :
          /\ mgr' = [mgr EXCEPT ![o] = Updated(@, n, Value(n, tick'))]
          /\ task' = [task EXCEPT ![o] = Append(@, ToPublish(mgr[o], n, Value(n, tick')))]
    /\ UNCHANGED <<ids, registry, snapshot, due, offering, life, payload, running, missed, epoch,
                   cmds, host, births, count>>

(* Mutant of SortByTimestamp: the batch goes out as it was given.          *)
Unsorted(batch) == batch
SortByTimestamp(batch) == SortSeq(batch, LAMBDA p, q : p.at < q.at)

(* publish_metrics: metrics without a token are left out of the batch.     *)
Kept(batch) ==
    LET held == SelectSeq(batch, LAMBDA p : p.metric # None)
    IN  SortByTimestamp([k \in DOMAIN held |-> held[k].metric.v])

(* check_publish_state_and_get_seq for a device, get_next_seq for the node. *)
MayPublish(o) == life[o] = "birthed" /\ life[Node] = "birthed"

Data(o, metrics) ==
    [kind |-> "data", of |-> o, epoch |-> epoch,
     metrics |-> [k \in DOMAIN metrics |-> DataMetric(metrics[k])]]

(* A refused value is in the birth under way or the next, or is missed.    *)
Missing(o, batch) ==
    { <<o, batch[k].name>> : k \in { k \in DOMAIN batch :
        mgr[o].born[batch[k].name] # None /\ mgr[o].born[batch[k].name].v.at < batch[k].value.v.at } }

PublishBatch(o, batch) ==
    IF Kept(batch) # <<>> /\ MayPublish(o)
    THEN /\ HostApplies(Data(o, Kept(batch)))
         /\ missed' = missed \ { <<o, batch[k].name>> : k \in DOMAIN batch }
    ELSE /\ missed' = missed \cup Missing(o, batch)
         /\ UNCHANGED host

Publish(o) ==
    /\ task[o] # <<>>
    /\ \E batch \in {task[o], Reverse(task[o])} : PublishBatch(o, batch)
    /\ task' = [task EXCEPT ![o] = <<>>]
    /\ UNCHANGED <<ids, mgr, registry, snapshot, due, offering, life, payload, running, epoch,
                   cmds, tick, births, count>>

-----------------------------------------------------------------------------
(* Births *)

(* initialise_birth: the metrics in the map's order, then the template     *)
(* metric a device may have, unless its template is not registered.        *)
RegisterAll(o, bi) ==
    FoldLeft(LAMBDA acc, n :
                 LET r == RegisterMetric(acc.bi, n, Alias[n], "Int32", Some(mgr[o].value[n]))
                 IN  [bi |-> r.v.bi, tokens |-> acc.tokens @@ (n :> Some(r.v.id))],
             [bi |-> bi, tokens |-> <<>>], mgr[o].order)
WithTemplate(o, bi) ==
    LET r == RegisterTemplateMetric(bi, "shape", AliasGenerate, Template[o])
    IN  IF o # Node /\ Template[o] # None /\ r.ok THEN r.v.bi ELSE bi

(* Node::generate_birth_payload: bdSeq, the rebirth control and the        *)
(* template definitions come first.                                        *)
Initializer(o, templates) ==
    LET bi      == NewInitializer(ids[o], templates)
        control == RegisterMetric(RegisterMetric(bi, "bdSeq", AliasNone, "Int64", Some(Value("bdSeq", 0))).v.bi,
                                  "Node Control/Rebirth", AliasNone, "Boolean",
                                  Some(Value("Node Control/Rebirth", 0))).v.bi
    IN  IF o # Node THEN bi
        ELSE FoldSet(LAMBDA t, b : RegisterTemplateDefinition(b, t).v, control, templates)

Collected(o, templates) == RegisterAll(o, Initializer(o, templates))

Lookup(tokens) ==
    LET with == { n \in DOMAIN tokens : n \in Commanded }
    IN  [id \in { tokens[n].v : n \in with } |-> CHOOSE n \in with : tokens[n].v = id]

(* The payload is made, the tokens are replaced and the commands are       *)
(* looked up under the new ids.                                            *)
BirthOf(o, templates) ==
    LET all == Collected(o, templates)
    IN  /\ mgr' = [mgr EXCEPT ![o].token = all.tokens, ![o].lookup = Lookup(all.tokens),
                              ![o].born = [n \in DOMAIN @ |-> Some(mgr[o].value[n])]]
        /\ payload' = [payload EXCEPT ![o] =
              [kind |-> "birth", of |-> o, epoch |-> epoch',
               metrics |-> WithTemplate(o, all.bi).metrics,
               defs |-> IF o = Node THEN templates ELSE {}]]
        /\ missed' = { x \in missed : x[1] # o }
        /\ life' = [life EXCEPT ![o] = "birthing"]

(* node_birth up to the publish: its command handlers run in the same task. *)
StartNodeBirth ==
    /\ births < MaxBirth /\ births' = births + 1
    /\ life[Node] \in {"dead", "birthed"} /\ ~offering /\ running[Node] = <<>>
    /\ registry' \in Updates(registry)
    /\ epoch' = epoch + 1
    /\ BirthOf(Node, registry')
    /\ UNCHANGED <<ids, snapshot, due, offering, task, running, cmds, host, tick, count>>

FinishBirth(o) ==
    /\ life[o] = "birthing"
    /\ HostApplies(payload[o])
    /\ life' = [life EXCEPT ![o] = "birthed"] /\ payload' = [payload EXCEPT ![o] = <<>>]
    /\ offering' = (offering \/ o = Node)
    /\ UNCHANGED <<ids, mgr, registry, snapshot, due, task, running, missed, epoch, cmds,
                   tick, births, count>>

(* birth_devices *)
BirthDevices ==
    /\ offering /\ offering' = FALSE
    /\ due' = [d \in Device |-> Some(registry)]
    /\ UNCHANGED <<ids, mgr, registry, snapshot, life, payload, task, running, missed, epoch,
                   cmds, host, tick, births, count>>

(* Mutant of Given: what was deregistered stays in the device's registry.  *)
GivenAlso(d) == snapshot[d] \cup IF due[d] = None THEN {} ELSE due[d].v
Given(d) == IF due[d] = None THEN snapshot[d] ELSE due[d].v

(* Device::run: a birth the node asked for, or a rebirth requested by the  *)
(* application when none is waiting.  Without a birthed node it is skipped. *)
StartDeviceBirth(d) ==
    /\ life[d] # "birthing" /\ running[d] = <<>>
    /\ \/ due[d] # None /\ UNCHANGED births
       \/ due[d] = None /\ life[d] = "birthed" /\ births < MaxBirth /\ births' = births + 1
    /\ snapshot' = [snapshot EXCEPT ![d] = Given(d)]
    /\ due' = [due EXCEPT ![d] = None]
    /\ UNCHANGED epoch
    /\ IF life[Node] = "birthed" THEN BirthOf(d, snapshot'[d])
       ELSE UNCHANGED <<mgr, payload, missed, life>>
    /\ UNCHANGED <<ids, registry, offering, task, running, cmds, host, tick, count>>

-----------------------------------------------------------------------------
(* Commands *)

(* What a host may put into a command's metric. *)
Forms(n, id) ==
    LET good == CommandMetric(id, Value(n, tick + 1))
    IN  { good, CommandMetric(id, Value(n, WrongType)),
          [good EXCEPT !.value = None, !.is_null = Some(TRUE)],
          [good EXCEPT !.value = None, !.is_null = Some(FALSE)] }

Command(o) ==
    /\ count < MaxCmd /\ count' = count + 1 /\ tick' = tick + 1
    /\ view[o].alive
    /\ \E id \in DOMAIN view[o].names :
          \E m \in Forms(view[o].names[id], id) :
             cmds' = Append(cmds, [of |-> o, metrics |-> <<m>>])
    /\ UNCHANGED <<ids, edge, host, births>>

(* on_ncmd and on_dcmd: the handlers of all metrics of the command run at  *)
(* once and the task waits for them.                                       *)
HandleCommand ==
    /\ cmds # <<>>
    /\ LET o == Head(cmds).of
           metrics == MessageMetrics(Head(cmds).metrics)
           found == SelectSeq(metrics, LAMBDA m : m.id \in DOMAIN mgr[o].lookup)
           converts == SelectSeq(found, LAMBDA m : m.value = None \/ m.value.v.at # WrongType)
       IN  /\ running[o] = <<>> /\ life[o] # "birthing" /\ ~(o = Node /\ offering)
           /\ running' = [running EXCEPT ![o] =
                 [k \in DOMAIN converts |->
                    [name |-> mgr[o].lookup[converts[k].id], value |-> converts[k].value, metric |-> None]]]
    /\ cmds' = Tail(cmds)
    /\ UNCHANGED <<ids, mgr, registry, snapshot, due, offering, life, payload, task, missed, epoch,
                   host, tick, births, count>>

(* The handler of the example: it stores a value and publishes it.         *)
HandlerUpdates(o) ==
    /\ running[o] # <<>> /\ Head(running[o]).value # None /\ Head(running[o]).metric = None
    /\ LET h == Head(running[o])
           v == h.value.v
       IN  /\ mgr' = [mgr EXCEPT ![o] = Updated(@, h.name, v)]
           /\ running' = [running EXCEPT ![o][1] = ToPublish(mgr[o], h.name, v)]
    /\ UNCHANGED <<ids, registry, snapshot, due, offering, life, payload, task, missed, epoch,
                   cmds, host, tick, births, count>>

HandlerEnds(o) ==
    /\ running[o] # <<>>
    /\ Head(running[o]).value = None \/ Head(running[o]).metric # None
    /\ running' = [running EXCEPT ![o] = <<>>]
    /\ IF Head(running[o]).value = None THEN UNCHANGED <<host, missed>> ELSE PublishBatch(o, running[o])
    /\ UNCHANGED <<ids, mgr, registry, snapshot, due, offering, life, payload, task, epoch,
                   cmds, tick, births, count>>

Next ==
    \/ \E o \in Objects : RegisterLate(o) \/ Update(o) \/ Publish(o) \/ FinishBirth(o)
                            \/ Command(o) \/ HandlerUpdates(o) \/ HandlerEnds(o)
    \/ \E d \in Device : StartDeviceBirth(d)
    \/ StartNodeBirth \/ BirthDevices \/ HandleCommand
Spec == Init /\ [][Next]_vars

-----------------------------------------------------------------------------
(* Values and commands arrive at the metric they are meant for: whatever   *)
(* rebirths, late registrations and id collisions lie between the making   *)
(* of a publish or a command and its arrival, the id in it still means the *)
(* metric it was made for (create_metric_token, cmd_lookup, get_metric_id). *)
IdsAgree ==
    \A o \in Objects :
        /\ \A n \in DOMAIN view[o].values : view[o].values[n] # None => view[o].values[n].v.of = n
        /\ \A k \in DOMAIN running[o] :
              running[o][k].value # None => running[o][k].value.v.of = running[o][k].name

(* The metrics that have an alias, and the alias.                          *)
Aliased ==
    UNION { { <<o, n>> : n \in { n \in DOMAIN mgr[o].token :
                mgr[o].token[n] # None /\ mgr[o].token[n].v[1] = "alias" } } : o \in Objects }
AliasOf(x) == mgr[x[1]].token[x[2]].v[2]

(* "The alias for the metric is guaranteed to be unique within the context *)
(* of the Node" (birth.rs): no two metrics of the node and its devices     *)
(* have one alias at a time.                                               *)
AliasesUnique ==
    \A x, y \in Aliased : x # y => AliasOf(x) # AliasOf(y)

(* Colliding hashes of metric names and of device names notwithstanding,   *)
(* two metrics share an alias at most when they are of different objects   *)
(* and one of them was carried by its collisions past the last alias of    *)
(* its own object's id (generate_alias adds 1 to id and hash together;     *)
(* generate_device_id).                                                    *)
SharedOnlyByCarry ==
    \A x, y \in Aliased : x # y /\ AliasOf(x) = AliasOf(y) =>
        /\ x[1] # y[1]
        /\ \E z \in {x, y} : AliasOf(z) \div HashMod # ids[z[1]]

Settled ==
    /\ ~offering
    /\ \A d \in Device : due[d] = None
    /\ \A o \in Objects : life[o] = "birthed" /\ task[o] = <<>> /\ running[o] = <<>>

(* Once all is published the host shows every metric's latest value,       *)
(* except those whose publish was refused during a birth that had already  *)
(* copied the value before: an update is in the birth or in a publish that *)
(* follows it, however a batch was ordered and whichever task made it      *)
(* (update, initialise_birth, publish_metrics).                            *)
HostCatchesUp ==
    Settled => \A o \in Objects : \A n \in DOMAIN view[o].values \cap DOMAIN mgr[o].value :
                  <<o, n>> \in missed \/ view[o].values[n] = Some(mgr[o].value[n])

(* Once all is announced, every template instance the host was given by a  *)
(* device's birth has its definition in the node's birth, though the       *)
(* registry changed and devices rebirth on their own (birth_devices).      *)
(* Only an instance within another may lack one: the registry takes a      *)
(* template whose nested ones are not registered (CheckTemplateMetrics),   *)
(* and lets go of them while it is there (deregister).                     *)
InstancesDefined ==
    Settled => \A d \in Device : \A t \in view[d].refs :
                  t \in defs \/ \E u \in view[d].refs \cap defs : t \in Carries(u)
=============================================================================
