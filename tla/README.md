# A TLA+ verification of srad

srad is a Sparkplug B implementation in Rust: an edge node library
(`src/srad-eon`), a host application library (`src/srad-app`), an MQTT client
interface (`src/srad-client`) with a rumqttc implementation
(`src/srad-client-rumqtt`), and the Sparkplug data types (`src/srad-types`).
This directory holds TLA+ models of its stateful parts, the TLC configurations
that check them on small instances, and TLAPS proofs of some of their
properties for every value of the constants.

Contents: [inventory](#1-inventory) · [modules](#2-modules-and-how-they-follow-the-code) ·
[runs](#3-what-is-model-checked) · [disagreements](#4-where-code-and-documentation-disagree) ·
[proofs](#5-what-is-proved) · [limits](#6-what-is-not-modelled) · [plan](#7-plan)

## 1. Inventory

### Edge node (`srad-eon`)

| part | state | operations |
|---|---|---|
| `EoNState` (node.rs 45-197) | one mutex around seq, online, birthed, primary-host flag, last STATE timestamp; atomics `bdseq`, `running` | get_next_seq, start_birth, birth_completed, set_dead, set_online, primary-host setters |
| `Node` task (node.rs 481-903) | client_online, birth-retry timer, last rebirth command; four channels in | biased select: client_state, retry timer, rebirth request, node messages |
| `EoN` event loop (node.rs 908-1091) | the event loop of the MQTT client, the will, the stop channel | run, poll, handle_event, update_last_will, on_offline, poll_until_offline |
| `NodeHandle` (node.rs 214-370) | shares everything above | cancel, rebirth, publish_metrics, register/unregister_device |
| `Device` task (device.rs 124-335) | enabled, birthed; channels from the node, the handle and the broker | birth, death, enable, disable, rebirth, DCMD |
| `DeviceMap` (device.rs 337-496) | name → channel of the task | add, remove, birth_devices, on_death |
| `BirthInitializer`, `DeviceMap` ids (birth.rs, device.rs 363-384) | names and aliases of the birth being made | register_metric, register_template_metric, generate_alias |
| `TemplateRegistry` (node.rs 372-475) | definitions, behind a lock of the node, copied to devices at births | register with its checks, deregister, clear |
| `SimpleMetricManager` (simple_manager.rs) | name → value, token, handler; id → handler | register_metric, update, publish_metrics, initialise_birth, on_ncmd / on_dcmd |

How they interact. `EoN::run` alone polls the MQTT client. It turns an
Incoming/Outgoing event into a message on the one-place `client_state` channel
(Online, Offline with a oneshot reply that brings the next will, Stopped) and
passes on NCMDs, DCMDs and STATEs. The `Node` task subscribes, publishes NBIRTH
and NDEATH, and tells the device tasks through unbounded channels when to birth
and die. Node, devices, publishing threads and `cancel()` all hand their requests
to one bounded request channel, which only `poll()` empties; sequence numbers
are taken from `EoNState` in one critical section and published in another.

### Host application (`srad-app`)

| part | state | operations |
|---|---|---|
| `Resequencer` (resequencer.rs) | map of held-back messages, next sequence number, Good / ReSequencing with the offset of the keys | process, drain, reset, set_next_sequence |
| node actor (generic_app.rs 185-685) | lifecycle, birth and stale timestamps, bdSeq, resequencer, devices, reorder timer, rebirth cooldown | handle_birth, handle_death, set_stale, issue_rebirth, handle_resequencable_message, drain_resequence_buffer |
| dispatcher `Application` (generic_app.rs 700-1019) | node map, one bounded queue per node, one-place rebirth channel | routing events, creating actors, sending rebirth NCMDs |
| `AppEventLoop` (eventloop.rs) | online, client_online, session_in_flight, session_attempt, retry_at, will_timestamp, published_online_state | poll, try_online (a spawned task), on_session_established / failed, handle_offline, republish of ONLINE, cancel |
| metrics.rs, events.rs | none | ids and details of the metrics of births and data, typed events from payloads |

`AppEventLoop::poll` returns one event at a time to `Application::run`, which
decodes it, finds or creates the node's actor and waits for room in its queue;
while it waits the MQTT client is not polled. An actor asks for a rebirth by
awaiting room in the client's request channel, which only that poll empties.

### Below both

`srad-client-rumqtt` maps rumqttc's events to Sparkplug events and keeps a
`ConnectionState` so that Online and Offline are reported once each; rumqttc
itself (request channel, connection, will) is external. `srad-client` holds
traits, topic and payload parsing and an in-memory client for tests.
`srad-types` holds values, data sets, property sets, templates and topics, with
the generated protobuf; `srad-macros` derives rows and templates. They keep no
state, but two programs meet in them: what one writes the other must read, of
this version or another, of this library or another. `codegen`, the facade,
examples and the TCK runner have no part in the protocol.

### What is hard, and what makes each part correct

- *Edge session.* STATEs, connection loss, failing publishes, two kinds of
  rebirth and `cancel()` interleave with a node task that awaits the client in
  the middle of its handlers. Correct: node, broker and hosts agree on who is
  alive whenever nothing is under way; birth and will share one bdSeq; a primary
  host gates births; the node tries again after faults; cancel ends it and the
  hosts learn of it.
- *Waiting.* The request channels, the client_state channel and the node queues
  are bounded, and their two ends wait for each other. Correct: nobody
  waits for ever.
- *Devices.* Births fan out by message, enable/disable/unregister race with
  them, and a name can be registered again. Correct: every enabled device is
  announced after every NBIRTH, every disabled one is dead for the hosts.
- *Sequence numbers.* Allocated and published in two steps by many tasks.
  Correct: hosts receive every number that was given out.
- *Resequencing.* Keys are 8-bit differences from a moving offset. Correct:
  applied in order, once, and never held back when their turn has come.
- *Node actor.* Deaths of an earlier session, births overtaken by data, a
  reorder timeout racing the missing message, a rebirth request racing the birth
  it asks for, a full queue. Correct: no message of an earlier birth is applied
  to a later one, gaps end, and the host's picture is right in the end.
- *Host session.* The result of a session attempt arrives after the next
  disconnection; the will is older than the STATE it takes back. Correct: the
  application hears nodes whenever it says so, and edge nodes believe its will.
- *Metric ids.* Aliases are hashes moved on past collisions, made anew by every
  birth, while values and commands made under the old ones are under way.
  Correct: an id means the metric it was made for, and aliases are unique.
- *Data.* Signs, widths, options, order and version of what is on the wire.
  Correct: what is written is read; what is damaged is noticed or harmless; an
  update is applied as a whole or not at all.

`PROJECT.json` lists each hazard with its line and the properties that cover it.

## 2. Modules and how they follow the code

```
EonState <- EonSession <- EonNode <- MCEonNode          (edge node)
               |              ^- EonNodeProofs <- EonWireProofs
               ^- EonSessionProofs <- EonAgreementProofs <- EonNodeProofs
Births <- EonMetrics <- MCEonMetrics                    (its metrics, as a host sees them)
Resequencer <- AppNode -> NodeView                      (host: actor and dispatcher)
     ^             ^- AppNodeProofs -> ResequencerProofs
     ^- NodeStream -> InOrderDelivery                   (host: one node's stream)
             ^- NodeStreamProofs -> ResequencerProofs
AppSession <- AppSessionProofs                          (host: its own session)
Values <- DataSets <- Templates <- TemplateUpdates <- MCTemplateUpdates <- MCFormats
   ^         ^- ----------- WireFormat <- MCWireFormat  (data and messages) <---/
   ^- PropertySets -----------^  ^- Topics
```

An arrow `<-` is EXTENDS, read from right to left; `->` an INSTANCE with a
refinement mapping, and among the proof modules EXTENDS from left to right.

### Edge node

**EonState** – `EoNState`; one operator per method, from record to record, with
`SeqMod` and `BdMod` for the u8 ranges. `hostTs = 0` is the `None` of
`last_primary_host_timestamp`.

**EonSession** – the session: `Node::run`, `EoN::run`, `NodeHandle::cancel` and
`rebirth`, over the client, a broker and a primary host. The code between two
awaits is one action. An await on the request channel is three: `node.pc` names
the request; `NodeSend` or `NodeSendFails` sets `node.res`; the code after the
await is an action of its own (`Subscribed`, `SubscribeFailed`, `Birthed`,
`BirthFailed`, `DeathSent`, `DisconnectSent`). The biased `select!` is the guards
of the `Take*` actions. `loop` is `EoN::run`: `poll` → `send` (room in
client_state) → `will` (the oneshot's answer) → `check`; `mode` is running,
draining after a stop, or the last `on_offline` when draining takes more than a
second. `cancel` goes through its four awaits in the same way.

**EonNode** – EonSession with device tasks, `DeviceMap` and publishing threads.
A device is one task with its two channels; `NameOf` lets two tasks carry one
name, registered one after the other. `wire` records what hosts make of what the
broker takes: numbers since the NBIRTH, devices alive, devices born since the
NBIRTH, devices declared dead. `dev[d].unsaid` remembers a DDEATH given up for want
of a number, `app.dropped` a number a publisher gave up; neither is read by an action.
**MCEonNode** names the devices for TLC.

**Births** – the pure part of the metrics: the birth initializer with its
aliases, device ids, the template registry's checks, and a metric's way into a
payload and out of it, on either side. `Hash` is a constant, so that collisions
are chosen. **EonMetrics** – the managers of a node and its devices, births in
two steps (`StartNodeBirth`/`StartDeviceBirth` make the payload and replace the
tokens, `FinishBirth` publishes it), a publish prepared in one step and made in
another by a task of the application, commands and their handlers, the registry
copied to devices, and the metric store of a host. **MCEonMetrics** has two
devices whose names collide with each other and the node, and metrics whose names
collide in the last hash of the first device and carry into the second's.

### Host application

**Resequencer** – every method of the Rust type as an operator on a record.
**NodeStream** – `handle_resequencable_message` and `drain_resequence_buffer`
around one resequencer, with a network that reorders within `Window` and
redelivers. **InOrderDelivery** – the abstract specification: message *n* is
applied right after *n − 1*; what can be applied is.

**AppNode** – the whole actor of one node, with the dispatcher in front of it.
`node` is the record `Node`, `pc` where its task is: waiting, in the drain loop,
or awaiting room for a rebirth NCMD. `HandleMessage` takes one message from the
queue and is a disjunction of the handler's branches (`HandleBirth`,
`HandleDeath`, `HandleIgnored`, `HandleStale`, `HandleOrdered`, …);
`DrainMessage` is one turn of the drain loop; `TakeRebirth` the other branch of
the `select!`; `TimerFires` and `CooldownEnds` are time. `Dispatch` is
`Application::handle_event`; `held` is the message that waits for room in the
queue, and nothing is polled meanwhile. The edge node and the network are the
environment. **NodeView** – the abstract specification of the actor: births in
order, nothing of an earlier birth applied, one message after the other when
resequencing, no device alive under a stale node.

**AppSession** – `AppEventLoop` and `AppClient::cancel`. The `Poll` actions are
the client's events with the handler they reach; `TakeResult`, `RetryFires` and
`TakeShutdown` the other branches of `poll()`; `Task*` the task `try_online`
spawns; `SpawnedSends` the two one-line tasks (a disconnect, a republished
ONLINE); `Cancel*` the three steps of `cancel()`. The broker keeps the
subscription and the retained STATE.

### Data

**Values, DataSets, PropertySets, Templates, Topics** – the conversions as pure
operators, results as `Ok`/`Err` records. A byte has `ByteBits` bits, so all
widths of the code (1, 2, 4 and 8 bytes) are there and small; floats are bit
patterns, strings sequences of bytes of which the upper half are not UTF-8. A
row or template type is data: its fields, with what the derive macro makes of
them (`Derives`, `DerivesTemplate` say what it refuses). **WireFormat** writes
one item and reads it back, with another library as the writer, or damage on the
way. **TemplateUpdates** follows a template value through births, whole values
and differences. **MCFormats** checks the two side by side.

Decisions a reader should know:

- *Critical sections* of `EoNState` that follow each other without an await are
  merged. In `cancel()` the `running` check and `set_dead` are one step too, although
  the await of `disconnect_with_will` lies between them (node.rs 240): rumqtt's
  answers at once, and a second `cancel()`, which alone could tell, is left out.
- *rumqttc* (external): a broken connection clears the request channel; a
  request accepted while disconnected waits for the next connection; a
  DISCONNECT either way is reported as Offline and the socket closes later; the
  broker publishes the will when a connection ends without a DISCONNECT of the
  client, when it disconnects the client itself, and when the event loop is
  dropped. `WillReplies` is what `disconnect_with_will` may answer.
- *The request channel* has at least one place. The rendezvous channel of the quick
  start, `EventLoop::new(opts, 0)` (src/README.md 49 and 70), is left out: nothing
  below speaks of capacity 0.
- *The primary host's* death repeats the timestamp of its birth; STATEs travel in
  order, the retained one comes at the subscription, and `OldState` delivers
  outdated ones. STATEs of other hosts and invalid payloads are ignored by the
  code and left out.
- *Timers.* A retry, the reorder timer, the cooldown and the drain's deadline may
  end at any moment once armed.
- *cancel()* is called at most once.
- *The stream* numbers messages 1, 2, 3, ... after a birth; its node stays
  Birthed. A redelivered message is less than `SeqMod` behind the next one
  expected, and a birth with redeliveries has no second round of numbers, since a
  whole round later nobody can tell.
- *AppNode's clock* ticks with every message the edge node stamps, and the host
  reads the same clock: births have timestamps of their own. Messages of one
  session may not overtake its NBIRTH unless `OvertakeBirth`.
- *EonMetrics* applies a message in the step that numbers it; what the network
  does is AppNode's matter.

Definitions commented "Mutant" are not part of any specification. They are
plausible mistakes, each used to confirm that a property notices it.

## 3. What is model-checked

All runs stop where their bounds are used up (and the program may be cancelled), so
deadlock checking is off. Deadlock among the tasks is the matter of `NobodyStuck`:
as long as anything is under way some task of the node can go on, however full the
request channel is, save in the one embrace of node task and event loop that the
code has (section 4); and of the liveness properties `EventuallyBirthed`,
`CancelEndsRun`, `Convergence`, `OnlineAgain` and `CancelEnds`.

| run | bounds | states | shows |
|---|---|---|---|
| SessionHost | primary host, Cap 3, 2 bdSeqs, 3 host changes, 1 old STATE, 1 server disconnect, 1 rebirth call, 1 rebirth command | 34,778 | agreement of node, broker and hosts (`HostsAgree`, `HostViewAgrees`, `NoGhost`), `HostGate`, `SubscribedFirst`, `BirthCarriesWill` |
| SessionRecover | primary host, Cap 8, 2 bdSeqs, 1 loss, 1 server disconnect, 1 host change, 1 refusal, cancel with both will answers; fair | 480,769 | `TypeOK`, `AttemptAhead`, `EndsDead`, `EventuallyBirthed`, `CancelEndsRun` |
| NodeDevices | 2 tasks of one name and a publisher, 4 sequence numbers, Cap 2, 2 requests, 1 rebirth command, 1 datum, try-publish, and one of: server disconnect, refused request of the node or of a device, unregistration | 769,392 | `NodeTypeOK`, `EnabledBirthed`, `BirthedAnnounced`, `DataFromAlive`, `OnlyGivenUpGhosts`, `NoHoles`, `NobodyStuck` |
| MetricPath | node and 2 devices, 4 metrics and 2 devices whose hashes collide and carry, 1 metric registered late, 2 updates, 2 births, 1 command, nested templates | 598,558 | `IdsAgree`, `SharedOnlyByCarry`, `HostCatchesUp`, `InstancesDefined` |
| NodeStreamReorder | 8 numbers, 12 messages, window 4, 2 redeliveries, 1 new birth; fair | 8,490 | `TypeOK`, `NothingLost`, `OnlyWrapHides`, `InOrderSafe` (refines InOrderDelivery), `ArrivedIsApplied` |
| AppNode | 1 device, queue of 1, window 2, 2 publishes, 1 death, 1 fault, both payload forms, 2 configurations; fair | 381,497 | `StaleEmpty`, `KeepsPromise` (refines NodeView), `GapEnds`, `Convergence` |
| AppSession | request channel of 1, 2 faults, one of which may be cancel; fair | 77,040 | `HearsNodes`, `WillCovers`, `OnlineAgain`, `CancelEnds` |
| Formats | 2 bits to a byte, all types, arrays of 0 to 2 (booleans to 5), 3 row types, 4 groups of messages; or a flat or nested template, 4 publishes, 1 of them spoilt | 121,152 | `ReadsBack`, `ForeignUnderstood`, `DamageNoticed`, `CopyAgrees`, `SpoiltChangesNothing` |

Four more runs end in a counterexample; see section 4.

*Are the bounds enough?* Three host changes are on, off, on: the shortest course
with a late STATE of an earlier session on either side of it. Two bdSeqs wrap with
the two disconnections of SessionHost and of SessionRecover, and a refusal lets a
fault hit the recovery from a fault. `Cap` 8 keeps a full request channel out of
SessionRecover, whose liveness fails in a smaller one (section 4); `Cap` 3 makes it
happen in SessionHost and `Cap` 2 in NodeDevices, where node, two device tasks and a
publisher wait for room. Four sequence numbers wrap within one birth in NodeDevices.
Its faults and interventions (a disconnect by the broker, a refused request of the
node or of a device, an unregistration) come one to a behaviour; the theorems of
section 5 have no such bound. Twelve messages over eight numbers, four of them out of
order, make keys wrap in NodeStreamReorder. In AppNode a death and a start let the
messages of two sessions be on their way at once, two publishes make a gap and what
fills it, a queue of one blocks the event loop, and the one fault may be a loss, a
spoilt payload, a repetition, a failed publish or a connection; its request channel of
four never fills (section 4 has the other case). Two faults in AppSession are a failed
attempt and a broken connection, in either order, or one of them and `cancel()`; a
request channel of one place is the smallest of the model. Two births in MetricPath
are a birth and a rebirth of the node, or one of the node and one of a device; the
second device births at once when it is asked to and does nothing else
(`MCQuickSecond`): what it adds is its id and its alias. Formats has the ends of every
range, its sign change, and arrays up to two elements (five booleans, with two bits to
a byte).

*Fairness.* Weak fairness of every task the code spawns or loops in: tokio
schedules them. Weak fairness of `poll()` for each of its sources separately
(connecting, requests, STATEs, closing), as rumqttc serves its socket and its
channel alternately, and of armed timers. Strong fairness where an unbiased
`select!` may take another ready branch (`TakeRebirth`, `TakeResult`,
`RetryFires`, `TakeShutdown`: tokio picks among ready branches at random) or
where a task waits for a place in a channel others also fill (`SpawnedSends`,
`TaskReports`, `CancelDisconnects`: tokio's semaphore queues the waiting). In
AppNode the broker delivers what it holds, the edge node comes back and answers
commands. Nothing forces the network, the broker, the host or the application to
fail or to act: losses, STATE changes, requests and new births may always stay
away. TLC's faults are bounded, so "eventually" reads "once faults cease".

*What a property does not say.* `EndsDead` and the agreement of SessionHost speak of
runs without a lost connection: an NBIRTH left over from one is section 4's matter.
`NoHoles` says that no number is missing with the hosts, apart from those that a
`try_publish` gives up by design; one may come twice, since a publisher can keep a
number across a rebirth. `DataFromAlive` lets data follow the DDEATH of its device: a
publisher looks at `birthed` before it takes its number and sends. `OnlyGivenUpGhosts`
and `DataFromAlive` speak of one connection. `GapEnds` and `Convergence` are about
resequencing without a cooldown (`Prompt`), `Convergence` when nothing was lost or
spoilt. `OnlyWrapHides`, `SharedOnlyByCarry` and `OnlyGivenUpGhosts` hold what is left
of three promises the code does not keep in full (`DrainComplete`, `AliasesUnique`,
`DisabledDead`; the counterexamples are runs of section 4): the known way to break the
promise is the only one. `HostCatchesUp` exempts an update whose publish was refused
(section 4). `InstancesDefined` exempts a template nested in one that the host knows.

## 4. Where code and documentation disagree

Each is a run whose single property states what a comment promises, and which
TLC violates.

- **NodeDisableRebirth** (`DisabledDead`). A device disabled while the node is
  rebirthing gets no sequence number and so no DDEATH; the hosts keep it alive.
- **BoolArray** (`BoolArraysReadBack`). An array of booleans whose number is a
  multiple of eight is read back without its last eight: `proto_to_bool_vec`
  takes the last byte's bits modulo eight. Formats leaves such arrays out.
- **NodeStreamKeyWrap** (`DrainComplete`). `drain` looks only at the smallest key.
  When messages keep arriving out of order for a whole round of numbers the offset
  never moves and keys wrap, and the expected message, although buffered, is reported
  missing; the reorder timer is what ends it. `OnlyWrapHides` is what remains true.
- **AliasEdge** (`AliasesUnique`). A taken alias is moved on by `alias += 1`, which
  carries from the 32 bits of the hash into the object's id, and the births of two
  objects do not see each other's aliases: two metrics of one device with the last
  hash and one of the next device with the first share an alias. It takes such hashes
  to see it, but the comment on `AliasConfig::Generate` guarantees uniqueness.
  `SharedOnlyByCarry` is what remains true.

Further behaviours met while modelling, with the constants or values that show
them. Of the edge node's session:

- An NBIRTH the node task publishes while the connection is already lost waits
  in the client and goes out on the next connection, ahead of its SUBSCRIBE:
  `SubscribedFirst` fails with PrimaryHost, Cap 3, MaxLoss 1, MaxFlip 2,
  MaxRebirth 1. After a cancel it leaves the hosts believing in the node.
- When the publish of a rebirth fails the error is only logged: the node is
  online, unbirthed, without a retry, and ignores further rebirth requests:
  `EventuallyBirthed` fails with
  PrimaryHost FALSE, Cap 3, MaxCmd 1, MaxFail 1.
- With a request channel of one place the event loop waits for the node task,
  which waits for room that only the event loop makes: `EventuallyBirthed` fails
  with PrimaryHost FALSE, Cap 1, MaxKick 1; `CancelEndsRun` in SessionRecover
  with Cap 3.
- bdSeq advances only for a node that was online, so a connection lost after a
  failed subscription is followed by one with the same bdSeq.
- A plain cancel whose NDEATH finds the request channel full, or is overtaken by
  an NBIRTH, leaves the hosts believing in the node (hence `cancel.will`).
- A publisher that took its number before a rebirth may send it after: the hosts get
  that number twice (device.rs 63-79). A plain `try_publish` that finds the channel
  full has used up its number.
- A device that is still marked birthed passes over a Birth (device.rs 177). When a
  rebirth fails and an online STATE births the node again as type Birth, nobody has
  told it that it is not: `BirthedAnnounced` fails with PrimaryHost, one device, Cap 3,
  MaxCmd 1, MaxFail 1, MaxFlip 3 and one request to enable it. Where a name is
  registered again, the DDEATH of its old task may follow the DBIRTH of the new.
- When the primary host goes offline the node publishes its NDEATH while device
  tasks and publishers still hold numbers: with PrimaryHost, one enabled device,
  Cap 3 and MaxFlip 2 `DataFromAlive` fails; with MaxFlip 3, Requests = {"Enable",
  "Disable"} and MaxReq 2 `OnlyGivenUpGhosts` does: a DBIRTH of before the NDEATH goes
  out after the next NBIRTH. The theorems assume no primary host.

Of the host application:

- A redelivered message in the buffer hides the expected one from `drain` as a wrapped
  key does.
- A reorder timeout during the rebirth cooldown is dropped, and the handle of
  its timer stays set: a gap then lasts until the next birth (`GapEnds` fails
  without `Prompt`).
- With ReqCap 1 and QCap 1 the event loop waits for room in a node's queue and
  that node for room in the request channel (generic_app.rs 711, 350): `Convergence`
  fails.
- An NBIRTH that overtakes a DDEATH of the birth before leaves the device
  Birthed: the DDEATH is ignored as old, and a birth says nothing of the devices
  it does not name (generic_app.rs 398-404).
- A birth is compared with the last birth's timestamp only, not with the time
  the node was declared stale. Births of equal timestamps: the later is ignored.
- An error in the drain loop leaves the next expected message in the buffer
  until the rebirth the error asks for.
- An unknown metric in NDATA asks for a rebirth as InvalidPayload; for devices
  as UnknownMetric (generic_app.rs 443-446, 231-234).
- A task of `try_online` may publish ONLINE on a later connection than it
  subscribed on; a cancel before the first session is up may leave ONLINE
  retained (eventloop.rs 75-101).

Of metrics and data:

- An update published while a birth that has already copied the old value is
  under way is refused, and nothing repeats it until the next (`missed`).
- `publish_metrics` of the simple manager leaves out metrics without a token and
  returns Ok (simple_manager.rs 338).
- `create_publish_metric(None)` sets neither value nor is_null, and a host
  refuses the whole batch. A command with is_null FALSE reaches its handler as
  None; with TRUE it is skipped.
- Custom aliases are not entered in the set that generated ones are checked
  against; an id hash moved past `u32::MAX` wraps or panics with the build.
- A template may nest one that was never registered: `check_template_metrics` passes
  over a name it does not find (node.rs 446-449), and returns at the first nested one
  it finds without looking at the others. The docs say that a template used as a field
  must be registered first, and that the check ensures it (node.rs 395, 420). `deregister` lets go of a template that others nest. A host
  then gets an instance inside an instance whose definition no birth has.
  MetricPath has the case (its template `u` nests `t`), and `InstancesDefined` says no
  more than that a template's outermost instance is defined.
- A group called "STATE" has its messages read as STATEs of a host (utils.rs 78);
  MCWireFormat leaves it out. The namespace of a topic is not checked, nor what
  follows a host's id.

## 5. What is proved

The theorems hold for every value of the constants that satisfies the named
ASSUMEs (positive moduli and capacity, `Window < SeqMod`, bounds in `Nat`); the
runs evaluate these.

**EonSessionProofs.** `TypeCorrect` and `GateHolds` (`HostGate`): however often
connections break, STATEs change and requests fail, a node with a primary host
births, and stays birthed, only while this connection has told it that the host
is online. `HostGate` is not inductive. `IInv` adds three facts about what is
under way: a node that is publishing its NBIRTH is not birthed yet
(`DeadWhileBirthing`); a STATE reaches the node task only on a connection the
task knows of, since events keep their order (`StateOnline`); and while the
event loop polls a live connection, the node task knows of it or will once it
has emptied the client_state channel (`LoopKnows`). One lemma per action says what
the action does to the parts the invariants speak of (its *effect*), and one step
per action uses it. The lemmas assume the types of the session only and not of what
is in the request channel, so that they hold with devices as well.

**EonAgreementProofs.** What hosts and node know of each other. The invariant is
built up in layers; each needs the ones before it, and each theorem takes as many as
it needs.

- `NodeOrder`: the node is birthed only on a connection it knows of, and its bdSeq
  stays what it is between the start and the end of a birth or a death.
- `Handover`: the event loop has the node task's answer to `Offline` before it
  connects again, so the task is never birthed on a connection it took for the
  one before. Only the drain that `run()` abandons leaves an `Offline` behind.
- `Bds`: the will of a connection, and the one set for the next, carry the node's
  bdSeq, or the answer that the event loop has yet to read carries it.
- `Carried`: while no connection breaks, only deaths and a DISCONNECT are left in the
  client for the next connection, and an NBIRTH in the channel has the SUBSCRIBE
  ahead of it and the bdSeq of the will. From these: `SubscriptionFirst`
  (`SubscribedFirst`) and `BirthsMatchWills` (`BirthCarriesWill`), which assume
  `env.losses = 0`.
- `Messages`, `Heard`: no STATE is newer than the host's, and once the broker has the
  subscription the newest is on its way, or is the last of those on their way that
  the node will heed. From these: `HostKnownRight` (`HostViewAgrees`), which assumes
  nothing.
- `Running`, `Attempt`: until somebody cancels, a connected node that is not birthed
  has its retry armed or waits for its host: `AttemptsGoOn` (`AttemptAhead`), unless
  both a refused request and a rebirth have occurred.
- `Deaths`: the last of the births and deaths under way decides what the hosts will
  believe, each DISCONNECT has an NDEATH of the present bdSeq before it, and the hosts
  take the node for alive only under the will of a standing connection. From these:
  `NoGhosts` (`NoGhost`), `CancelledNodesDie` (`EndsDead`), `HostsAndNodeAgree`
  (`HostsAgree`).

The hypotheses are needed: with MaxFail 1, TLC finds `EndsDead` and `NoGhost` violated
with MaxFlip 2 and `HostsAgree` with MaxCmd 1 (the node task logs the refusal and goes
on), and `NoGhost` with a cancel that does not leave the death to the will.

**EonNodeProofs.** The composition. A device or a publisher takes sequence numbers
from the shared state and puts requests into the shared channel, and does nothing else
to the session (`DeviceSide`); with that the session's lemmas carry over.
`NodeTypeCorrect` (`NodeTypeOK`): types of the whole. `GateHoldsWithDevices`
(`HostGate`): what the session promises of its primary host it keeps. `NoDeviceForgotten`
(`EnabledBirthed`): a birthed node at rest has every enabled device birthed, unless
the client refused a device's message. `EnabledBirthed` says nothing until everything is
at rest; `DeviceInv` says what holds on the way there: in a birthed node, every
"Death" in a device's channel is followed by a birth (`Attentive`), and an enabled
device is birthed, or its birth is under way, or one waits in its channel (`Careful`).
Because a task that is at rest or not yet registered has no answer pending and nothing
enabled (`DevicesRest`), and because requests are taken only after the node's words,
an enable() that overtakes a birth finds one ahead of it.
`BirthsAnnounced` (`BirthedAnnounced`) needs to know who may be wrong meanwhile. A
device whose DBIRTH was accepted and that has no word of the node to read (`Certain`)
is known to the hosts, or will be from the channel, where nothing behind its DBIRTH
unmakes it (`Announcing`); when the node is dead and is not just being born again,
every device that takes itself for birthed has a "Death" to read (`Undeceived`), so it
cannot pass over the "Birth" that follows. It assumes that no request of the node was
refused (the devices are not told of a failed rebirth) and that no two devices share a
name; section 4 names what happens otherwise.

**EonWireProofs.** What reaches the hosts through the one request channel, which node
task, device tasks and publishers fill and the event loop empties.

- `DataFromKnown` (`DataFromAlive`): hosts get data only from a node and a device
  they know to be alive, however rebirths and publishers interleave. A publisher
  looks at `birthed`, takes a number and sends in three steps, so the invariant
  `Smooth` says of each of them what must be ahead of it in the channel: whoever
  may still send has his DBIRTH, and that an NBIRTH, with the hosts or before him
  (`BirthsLead`, `KnownSpeakers`, `KnownData`), and nothing that takes it away is
  on its way (`Peaceful`, `Staying`, `Lasting`, `Willing`). Assumed: no primary
  host, no request refused, no cancel, no device disabled or unregistered.
- `DeathsDeclared` (`OnlyGivenUpGhosts`): at rest only enabled, registered devices are
  alive for the hosts, also when names are registered again, and devices that gave
  their DDEATH up because the node had no number for it. `DeathInv`: a name the
  hosts will take to be alive once they have read the channel has a device that
  answers for it, because it is birthed, being birthed, about to send its DDEATH or
  marked `unsaid` (`Owned`); an unregistered device still has "Removed" to read, as the
  last word it ever gets, or is done (`Leaving`). The one hypothesis is that there is no
  primary host. NodeDisableRebirth shows the step that leaves a ghost; the theorem says
  that on one connection it is the only one.
- `NumbersComplete` (`NoHoles`), with no hypothesis: at rest the hosts of a birthed node
  have every number from the NBIRTH's 0 to the last one given out. It holds over
  rebirths that overtake numbered messages, numbers that come round again, lost
  connections, cancels, a primary host and any number of publishers. `NumberInv`: on a
  standing connection each number since the NBIRTH is with a task, a thread or a request
  behind that NBIRTH, or with the hosts (`Complete`). That a number of an earlier birth
  may arrive too is no harm to it.

**NodeStreamProofs.** No hypotheses: streams, windows, births and redeliveries are as
many as the constants say. `NothingLost` alone is not inductive: whether
a message is recognised depends on its key. `IInv` says that the expected number
is the one after the last applied message (`ExpectsNext`), that a key plus the
offset is the number of the message under it (`KeysMatch`), that what is
buffered has arrived within the window (`BufferedArrived`, `InWindow`), that
without redelivery nothing in the buffer has been applied already (`NoStale`), and
that with one the birth's stream is in its first round (`FirstRound`). Without
redelivery two buffered messages differ by less than `SeqMod`, so equal numbers mean
equal messages; in the first round they do anyway. From that invariant
(`Invariance`) follow `TypeCorrect`, `AssertionHolds` (the assertion in `drain`
cannot fail), `NeverLost` (`NothingLost`) and `Refinement` (`InOrderSafe`: steps of
NodeStream are steps or stutters of InOrderDelivery). `DrainFinds` (`OnlyWrapHides`)
adds that the loop stops only at a smallest key that is not the expected message's:
that message, if it is buffered, has a greater key than a later message, which only a
wrapped key can be. So NodeStreamKeyWrap shows the only way in which `drain` fails its
comment without redelivery.

The arithmetic modulo `SeqMod` is in ResequencerProofs, with `%` reduced to cases.

**AppNodeProofs.** `StaleIsEmpty` (`StaleEmpty`): a node that is stale holds no
message back and has no reorder timer, whatever the broker loses or repeats and
however deaths, lost connections, timers and rebirth requests interleave with the
drain loop. `DevicesDie`: nor does it have a device that is alive. `StaleEmpty` is not
inductive: the loop that drains the buffer would go on applying what it finds.
`IInv` adds that the loop runs on a Birthed node only, and that the devices of a
stale node are stale. Every way from Birthed to Stale goes through `SetStale`, so
one lemma per method of `Node` and one per action is enough.

`PromiseKept` (`KeepsPromise`): the actor implements NodeView; every step of it is
one of NodeView or a stutter. What must be known is what the messages on their way
are: the timestamps of births order the edge node's sessions (`Chronology`), the
number of a message of this session is its place after the birth (`Numbered`), and
the record of NodeView is the node's own, with the resequencer waiting for the
message after the last applied (`Expecting`). `ViewInv` is these together. The
theorem assumes `FewMessages`: with resequencing the edge node sends fewer than
`SeqMod` messages after one birth. Without it a late duplicate of a number that has
come round again cannot be told from the message that is due. What the operators of
Resequencer return is stated once, in **ResequencerProofs**, for both hosts' models.

**AppSessionProofs.** `OnlineHears` (`HearsNodes`) and `WillAlwaysCovers`
(`WillCovers`) with no hypothesis. `IInv` says that no attempt and no result that
counts is older than the connection there is now, because each carries the number
of its attempt (`AttemptsCurrent`), and that no ONLINE, retained, requested or about
to be requested, is newer than the will (`WillHeld`).

*Only model-checked:*

- everything under fairness (`EventuallyBirthed`, `CancelEndsRun`,
  `ArrivedIsApplied`, `GapEnds`, `Convergence`, `OnlineAgain`, `CancelEnds`), and
  `NobodyStuck`: TLAPS has neither liveness nor ENABLED;
- EonMetrics, which reaches the recursive check of nested templates in Births: tlapm
  has no SMT backend there (`IdsAgree`, `SharedOnlyByCarry`, `HostCatchesUp`,
  `InstancesDefined`);
- what the recursive definitions of Templates and the folds of Values, DataSets and
  PropertySets compute, which would need induction over data (`ReadsBack`,
  `ForeignUnderstood`, `DamageNoticed`, `CopyAgrees`, `SpoiltChangesNothing`).

## 6. What is not modelled

- *The untyped DataSet* (dataset.rs 204-222, 489-507) and its setters.
- *Metric metadata, timestamps, is_transient and property sets on metrics*; the
  datatype of a birth's metric is not compared with its value by a host either.
- *Templates:* arrays, DateTime and optional nested templates cannot be fields of
  a derived template; integers out of a field's range are cut.
- *Custom aliases that collide*, a metric of the application named "bdSeq":
  the code panics.
- *The pass-through metric manager*, callbacks and metric stores: user code.
- *The in-memory channel client, generated code, codegen, attribute parsing of
  the macros, examples, TCK runner.*
- *QoS, MQTT sessions kept over reconnections, TLS*: settings of rumqttc.
- *Several nodes in one Application.* They share only the client, its request
  channel and the event loop; AppNode has one, and the others' requests are the
  environment's. *Several hosts* differ only in what reaches them.

## 7. Plan

What is left, in order:

1. `CheckTemplateMetrics` of Births as a recursive function, which would open
   EonMetrics to the prover: that `GenerateAlias` returns an alias not given out
   before. `SharedOnlyByCarry` needs induction over the metrics of a birth besides.
2. *Composition*: EonNode's output as the input of AppNode, in place of AppNode's
   own edge node.
