------------------------------- MODULE EonNode -------------------------------
(***************************************************************************)
(* An edge node with its devices (srad-eon/src/device.rs) and the threads  *)
(* that publish metrics, composed with the session of EonSession: the node *)
(* task notifies the devices of births and deaths through their unbounded  *)
(* channels, and everybody allocates sequence numbers from the one shared  *)
(* state before handing a message to the client.                           *)
(*                                                                         *)
(* A device is one task, the result of one register_device call; two tasks *)
(* may have the same device name, one registered after the other.          *)
(***************************************************************************)
EXTENDS EonSession

CONSTANTS Devices,       \* the device tasks
          NameOf,        \* the name each is registered under
          Publishers,    \* devices, and "node", with a thread that publishes
          Requests,      \* the requests the application makes of its devices
          MaxReq,        \* bound: such requests
          MaxUnregister, \* bound: devices unregistered
          MaxDevFail,    \* bound: device births and deaths the client refuses
          MaxData,       \* bound: metrics published
          MayTry         \* whether the try_ variants are used to publish

ASSUME NodeAssumption ==
    /\ "node" \notin Devices
    /\ Publishers \subseteq Devices \cup {"node"}
    /\ Requests \subseteq {"Enable", "Disable", "Rebirth"}
    /\ {MaxReq, MaxUnregister, MaxDevFail, MaxData} \subseteq Nat
    /\ MayTry \in BOOLEAN

VARIABLES registered,    \* DeviceMap: the tasks the node notifies
          dev,           \* the device tasks and their channels
          pub,           \* the publishing threads
          wire,          \* what the hosts have heard of data and devices
          app            \* counters of the bounded application

nodeVars == <<vars, registered, dev, pub, wire, app>>

(* The session's variables a device or a publishing thread leaves alone.   *)
sessionOnly == <<node, rebirthRx, cmds, loop, cs, stop, cancel, client, broker,
                 inbox, host, env>>

NodeInit ==
    /\ Init
    /\ registered = {}
    /\ dev = [d \in Devices |->
                [pc |-> "new", res |-> "wait", n |-> 0, enabled |-> FALSE,
                 birthed |-> FALSE, unsaid |-> FALSE, mail |-> <<>>, reqs |-> <<>>]]
    /\ pub = [p \in Publishers |-> [pc |-> "idle", n |-> 0]]
    /\ wire = [seqs |-> {}, alive |-> {}, born |-> {}, dead |-> {}]
    /\ app = [reqs |-> 0, unregistered |-> 0, fails |-> 0, data |-> 0, dropped |-> 0]

-----------------------------------------------------------------------------
(* The node's side: birth_devices() and on_death() notify every registered *)
(* device.                                                                 *)
Notify(m) ==
    dev' = [d \in Devices |->
              IF d \in registered THEN [dev[d] EXCEPT !.mail = Append(@, m)]
              ELSE dev[d]]

(* Mutant: the devices are not birthed with the node.                      *)
NodeBirthedAlone == Birthed /\ UNCHANGED dev

NodeBirthed == Birthed /\ Notify(node.type)

NodeOffline ==
    /\ TakeOffline
    /\ IF st.online THEN Notify("Death") ELSE UNCHANGED dev

NodeDeathSent == DeathSent /\ Notify("Death")

(* What the hosts make of a request the broker takes: an NBIRTH starts the *)
(* sequence numbers over; a device is alive from its DBIRTH until its      *)
(* DDEATH or the death of the node, and born if its DBIRTH belongs to the  *)
(* latest NBIRTH.  Whoever has published a DDEATH stays in `dead'.         *)
HostAlive == IF broker.view = NoBd THEN {} ELSE wire.alive

Hear(m) ==
    LET numbered == [wire EXCEPT !.seqs = @ \cup {m.n}]
    IN  CASE m.kind = "NBIRTH" -> [wire EXCEPT !.seqs = {0}, !.alive = HostAlive, !.born = {}]
          [] m.kind = "DATA"   -> numbered
          [] m.kind = "DBIRTH" -> [numbered EXCEPT !.alive = @ \cup {NameOf[m.from]},
                                                   !.born = @ \cup {NameOf[m.from]}]
          [] m.kind = "DDEATH" -> [numbered EXCEPT !.alive = @ \ {NameOf[m.from]},
                                                   !.born = @ \ {NameOf[m.from]},
                                                   !.dead = @ \cup {NameOf[m.from]}]
          [] OTHER             -> wire

HostsHear ==
    /\ PollRequest
    /\ wire' = IF client.conn = "up" THEN Hear(Head(chan)) ELSE wire

SessionStep ==
    \/ /\ NodeBirthed \/ NodeOffline \/ NodeDeathSent
       /\ UNCHANGED <<registered, pub, wire, app>>
    \/ /\ HostsHear
       /\ UNCHANGED <<registered, dev, pub, app>>
    \/ /\ \/ NodeOnlyStep \/ LoopStep \/ PollEvent \/ AppStep
          \/ HostFlips \/ OldState \/ CooldownEnds
       /\ UNCHANGED <<registered, dev, pub, wire, app>>

-----------------------------------------------------------------------------
(* A device's task.  One that was removed takes nothing more: its channels *)
(* are empty and nobody writes to them.                                    *)
DevIdle(d) == [d EXCEPT !.pc = "idle", !.res = "wait", !.n = 0]

(* Mutant: a birthed device is passed over whatever the birth's type.      *)
DevBirthOnce(d, r, type) ==
    LET goes == r.enabled /\ ~r.birthed /\ HasNextSeq(st)
    IN  \/ /\ goes
           /\ st' = GetNextSeq(st)
           /\ dev' = [dev EXCEPT ![d] = [r EXCEPT !.pc = "dbirth", !.n = st'.seq]]
        \/ /\ ~goes
           /\ dev' = [dev EXCEPT ![d] = r]
           /\ UNCHANGED st

(* birth(): not for a disabled device, nor a first birth for a birthed     *)
(* one; without a sequence number it is given up.                          *)
DevBirth(d, r, type) ==
    LET goes == /\ r.enabled
                /\ ~(type = "Birth" /\ r.birthed)
                /\ HasNextSeq(st)
    IN  \/ /\ goes
           /\ st' = GetNextSeq(st)
           /\ dev' = [dev EXCEPT ![d] = [r EXCEPT !.birthed = FALSE, !.pc = "dbirth",
                                                  !.n = st'.seq]]
        \/ /\ ~goes
           /\ dev' = [dev EXCEPT ![d] = r]
           /\ UNCHANGED st

(* Mutant: no DDEATH is published.                                         *)
DevDeathSilent(d, r) ==
    /\ dev' = [dev EXCEPT ![d] = [r EXCEPT !.birthed = FALSE]]
    /\ UNCHANGED st

(* death(true): the DDEATH is published if there is a number for it; that  *)
(* there was none is remembered in the history `unsaid'.                   *)
DevDeath(d, r) ==
    \/ /\ r.birthed /\ HasNextSeq(st)
       /\ st' = GetNextSeq(st)
       /\ dev' = [dev EXCEPT ![d] = [r EXCEPT !.birthed = FALSE, !.pc = "ddeath",
                                              !.n = st'.seq]]
    \/ /\ ~(r.birthed /\ HasNextSeq(st))
       /\ dev' = [dev EXCEPT ![d] = [r EXCEPT !.birthed = FALSE, !.unsaid = @ \/ r.birthed]]
       /\ UNCHANGED st

DevTakeNode(d) ==
    /\ dev[d].pc = "idle" /\ dev[d].mail # <<>>
    /\ LET m == Head(dev[d].mail)
           r == [dev[d] EXCEPT !.mail = Tail(@)]
       IN  \/ /\ m \in {"Birth", "Rebirth"}
              /\ DevBirth(d, r, m)
           \/ /\ m = "Death"
              /\ dev' = [dev EXCEPT ![d] = [r EXCEPT !.birthed = FALSE]]
              /\ UNCHANGED st
           \/ /\ m = "Removed"
              /\ DevDeath(d, [r EXCEPT !.reqs = <<>>])
    /\ UNCHANGED <<registered, pub, wire, app, chan>> /\ UNCHANGED sessionOnly

DevTakeRequest(d) ==
    /\ dev[d].pc = "idle" /\ dev[d].mail = <<>> /\ dev[d].reqs # <<>>
    /\ LET m == Head(dev[d].reqs)
           r == [dev[d] EXCEPT !.reqs = Tail(@)]
       IN  \/ m = "Enable"  /\ DevBirth(d, [r EXCEPT !.enabled = TRUE], "Birth")
           \/ m = "Disable" /\ DevDeath(d, [r EXCEPT !.enabled = FALSE])
           \/ m = "Rebirth" /\ DevBirth(d, r, "Rebirth")
    /\ UNCHANGED <<registered, pub, wire, app, chan>> /\ UNCHANGED sessionOnly

DevSend(d) ==
    /\ dev[d].pc \in {"dbirth", "ddeath"} /\ dev[d].res = "wait"
    /\ ~ClientGone /\ Room
    /\ chan' = Append(chan, Request(IF dev[d].pc = "dbirth" THEN "DBIRTH" ELSE "DDEATH",
                                    d, dev[d].n))
    /\ dev' = [dev EXCEPT ![d].res = "ok"]
    /\ UNCHANGED <<registered, pub, wire, app, st>> /\ UNCHANGED sessionOnly

DevSendFails(d) ==
    /\ dev[d].pc \in {"dbirth", "ddeath"} /\ dev[d].res = "wait"
    /\ dev' = [dev EXCEPT ![d].res = "err"]
    /\ \/ ClientGone /\ UNCHANGED app
       \/ /\ ~ClientGone
          /\ app.fails < MaxDevFail
          /\ app' = [app EXCEPT !.fails = @ + 1]
    /\ UNCHANGED <<registered, pub, wire, st, chan>> /\ UNCHANGED sessionOnly

(* After the publish: a device whose DBIRTH was accepted is birthed.       *)
DevSent(d) ==
    /\ dev[d].pc \in {"dbirth", "ddeath"} /\ dev[d].res # "wait"
    /\ LET accepted == dev[d].pc = "dbirth" /\ dev[d].res = "ok"
           r == DevIdle(dev[d])
       IN  dev' = [dev EXCEPT ![d] = [r EXCEPT !.birthed = r.birthed \/ accepted]]
    /\ UNCHANGED <<registered, pub, wire, app, st, chan>> /\ UNCHANGED sessionOnly

-----------------------------------------------------------------------------
(* The application's calls: register_device(), unregister_device() and the *)
(* requests of a DeviceHandle.                                             *)
Register(d) ==
    /\ dev[d].pc = "new"
    /\ \A e \in registered : NameOf[e] # NameOf[d]
    /\ registered' = registered \cup {d}
    /\ dev' = [dev EXCEPT ![d].pc = "idle"]
    /\ UNCHANGED <<pub, wire, app, st, chan>> /\ UNCHANGED sessionOnly

Unregister(d) ==
    /\ d \in registered
    /\ app.unregistered < MaxUnregister
    /\ app' = [app EXCEPT !.unregistered = @ + 1]
    /\ registered' = registered \ {d}
    /\ dev' = [dev EXCEPT ![d].mail = Append(@, "Removed")]
    /\ UNCHANGED <<pub, wire, st, chan>> /\ UNCHANGED sessionOnly

AskDevice(d, request) ==
    /\ d \in registered
    /\ app.reqs < MaxReq
    /\ app' = [app EXCEPT !.reqs = @ + 1]
    /\ dev' = [dev EXCEPT ![d].reqs = Append(@, request)]
    /\ UNCHANGED <<registered, pub, wire, st, chan>> /\ UNCHANGED sessionOnly

(* Mutant: nobody asks whether the device is birthed.                      *)
PubCheckNothing(p) ==
    /\ pub[p].pc = "idle"
    /\ app.data < MaxData
    /\ app' = [app EXCEPT !.data = @ + 1]
    /\ pub' = [pub EXCEPT ![p].pc = "checked"]
    /\ UNCHANGED <<registered, dev, wire, st, chan>> /\ UNCHANGED sessionOnly

(* publish_metrics: a device's handle checks that the device is birthed,   *)
(* then a sequence number is taken, then the client is given the message.  *)
PubCheck(p) ==
    /\ pub[p].pc = "idle"
    /\ app.data < MaxData
    /\ p # "node" => dev[p].birthed
    /\ app' = [app EXCEPT !.data = @ + 1]
    /\ pub' = [pub EXCEPT ![p].pc = "checked"]
    /\ UNCHANGED <<registered, dev, wire, st, chan>> /\ UNCHANGED sessionOnly

(* Mutant: the number is the one before the increment.                     *)
PubSeqStale(p) ==
    /\ pub[p].pc = "checked"
    /\ HasNextSeq(st)
    /\ st' = GetNextSeq(st)
    /\ pub' = [pub EXCEPT ![p] = [pc |-> "send", n |-> st.seq]]
    /\ UNCHANGED <<registered, dev, wire, app, chan>> /\ UNCHANGED sessionOnly

PubSeq(p) ==
    /\ pub[p].pc = "checked"
    /\ \/ /\ HasNextSeq(st)
          /\ st' = GetNextSeq(st)
          /\ pub' = [pub EXCEPT ![p] = [pc |-> "send", n |-> st'.seq]]
       \/ /\ ~HasNextSeq(st)
          /\ pub' = [pub EXCEPT ![p].pc = "idle"]
          /\ UNCHANGED st
    /\ UNCHANGED <<registered, dev, wire, app, chan>> /\ UNCHANGED sessionOnly

(* The message is accepted; or the client is gone; or try_publish finds    *)
(* the request channel full.                                               *)
PubSend(p) ==
    /\ pub[p].pc = "send"
    /\ \/ ~ClientGone /\ Room /\ chan' = Append(chan, Request("DATA", p, pub[p].n))
       \/ ClientGone /\ UNCHANGED chan
       \/ MayTry /\ ~ClientGone /\ ~Room /\ UNCHANGED chan
    /\ app' = [app EXCEPT !.dropped = IF chan' = chan THEN @ + 1 ELSE @]
    /\ pub' = [pub EXCEPT ![p] = [pc |-> "idle", n |-> 0]]
    /\ UNCHANGED <<registered, dev, wire, st>> /\ UNCHANGED sessionOnly

DevStep(d) == DevTakeNode(d) \/ DevTakeRequest(d) \/ DevSend(d)
                \/ DevSendFails(d) \/ DevSent(d)

AppDeviceStep ==
    \/ \E d \in Devices : Register(d) \/ Unregister(d)
    \/ \E d \in Devices, r \in Requests : AskDevice(d, r)
    \/ \E p \in Publishers : PubCheck(p) \/ PubSeq(p) \/ PubSend(p)

NodeNext == SessionStep \/ (\E d \in Devices : DevStep(d)) \/ AppDeviceStep

NodeSpec == NodeInit /\ [][NodeNext]_nodeVars

-----------------------------------------------------------------------------
DeviceRequests ==
    [kind : {"DBIRTH", "DDEATH"}, from : Devices, n : SeqNo]
      \cup [kind : {"DATA"}, from : Publishers, n : SeqNo]

DeviceTask ==
    [pc : {"new", "idle", "dbirth", "ddeath"}, res : {"wait", "ok", "err"},
     n : SeqNo, enabled : BOOLEAN, birthed : BOOLEAN, unsaid : BOOLEAN,
     mail : Seq({"Birth", "Rebirth", "Death", "Removed"}),
     reqs : Seq({"Enable", "Disable", "Rebirth"})]

(* The types of all variables, those of the session among them.            *)
NodeTypeOK ==
    /\ SessionTypes
    /\ chan \in Seq(SessionRequests \cup DeviceRequests) /\ Len(chan) <= Cap
    /\ registered \subseteq Devices
    /\ dev \in [Devices -> DeviceTask]
    /\ pub \in [Publishers -> [pc : {"idle", "checked", "send"}, n : SeqNo]]
    /\ wire \in [seqs : SUBSET SeqNo,
                 alive : SUBSET {NameOf[d] : d \in Devices},
                 born : SUBSET {NameOf[d] : d \in Devices},
                 dead : SUBSET {NameOf[d] : d \in Devices}]
    /\ app \in [{"reqs", "unregistered", "fails", "data", "dropped"} -> Nat]

(* Nothing is under way anywhere in the node.                              *)
Quiet ==
    /\ Settled
    /\ \A d \in Devices : /\ dev[d].pc \in {"new", "idle"}
                          /\ dev[d].mail = <<>> /\ dev[d].reqs = <<>>
    /\ \A p \in Publishers : pub[p].pc = "idle"

(* No enabled device is forgotten: whichever way enable() races with the   *)
(* births of the node, once the node is birthed and at rest every enabled  *)
(* device is, unless the client refused its DBIRTH ("If the node is not    *)
(* online, the device will be birthed when it is next online").            *)
EnabledBirthed ==
    Quiet /\ st.birthed /\ app.fails = 0 =>
        \A d \in registered : dev[d].enabled => dev[d].birthed

(* A device that believes it is birthed has published its DBIRTH since the *)
(* node's latest NBIRTH ("publish the node and device births from the same *)
(* session"), a refused rebirth or not.  Where a name was unregistered the *)
(* DDEATH of its old task may follow the DBIRTH of its new one.            *)
BirthedAnnounced ==
    Quiet /\ st.birthed /\ app.unregistered = 0 =>
        \A d \in registered : dev[d].birthed => NameOf[d] \in wire.born

(* A device that was disabled or unregistered has been declared dead       *)
(* ("Will produce a death message for the device").                        *)
DisabledDead ==
    Quiet /\ st.birthed =>
        HostAlive \subseteq {NameOf[d] : d \in {e \in registered : dev[e].enabled}}

(* No connection has been lost, ended by the broker, or given up because   *)
(* the client refused a request of the node.                               *)
NeverReconnects == env.losses + env.kicks + env.fails = 0

(* The only devices the hosts take to be alive although they are disabled  *)
(* or unregistered are those that gave their DDEATH up, for want of a      *)
(* sequence number while the node was being born again, or whose DDEATH    *)
(* the client refused.  (After a reconnection there are others: a DBIRTH   *)
(* accepted on the old connection is published on the new one.)            *)
OnlyGivenUpGhosts ==
    Quiet /\ st.birthed /\ app.fails = 0 /\ NeverReconnects =>
        \A name \in HostAlive :
            \/ \E d \in registered : NameOf[d] = name /\ dev[d].enabled
            \/ \E d \in Devices : NameOf[d] = name /\ dev[d].unsaid

(* The messages the hosts got since the NBIRTH carry all sequence numbers  *)
(* from 0 to the last one allocated, however publishers, who allocate in   *)
(* one step and send in another, devices and rebirths interleave, unless   *)
(* the client refused a message or a publisher gave one up.  (One number   *)
(* may come twice: a publisher can keep a number across a rebirth.)        *)
NoHoles ==
    Quiet /\ st.birthed /\ app.fails = 0 /\ app.dropped = 0
        => 0 .. st.seq \subseteq wire.seqs

(* On one connection, whatever rebirths it sees, the hosts get data only   *)
(* from what they know to be alive, or from a device that has published a  *)
(* DDEATH: a publisher looks at `birthed' before it sends.  (After a       *)
(* reconnection they may get other data: a publisher that waited for the   *)
(* client through it sends at once.)                                       *)
DataFromAlive ==
    [][/\ HostsHear /\ client.conn = "up" /\ Head(chan).kind = "DATA"
       /\ NeverReconnects
       => /\ broker.view # NoBd
          /\ Head(chan).from # "node" =>
                NameOf[Head(chan).from] \in HostAlive \cup wire.dead
      ]_nodeVars

(* The one deadlock of this design: the node task waits for room in the    *)
(* request channel, which only the event loop's poll() makes, and the      *)
(* event loop waits for the node task, to answer an Offline or to take the *)
(* message in the channel between them (EoN::run, on_offline).             *)
Embrace ==
    /\ node.pc \in Awaiting /\ node.res = "wait" /\ ~Room
    /\ \/ loop.pc = "will" /\ loop.reply = Pending
       \/ loop.pc = "send" /\ cs # <<>>

(* What the tasks of the node do of themselves: no new call of the         *)
(* application, no fault, and no message from outside.                     *)
Work ==
    \/ /\ UNCHANGED env
       /\ SessionStep
       /\ NodeStep \/ LoopStep \/ PollConnect \/ PollRequest \/ PollState \/ PollClosed
    \/ UNCHANGED app /\ \E d \in Devices : DevStep(d)
    \/ \E p \in Publishers : PubSeq(p) \/ PubSend(p)

(* Nobody else is ever stuck: as long as anything is under way, the node   *)
(* task, the event loop, a device, or a publisher can take a step, however *)
(* full the request channel is.                                            *)
NobodyStuck == Quiet \/ Embrace \/ ENABLED Work
=============================================================================
