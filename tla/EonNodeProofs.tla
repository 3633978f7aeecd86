----------------------------- MODULE EonNodeProofs -----------------------------
(***************************************************************************)
(* Proofs about the devices and publishing threads of EonNode, for any     *)
(* devices, names and publishers, any capacity of the request channel and  *)
(* any number of faults, requests, rebirths and connections lost.  What    *)
(* the session does is known from EonAgreementProofs; the devices need of  *)
(* it when the node is birthed, and what it tells them.                    *)
(***************************************************************************)
EXTENDS EonNode, EonAgreementProofs

-----------------------------------------------------------------------------
(* Types.  What is in the request channel, the session's or a device's.    *)
AnyRequest == SessionRequests \cup DeviceRequests

DeviceTypes ==
    /\ registered \subseteq Devices
    /\ dev \in [Devices -> DeviceTask]
    /\ pub \in [Publishers -> [pc : {"idle", "checked", "send"}, n : SeqNo]]
    /\ app \in [{"reqs", "unregistered", "fails", "data", "dropped"} -> Nat]

WireTypes ==
    wire \in [seqs : SUBSET SeqNo, alive : SUBSET {NameOf[d] : d \in Devices},
              born : SUBSET {NameOf[d] : d \in Devices},
              dead : SUBSET {NameOf[d] : d \in Devices}]

ChanTypes == chan \in Seq(AnyRequest) /\ Len(chan) <= Cap

LEMMA NodeTypesAre == NodeTypeOK <=> SessionTypes /\ ChanTypes /\ DeviceTypes /\ WireTypes
BY DEF NodeTypeOK, ChanTypes, AnyRequest, DeviceTypes, WireTypes

(* Whatever the devices put into the channel, the session's births and     *)
(* deaths in it are its own.                                               *)
LEMMA HeadTypes ==
  ASSUME ChanTypes, chan # <<>>
  PROVE  Head(chan) \in AnyRequest /\ BirthTyped(Head(chan))
<1>1. Head(chan) \in AnyRequest
  BY DEF ChanTypes
<1> QED
  BY <1>1 DEF AnyRequest, SessionRequests, DeviceRequests, BirthTyped

(* Every step of the session is one, devices or not.                       *)
LEMMA SessionStepIs == SessionStep => Next
BY DEF SessionStep, NodeBirthed, NodeOffline, NodeDeathSent, HostsHear, Next, NodeStep

LEMMA SessionKeeps ==
  ASSUME SessionTypes, ChanTypes, [Next]_vars
  PROVE  SessionTypes' /\ ChanTypes'
<1>1. SessionTypes'
  BY NextTypes, HeadTypes DEF PollRequest
<1>2. SessionRequests \subseteq AnyRequest
  BY DEF AnyRequest
<1>3. chan' \in Seq(AnyRequest) /\ Len(chan') <= Cap
  BY <1>2, ChannelTypes DEF ChanTypes
<1> QED
  BY <1>1, <1>3 DEF ChanTypes

-----------------------------------------------------------------------------
(* What the devices, the publishers and the application's calls do to the  *)
(* session: they take sequence numbers, which a birthed node gives, and    *)
(* put requests into the channel.                                          *)
DeviceSide ==
    /\ UNCHANGED sessionOnly
    /\ st' = st \/ (HasNextSeq(st) /\ st' = GetNextSeq(st))

LEMMA SeqTaken ==
  ASSUME st \in EoNState, DeviceSide
  PROVE  st' \in EoNState /\ Keeps(st) /\ st'.birthed = st.birthed /\ st'.seq \in SeqNo
<1>1. (st.seq + 1) % SeqMod \in SeqNo
  BY Constants DEF EoNState, SeqNo
<1> QED
  BY <1>1 DEF DeviceSide, GetNextSeq, EoNState, Keeps

LEMMA SideTypes == ASSUME SessionTypes, DeviceSide PROVE SessionTypes'
<1>1. st' \in EoNState
  BY SeqTaken DEF SessionTypes
<1>2. UNCHANGED <<node, rebirthRx, cmds, loop, cs, stop, cancel, client, broker, inbox,
                  host, env>>
  BY DEF DeviceSide, sessionOnly
<1> QED
  BY <1>1, <1>2 DEF SessionTypes

(* The words of the node to a device, and of the application.              *)
Births == {"Birth", "Rebirth"}
MailWords == Births \cup {"Death", "Removed"}

Becomes(d, q) == q \in DeviceTask /\ dev' = [dev EXCEPT ![d] = q]

(* The task took the next sequence number for its message.                 *)
Numbered(q) == st' = GetNextSeq(st) /\ q.n = st'.seq

(* birth() and death(true) of device d, whose task is then r.              *)
LEMMA DevBirthEffect ==
  ASSUME st \in EoNState, NEW d \in Devices, NEW r \in DeviceTask, NEW type \in Births,
         r.pc = "idle", DevBirth(d, r, type), UNCHANGED sessionOnly
  PROVE  /\ DeviceSide
         /\ \E q : /\ Becomes(d, q) /\ q.mail = r.mail /\ q.enabled = r.enabled
                   /\ q.res = r.res /\ q.unsaid = r.unsaid /\ q.reqs = r.reqs
                   /\ \/ /\ q.pc = "dbirth" /\ ~q.birthed /\ r.enabled /\ HasNextSeq(st)
                         /\ Numbered(q)
                      \/ /\ q.pc = "idle" /\ q.birthed = r.birthed /\ st' = st
                         /\ ~r.enabled \/ (type = "Birth" /\ r.birthed) \/ ~HasNextSeq(st)
<1>1. CASE /\ r.enabled /\ ~(type = "Birth" /\ r.birthed) /\ HasNextSeq(st)
           /\ st' = GetNextSeq(st)
           /\ dev' = [dev EXCEPT ![d] = [r EXCEPT !.birthed = FALSE, !.pc = "dbirth",
                                                  !.n = st'.seq]]
  <2>1. DeviceSide
    BY <1>1 DEF DeviceSide
  <2>2. PICK q : q = [r EXCEPT !.birthed = FALSE, !.pc = "dbirth", !.n = st'.seq]
    OBVIOUS
  <2>3. q \in DeviceTask
    BY <2>1, <2>2, SeqTaken DEF DeviceTask
  <2>4. /\ q.mail = r.mail /\ q.enabled = r.enabled /\ q.res = r.res
        /\ q.unsaid = r.unsaid /\ q.reqs = r.reqs /\ q.pc = "dbirth" /\ ~q.birthed /\ q.n = st'.seq
    BY <2>2 DEF DeviceTask
  <2> QED
    BY <1>1, <2>1, <2>2, <2>3, <2>4 DEF Becomes, Numbered
<1>2. CASE /\ ~(r.enabled /\ ~(type = "Birth" /\ r.birthed) /\ HasNextSeq(st))
           /\ dev' = [dev EXCEPT ![d] = r] /\ st' = st
  BY <1>2 DEF DeviceSide, Becomes
<1> QED
  BY <1>1, <1>2 DEF DevBirth

(* The death of a birthed device is published if there is a number for it. *)
Died(r, q) ==
    /\ ~q.birthed /\ (r.unsaid => q.unsaid)
    /\ \/ q.pc = "ddeath" /\ r.birthed /\ HasNextSeq(st) /\ Numbered(q)
       \/ /\ q.pc = "idle" /\ ~(r.birthed /\ HasNextSeq(st)) /\ st' = st
          /\ r.birthed => q.unsaid

LEMMA DevDeathEffect ==
  ASSUME st \in EoNState, NEW d \in Devices, NEW r \in DeviceTask, r.pc = "idle",
         DevDeath(d, r), UNCHANGED sessionOnly
  PROVE  /\ DeviceSide
         /\ \E q : /\ Becomes(d, q) /\ q.mail = r.mail /\ q.enabled = r.enabled
                   /\ q.res = r.res /\ q.reqs = r.reqs /\ Died(r, q)
<1>1. CASE /\ r.birthed /\ HasNextSeq(st) /\ st' = GetNextSeq(st)
           /\ dev' = [dev EXCEPT ![d] = [r EXCEPT !.birthed = FALSE, !.pc = "ddeath",
                                                  !.n = st'.seq]]
  <2>1. DeviceSide
    BY <1>1 DEF DeviceSide
  <2>2. PICK q : q = [r EXCEPT !.birthed = FALSE, !.pc = "ddeath", !.n = st'.seq]
    OBVIOUS
  <2>3. q \in DeviceTask
    BY <2>1, <2>2, SeqTaken DEF DeviceTask
  <2>4. /\ q.mail = r.mail /\ q.enabled = r.enabled /\ q.res = r.res
        /\ q.unsaid = r.unsaid /\ q.reqs = r.reqs /\ q.pc = "ddeath" /\ ~q.birthed /\ q.n = st'.seq
    BY <2>2 DEF DeviceTask
  <2> QED
    BY <1>1, <2>1, <2>2, <2>3, <2>4 DEF Becomes, Numbered, Died
<1>2. CASE /\ ~(r.birthed /\ HasNextSeq(st))
           /\ dev' = [dev EXCEPT ![d] = [r EXCEPT !.birthed = FALSE,
                                                  !.unsaid = @ \/ r.birthed]]
           /\ st' = st
  <2>1. PICK q : q = [r EXCEPT !.birthed = FALSE, !.unsaid = @ \/ r.birthed]
    OBVIOUS
  <2>2. /\ q \in DeviceTask /\ q.mail = r.mail /\ q.enabled = r.enabled /\ q.res = r.res
        /\ q.unsaid = (r.unsaid \/ r.birthed)
        /\ q.reqs = r.reqs /\ q.pc = "idle" /\ ~q.birthed
    BY <2>1 DEF DeviceTask
  <2> QED
    BY <1>2, <2>1, <2>2 DEF Becomes, DeviceSide, Died
<1> QED
  BY <1>1, <1>2 DEF DevDeath

-----------------------------------------------------------------------------
(* What a step of a device's task makes of it: it takes a word of the node *)
(* or a request, or its birth or death is accepted, refused and over.      *)
TookWord(r, q) ==
    /\ r.pc = "idle" /\ r.mail # <<>> /\ q.mail = Tail(r.mail)
    /\ q.enabled = r.enabled /\ q.res = r.res /\ (r.unsaid => q.unsaid)
    /\ q.reqs = IF Head(r.mail) = "Removed" THEN <<>> ELSE r.reqs
    /\ \/ /\ Head(r.mail) \in Births
          /\ \/ q.pc = "dbirth" /\ ~q.birthed /\ r.enabled /\ HasNextSeq(st) /\ Numbered(q)
             \/ /\ q.pc = "idle" /\ q.birthed = r.birthed /\ st' = st
                /\ ~r.enabled \/ (Head(r.mail) = "Birth" /\ r.birthed) \/ ~HasNextSeq(st)
       \/ Head(r.mail) = "Death" /\ q.pc = "idle" /\ ~q.birthed /\ st' = st
       \/ Head(r.mail) = "Removed" /\ Died(r, q)

TookRequest(r, q) ==
    /\ r.pc = "idle" /\ r.mail = <<>> /\ q.mail = <<>> /\ q.res = r.res /\ (r.unsaid => q.unsaid)
    /\ r.reqs # <<>> /\ q.reqs = Tail(r.reqs)
    /\ \/ /\ q.enabled /\ q.pc = "dbirth" /\ ~q.birthed /\ HasNextSeq(st) /\ Numbered(q)
          /\ Head(r.reqs) # "Disable"
       \/ /\ q.pc = "idle" /\ q.birthed = r.birthed /\ (r.enabled => q.enabled) /\ st' = st
          /\ q.enabled => r.birthed \/ ~HasNextSeq(st)
          /\ Head(r.reqs) # "Disable"
       \/ Head(r.reqs) = "Disable" /\ ~q.enabled /\ Died(r, q)

Answered(r, q) ==
    /\ r.pc \in {"dbirth", "ddeath"} /\ r.res = "wait" /\ q.res \in {"ok", "err"}
    /\ q.mail = r.mail /\ q.enabled = r.enabled /\ q.birthed = r.birthed /\ q.pc = r.pc
    /\ q.reqs = r.reqs /\ q.n = r.n /\ q.unsaid = r.unsaid /\ st' = st

WasAnswered(r, q) ==
    /\ r.pc \in {"dbirth", "ddeath"} /\ r.res # "wait" /\ q.res = "wait" /\ q.pc = "idle"
    /\ q.mail = r.mail /\ q.enabled = r.enabled /\ q.reqs = r.reqs /\ st' = st
    /\ q.unsaid = r.unsaid
    /\ q.birthed = (r.birthed \/ (r.pc = "dbirth" /\ r.res = "ok"))

LEMMA TaskFields ==
  ASSUME DeviceTypes, NEW d \in Devices
  PROVE  /\ dev[d] \in DeviceTask /\ dev[d].mail \in Seq(MailWords)
         /\ dev[d].reqs \in Seq({"Enable", "Disable", "Rebirth"})
         /\ dev[d].mail # <<>> => /\ Head(dev[d].mail) \in MailWords
                                  /\ [dev[d] EXCEPT !.mail = Tail(@)] \in DeviceTask
         /\ dev[d].reqs # <<>> => /\ Head(dev[d].reqs) \in {"Enable", "Disable", "Rebirth"}
                                  /\ [dev[d] EXCEPT !.reqs = Tail(@)] \in DeviceTask
<1>1. dev[d] \in DeviceTask
  BY DEF DeviceTypes
<1>2. dev[d].mail \in Seq(MailWords) /\ dev[d].reqs \in Seq({"Enable", "Disable", "Rebirth"})
  BY <1>1 DEF DeviceTask, MailWords, Births
<1>3. dev[d].mail # <<>> => Head(dev[d].mail) \in MailWords /\ Tail(dev[d].mail) \in Seq(MailWords)
  BY <1>2
<1>4. dev[d].reqs # <<>> => /\ Head(dev[d].reqs) \in {"Enable", "Disable", "Rebirth"}
                            /\ Tail(dev[d].reqs) \in Seq({"Enable", "Disable", "Rebirth"})
  BY <1>2
<1>5. MailWords = {"Birth", "Rebirth", "Death", "Removed"}
  BY DEF MailWords, Births
<1>6. dev[d].mail # <<>> => [dev[d] EXCEPT !.mail = Tail(@)] \in DeviceTask
  BY <1>1, <1>3, <1>5 DEF DeviceTask
<1>7. dev[d].reqs # <<>> => [dev[d] EXCEPT !.reqs = Tail(@)] \in DeviceTask
  BY <1>1, <1>4 DEF DeviceTask
<1> QED
  BY <1>1, <1>2, <1>3, <1>4, <1>6, <1>7

LEMMA TakeNodeEffect ==
  ASSUME SessionTypes, DeviceTypes, NEW d \in Devices, DevTakeNode(d)
  PROVE  /\ DeviceSide /\ UNCHANGED <<registered, pub, wire, app, chan>>
         /\ \E q : Becomes(d, q) /\ TookWord(dev[d], q)
<1>1. st \in EoNState /\ dev[d] \in DeviceTask /\ dev[d].pc = "idle" /\ dev[d].mail # <<>>
  BY TaskFields DEF SessionTypes, DevTakeNode
<1>2. PICK r : r = [dev[d] EXCEPT !.mail = Tail(@)]
  OBVIOUS
<1>3. /\ r \in DeviceTask /\ r.pc = "idle" /\ r.mail = Tail(dev[d].mail) /\ r.reqs = dev[d].reqs
      /\ r.enabled = dev[d].enabled /\ r.birthed = dev[d].birthed /\ r.res = dev[d].res
      /\ r.unsaid = dev[d].unsaid
  BY <1>1, <1>2, TaskFields DEF DeviceTask
<1>4. UNCHANGED <<registered, pub, wire, app, chan>> /\ UNCHANGED sessionOnly
  BY DEF DevTakeNode
<1>5. CASE Head(dev[d].mail) \in Births /\ DevBirth(d, r, Head(dev[d].mail))
  <2>1. DeviceSide
    BY <1>1, <1>3, <1>4, <1>5, DevBirthEffect
  <2>2. PICK q : /\ Becomes(d, q) /\ q.mail = r.mail /\ q.enabled = r.enabled
                 /\ q.res = r.res /\ q.unsaid = r.unsaid /\ q.reqs = r.reqs
                 /\ \/ /\ q.pc = "dbirth" /\ ~q.birthed /\ r.enabled /\ HasNextSeq(st)
                       /\ Numbered(q)
                    \/ /\ q.pc = "idle" /\ q.birthed = r.birthed /\ st' = st
                       /\ ~r.enabled \/ (Head(dev[d].mail) = "Birth" /\ r.birthed)
                            \/ ~HasNextSeq(st)
    BY <1>1, <1>3, <1>4, <1>5, DevBirthEffect
  <2>3. TookWord(dev[d], q)
    <3>1. Head(dev[d].mail) # "Removed"
      BY <1>5 DEF Births
    <3> QED
      BY <1>1, <1>3, <1>5, <2>2, <3>1 DEF TookWord
  <2> QED
    BY <1>4, <2>1, <2>2, <2>3
<1>6. CASE /\ Head(dev[d].mail) = "Death" /\ st' = st
           /\ dev' = [dev EXCEPT ![d] = [r EXCEPT !.birthed = FALSE]]
  <2>1. PICK q : q = [r EXCEPT !.birthed = FALSE]
    OBVIOUS
  <2>2. /\ q \in DeviceTask /\ q.mail = r.mail /\ q.enabled = r.enabled /\ q.res = r.res
        /\ q.unsaid = r.unsaid
        /\ q.pc = "idle" /\ ~q.birthed /\ q.reqs = r.reqs
    BY <1>3, <2>1 DEF DeviceTask
  <2>3. TookWord(dev[d], q)
    BY <1>1, <1>3, <1>6, <2>2 DEF TookWord
  <2> QED
    BY <1>4, <1>6, <2>1, <2>2, <2>3 DEF Becomes, DeviceSide
<1>7. CASE Head(dev[d].mail) = "Removed" /\ DevDeath(d, [r EXCEPT !.reqs = <<>>])
  <2>1. PICK r2 : r2 = [r EXCEPT !.reqs = <<>>]
    OBVIOUS
  <2>2. /\ r2 \in DeviceTask /\ r2.mail = r.mail /\ r2.enabled = r.enabled
        /\ r2.res = r.res
        /\ r2.unsaid = r.unsaid /\ r2.pc = "idle" /\ r2.reqs = <<>> /\ r2.birthed = r.birthed
    <3>1. <<>> \in Seq({"Enable", "Disable", "Rebirth"})
      OBVIOUS
    <3> QED
      BY <1>3, <2>1, <3>1 DEF DeviceTask
  <2>3. DevDeath(d, r2)
    BY <1>7, <2>1
  <2>4. PICK q : /\ Becomes(d, q) /\ q.mail = r2.mail /\ q.enabled = r2.enabled
                 /\ q.res = r2.res /\ q.reqs = r2.reqs /\ Died(r2, q)
    BY <1>1, <1>4, <2>2, <2>3, DevDeathEffect
  <2>5. DeviceSide
    BY <1>1, <1>4, <2>2, <2>3, DevDeathEffect
  <2>6. TookWord(dev[d], q)
    BY <1>1, <1>3, <1>7, <2>2, <2>4 DEF TookWord, Died
  <2> QED
    BY <1>4, <2>4, <2>5, <2>6
<1> QED
  BY <1>2, <1>5, <1>6, <1>7 DEF DevTakeNode, Births

LEMMA TakeRequestEffect ==
  ASSUME SessionTypes, DeviceTypes, NEW d \in Devices, DevTakeRequest(d)
  PROVE  /\ DeviceSide /\ UNCHANGED <<registered, pub, wire, app, chan>>
         /\ \E q : Becomes(d, q) /\ TookRequest(dev[d], q)
<1>1. /\ st \in EoNState /\ dev[d] \in DeviceTask /\ dev[d].pc = "idle"
      /\ dev[d].mail = <<>> /\ dev[d].reqs # <<>>
  BY TaskFields DEF SessionTypes, DevTakeRequest
<1>2. PICK r : r = [dev[d] EXCEPT !.reqs = Tail(@)]
  OBVIOUS
<1>3. /\ r \in DeviceTask /\ r.pc = "idle" /\ r.mail = <<>> /\ r.reqs = Tail(dev[d].reqs)
      /\ r.birthed = dev[d].birthed /\ r.res = dev[d].res
      /\ r.unsaid = dev[d].unsaid /\ r.enabled = dev[d].enabled
  BY <1>1, <1>2, TaskFields DEF DeviceTask
<1>4. UNCHANGED <<registered, pub, wire, app, chan>> /\ UNCHANGED sessionOnly
  BY DEF DevTakeRequest
<1>5. ASSUME NEW r2 \in DeviceTask, r2.pc = "idle", r2.mail = <<>>, r2.res = r.res,
             r2.unsaid = r.unsaid, r2.reqs = r.reqs, r2.birthed = r.birthed,
             r.enabled => r2.enabled,
             Head(dev[d].reqs) # "Disable", NEW type \in Births, DevBirth(d, r2, type)
      PROVE  DeviceSide /\ \E q : Becomes(d, q) /\ TookRequest(dev[d], q)
  <2>1. DeviceSide
    BY <1>1, <1>4, <1>5, DevBirthEffect
  <2>2. PICK q : /\ Becomes(d, q) /\ q.mail = r2.mail /\ q.enabled = r2.enabled
                 /\ q.res = r2.res /\ q.unsaid = r2.unsaid /\ q.reqs = r2.reqs
                 /\ \/ /\ q.pc = "dbirth" /\ ~q.birthed /\ r2.enabled /\ HasNextSeq(st)
                       /\ Numbered(q)
                    \/ /\ q.pc = "idle" /\ q.birthed = r2.birthed /\ st' = st
                       /\ ~r2.enabled \/ (type = "Birth" /\ r2.birthed) \/ ~HasNextSeq(st)
    BY <1>1, <1>4, <1>5, DevBirthEffect
  <2>3. TookRequest(dev[d], q)
    BY <1>1, <1>3, <1>5, <2>2 DEF TookRequest
  <2> QED
    BY <2>1, <2>2, <2>3
<1>6. CASE Head(dev[d].reqs) = "Enable" /\ DevBirth(d, [r EXCEPT !.enabled = TRUE], "Birth")
  <2>1. PICK r2 : r2 = [r EXCEPT !.enabled = TRUE]
    OBVIOUS
  <2>2. /\ r2 \in DeviceTask /\ r2.pc = "idle" /\ r2.mail = <<>> /\ r2.res = r.res
        /\ r2.unsaid = r.unsaid /\ r2.reqs = r.reqs /\ r2.birthed = r.birthed /\ r2.enabled
    BY <1>3, <2>1 DEF DeviceTask
  <2> QED
    BY <1>4, <1>5, <1>6, <2>1, <2>2 DEF Births
<1>7. CASE Head(dev[d].reqs) = "Rebirth" /\ DevBirth(d, r, "Rebirth")
  BY <1>3, <1>4, <1>5, <1>7 DEF Births
<1>8. CASE Head(dev[d].reqs) = "Disable" /\ DevDeath(d, [r EXCEPT !.enabled = FALSE])
  <2>1. PICK r2 : r2 = [r EXCEPT !.enabled = FALSE]
    OBVIOUS
  <2>2. /\ r2 \in DeviceTask /\ r2.pc = "idle" /\ r2.mail = <<>> /\ r2.res = r.res
        /\ r2.unsaid = r.unsaid /\ ~r2.enabled /\ r2.reqs = r.reqs /\ r2.birthed = r.birthed
    BY <1>3, <2>1 DEF DeviceTask
  <2>3. DevDeath(d, r2)
    BY <1>8, <2>1
  <2>4. PICK q : /\ Becomes(d, q) /\ q.mail = r2.mail /\ q.enabled = r2.enabled
                 /\ q.res = r2.res /\ q.reqs = r2.reqs /\ Died(r2, q)
    BY <1>1, <1>4, <2>2, <2>3, DevDeathEffect
  <2>5. DeviceSide
    BY <1>1, <1>4, <2>2, <2>3, DevDeathEffect
  <2>6. TookRequest(dev[d], q)
    BY <1>1, <1>3, <1>8, <2>2, <2>4 DEF TookRequest, Died
  <2> QED
    BY <1>4, <2>4, <2>5, <2>6
<1> QED
  BY <1>2, <1>6, <1>7, <1>8 DEF DevTakeRequest

LEMMA SendEffectDev ==
  ASSUME SessionTypes, ChanTypes, DeviceTypes, NEW d \in Devices, DevSend(d)
  PROVE  /\ DeviceSide /\ UNCHANGED <<registered, pub, wire, app>> /\ ChanTypes'
         /\ \E q : Becomes(d, q) /\ Answered(dev[d], q) /\ q.res = "ok"
         /\ \E m \in AnyRequest :
               /\ chan' = Append(chan, m) /\ m.from = d /\ m.n = dev[d].n
               /\ m.kind = (IF dev[d].pc = "dbirth" THEN "DBIRTH" ELSE "DDEATH")
<1>1. /\ dev[d] \in DeviceTask /\ dev[d].pc \in {"dbirth", "ddeath"} /\ dev[d].res = "wait"
      /\ Room /\ UNCHANGED <<registered, pub, wire, app, st>> /\ UNCHANGED sessionOnly
  BY TaskFields DEF DevSend
<1>2. PICK m : m = Request(IF dev[d].pc = "dbirth" THEN "DBIRTH" ELSE "DDEATH", d, dev[d].n)
  OBVIOUS
<1>3. /\ m \in AnyRequest /\ m.from = d /\ m.n = dev[d].n
      /\ m.kind = (IF dev[d].pc = "dbirth" THEN "DBIRTH" ELSE "DDEATH")
  BY <1>1, <1>2 DEF Request, DeviceTask, AnyRequest, DeviceRequests
<1>4. chan' = Append(chan, m)
  BY <1>2 DEF DevSend
<1>5. ChanTypes'
  BY <1>1, <1>3, <1>4, Constants DEF ChanTypes, Room
<1>6. PICK q : q = [dev[d] EXCEPT !.res = "ok"]
  OBVIOUS
<1>7. /\ q \in DeviceTask /\ q.mail = dev[d].mail /\ q.enabled = dev[d].enabled
      /\ q.birthed = dev[d].birthed /\ q.pc = dev[d].pc /\ q.res = "ok"
      /\ q.reqs = dev[d].reqs /\ q.n = dev[d].n /\ q.unsaid = dev[d].unsaid
  BY <1>1, <1>6 DEF DeviceTask
<1>8. dev' = [dev EXCEPT ![d] = q]
  BY <1>6 DEF DevSend
<1> QED
  BY <1>1, <1>3, <1>4, <1>5, <1>7, <1>8 DEF Becomes, Answered, DeviceSide

LEMMA RefusedEffectDev ==
  ASSUME SessionTypes, ChanTypes, DeviceTypes, NEW d \in Devices, DevSendFails(d)
  PROVE  /\ DeviceSide /\ UNCHANGED <<registered, pub, wire, chan>>
         /\ app' \in [{"reqs", "unregistered", "fails", "data", "dropped"} -> Nat]
         /\ app'.fails >= app.fails /\ (app'.fails > 0 \/ loop.pc = "done")
         /\ \E q : Becomes(d, q) /\ Answered(dev[d], q) /\ q.res = "err"
<1>1. /\ dev[d] \in DeviceTask /\ dev[d].pc \in {"dbirth", "ddeath"} /\ dev[d].res = "wait"
      /\ UNCHANGED <<registered, pub, wire, chan, st>> /\ UNCHANGED sessionOnly
  BY TaskFields DEF DevSendFails
<1>2. /\ app' \in [{"reqs", "unregistered", "fails", "data", "dropped"} -> Nat]
      /\ app'.fails >= app.fails /\ (app'.fails > 0 \/ loop.pc = "done")
  <2>1. app \in [{"reqs", "unregistered", "fails", "data", "dropped"} -> Nat]
    BY DEF DeviceTypes
  <2>2. app.fails \in Nat
    BY <2>1
  <2>3. CASE ClientGone /\ app' = app
    BY <2>1, <2>2, <2>3 DEF ClientGone
  <2>4. CASE app' = [app EXCEPT !.fails = @ + 1]
    <3>1. app'.fails = app.fails + 1
      BY <2>1, <2>4
    <3>2. app' \in [{"reqs", "unregistered", "fails", "data", "dropped"} -> Nat]
      BY <2>1, <2>2, <2>4
    <3> QED
      BY <2>2, <3>1, <3>2
  <2> QED
    BY <2>3, <2>4 DEF DevSendFails
<1>3. PICK q : q = [dev[d] EXCEPT !.res = "err"]
  OBVIOUS
<1>4. /\ q \in DeviceTask /\ q.mail = dev[d].mail /\ q.enabled = dev[d].enabled
      /\ q.birthed = dev[d].birthed /\ q.pc = dev[d].pc /\ q.res = "err"
      /\ q.reqs = dev[d].reqs /\ q.n = dev[d].n /\ q.unsaid = dev[d].unsaid
  BY <1>1, <1>3 DEF DeviceTask
<1>5. dev' = [dev EXCEPT ![d] = q]
  BY <1>3 DEF DevSendFails
<1> QED
  BY <1>1, <1>2, <1>4, <1>5 DEF Becomes, Answered, DeviceSide

LEMMA SentEffectDev ==
  ASSUME SessionTypes, ChanTypes, DeviceTypes, NEW d \in Devices, DevSent(d)
  PROVE  /\ DeviceSide /\ UNCHANGED <<registered, pub, wire, app, chan>>
         /\ \E q : Becomes(d, q) /\ WasAnswered(dev[d], q)
<1>1. /\ dev[d] \in DeviceTask /\ dev[d].pc \in {"dbirth", "ddeath"} /\ dev[d].res # "wait"
      /\ UNCHANGED <<registered, pub, wire, app, chan, st>> /\ UNCHANGED sessionOnly
  BY TaskFields DEF DevSent
<1>2. PICK q : q = [DevIdle(dev[d]) EXCEPT !.birthed =
                        DevIdle(dev[d]).birthed \/ (dev[d].pc = "dbirth" /\ dev[d].res = "ok")]
  OBVIOUS
<1>3. dev' = [dev EXCEPT ![d] = q]
  BY <1>2 DEF DevSent
<1>4. /\ q \in DeviceTask /\ q.mail = dev[d].mail /\ q.enabled = dev[d].enabled
      /\ q.birthed = (dev[d].birthed \/ (dev[d].pc = "dbirth" /\ dev[d].res = "ok"))
      /\ q.pc = "idle" /\ q.res = "wait" /\ q.reqs = dev[d].reqs /\ q.unsaid = dev[d].unsaid
  BY <1>1, <1>2, Constants DEF DeviceTask, DevIdle
<1> QED
  BY <1>1, <1>3, <1>4 DEF Becomes, WasAnswered, DeviceSide

(* All of them.                                                            *)
TaskStep(r, q) ==
    \/ TookWord(r, q)
    \/ TookRequest(r, q)
    \/ Answered(r, q) /\ (q.res = "err" => app'.fails > 0 \/ loop.pc = "done")
    \/ WasAnswered(r, q)

LEMMA DevStepEffect ==
  ASSUME SessionTypes, ChanTypes, DeviceTypes, NEW d \in Devices, DevStep(d)
  PROVE  /\ DeviceSide /\ UNCHANGED <<registered, pub, wire>> /\ ChanTypes' /\ DeviceTypes'
         /\ app'.fails >= app.fails
         /\ \E q : Becomes(d, q) /\ TaskStep(dev[d], q)
<1>0. app.fails \in Nat
  BY DEF DeviceTypes
<1>1. /\ DeviceSide /\ UNCHANGED <<registered, pub, wire>> /\ ChanTypes'
      /\ app' \in [{"reqs", "unregistered", "fails", "data", "dropped"} -> Nat]
      /\ app'.fails >= app.fails
      /\ \E q : Becomes(d, q) /\ TaskStep(dev[d], q)
  <2>1. CASE DevTakeNode(d)
    BY <1>0, <2>1, TakeNodeEffect DEF TaskStep, ChanTypes, DeviceTypes
  <2>2. CASE DevTakeRequest(d)
    BY <1>0, <2>2, TakeRequestEffect DEF TaskStep, ChanTypes, DeviceTypes
  <2>3. CASE DevSend(d)
    BY <1>0, <2>3, SendEffectDev DEF TaskStep, DeviceTypes
  <2>4. CASE DevSendFails(d)
    BY <1>0, <2>4, RefusedEffectDev DEF TaskStep, ChanTypes
  <2>5. CASE DevSent(d)
    BY <1>0, <2>5, SentEffectDev DEF TaskStep, ChanTypes, DeviceTypes
  <2> QED
    BY <2>1, <2>2, <2>3, <2>4, <2>5 DEF DevStep
<1>2. PICK q : Becomes(d, q)
  BY <1>1
<1>3. dev' \in [Devices -> DeviceTask]
  BY <1>2 DEF Becomes, DeviceTypes
<1> QED
  BY <1>1, <1>3 DEF DeviceTypes

-----------------------------------------------------------------------------
(* The application's calls: a new device, one that is removed, a request,  *)
(* and the threads that publish.                                           *)
AppCounters == [{"reqs", "unregistered", "fails", "data", "dropped"} -> Nat]

LEMMA AppCounted ==
  ASSUME app \in AppCounters, NEW c \in {"reqs", "unregistered", "data"},
         app' = [app EXCEPT ![c] = @ + 1]
  PROVE  app' \in AppCounters /\ app'.fails = app.fails
BY DEF AppCounters

LEMMA RegisterEffect ==
  ASSUME DeviceTypes, NEW d \in Devices, Register(d)
  PROVE  /\ DeviceSide /\ UNCHANGED <<pub, wire, app, chan>>
         /\ registered' = registered \cup {d} /\ dev[d].pc = "new"
         /\ \E q : /\ Becomes(d, q) /\ q.pc = "idle" /\ q.mail = dev[d].mail
                   /\ q.enabled = dev[d].enabled /\ q.res = dev[d].res /\ q.unsaid = dev[d].unsaid
                   /\ q.birthed = dev[d].birthed
                   /\ q.reqs = dev[d].reqs /\ q.n = dev[d].n
         /\ st' = st
<1>1. dev[d] \in DeviceTask
  BY TaskFields
<1>2. PICK q : q = [dev[d] EXCEPT !.pc = "idle"]
  OBVIOUS
<1>3. /\ q \in DeviceTask /\ q.pc = "idle" /\ q.mail = dev[d].mail
      /\ q.reqs = dev[d].reqs /\ q.n = dev[d].n
      /\ q.enabled = dev[d].enabled /\ q.res = dev[d].res
      /\ q.unsaid = dev[d].unsaid /\ q.birthed = dev[d].birthed
  BY <1>1, <1>2 DEF DeviceTask
<1>4. dev' = [dev EXCEPT ![d] = q]
  BY <1>2 DEF Register
<1> QED
  BY <1>3, <1>4 DEF Register, Becomes, DeviceSide

LEMMA UnregisterEffect ==
  ASSUME DeviceTypes, NEW d \in Devices, Unregister(d)
  PROVE  /\ DeviceSide /\ UNCHANGED <<pub, wire, chan>>
         /\ registered' = registered \ {d} /\ d \in registered
         /\ app' \in AppCounters /\ app'.fails = app.fails
         /\ \E q : /\ Becomes(d, q) /\ q.pc = dev[d].pc /\ q.res = dev[d].res
                   /\ q.unsaid = dev[d].unsaid
                   /\ q.mail = Append(dev[d].mail, "Removed")
                   /\ q.enabled = dev[d].enabled /\ q.birthed = dev[d].birthed
                   /\ q.reqs = dev[d].reqs /\ q.n = dev[d].n
         /\ st' = st /\ app'.unregistered > 0
<1>1. dev[d] \in DeviceTask /\ app \in AppCounters
  BY TaskFields DEF DeviceTypes, AppCounters
<1>2. PICK q : q = [dev[d] EXCEPT !.mail = Append(@, "Removed")]
  OBVIOUS
<1>3. /\ q \in DeviceTask /\ q.pc = dev[d].pc /\ q.mail = Append(dev[d].mail, "Removed")
      /\ q.reqs = dev[d].reqs /\ q.n = dev[d].n
      /\ q.enabled = dev[d].enabled /\ q.res = dev[d].res
      /\ q.unsaid = dev[d].unsaid /\ q.birthed = dev[d].birthed
  <2>1. Append(dev[d].mail, "Removed") \in Seq({"Birth", "Rebirth", "Death", "Removed"})
    BY <1>1 DEF DeviceTask
  <2> QED
    BY <1>1, <1>2, <2>1 DEF DeviceTask
<1>4. dev' = [dev EXCEPT ![d] = q]
  BY <1>2 DEF Unregister
<1>5. app' \in AppCounters /\ app'.fails = app.fails
  BY <1>1, AppCounted DEF Unregister
<1>6. app'.unregistered > 0
  BY <1>1 DEF Unregister, AppCounters
<1> QED
  BY <1>3, <1>4, <1>5, <1>6 DEF Unregister, Becomes, DeviceSide

LEMMA AskDeviceEffect ==
  ASSUME DeviceTypes, NEW d \in Devices, NEW r \in Requests, AskDevice(d, r)
  PROVE  /\ DeviceSide /\ UNCHANGED <<registered, pub, wire, chan>> /\ d \in registered
         /\ app' \in AppCounters /\ app'.fails = app.fails
         /\ \E q : /\ Becomes(d, q) /\ q.pc = dev[d].pc /\ q.mail = dev[d].mail
                   /\ q.enabled = dev[d].enabled /\ q.res = dev[d].res /\ q.unsaid = dev[d].unsaid
                   /\ q.birthed = dev[d].birthed
                   /\ q.reqs = Append(dev[d].reqs, r) /\ q.n = dev[d].n
         /\ st' = st
<1>1. dev[d] \in DeviceTask /\ app \in AppCounters
  BY TaskFields DEF DeviceTypes, AppCounters
<1>2. PICK q : q = [dev[d] EXCEPT !.reqs = Append(@, r)]
  OBVIOUS
<1>3. r \in {"Enable", "Disable", "Rebirth"}
  BY NodeAssumption
<1>4. /\ q \in DeviceTask /\ q.pc = dev[d].pc /\ q.mail = dev[d].mail
      /\ q.reqs = Append(dev[d].reqs, r) /\ q.n = dev[d].n
      /\ q.enabled = dev[d].enabled /\ q.res = dev[d].res
      /\ q.unsaid = dev[d].unsaid /\ q.birthed = dev[d].birthed
  <2>1. Append(dev[d].reqs, r) \in Seq({"Enable", "Disable", "Rebirth"})
    BY <1>1, <1>3 DEF DeviceTask
  <2> QED
    BY <1>1, <1>2, <2>1 DEF DeviceTask
<1>5. dev' = [dev EXCEPT ![d] = q]
  BY <1>2 DEF AskDevice
<1>6. app' \in AppCounters /\ app'.fails = app.fails
  BY <1>1, AppCounted DEF AskDevice
<1> QED
  BY <1>4, <1>5, <1>6 DEF AskDevice, Becomes, DeviceSide

PubStep(p) == PubCheck(p) \/ PubSeq(p) \/ PubSend(p)

LEMMA PubStepEffect ==
  ASSUME SessionTypes, ChanTypes, DeviceTypes, NEW p \in Publishers, PubStep(p)
  PROVE  /\ DeviceSide /\ UNCHANGED <<registered, dev, wire>> /\ ChanTypes'
         /\ app' \in AppCounters /\ app'.fails = app.fails
         /\ pub' \in [Publishers -> [pc : {"idle", "checked", "send"}, n : SeqNo]]
         /\ \/ chan' = chan
            \/ \E m \in AnyRequest : m.kind = "DATA" /\ chan' = Append(chan, m)
<1> DEFINE Thread == [pc : {"idle", "checked", "send"}, n : SeqNo]
<1>1. /\ pub \in [Publishers -> Thread] /\ app \in AppCounters /\ pub[p] \in Thread
      /\ st \in EoNState
  BY DEF DeviceTypes, AppCounters, SessionTypes
<1>2. CASE PubCheck(p)
  <2>1. app' \in AppCounters /\ app'.fails = app.fails
    BY <1>1, <1>2, AppCounted DEF PubCheck
  <2>2. pub' \in [Publishers -> Thread]
    BY <1>1, <1>2 DEF PubCheck
  <2> QED
    BY <1>2, <2>1, <2>2 DEF PubCheck, DeviceSide, ChanTypes
<1>3. CASE PubSeq(p)
  <2>1. DeviceSide
    BY <1>3 DEF PubSeq, DeviceSide
  <2>2. st'.seq \in SeqNo
    BY <1>1, <2>1, SeqTaken
  <2>3. [pc |-> "send", n |-> st'.seq] \in Thread
    BY <2>2
  <2>4. \/ pub' = [pub EXCEPT ![p] = [pc |-> "send", n |-> st'.seq]]
        \/ pub' = [pub EXCEPT ![p].pc = "idle"]
    BY <1>3 DEF PubSeq
  <2>5. pub' \in [Publishers -> Thread]
    BY <1>1, <2>3, <2>4
  <2> QED
    BY <1>1, <1>3, <2>1, <2>5 DEF PubSeq, ChanTypes
<1>4. CASE PubSend(p)
  <2>1. PICK m \in AnyRequest : m.kind = "DATA" /\ m = Request("DATA", p, pub[p].n)
    BY <1>1 DEF Request, AnyRequest, DeviceRequests
  <2>2. chan' = chan \/ (Room /\ chan' = Append(chan, m))
    BY <1>4, <2>1 DEF PubSend
  <2>3. ChanTypes'
    BY <2>1, <2>2, Constants DEF ChanTypes, Room
  <2>4. [pc |-> "idle", n |-> 0] \in Thread
    BY Constants
  <2>5. pub' \in [Publishers -> Thread]
    BY <1>1, <1>4, <2>4 DEF PubSend
  <2>6. app' \in AppCounters /\ app'.fails = app.fails
    BY <1>1, <1>4 DEF PubSend, AppCounters
  <2> QED
    BY <1>4, <2>1, <2>2, <2>3, <2>5, <2>6 DEF PubSend, DeviceSide
<1> QED
  BY <1>2, <1>3, <1>4 DEF PubStep

(* The words of the node.                                                  *)
LEMMA NotifyEffect ==
  ASSUME DeviceTypes, NEW m \in MailWords, Notify(m)
  PROVE  /\ dev' \in [Devices -> DeviceTask]
         /\ \A d \in Devices :
              /\ dev'[d].pc = dev[d].pc /\ dev'[d].res = dev[d].res
              /\ dev'[d].unsaid = dev[d].unsaid
              /\ dev'[d].enabled = dev[d].enabled /\ dev'[d].birthed = dev[d].birthed
              /\ dev'[d].reqs = dev[d].reqs /\ dev'[d].n = dev[d].n
              /\ dev'[d].mail = IF d \in registered THEN Append(dev[d].mail, m)
                                ELSE dev[d].mail
<1>1. ASSUME NEW d \in Devices
      PROVE  /\ dev'[d] \in DeviceTask
             /\ dev'[d].pc = dev[d].pc /\ dev'[d].res = dev[d].res /\ dev'[d].unsaid = dev[d].unsaid
             /\ dev'[d].enabled = dev[d].enabled /\ dev'[d].birthed = dev[d].birthed
             /\ dev'[d].reqs = dev[d].reqs /\ dev'[d].n = dev[d].n
             /\ dev'[d].mail = IF d \in registered THEN Append(dev[d].mail, m)
                               ELSE dev[d].mail
  <2>1. dev[d] \in DeviceTask /\ m \in {"Birth", "Rebirth", "Death", "Removed"}
    BY TaskFields DEF MailWords, Births
  <2>2. dev'[d] = IF d \in registered THEN [dev[d] EXCEPT !.mail = Append(@, m)] ELSE dev[d]
    BY DEF Notify
  <2>3. Append(dev[d].mail, m) \in Seq({"Birth", "Rebirth", "Death", "Removed"})
    BY <2>1 DEF DeviceTask
  <2> QED
    BY <2>1, <2>2, <2>3 DEF DeviceTask
<1>2. dev' = [d \in Devices |-> dev'[d]]
  BY DEF Notify
<1> QED
  BY <1>1, <1>2

-----------------------------------------------------------------------------
(* What the hosts hear.                                                    *)
LEMMA HearTypes ==
  ASSUME WireTypes, ChanTypes, HostsHear
  PROVE  WireTypes'
<1> DEFINE m == Head(chan)
           names == {NameOf[d] : d \in Devices}
           numbered == [wire EXCEPT !.seqs = @ \cup {m.n}]
<1>1. m \in AnyRequest
  BY HeadTypes DEF HostsHear, PollRequest
<1>2. HostAlive \in SUBSET names /\ {0} \in SUBSET SeqNo
  BY Constants DEF WireTypes, HostAlive
<1>3. CASE wire' = wire
  BY <1>3 DEF WireTypes
<1>4. CASE wire' = Hear(m)
  <2> HIDE DEF m
  <2>1. CASE m.kind = "NBIRTH"
    <3>1. wire' = [wire EXCEPT !.seqs = {0}, !.alive = HostAlive, !.born = {}]
      BY <1>4, <2>1 DEF Hear
    <3> QED
      BY <1>2, <3>1 DEF WireTypes
  <2>2. CASE m.kind \in {"DATA", "DBIRTH", "DDEATH"}
    <3>1. m.n \in SeqNo
      BY <1>1, <2>2 DEF AnyRequest, SessionRequests, DeviceRequests
    <3>2. (wire.seqs \cup {m.n}) \in SUBSET SeqNo
      BY <3>1 DEF WireTypes
    <3>3. /\ numbered \in [seqs : SUBSET SeqNo, alive : SUBSET names,
                           born : SUBSET names, dead : SUBSET names]
          /\ numbered.alive = wire.alive /\ numbered.born = wire.born
      BY <3>2 DEF WireTypes
    <3>4. CASE m.kind = "DATA"
      BY <1>4, <3>3, <3>4 DEF Hear, WireTypes
    <3>5. CASE m.kind \in {"DBIRTH", "DDEATH"}
      <4>1. NameOf[m.from] \in names
        BY <1>1, <3>5 DEF AnyRequest, SessionRequests, DeviceRequests
      <4>2. PICK name \in names : name = NameOf[m.from]
        BY <4>1
      <4> HIDE DEF numbered
      <4>3. \/ wire' = [numbered EXCEPT !.alive = @ \cup {name}, !.born = @ \cup {name}]
            \/ wire' = [numbered EXCEPT !.alive = @ \ {name}, !.born = @ \ {name},
                                        !.dead = @ \cup {name}]
        BY <1>4, <3>5, <4>2 DEF Hear, numbered
      <4>4. /\ (numbered.alive \cup {name}) \in SUBSET names
            /\ (numbered.alive \ {name}) \in SUBSET names
            /\ (numbered.born \cup {name}) \in SUBSET names
            /\ (numbered.born \ {name}) \in SUBSET names
            /\ (numbered.dead \cup {name}) \in SUBSET names
        BY <3>3, <4>2
      <4> HIDE DEF names
      <4>5. wire' \in [seqs : SUBSET SeqNo, alive : SUBSET names,
                       born : SUBSET names, dead : SUBSET names]
        BY <3>3, <4>3, <4>4
      <4> QED
        BY <4>5 DEF WireTypes, names
    <3> QED
      BY <2>2, <3>4, <3>5
  <2>3. CASE m.kind \notin {"NBIRTH", "DATA", "DBIRTH", "DDEATH"}
    BY <1>4, <2>3 DEF Hear, WireTypes
  <2> QED
    BY <2>1, <2>2, <2>3
<1> QED
  BY <1>3, <1>4 DEF HostsHear

-----------------------------------------------------------------------------
(* The types of all variables are kept.                                    *)
LEMMA SessionStepTypes ==
  ASSUME SessionTypes, ChanTypes, DeviceTypes, WireTypes, SessionStep
  PROVE  SessionTypes' /\ ChanTypes' /\ DeviceTypes' /\ WireTypes'
<1>1. SessionTypes' /\ ChanTypes'
  BY SessionStepIs, SessionKeeps
<1>2. CASE (NodeBirthed \/ NodeOffline \/ NodeDeathSent) /\ UNCHANGED <<registered, pub, wire, app>>
  <2>1. node.type \in MailWords /\ "Death" \in MailWords
    BY DEF SessionTypes, NodeTask, MailWords, Births
  <2>2. dev' \in [Devices -> DeviceTask]
    BY <1>2, <2>1, NotifyEffect DEF NodeBirthed, NodeOffline, NodeDeathSent, DeviceTypes
  <2> QED
    BY <1>1, <1>2, <2>2 DEF DeviceTypes, WireTypes
<1>3. CASE HostsHear /\ UNCHANGED <<registered, dev, pub, app>>
  BY <1>1, <1>3, HearTypes DEF DeviceTypes
<1>4. CASE UNCHANGED <<registered, dev, pub, wire, app>>
  BY <1>1, <1>4 DEF DeviceTypes, WireTypes
<1> QED
  BY <1>2, <1>3, <1>4 DEF SessionStep

LEMMA AppDeviceTypes ==
  ASSUME SessionTypes, ChanTypes, DeviceTypes, WireTypes, AppDeviceStep
  PROVE  DeviceSide /\ ChanTypes' /\ DeviceTypes' /\ WireTypes'
<1>1. ASSUME NEW d \in Devices, NEW q, Becomes(d, q) PROVE dev' \in [Devices -> DeviceTask]
  BY <1>1 DEF Becomes, DeviceTypes
<1>2. ASSUME NEW d \in Devices, Register(d)
      PROVE  DeviceSide /\ ChanTypes' /\ DeviceTypes' /\ WireTypes'
  BY <1>1, <1>2, RegisterEffect DEF DeviceTypes, ChanTypes, WireTypes
<1>3. ASSUME NEW d \in Devices, Unregister(d)
      PROVE  DeviceSide /\ ChanTypes' /\ DeviceTypes' /\ WireTypes'
  BY <1>1, <1>3, UnregisterEffect DEF DeviceTypes, ChanTypes, WireTypes, AppCounters
<1>4. ASSUME NEW d \in Devices, NEW r \in Requests, AskDevice(d, r)
      PROVE  DeviceSide /\ ChanTypes' /\ DeviceTypes' /\ WireTypes'
  BY <1>1, <1>4, AskDeviceEffect DEF DeviceTypes, ChanTypes, WireTypes, AppCounters
<1>5. ASSUME NEW p \in Publishers, PubStep(p)
      PROVE  DeviceSide /\ ChanTypes' /\ DeviceTypes' /\ WireTypes'
  BY <1>5, PubStepEffect DEF DeviceTypes, WireTypes, AppCounters
<1> QED
  BY <1>2, <1>3, <1>4, <1>5 DEF AppDeviceStep, PubStep

LEMMA NodeTypesKept == ASSUME NodeTypeOK, [NodeNext]_nodeVars PROVE NodeTypeOK'
<1>0. SessionTypes /\ ChanTypes /\ DeviceTypes /\ WireTypes
  BY NodeTypesAre
<1>1. CASE SessionStep
  BY <1>0, <1>1, SessionStepTypes, NodeTypesAre
  DEF NodeTypeOK, ChanTypes, AnyRequest, DeviceTypes, WireTypes
<1>2. ASSUME NEW d \in Devices, DevStep(d) PROVE NodeTypeOK'
  <2>1. SessionTypes' /\ ChanTypes' /\ DeviceTypes' /\ WireTypes'
    BY <1>0, <1>2, DevStepEffect, SideTypes DEF WireTypes
  <2> QED
    BY <2>1 DEF NodeTypeOK, ChanTypes, AnyRequest, DeviceTypes, WireTypes
<1>3. CASE AppDeviceStep
  BY <1>0, <1>3, AppDeviceTypes, SideTypes
  DEF NodeTypeOK, ChanTypes, AnyRequest, DeviceTypes, WireTypes
<1>4. CASE UNCHANGED nodeVars
  BY <1>4 DEF nodeVars, vars, NodeTypeOK, SessionTypes
<1> QED
  BY <1>1, <1>2, <1>3, <1>4 DEF NodeNext

LEMMA NodeInitTypes == ASSUME NodeInit PROVE NodeTypeOK
<1>1. SessionTypes /\ ChanTypes
  BY InitTypes DEF NodeInit, TypeOK, ChanTypes, AnyRequest
<1>2. DeviceTypes
  BY Constants DEF NodeInit, DeviceTypes, DeviceTask
<1>3. WireTypes
  BY DEF NodeInit, WireTypes
<1> QED
  BY <1>1, <1>2, <1>3, NodeTypesAre

(* Type correctness of the node with its devices and publishers: the       *)
(* device tasks, threads and application calls allocate sequence numbers   *)
(* from the shared state and share the request channel with the node, and  *)
(* none of them leaves it in a state the other could not handle.           *)
THEOREM NodeTypeCorrect == NodeSpec => []NodeTypeOK
<1>1. NodeInit => NodeTypeOK
  BY NodeInitTypes
<1>2. NodeTypeOK /\ [NodeNext]_nodeVars => NodeTypeOK'
  BY NodeTypesKept
<1> QED
  BY <1>1, <1>2, PTL DEF NodeSpec

-----------------------------------------------------------------------------
(* What the session keeps, whatever the devices do.                        *)
SessionInv == Gated /\ NodeOrder /\ Handover /\ Running /\ Requested

LEMMA SideKeeps == ASSUME SessionInv, DeviceSide PROVE SessionInv'
<1>0. SessionTypes
  BY DEF SessionInv, Gated
<1>1. SessionTypes' /\ Keeps(st) /\ st'.birthed = st.birthed
  BY <1>0, SideTypes, SeqTaken DEF SessionTypes
<1>2. UNCHANGED <<node, loop, cs, client, cancel, stop, host, env, rebirthRx, cmds>>
  BY DEF DeviceSide, sessionOnly
<1>3. Gated' /\ NodeOrder'
  BY <1>1, <1>2 DEF SessionInv, Gated, HostGate, DeadWhileBirthing, StateOnline, LoopKnows,
                    ClientView, NodeOrder, Keeps
<1>4. Handover' /\ Running' /\ Requested'
  BY <1>2 DEF SessionInv, Handover, Disconnected, Running, Requested
<1> QED
  BY <1>3, <1>4 DEF SessionInv

LEMMA SessionInvKept ==
  ASSUME SessionInv, ChanTypes, [Next]_vars
  PROVE  SessionInv'
<1>1. Gated'
  BY GatedKept, HeadTypes DEF SessionInv, PollRequest
<1>2. NodeOrder' /\ Handover'
  BY NodeOrderKept, HandoverKept DEF SessionInv
<1>3. SessionTypes /\ SessionTypes'
  BY <1>1 DEF SessionInv, Gated
<1>4. Running' /\ Requested'
  BY <1>3, RunningKept, RequestedKept DEF SessionInv
<1> QED
  BY <1>1, <1>2, <1>4 DEF SessionInv

LEMMA SessionInvInit == ASSUME Init PROVE SessionInv
<1>1. Gated /\ NodeOrder /\ Handover
  BY AgreementInit DEF Agreement, IInv
<1>2. Running /\ Requested
  BY DEF Init, Running, Requested
<1> QED
  BY <1>1, <1>2 DEF SessionInv

(* Only the end of a birth makes the node birthed.                         *)
LEMMA BirthedByBirth ==
  ASSUME SessionInv, NodeOnlyStep \/ TakeOffline \/ DeathSent \/ OtherStep, st'.birthed
  PROVE  st.birthed
<1>0. SessionTypes /\ NodeOrder
  BY DEF SessionInv, Gated
<1>1. CASE OtherStep
  BY <1>0, <1>1, NodeLeft
<1>2. CASE NodeSend \/ NodeSendFails
  BY <1>0, <1>2, SendEffect, RefusedEffect
<1>3. CASE Subscribed
  BY <1>0, <1>3, SubscribedEffect
<1>4. CASE SubscribeFailed \/ BirthFailed
  BY <1>0, <1>4, SubscribeFailedEffect, BirthFailedEffect
<1>5. CASE DeathSent \/ DisconnectSent
  BY <1>0, <1>5, DeathSentEffect, DisconnectSentEffect
<1>6. CASE TakeOnline
  BY <1>0, <1>6, OnlineEffect DEF Tried
<1>7. CASE TakeOffline
  BY <1>0, <1>7, OfflineEffect DEF NodeOrder
<1>8. CASE TakeState
  BY <1>0, <1>8, StateEffect DEF Tried
<1>9. CASE TakeStopped
  BY <1>0, <1>9, StoppedEffect
<1>10. CASE RetryFires
  BY <1>0, <1>10, RetryEffect DEF Tried
<1>11. CASE TakeRebirth \/ TakeCommand
  BY <1>0, <1>11, RebirthEffect, CommandEffect DEF Begins
<1> QED
  BY <1>1, <1>2, <1>3, <1>4, <1>5, <1>6, <1>7, <1>8, <1>9, <1>10, <1>11
  DEF NodeOnlyStep

(* A run() that returned does not come back.                               *)
LEMMA DoneForGood ==
  ASSUME SessionTypes, [Next]_vars, loop.pc = "done"
  PROVE  loop'.pc = "done"
<1>1. CASE NodeStep
  BY <1>1, NodeElsewhere DEF Elsewhere
<1>2. CASE LoopStep
  BY <1>2, RunEffect, LoopSendEffect, GotWillEffect, LoopStopEffect, DrainCheckEffect,
     DrainTimeoutEffect, LoopDoneEffect DEF LoopStep
<1>3. CASE PollRequest \/ PollEvent
  <2>1. loop.pc = "poll"
    BY <1>3, ConnectEffect, StateMessageEffect, CommandMessageEffect, LostEffect,
       KickEffect, ClosedEffect DEF PollRequest, PollEvent, PollElsewhere
  <2> QED
    BY <2>1
<1>4. CASE AppStep
  <2>1. loop' = loop
    BY <1>4, RebirthCallEffect, CancelEffect DEF AppElsewhere
  <2> QED
    BY <2>1
<1>5. CASE HostFlips \/ OldState \/ CooldownEnds \/ UNCHANGED vars
  <2>1. loop' = loop
    BY <1>5, WorldEffect DEF WorldElsewhere, vars
  <2> QED
    BY <2>1
<1> QED
  BY <1>1, <1>2, <1>3, <1>4, <1>5 DEF Next

-----------------------------------------------------------------------------
(* No enabled device is forgotten.                                         *)
BirthAhead(mail) == \E i \in DOMAIN mail : mail[i] \in Births

(* After every death it is told of, a birth of the node reaches the device.*)
Attended(mail) ==
    \A i \in DOMAIN mail : mail[i] = "Death" =>
        \E j \in DOMAIN mail : j > i /\ mail[j] \in Births

(* An enabled device is birthed, or its birth is under way, or one of the  *)
(* node is in its channel.                                                 *)
CaredFor(r) ==
    r.enabled /\ ~r.birthed => (r.pc = "dbirth" /\ r.res # "err") \/ BirthAhead(r.mail)

Resting(r) == r.pc \in {"new", "idle"} => r.res = "wait"

NotRemoved(mail) == \A i \in DOMAIN mail : mail[i] # "Removed"

Unspawned(r) == r.mail = <<>> /\ ~r.enabled

DevicesRest ==
    /\ \A d \in Devices : Resting(dev[d])
    /\ \A d \in Devices : dev[d].pc = "new" => d \notin registered /\ Unspawned(dev[d])
    /\ \A d \in registered : NotRemoved(dev[d].mail)

Attentive == st.birthed => \A d \in registered : Attended(dev[d].mail)

Careful ==
    st.birthed /\ app.fails = 0 /\ loop.pc # "done" =>
        \A d \in registered : CaredFor(dev[d])

(* The words in a device's channel.                                        *)
LEMMA MailAppended ==
  ASSUME NEW s \in Seq(MailWords), NEW m \in MailWords
  PROVE  /\ m \in Births => BirthAhead(Append(s, m)) /\ Attended(Append(s, m))
         /\ m # "Removed" /\ NotRemoved(s) => NotRemoved(Append(s, m))
<1> DEFINE t == Append(s, m)
<1>1. /\ DOMAIN t = 1 .. Len(s) + 1 /\ DOMAIN s = 1 .. Len(s) /\ Len(s) \in Nat
      /\ t[Len(s) + 1] = m /\ Len(s) + 1 \in DOMAIN t
      /\ \A i \in DOMAIN t : i # Len(s) + 1 => i \in DOMAIN s /\ t[i] = s[i]
  OBVIOUS
<1> HIDE DEF t
<1>2. m \in Births => BirthAhead(t)
  BY <1>1 DEF BirthAhead
<1>3. m \in Births => Attended(t)
  <2>1. m \in Births => m # "Death"
    BY DEF Births
  <2>2. ASSUME NEW i \in DOMAIN t, t[i] = "Death", m \in Births
        PROVE  Len(s) + 1 > i
    BY <1>1, <2>1, <2>2
  <2> QED
    BY <1>1, <2>2 DEF Attended
<1>4. m # "Removed" /\ NotRemoved(s) => NotRemoved(t)
  BY <1>1 DEF NotRemoved
<1> QED
  BY <1>2, <1>3, <1>4 DEF t

LEMMA MailTaken ==
  ASSUME NEW s \in Seq(MailWords), s # <<>>
  PROVE  /\ BirthAhead(s) /\ Head(s) \notin Births => BirthAhead(Tail(s))
         /\ Attended(s) => Attended(Tail(s))
         /\ Attended(s) /\ Head(s) = "Death" => BirthAhead(Tail(s))
         /\ NotRemoved(s) => NotRemoved(Tail(s)) /\ Head(s) # "Removed"
<1> DEFINE t == Tail(s)
<1>1. /\ Len(s) \in Nat \ {0} /\ DOMAIN s = 1 .. Len(s) /\ DOMAIN t = 1 .. Len(s) - 1
      /\ Head(s) = s[1] /\ 1 \in DOMAIN s
      /\ \A i \in DOMAIN t : i \in Nat \ {0} /\ i + 1 \in DOMAIN s /\ t[i] = s[i + 1]
  OBVIOUS
<1>2. \A i \in DOMAIN s : i # 1 => i - 1 \in DOMAIN t /\ t[i - 1] = s[i]
  OBVIOUS
<1> HIDE DEF t
<1>3. BirthAhead(s) /\ Head(s) \notin Births => BirthAhead(t)
  BY <1>1, <1>2 DEF BirthAhead
<1>4. ASSUME Attended(s), NEW i \in DOMAIN t, t[i] = "Death"
      PROVE  \E j \in DOMAIN t : j > i /\ t[j] \in Births
  <2>1. PICK k \in DOMAIN s : k > i + 1 /\ s[k] \in Births
    BY <1>1, <1>4 DEF Attended
  <2>2. k - 1 \in DOMAIN t /\ t[k - 1] \in Births /\ k - 1 > i
    BY <1>1, <1>2, <1>4, <2>1
  <2> QED
    BY <2>2
<1>5. ASSUME Attended(s), Head(s) = "Death" PROVE BirthAhead(t)
  <2>1. PICK k \in DOMAIN s : k > 1 /\ s[k] \in Births
    BY <1>1, <1>5 DEF Attended
  <2>2. k - 1 \in DOMAIN t /\ t[k - 1] \in Births
    BY <1>1, <1>2, <2>1
  <2> QED
    BY <2>2 DEF BirthAhead
<1>6. NotRemoved(s) => NotRemoved(t) /\ Head(s) # "Removed"
  BY <1>1 DEF NotRemoved
<1> QED
  BY <1>3, <1>4, <1>5, <1>6 DEF t, Attended

(* One step of a registered device.                                        *)
LEMMA TaskKeeps ==
  ASSUME NEW r \in DeviceTask, NEW q \in DeviceTask, TaskStep(r, q), Resting(r),
         r.pc = "new" => Unspawned(r)
  PROVE  /\ r.pc # "new" /\ q.pc # "new" /\ Resting(q)
         /\ NotRemoved(r.mail) => NotRemoved(q.mail)
         /\ Attended(r.mail) => Attended(q.mail)
         /\ /\ Attended(r.mail) /\ NotRemoved(r.mail) /\ CaredFor(r) /\ HasNextSeq(st)
            /\ app'.fails = 0 /\ loop.pc # "done"
            => CaredFor(q)
<1>1. r.mail \in Seq(MailWords) /\ <<>> \in Seq(MailWords)
  BY DEF DeviceTask, MailWords, Births
<1>2. CASE TookWord(r, q)
  <2>1. r.mail # <<>> /\ q.mail = Tail(r.mail) /\ r.pc = "idle" /\ q.res = "wait"
    BY <1>2 DEF TookWord, Resting
  <2>2. /\ BirthAhead(r.mail) /\ Head(r.mail) \notin Births => BirthAhead(q.mail)
        /\ Attended(r.mail) => Attended(q.mail)
        /\ Attended(r.mail) /\ Head(r.mail) = "Death" => BirthAhead(q.mail)
        /\ NotRemoved(r.mail) => NotRemoved(q.mail) /\ Head(r.mail) # "Removed"
    BY <1>1, <2>1, MailTaken
  <2>3. q.pc # "new" /\ Resting(q)
    BY <1>2, <2>1 DEF TookWord, Died, Resting
  <2>4. ASSUME Attended(r.mail), NotRemoved(r.mail), CaredFor(r), HasNextSeq(st)
        PROVE  CaredFor(q)
    <3>1. CASE Head(r.mail) \in Births
      BY <1>2, <2>1, <2>4, <3>1 DEF TookWord, CaredFor, Births
    <3>2. CASE Head(r.mail) = "Death"
      BY <2>2, <2>4, <3>2 DEF CaredFor
    <3> QED
      BY <1>2, <2>2, <2>4, <3>1, <3>2 DEF TookWord
  <2> QED
    BY <2>1, <2>2, <2>3, <2>4
<1>3. CASE TookRequest(r, q)
  BY <1>3 DEF TookRequest, Died, Resting, CaredFor
<1>4. CASE Answered(r, q) /\ (q.res = "err" => app'.fails > 0 \/ loop.pc = "done")
  BY <1>4 DEF Answered, Resting, CaredFor
<1>5. CASE WasAnswered(r, q)
  BY <1>5 DEF WasAnswered, Resting, CaredFor, DeviceTask
<1> QED
  BY <1>2, <1>3, <1>4, <1>5 DEF TaskStep

(* What the devices know of the node, kept by the steps of the devices,    *)
DeviceInv == NodeTypeOK /\ SessionInv /\ DevicesRest /\ Attentive /\ Careful

LEMMA DevStepKeeps ==
  ASSUME DeviceInv, NEW d \in Devices, DevStep(d)
  PROVE  DevicesRest' /\ Attentive' /\ Careful'
<1>1. /\ SessionTypes /\ ChanTypes /\ DeviceTypes /\ WireTypes /\ SessionInv
      /\ DevicesRest /\ Attentive /\ Careful /\ app.fails \in Nat
  BY NodeTypesAre DEF DeviceInv, DeviceTypes
<1>2. /\ DeviceSide /\ UNCHANGED registered /\ app'.fails >= app.fails /\ app'.fails \in Nat
  BY <1>1, DevStepEffect DEF DeviceTypes
<1>3. PICK q : Becomes(d, q) /\ TaskStep(dev[d], q)
  BY <1>1, DevStepEffect
<1>4. /\ dev[d] \in DeviceTask /\ q \in DeviceTask
      /\ \A e \in Devices : dev'[e] = IF e = d THEN q ELSE dev[e]
  BY <1>1, <1>3, TaskFields DEF Becomes, DeviceTypes
<1>5. /\ dev[d].pc # "new" /\ q.pc # "new" /\ Resting(q)
      /\ NotRemoved(dev[d].mail) => NotRemoved(q.mail)
      /\ Attended(dev[d].mail) => Attended(q.mail)
      /\ /\ Attended(dev[d].mail) /\ NotRemoved(dev[d].mail) /\ CaredFor(dev[d])
         /\ HasNextSeq(st) /\ app'.fails = 0 /\ loop.pc # "done"
         => CaredFor(q)
  BY <1>1, <1>3, <1>4, TaskKeeps DEF DevicesRest
<1>6. st'.birthed = st.birthed /\ loop' = loop /\ (st.birthed => HasNextSeq(st))
  BY <1>1, <1>2, SeqTaken
  DEF DeviceSide, sessionOnly, SessionTypes, SessionInv, NodeOrder, HasNextSeq
<1>7. registered \subseteq Devices
  BY <1>1 DEF DeviceTypes
<1>8. DevicesRest'
  BY <1>1, <1>2, <1>4, <1>5, <1>7 DEF DevicesRest
<1>9. Attentive'
  BY <1>1, <1>2, <1>4, <1>5, <1>6, <1>7 DEF Attentive
<1>10. Careful'
  <2>1. SUFFICES ASSUME st.birthed, app'.fails = 0, loop.pc # "done",
                        NEW e \in registered
                 PROVE  CaredFor(dev'[e])
    BY <1>2, <1>6 DEF Careful
  <2>2. app.fails = 0 /\ HasNextSeq(st)
    BY <1>1, <1>2, <1>6, <2>1
  <2>3. CaredFor(dev[e]) /\ Attended(dev[e].mail) /\ NotRemoved(dev[e].mail)
    BY <1>1, <2>1, <2>2 DEF Careful, Attentive, DevicesRest
  <2> QED
    BY <1>4, <1>5, <1>7, <2>1, <2>2, <2>3
<1> QED
  BY <1>8, <1>9, <1>10

(* of the application,                                                     *)
LEMMA AppDeviceKeeps ==
  ASSUME DeviceInv, AppDeviceStep
  PROVE  DevicesRest' /\ Attentive' /\ Careful'
<1>1. /\ SessionTypes /\ ChanTypes /\ DeviceTypes /\ WireTypes /\ SessionInv
      /\ DevicesRest /\ Attentive /\ Careful /\ app.fails \in Nat
  BY NodeTypesAre DEF DeviceInv, DeviceTypes
<1>2. st'.birthed = st.birthed /\ loop' = loop
  BY <1>1, AppDeviceTypes, SeqTaken DEF DeviceSide, sessionOnly, SessionTypes
<1>3. registered \subseteq Devices
  BY <1>1 DEF DeviceTypes
<1>4. ASSUME NEW d \in Devices, Register(d)
      PROVE  DevicesRest' /\ Attentive' /\ Careful'
  <2>1. PICK q : /\ Becomes(d, q) /\ q.pc = "idle" /\ q.mail = dev[d].mail
                 /\ q.enabled = dev[d].enabled /\ q.res = dev[d].res
    BY <1>1, <1>4, RegisterEffect
  <2>2. /\ \A e \in Devices : dev'[e] = IF e = d THEN q ELSE dev[e]
        /\ registered' = registered \cup {d} /\ app' = app /\ dev[d].pc = "new"
    BY <1>1, <1>4, <2>1, RegisterEffect DEF Becomes, DeviceTypes
  <2>3. q.mail = <<>> /\ ~q.enabled /\ q.res = "wait"
    BY <1>1, <2>1, <2>2 DEF DevicesRest, Unspawned, Resting
  <2>4. NotRemoved(q.mail) /\ Attended(q.mail) /\ CaredFor(q) /\ Resting(q)
    BY <2>3 DEF NotRemoved, Attended, CaredFor, Resting
  <2>5. \A e \in registered' : e \in Devices /\ (e # d => e \in registered)
    BY <1>3, <2>2
  <2>6. DevicesRest'
    BY <1>1, <2>1, <2>2, <2>4, <2>5 DEF DevicesRest
  <2>7. Attentive' /\ Careful'
    BY <1>1, <1>2, <2>2, <2>4, <2>5 DEF Attentive, Careful
  <2> QED
    BY <2>6, <2>7
<1>5. ASSUME NEW d \in Devices, Unregister(d)
      PROVE  DevicesRest' /\ Attentive' /\ Careful'
  <2>1. PICK q : Becomes(d, q) /\ q.pc = dev[d].pc /\ q.res = dev[d].res
    BY <1>1, <1>5, UnregisterEffect
  <2>2. /\ \A e \in Devices : dev'[e] = IF e = d THEN q ELSE dev[e]
        /\ registered' = registered \ {d} /\ app'.fails = app.fails /\ d \in registered
    BY <1>1, <1>5, <2>1, UnregisterEffect DEF Becomes, DeviceTypes
  <2>3. \A e \in registered' : e \in Devices /\ dev'[e] = dev[e] /\ e \in registered
    BY <1>3, <2>2
  <2>4. Resting(q) /\ q.pc # "new"
    BY <1>1, <2>1, <2>2 DEF DevicesRest, Resting
  <2>5. DevicesRest'
    BY <1>1, <2>2, <2>3, <2>4 DEF DevicesRest
  <2>6. Attentive' /\ Careful'
    BY <1>1, <1>2, <2>2, <2>3 DEF Attentive, Careful
  <2> QED
    BY <2>5, <2>6
<1>6. ASSUME NEW d \in Devices, NEW r \in Requests, AskDevice(d, r)
      PROVE  DevicesRest' /\ Attentive' /\ Careful'
  <2>1. PICK q : /\ Becomes(d, q) /\ q.pc = dev[d].pc /\ q.mail = dev[d].mail
                 /\ q.enabled = dev[d].enabled /\ q.res = dev[d].res
                 /\ q.birthed = dev[d].birthed
    BY <1>1, <1>6, AskDeviceEffect
  <2>2. /\ \A e \in Devices : dev'[e] = IF e = d THEN q ELSE dev[e]
        /\ registered' = registered /\ app'.fails = app.fails
    BY <1>1, <1>6, <2>1, AskDeviceEffect DEF Becomes, DeviceTypes
  <2>3. DevicesRest'
    BY <1>1, <1>3, <2>1, <2>2 DEF DevicesRest, Resting, Unspawned
  <2>4. Attentive' /\ Careful'
    BY <1>1, <1>2, <1>3, <2>1, <2>2 DEF Attentive, Careful, CaredFor
  <2> QED
    BY <2>3, <2>4
<1>7. ASSUME NEW p \in Publishers, PubStep(p)
      PROVE  DevicesRest' /\ Attentive' /\ Careful'
  <2>1. dev' = dev /\ registered' = registered /\ app'.fails = app.fails
    BY <1>1, <1>7, PubStepEffect
  <2> QED
    BY <1>1, <1>2, <2>1 DEF DevicesRest, Attentive, Careful
<1> QED
  BY <1>4, <1>5, <1>6, <1>7 DEF AppDeviceStep, PubStep

(* and of the session.                                                     *)
LEMMA SessionStepKeeps ==
  ASSUME DeviceInv, SessionStep
  PROVE  DevicesRest' /\ Attentive' /\ Careful'
<1>1. /\ SessionTypes /\ ChanTypes /\ DeviceTypes /\ SessionInv
      /\ DevicesRest /\ Attentive /\ Careful /\ [Next]_vars
  BY NodeTypesAre, SessionStepIs DEF DeviceInv
<1>2. registered \subseteq Devices /\ registered' = registered /\ app' = app
  BY <1>1 DEF SessionStep, DeviceTypes
<1>3. loop'.pc # "done" => loop.pc # "done"
  BY <1>1, DoneForGood
<1>4. ASSUME NEW m \in MailWords, Notify(m), m # "Removed", m \in Births \/ ~st'.birthed
      PROVE  DevicesRest' /\ Attentive' /\ Careful'
  <2>1. \A d \in Devices :
          /\ dev'[d].pc = dev[d].pc /\ dev'[d].res = dev[d].res
          /\ dev'[d].enabled = dev[d].enabled /\ dev'[d].birthed = dev[d].birthed
          /\ dev'[d].mail = IF d \in registered THEN Append(dev[d].mail, m) ELSE dev[d].mail
    BY <1>1, <1>4, NotifyEffect
  <2>2. ASSUME NEW d \in registered
        PROVE  /\ NotRemoved(dev'[d].mail)
               /\ m \in Births => Attended(dev'[d].mail) /\ BirthAhead(dev'[d].mail)
    <3>1. dev'[d].mail = Append(dev[d].mail, m) /\ dev[d].mail \in Seq(MailWords)
      BY <1>1, <1>2, <2>1, TaskFields
    <3>2. NotRemoved(dev[d].mail)
      BY <1>1 DEF DevicesRest
    <3> QED
      BY <1>4, <3>1, <3>2, MailAppended
  <2>3. DevicesRest'
    <3>1. \A d \in Devices : Resting(dev'[d])
      BY <1>1, <2>1 DEF DevicesRest, Resting
    <3>2. \A d \in Devices : dev'[d].pc = "new" => d \notin registered /\ Unspawned(dev'[d])
      BY <1>1, <2>1 DEF DevicesRest, Unspawned
    <3> QED
      BY <1>2, <2>2, <3>1, <3>2 DEF DevicesRest
  <2>4. Attentive' /\ Careful'
    BY <1>2, <1>4, <2>2 DEF Attentive, Careful, CaredFor
  <2> QED
    BY <2>3, <2>4
<1>5. CASE NodeBirthed
  <2>1. node.type \in Births
    BY <1>1 DEF SessionTypes, NodeTask, Births
  <2> QED
    BY <1>4, <1>5, <2>1 DEF NodeBirthed, MailWords, Births
<1>6. CASE NodeOffline
  <2>1. ~st'.birthed
    BY <1>1, <1>6, OfflineEffect DEF NodeOffline, SessionInv, NodeOrder
  <2>2. CASE Notify("Death")
    BY <1>4, <2>1, <2>2 DEF MailWords, Births
  <2>3. CASE dev' = dev
    BY <1>1, <1>2, <2>1, <2>3 DEF DevicesRest, Attentive, Careful
  <2> QED
    BY <1>6, <2>2, <2>3 DEF NodeOffline
<1>7. CASE NodeDeathSent
  <2>1. ~st'.birthed
    BY <1>1, <1>7, DeathSentEffect DEF NodeDeathSent
  <2> QED
    BY <1>4, <1>7, <2>1 DEF NodeDeathSent, MailWords, Births
<1>8. CASE /\ dev' = dev
           /\ \/ HostsHear
              \/ NodeOnlyStep \/ LoopStep \/ PollEvent \/ AppStep
              \/ HostFlips \/ OldState \/ CooldownEnds
  <2>1. st'.birthed => st.birthed
    BY <1>1, <1>8, BirthedByBirth DEF OtherStep, HostsHear
  <2> QED
    BY <1>1, <1>2, <1>3, <1>8, <2>1 DEF DevicesRest, Attentive, Careful
<1> QED
  BY <1>5, <1>6, <1>7, <1>8 DEF SessionStep

LEMMA DeviceInvKept == ASSUME DeviceInv, [NodeNext]_nodeVars PROVE DeviceInv'
<1>0. /\ NodeTypeOK /\ SessionTypes /\ ChanTypes /\ DeviceTypes /\ WireTypes /\ SessionInv
  BY NodeTypesAre DEF DeviceInv
<1>1. NodeTypeOK'
  BY <1>0, NodeTypesKept
<1>2. CASE SessionStep
  <2>1. SessionInv'
    BY <1>0, <1>2, SessionStepIs, SessionInvKept
  <2> QED
    BY <1>1, <1>2, <2>1, SessionStepKeeps DEF DeviceInv
<1>3. ASSUME NEW d \in Devices, DevStep(d) PROVE DeviceInv'
  <2>1. SessionInv'
    BY <1>0, <1>3, DevStepEffect, SideKeeps
  <2> QED
    BY <1>1, <1>3, <2>1, DevStepKeeps DEF DeviceInv
<1>4. CASE AppDeviceStep
  <2>1. SessionInv'
    BY <1>0, <1>4, AppDeviceTypes, SideKeeps
  <2> QED
    BY <1>1, <1>4, <2>1, AppDeviceKeeps DEF DeviceInv
<1>5. CASE UNCHANGED nodeVars
  <2>1. SessionInv'
    BY <1>0, <1>5, SessionInvKept DEF nodeVars
  <2>2. DevicesRest' /\ Attentive' /\ Careful'
    BY <1>5 DEF nodeVars, vars, DeviceInv, DevicesRest, Attentive, Careful
  <2> QED
    BY <1>1, <2>1, <2>2 DEF DeviceInv
<1> QED
  BY <1>2, <1>3, <1>4, <1>5 DEF NodeNext

LEMMA DeviceInvInit == ASSUME NodeInit PROVE DeviceInv
<1>1. NodeTypeOK /\ SessionInv
  BY NodeInitTypes, SessionInvInit DEF NodeInit
<1>2. DevicesRest
  BY DEF NodeInit, DevicesRest, Resting, Unspawned
<1>3. Attentive /\ Careful
  BY DEF NodeInit, Init, NewEoNState, Attentive, Careful
<1> QED
  BY <1>1, <1>2, <1>3 DEF DeviceInv

(* No enabled device is forgotten: whichever way enable(), rebirths, lost  *)
(* connections, cancel() and the words of the node race, a birthed node at *)
(* rest has every enabled device birthed unless the client refused one of  *)
(* their births (Device::birth, birth_devices).                            *)
THEOREM NoDeviceForgotten == NodeSpec => []EnabledBirthed
<1>1. NodeInit => DeviceInv
  BY DeviceInvInit
<1>2. DeviceInv /\ [NodeNext]_nodeVars => DeviceInv'
  BY DeviceInvKept
<1>3. DeviceInv => EnabledBirthed
  <2>1. SUFFICES ASSUME DeviceInv, Quiet, st.birthed, app.fails = 0, NEW d \in registered,
                        dev[d].enabled
                 PROVE  dev[d].birthed
    BY DEF EnabledBirthed
  <2>2. d \in Devices /\ dev[d].pc # "dbirth" /\ dev[d].mail = <<>> /\ loop.pc # "done"
    BY <2>1, NodeTypesAre DEF DeviceInv, DeviceTypes, Quiet, Settled
  <2> QED
    BY <2>1, <2>2 DEF DeviceInv, Careful, CaredFor, BirthAhead
<1> QED
  BY <1>1, <1>2, <1>3, PTL DEF NodeSpec

(* What the session promises of its primary host it keeps with devices     *)
(* beside it, though they share its state and its request channel.         *)
THEOREM GateHoldsWithDevices == NodeSpec => []HostGate
<1>1. NodeInit => DeviceInv
  BY DeviceInvInit
<1>2. DeviceInv /\ [NodeNext]_nodeVars => DeviceInv'
  BY DeviceInvKept
<1>3. DeviceInv => HostGate
  BY DEF DeviceInv, SessionInv, Gated
<1> QED
  BY <1>1, <1>2, <1>3, PTL DEF NodeSpec

-----------------------------------------------------------------------------
(* Whoever takes itself for birthed has been announced.  Nothing has been  *)
(* refused and nobody has cancelled the node.                              *)
Undisturbed == env.fails = 0 /\ cancel.pc = "idle"

Unread(mail, w) == \E i \in DOMAIN mail : mail[i] = w

(* What takes the hosts' knowledge of a device away: the birth of the node *)
(* or the death of the device.                                             *)
Unmakes(m, d) == m.kind = "NBIRTH" \/ (m.kind = "DDEATH" /\ m.from = d)

(* The hosts know of the device, or will from a DBIRTH in the channel, and *)
(* nothing behind that unmakes it.                                         *)
Announced(d) ==
    \/ NameOf[d] \in wire.born /\ \A i \in DOMAIN chan : ~Unmakes(chan[i], d)
    \/ \E i \in DOMAIN chan : /\ chan[i].kind = "DBIRTH" /\ chan[i].from = d
                              /\ \A j \in DOMAIN chan : j > i => ~Unmakes(chan[j], d)

Believes(r) == r.birthed \/ r.pc = "dbirth"

(* Its DBIRTH was accepted and no word of the node tells it otherwise.     *)
Certain(r) ==
    /\ r.birthed \/ (r.pc = "dbirth" /\ r.res = "ok")
    /\ ~Unread(r.mail, "Death") /\ ~Unread(r.mail, "Rebirth")

Sane(r) == (r.birthed => r.pc = "idle") /\ (Believes(r) => r.enabled)

BeingReborn == node.pc = "nbirth" /\ node.type = "Rebirth"

AllSane == \A d \in Devices : Sane(dev[d])

(* The devices of a dead node have been told; those of a node that is born *)
(* again hear of it afterwards.                                            *)
Undeceived ==
    Undisturbed /\ ~st.birthed /\ ~BeingReborn =>
        \A d \in registered : Believes(dev[d]) => Unread(dev[d].mail, "Death")

Announcing ==
    Undisturbed /\ st.birthed /\ client.conn = "up" =>
        \A d \in registered : Certain(dev[d]) => Announced(d)

LEMMA UnreadAppended ==
  ASSUME NEW s \in Seq(MailWords), NEW m \in MailWords, NEW w
  PROVE  Unread(Append(s, m), w) <=> Unread(s, w) \/ m = w
<1> DEFINE t == Append(s, m)
<1>1. /\ DOMAIN t = 1 .. Len(s) + 1 /\ DOMAIN s = 1 .. Len(s) /\ Len(s) \in Nat
      /\ t[Len(s) + 1] = m /\ Len(s) + 1 \in DOMAIN t
      /\ \A i \in DOMAIN t : i # Len(s) + 1 => i \in DOMAIN s /\ t[i] = s[i]
      /\ \A i \in DOMAIN s : i \in DOMAIN t /\ t[i] = s[i]
  OBVIOUS
<1> HIDE DEF t
<1>2. Unread(t, w) <=> Unread(s, w) \/ m = w
  BY <1>1 DEF Unread
<1> QED
  BY <1>2 DEF t

LEMMA UnreadTaken ==
  ASSUME NEW s \in Seq(MailWords), s # <<>>, NEW w
  PROVE  Unread(s, w) <=> Unread(Tail(s), w) \/ Head(s) = w
<1> DEFINE t == Tail(s)
<1>1. /\ Len(s) \in Nat \ {0} /\ DOMAIN s = 1 .. Len(s) /\ DOMAIN t = 1 .. Len(s) - 1
      /\ Head(s) = s[1] /\ 1 \in DOMAIN s
      /\ \A i \in DOMAIN t : i + 1 \in DOMAIN s /\ t[i] = s[i + 1]
  OBVIOUS
<1>2. \A i \in DOMAIN s : i # 1 => i - 1 \in DOMAIN t /\ t[i - 1] = s[i]
  OBVIOUS
<1> HIDE DEF t
<1>3. Unread(s, w) <=> Unread(t, w) \/ Head(s) = w
  BY <1>1, <1>2 DEF Unread
<1> QED
  BY <1>3 DEF t

(* One step of a device.                                                   *)
LEMMA TaskBelieves ==
  ASSUME NEW r \in DeviceTask, NEW q \in DeviceTask, TaskStep(r, q), Resting(r), Sane(r)
  PROVE  /\ Sane(q)
         /\ ~HasNextSeq(st) /\ (Believes(r) => Unread(r.mail, "Death"))
              => (Believes(q) => Unread(q.mail, "Death"))
         /\ HasNextSeq(st) /\ Certain(q) =>
              Certain(r) \/ (r.pc = "dbirth" /\ r.res = "wait" /\ Answered(r, q) /\ q.res = "ok")
<1>1. r.mail \in Seq(MailWords)
  BY DEF DeviceTask, MailWords, Births
<1>2. CASE TookWord(r, q)
  <2>1. r.mail # <<>> /\ q.mail = Tail(r.mail) /\ r.pc = "idle" /\ r.res = "wait" /\ q.res = "wait"
    BY <1>2 DEF TookWord, Resting
  <2>2. \A w : Unread(r.mail, w) <=> Unread(q.mail, w) \/ Head(r.mail) = w
    BY <1>1, <2>1, UnreadTaken
  <2>3. Sane(q)
    BY <1>2, <2>1 DEF TookWord, Died, Sane, Believes
  <2>4. Head(r.mail) \in Births => Head(r.mail) # "Death"
    BY DEF Births
  <2>5. ~HasNextSeq(st) /\ Believes(q) => Believes(r) /\ Head(r.mail) \in Births
    BY <1>2, <2>1 DEF TookWord, Died, Believes
  <2>6. ASSUME HasNextSeq(st), Certain(q)
        PROVE  r.birthed /\ Head(r.mail) = "Birth"
    BY <1>2, <2>1, <2>6 DEF TookWord, Died, Certain, Sane, Believes
  <2>7. HasNextSeq(st) /\ Certain(q) => Certain(r)
    BY <2>2, <2>6 DEF Certain
  <2> QED
    BY <2>2, <2>3, <2>4, <2>5, <2>7
<1>3. CASE TookRequest(r, q)
  <2>1. r.mail = <<>> /\ q.mail = <<>> /\ r.pc = "idle" /\ r.res = "wait" /\ q.res = "wait"
    BY <1>3 DEF TookRequest, Resting
  <2>2. Sane(q)
    BY <1>3, <2>1 DEF TookRequest, Died, Sane, Believes
  <2>3. ~HasNextSeq(st) /\ Believes(q) => Believes(r)
    BY <1>3, <2>1 DEF TookRequest, Died, Believes
  <2>4. Certain(q) => Certain(r)
    BY <1>3, <2>1 DEF TookRequest, Died, Certain
  <2> QED
    BY <2>1, <2>2, <2>3, <2>4
<1>4. CASE Answered(r, q)
  BY <1>4 DEF Answered, Sane, Believes, Certain
<1>5. CASE WasAnswered(r, q)
  BY <1>5 DEF WasAnswered, Sane, Believes, Certain
<1> QED
  BY <1>2, <1>3, <1>4, <1>5 DEF TaskStep

(* Requests that enter the channel.                                        *)
LEMMA ChanAppended ==
  ASSUME ChanTypes, NEW m \in AnyRequest, chan' = Append(chan, m), wire' = wire
  PROVE  /\ \A d : Announced(d) /\ ~Unmakes(m, d) => Announced(d)'
         /\ m.kind = "DBIRTH" => \A d : d = m.from => Announced(d)'
<1>1. chan \in Seq(AnyRequest)
  BY DEF ChanTypes
<1>2. PICK n \in Nat : n = Len(chan)
  BY <1>1
<1>3. /\ DOMAIN chan' = 1 .. n + 1 /\ DOMAIN chan = 1 .. n
      /\ chan'[n + 1] = m /\ n + 1 \in DOMAIN chan'
      /\ \A i \in DOMAIN chan' : i # n + 1 => i \in DOMAIN chan /\ chan'[i] = chan[i]
      /\ \A i \in DOMAIN chan : i \in DOMAIN chan' /\ chan'[i] = chan[i]
  BY <1>1, <1>2
<1>4. ASSUME NEW d, ~Unmakes(m, d), NameOf[d] \in wire.born,
             \A i \in DOMAIN chan : ~Unmakes(chan[i], d)
      PROVE  Announced(d)'
  <2>1. \A i \in DOMAIN chan' : ~Unmakes(chan'[i], d)
    BY <1>3, <1>4
  <2> QED
    BY <1>4, <2>1 DEF Announced
<1>5. ASSUME NEW d, ~Unmakes(m, d), NEW i \in DOMAIN chan, chan[i].kind = "DBIRTH",
             chan[i].from = d, \A j \in DOMAIN chan : j > i => ~Unmakes(chan[j], d)
      PROVE  Announced(d)'
  <2>1. \A j \in DOMAIN chan' : j > i => ~Unmakes(chan'[j], d)
    BY <1>3, <1>5
  <2>2. i \in DOMAIN chan' /\ chan'[i].kind = "DBIRTH" /\ chan'[i].from = d
    BY <1>3, <1>5
  <2> QED
    BY <2>1, <2>2 DEF Announced
<1>6. ASSUME m.kind = "DBIRTH", NEW d, d = m.from PROVE Announced(d)'
  <2>1. \A j \in DOMAIN chan' : ~(j > n + 1)
    BY <1>3
  <2> QED
    BY <1>3, <1>6, <2>1 DEF Announced
<1> QED
  BY <1>4, <1>5, <1>6 DEF Announced

(* What the hosts make of a request.                                       *)
Distinct == \A d, e \in Devices : NameOf[d] = NameOf[e] => d = e

LEMMA HearBorn ==
  ASSUME Distinct, WireTypes, NEW m \in AnyRequest, wire' = Hear(m), NEW d \in Devices
  PROVE  /\ m.kind = "DBIRTH" /\ m.from = d => NameOf[d] \in wire'.born
         /\ NameOf[d] \in wire.born /\ ~Unmakes(m, d) => NameOf[d] \in wire'.born
<1> DEFINE numbered == [wire EXCEPT !.seqs = @ \cup {m.n}]
<1>1. "born" \in DOMAIN wire
  BY DEF WireTypes
<1>0. numbered.born = wire.born /\ "born" \in DOMAIN numbered
  BY <1>1
<1>2. m.kind = "DATA" => wire' = numbered
  BY DEF Hear
<1>3. m.kind = "DBIRTH" => wire'.born = wire.born \cup {NameOf[m.from]}
  <2> HIDE DEF numbered
  <2>1. m.kind = "DBIRTH" => wire' = [numbered EXCEPT !.alive = @ \cup {NameOf[m.from]},
                                                       !.born = @ \cup {NameOf[m.from]}]
    BY DEF Hear, numbered
  <2> QED
    BY <1>0, <2>1
<1>4. m.kind = "DDEATH" => wire'.born = wire.born \ {NameOf[m.from]} /\ m.from \in Devices
  <2> HIDE DEF numbered
  <2>1. m.kind = "DDEATH" => wire' = [numbered EXCEPT !.alive = @ \ {NameOf[m.from]},
                                                       !.born = @ \ {NameOf[m.from]},
                                                       !.dead = @ \cup {NameOf[m.from]}]
    BY DEF Hear, numbered
  <2>2. m.kind = "DDEATH" => m.from \in Devices
    BY DEF AnyRequest, SessionRequests, DeviceRequests
  <2> QED
    BY <1>0, <2>1, <2>2
<1>5. m.kind \notin {"NBIRTH", "DATA", "DBIRTH", "DDEATH"} => wire' = wire
  BY DEF Hear
<1> HIDE DEF numbered
<1> QED
  BY <1>0, <1>2, <1>3, <1>4, <1>5 DEF Unmakes, Distinct

LEMMA AnnouncedHeard ==
  ASSUME Distinct, WireTypes, ChanTypes, chan # <<>>, chan' = Tail(chan),
         wire' = Hear(Head(chan)), NEW d \in Devices, Announced(d)
  PROVE  Announced(d)'
<1>1. chan \in Seq(AnyRequest)
  BY DEF ChanTypes
<1>2. PICK m \in AnyRequest : m = Head(chan) /\ m = chan[1] /\ 1 \in DOMAIN chan
  BY <1>1
<1>3. /\ \A i \in DOMAIN chan' : i \in Nat \ {0} /\ i + 1 \in DOMAIN chan /\ chan'[i] = chan[i + 1]
      /\ \A i \in DOMAIN chan : i \in Nat \ {0}
  BY <1>1
<1>4. \A i \in DOMAIN chan : i # 1 => i - 1 \in DOMAIN chan' /\ chan'[i - 1] = chan[i]
  BY <1>1
<1>5. /\ m.kind = "DBIRTH" /\ m.from = d => NameOf[d] \in wire'.born
      /\ NameOf[d] \in wire.born /\ ~Unmakes(m, d) => NameOf[d] \in wire'.born
  BY <1>2, HearBorn
<1>6. CASE NameOf[d] \in wire.born /\ \A i \in DOMAIN chan : ~Unmakes(chan[i], d)
  <2>1. NameOf[d] \in wire'.born
    BY <1>2, <1>5, <1>6
  <2>2. \A i \in DOMAIN chan' : ~Unmakes(chan'[i], d)
    BY <1>3, <1>6
  <2> QED
    BY <2>1, <2>2 DEF Announced
<1>7. ASSUME NEW i \in DOMAIN chan, chan[i].kind = "DBIRTH", chan[i].from = d,
             \A j \in DOMAIN chan : j > i => ~Unmakes(chan[j], d)
      PROVE  Announced(d)'
  <2>1. CASE i = 1
    <3>1. NameOf[d] \in wire'.born
      BY <1>2, <1>5, <1>7, <2>1
    <3>2. ASSUME NEW j \in DOMAIN chan' PROVE ~Unmakes(chan'[j], d)
      <4>1. j + 1 \in DOMAIN chan /\ j + 1 > i /\ chan'[j] = chan[j + 1]
        BY <1>3, <2>1
      <4> QED
        BY <1>7, <4>1
    <3> QED
      BY <3>1, <3>2 DEF Announced
  <2>2. CASE i # 1
    <3>1. i - 1 \in DOMAIN chan' /\ chan'[i - 1] = chan[i]
      BY <1>4, <2>2
    <3>2. ASSUME NEW j \in DOMAIN chan', j > i - 1 PROVE ~Unmakes(chan'[j], d)
      <4>1. j + 1 \in DOMAIN chan /\ j + 1 > i /\ chan'[j] = chan[j + 1]
        BY <1>3, <3>2
      <4> QED
        BY <1>7, <4>1
    <3> QED
      BY <1>7, <3>1, <3>2 DEF Announced
  <2> QED
    BY <2>1, <2>2
<1> QED
  BY <1>6, <1>7 DEF Announced

(* What a step of a device puts into the channel.                          *)
LEMMA DevStepSends ==
  ASSUME SessionTypes, ChanTypes, DeviceTypes, NEW d \in Devices, DevStep(d)
  PROVE  \E q : /\ Becomes(d, q) /\ TaskStep(dev[d], q)
                /\ \/ chan' = chan /\ ~(Answered(dev[d], q) /\ q.res = "ok")
                   \/ /\ Answered(dev[d], q)
                      /\ \E m \in AnyRequest :
                            /\ chan' = Append(chan, m) /\ m.from = d /\ m.n = dev[d].n
                            /\ m.kind = (IF dev[d].pc = "dbirth" THEN "DBIRTH" ELSE "DDEATH")
<1>1. CASE DevTakeNode(d)
  <2>1. chan' = chan /\ dev[d].pc = "idle"
    BY <1>1 DEF DevTakeNode
  <2> QED
    BY <1>1, <2>1, TakeNodeEffect DEF TaskStep, Answered
<1>2. CASE DevTakeRequest(d)
  <2>1. chan' = chan /\ dev[d].pc = "idle"
    BY <1>2 DEF DevTakeRequest
  <2> QED
    BY <1>2, <2>1, TakeRequestEffect DEF TaskStep, Answered
<1>3. CASE DevSend(d)
  <2>1. PICK q : Becomes(d, q) /\ Answered(dev[d], q) /\ q.res = "ok"
    BY <1>3, SendEffectDev
  <2>2. PICK m \in AnyRequest :
           /\ chan' = Append(chan, m) /\ m.from = d /\ m.n = dev[d].n
           /\ m.kind = (IF dev[d].pc = "dbirth" THEN "DBIRTH" ELSE "DDEATH")
    BY <1>3, SendEffectDev
  <2> QED
    BY <2>1, <2>2 DEF TaskStep
<1>4. CASE DevSendFails(d)
  <2>1. PICK q : Becomes(d, q) /\ Answered(dev[d], q) /\ q.res = "err"
    BY <1>4, RefusedEffectDev
  <2>2. chan' = chan /\ (app'.fails > 0 \/ loop.pc = "done")
    BY <1>4, RefusedEffectDev
  <2> QED
    BY <2>1, <2>2 DEF TaskStep
<1>5. CASE DevSent(d)
  <2>1. PICK q : Becomes(d, q) /\ WasAnswered(dev[d], q)
    BY <1>5, SentEffectDev
  <2>2. chan' = chan
    BY <1>5, SentEffectDev
  <2> QED
    BY <2>1, <2>2 DEF TaskStep, Answered, WasAnswered
<1> QED
  BY <1>1, <1>2, <1>3, <1>4, <1>5 DEF DevStep

(* What the devices believe and what the hosts know, kept by the devices,  *)
BirthInv == DeviceInv /\ AllSane /\ Undeceived /\ Announcing

LEMMA DevStepAnnounces ==
  ASSUME BirthInv, NEW d \in Devices, DevStep(d)
  PROVE  AllSane' /\ Undeceived' /\ Announcing'
<1>1. /\ SessionTypes /\ ChanTypes /\ DeviceTypes /\ SessionInv /\ DevicesRest
      /\ AllSane /\ Undeceived /\ Announcing
  BY NodeTypesAre DEF BirthInv, DeviceInv
<1>2. DeviceSide /\ UNCHANGED <<registered, wire>>
  BY <1>1, DevStepEffect
<1>3. PICK q : /\ Becomes(d, q) /\ TaskStep(dev[d], q)
               /\ \/ chan' = chan /\ ~(Answered(dev[d], q) /\ q.res = "ok")
                  \/ /\ Answered(dev[d], q)
                     /\ \E m \in AnyRequest :
                           /\ chan' = Append(chan, m) /\ m.from = d
                           /\ m.kind = (IF dev[d].pc = "dbirth" THEN "DBIRTH" ELSE "DDEATH")
  BY <1>1, DevStepSends
<1>4. /\ dev[d] \in DeviceTask /\ q \in DeviceTask
      /\ \A e \in Devices : dev'[e] = IF e = d THEN q ELSE dev[e]
  BY <1>1, <1>3, TaskFields DEF Becomes, DeviceTypes
<1>5. /\ Sane(q)
      /\ ~HasNextSeq(st) /\ (Believes(dev[d]) => Unread(dev[d].mail, "Death"))
           => (Believes(q) => Unread(q.mail, "Death"))
      /\ HasNextSeq(st) /\ Certain(q) =>
           \/ Certain(dev[d])
           \/ /\ dev[d].pc = "dbirth" /\ dev[d].res = "wait"
              /\ Answered(dev[d], q) /\ q.res = "ok"
  BY <1>1, <1>3, <1>4, TaskBelieves DEF DevicesRest, AllSane
<1>6. /\ st'.birthed = st.birthed /\ (st.birthed <=> HasNextSeq(st))
      /\ UNCHANGED <<node, cancel, client, env>>
  BY <1>1, <1>2, SeqTaken
  DEF DeviceSide, sessionOnly, SessionTypes, SessionInv, NodeOrder, HasNextSeq
<1>7. registered \subseteq Devices
  BY <1>1 DEF DeviceTypes
<1>8. AllSane'
  BY <1>1, <1>4, <1>5 DEF AllSane
<1>9. Undeceived'
  <2>1. SUFFICES ASSUME Undisturbed, ~st.birthed, ~BeingReborn, NEW e \in registered,
                        Believes(dev'[e])
                 PROVE  Unread(dev'[e].mail, "Death")
    BY <1>2, <1>6 DEF Undeceived, Undisturbed, BeingReborn
  <2>2. Believes(dev[e]) => Unread(dev[e].mail, "Death")
    BY <1>1, <2>1 DEF Undeceived
  <2> QED
    BY <1>4, <1>5, <1>6, <1>7, <2>1, <2>2
<1>10. Announcing'
  <2>1. SUFFICES ASSUME Undisturbed, st.birthed, client.conn = "up", NEW e \in registered,
                        Certain(dev'[e])
                 PROVE  Announced(e)'
    BY <1>2, <1>6 DEF Announcing, Undisturbed
  <2>2. Certain(dev[e]) => Announced(e)
    BY <1>1, <2>1 DEF Announcing
  <2>3. CASE chan' = chan /\ ~(Answered(dev[d], q) /\ q.res = "ok")
    <3>1. Certain(dev[e])
      BY <1>4, <1>5, <1>6, <1>7, <2>1, <2>3
    <3> QED
      BY <1>2, <2>2, <2>3, <3>1 DEF Announced
  <2>4. ASSUME Answered(dev[d], q), NEW m \in AnyRequest, chan' = Append(chan, m), m.from = d,
               m.kind = (IF dev[d].pc = "dbirth" THEN "DBIRTH" ELSE "DDEATH")
        PROVE  Announced(e)'
    <3>1. /\ \A f : Announced(f) /\ ~Unmakes(m, f) => Announced(f)'
          /\ m.kind = "DBIRTH" => \A f : f = m.from => Announced(f)'
      BY <1>1, <1>2, <2>4, ChanAppended
    <3>2. CASE e # d
      <4>1. Announced(e) /\ ~Unmakes(m, e)
        BY <1>4, <1>7, <2>1, <2>2, <2>4, <3>2 DEF Unmakes
      <4> QED
        BY <3>1, <4>1
    <3>3. CASE e = d
      <4>1. Certain(q)
        BY <1>4, <2>1, <3>3
      <4>2. q.pc = dev[d].pc /\ q.birthed = dev[d].birthed /\ dev[d].pc \in {"dbirth", "ddeath"}
        BY <2>4 DEF Answered
      <4>3. dev[d].pc = "dbirth"
        BY <1>1, <4>1, <4>2 DEF Certain, AllSane, Sane
      <4> QED
        BY <2>4, <3>1, <3>3, <4>3
    <3> QED
      BY <3>2, <3>3
  <2> QED
    BY <1>3, <2>3, <2>4
<1> QED
  BY <1>8, <1>9, <1>10

(* the application,                                                        *)
LEMMA AppDeviceAnnounces ==
  ASSUME BirthInv, AppDeviceStep
  PROVE  AllSane' /\ Undeceived' /\ Announcing'
<1>1. /\ SessionTypes /\ ChanTypes /\ DeviceTypes /\ WireTypes /\ SessionInv
      /\ AllSane /\ Undeceived /\ Announcing
  BY NodeTypesAre DEF BirthInv, DeviceInv
<1>2. st'.birthed = st.birthed /\ UNCHANGED <<node, cancel, client, env>>
  BY <1>1, AppDeviceTypes, SeqTaken DEF DeviceSide, sessionOnly, SessionTypes
<1>3. registered \subseteq Devices
  BY <1>1 DEF DeviceTypes
<1>4. ASSUME chan' = chan, wire' = wire, NEW d \in Devices, NEW q, Becomes(d, q),
             d \in registered' => ~Believes(q) \/ (d \in registered /\ q.mail = dev[d].mail),
             q.pc = dev[d].pc \/ (dev[d].pc = "new" /\ q.pc = "idle"),
             q.res = dev[d].res, q.enabled = dev[d].enabled, q.birthed = dev[d].birthed,
             registered' \subseteq registered \cup {d}
      PROVE  AllSane' /\ Undeceived' /\ Announcing'
  <2>1. \A e \in Devices : dev'[e] = IF e = d THEN q ELSE dev[e]
    BY <1>1, <1>4 DEF Becomes, DeviceTypes
  <2>2. Sane(q) /\ (Believes(q) => q.pc = dev[d].pc) /\ (Certain(q) => Believes(q))
    BY <1>1, <1>4 DEF AllSane, Sane, Believes, Certain
  <2>3. AllSane'
    BY <1>1, <2>1, <2>2 DEF AllSane
  <2>4. \A e \in registered' : Believes(dev'[e]) =>
            /\ e \in registered /\ Believes(dev[e]) /\ dev'[e].mail = dev[e].mail
            /\ Certain(dev'[e]) => Certain(dev[e])
    BY <1>3, <1>4, <2>1, <2>2 DEF Believes, Certain
  <2>5. Undeceived'
    BY <1>1, <1>2, <2>4 DEF Undeceived, Undisturbed, BeingReborn
  <2>6. Announcing'
    <3>1. \A e : Announced(e) => Announced(e)'
      BY <1>4 DEF Announced
    <3>2. \A e \in registered' : Certain(dev'[e]) => e \in registered /\ Certain(dev[e])
      BY <2>4 DEF Certain, Believes
    <3> QED
      BY <1>1, <1>2, <3>1, <3>2 DEF Announcing, Undisturbed
  <2> QED
    BY <2>3, <2>5, <2>6
<1>5. ASSUME NEW d \in Devices, Register(d)
      PROVE  AllSane' /\ Undeceived' /\ Announcing'
  <2>1. PICK q : /\ Becomes(d, q) /\ q.pc = "idle" /\ q.mail = dev[d].mail
                 /\ q.enabled = dev[d].enabled /\ q.res = dev[d].res
                 /\ q.birthed = dev[d].birthed
    BY <1>1, <1>5, RegisterEffect
  <2>2. /\ dev[d].pc = "new" /\ registered' = registered \cup {d}
        /\ chan' = chan /\ wire' = wire
    BY <1>1, <1>5, RegisterEffect
  <2>3. ~Believes(q)
    BY <1>1, <2>1, <2>2 DEF AllSane, Sane, Believes
  <2> QED
    BY <1>4, <2>1, <2>2, <2>3
<1>6. ASSUME NEW d \in Devices, Unregister(d)
      PROVE  AllSane' /\ Undeceived' /\ Announcing'
  <2>1. PICK q : /\ Becomes(d, q) /\ q.pc = dev[d].pc /\ q.res = dev[d].res
                 /\ q.enabled = dev[d].enabled /\ q.birthed = dev[d].birthed
    BY <1>1, <1>6, UnregisterEffect
  <2>2. /\ registered' = registered \ {d} /\ chan' = chan /\ wire' = wire
    BY <1>1, <1>6, UnregisterEffect
  <2> QED
    BY <1>4, <2>1, <2>2
<1>7. ASSUME NEW d \in Devices, NEW r \in Requests, AskDevice(d, r)
      PROVE  AllSane' /\ Undeceived' /\ Announcing'
  <2>1. PICK q : /\ Becomes(d, q) /\ q.pc = dev[d].pc /\ q.mail = dev[d].mail
                 /\ q.enabled = dev[d].enabled /\ q.res = dev[d].res
                 /\ q.birthed = dev[d].birthed
    BY <1>1, <1>7, AskDeviceEffect
  <2>2. d \in registered /\ UNCHANGED <<registered, chan, wire>>
    BY <1>1, <1>7, AskDeviceEffect
  <2> QED
    BY <1>4, <2>1, <2>2
<1>8. ASSUME NEW p \in Publishers, PubStep(p)
      PROVE  AllSane' /\ Undeceived' /\ Announcing'
  <2>1. /\ UNCHANGED <<dev, registered, wire>>
        /\ \/ chan' = chan
           \/ \E m \in AnyRequest : m.kind = "DATA" /\ chan' = Append(chan, m)
    BY <1>1, <1>8, PubStepEffect
  <2>2. \A e : Announced(e) => Announced(e)'
    <3>1. CASE chan' = chan
      BY <2>1, <3>1 DEF Announced
    <3>2. ASSUME NEW m \in AnyRequest, m.kind = "DATA", chan' = Append(chan, m)
          PROVE  \A e : Announced(e) => Announced(e)'
      <4>1. \A e : ~Unmakes(m, e)
        BY <3>2 DEF Unmakes
      <4>2. \A e : Announced(e) /\ ~Unmakes(m, e) => Announced(e)'
        BY <1>1, <2>1, <3>2, ChanAppended
      <4> QED
        BY <4>1, <4>2
    <3> QED
      BY <2>1, <3>1, <3>2
  <2>3. AllSane' /\ Undeceived'
    BY <1>1, <1>2, <2>1 DEF AllSane, Undeceived, Undisturbed, BeingReborn
  <2>4. Announcing'
    BY <1>1, <1>2, <2>1, <2>2 DEF Announcing, Undisturbed
  <2> QED
    BY <2>3, <2>4
<1> QED
  BY <1>5, <1>6, <1>7, <1>8 DEF AppDeviceStep, PubStep

(* and the session: nothing refused or cancelled comes undone,             *)
LEMMA UndisturbedBefore ==
  ASSUME SessionTypes, [Next]_vars, Undisturbed'
  PROVE  Undisturbed
<1>1. CASE NodeStep
  BY <1>1, NodeMail, NodeElsewhere DEF Elsewhere, Undisturbed
<1>2. CASE ~NodeStep
  BY <1>2, OutsideMail DEF Undisturbed
<1> QED
  BY <1>1, <1>2

(* a node that is birthed stays so, or is born again, but for the steps    *)
(* that tell the devices,                                                  *)
LEMMA StaysBirthed ==
  ASSUME SessionInv, NodeOnlyStep \/ OtherStep, Undisturbed, Undisturbed',
         st.birthed \/ BeingReborn
  PROVE  st'.birthed \/ BeingReborn'
<1>0. SessionTypes /\ NodeOrder /\ Running /\ Requested
  BY DEF SessionInv, Gated
<1>1. CASE OtherStep
  BY <1>0, <1>1, NodeLeft DEF Undisturbed, BeingReborn, SameTask
<1>2. CASE NodeSend \/ NodeSendFails
  BY <1>0, <1>2, SendEffect, RefusedEffect DEF BeingReborn, SameTask
<1>3. CASE Subscribed
  BY <1>0, <1>3, SubscribedEffect DEF BeingReborn
<1>4. CASE SubscribeFailed
  BY <1>0, <1>4, SubscribeFailedEffect DEF BeingReborn
<1>5. CASE BirthFailed
  <2>1. node.res = "err"
    BY <1>0, <1>5, BirthFailedEffect
  <2>2. env.fails = 0 /\ loop.pc # "done"
    BY <1>0 DEF Undisturbed, Running
  <2> QED
    BY <1>0, <2>1, <2>2 DEF Requested
<1>6. CASE DisconnectSent
  BY <1>0, <1>6, DisconnectSentEffect DEF BeingReborn
<1>7. CASE TakeOnline
  BY <1>0, <1>7, OnlineEffect DEF Tried, BeingReborn
<1>8. CASE TakeState
  BY <1>0, <1>8, StateEffect DEF Tried, BeingReborn
<1>9. CASE TakeStopped
  BY <1>0, <1>9, StoppedEffect DEF BeingReborn
<1>10. CASE RetryFires
  BY <1>0, <1>10, RetryEffect DEF Tried, BeingReborn
<1>11. CASE TakeRebirth \/ TakeCommand
  BY <1>0, <1>11, RebirthEffect, CommandEffect DEF Begins, BeingReborn
<1> QED
  BY <1>1, <1>2, <1>3, <1>4, <1>5, <1>6, <1>7, <1>8, <1>9, <1>10, <1>11 DEF NodeOnlyStep

(* while it is, and the connection stands, what has been announced is not  *)
(* taken back,                                                             *)
LEMMA NodeSends ==
  ASSUME SessionInv, ChanTypes, NodeOnlyStep, st.birthed, wire' = wire
  PROVE  \A d : Announced(d) => Announced(d)'
<1>0. SessionTypes /\ DeadWhileBirthing
  BY DEF SessionInv, Gated
<1>1. CASE NodeSend
  <2>1. PICK m : m = NodeRequest
    OBVIOUS
  <2>2. /\ chan' = Append(chan, m) /\ node.pc \in Awaiting
    BY <1>0, <1>1, <2>1, SendEffect
  <2>3. node.pc # "nbirth"
    BY <1>0 DEF DeadWhileBirthing
  <2>4. m.kind \in {"SUB", "NDEATH", "DISCONNECT"} /\ m \in AnyRequest
    <3>1. node.bd \in BdSeq
      BY <1>0 DEF SessionTypes, NodeTask
    <3> QED
      BY <2>1, <2>2, <2>3, <3>1 DEF NodeRequest, Request, Awaiting, AnyRequest, SessionRequests
  <2>5. \A d : ~Unmakes(m, d)
    BY <2>4 DEF Unmakes
  <2>6. \A d : Announced(d) /\ ~Unmakes(m, d) => Announced(d)'
    BY <2>2, <2>4, ChanAppended
  <2> QED
    BY <2>5, <2>6
<1>2. CASE ~NodeSend
  <2>1. chan' = chan
    BY <1>2 DEF NodeOnlyStep, NodeSendFails, Subscribed, SubscribeFailed, BirthFailed,
                DisconnectSent, TakeOnline, TakeState, TakeStopped, RetryFires, TakeRebirth,
                TakeCommand
  <2> QED
    BY <2>1 DEF Announced
<1> QED
  BY <1>1, <1>2

LEMMA OthersSend ==
  ASSUME SessionInv, LoopStep \/ PollEvent \/ AppStep \/ HostFlips \/ OldState \/ CooldownEnds,
         st.birthed, Undisturbed', client'.conn = "up", wire' = wire
  PROVE  client.conn = "up" /\ \A d : Announced(d) => Announced(d)'
<1>0. SessionTypes /\ NodeOrder /\ Handover
  BY DEF SessionInv, Gated
<1>1. client.conn = "up" /\ chan' = chan
  <2>1. CASE LoopStep
    BY <1>0, <2>1, RunEffect, LoopSendEffect, GotWillEffect, LoopStopEffect, DrainCheckEffect,
       DrainTimeoutEffect, LoopDoneEffect DEF LoopStep, LoopElsewhere, SameClient
  <2>2. CASE PollConnect
    BY <1>0, <2>2, ConnectEffect DEF PollElsewhere, Handover, Disconnected, NodeOrder
  <2>3. CASE PollEvent /\ ~PollConnect
    BY <1>0, <2>3, StateMessageEffect, CommandMessageEffect, LostEffect, KickEffect,
       ClosedEffect DEF PollEvent
  <2>4. CASE Rebirth
    BY <1>0, <2>4, RebirthCallEffect DEF AppElsewhere
  <2>5. CASE AppStep /\ ~Rebirth
    BY <1>0, <2>5, CancelEffect DEF Undisturbed
  <2>6. CASE HostFlips \/ OldState \/ CooldownEnds
    BY <1>0, <2>6, WorldEffect DEF WorldElsewhere
  <2> QED
    BY <2>1, <2>2, <2>3, <2>4, <2>5, <2>6
<1>2. \A d : Announced(d) => Announced(d)'
  BY <1>1 DEF Announced
<1> QED
  BY <1>1, <1>2

LEMMA HostsLearn ==
  ASSUME Distinct, SessionInv, ChanTypes, WireTypes, HostsHear, client'.conn = "up"
  PROVE  client.conn = "up" /\ \A d \in Devices : Announced(d) => Announced(d)'
<1>1. SessionTypes /\ PollRequest
  BY DEF SessionInv, Gated, HostsHear
<1>2. /\ client.conn = "up" /\ chan # <<>> /\ chan' = Tail(chan)
  BY <1>1, RequestTaken
<1>3. wire' = Hear(Head(chan))
  BY <1>2 DEF HostsHear
<1> QED
  BY <1>2, <1>3, AnnouncedHeard

(* and whoever the node tells of its death or birth believes it.           *)
LEMMA NotifyAnnounces ==
  ASSUME BirthInv, NEW m \in MailWords, Notify(m), SessionStep,
         \/ m = "Death" /\ ~st'.birthed
         \/ st'.birthed /\ node.pc = "nbirth" /\ m = node.type
  PROVE  AllSane' /\ Undeceived' /\ Announcing'
<1>1. /\ SessionTypes /\ DeviceTypes /\ SessionInv /\ AllSane /\ Undeceived /\ Announcing
      /\ DeadWhileBirthing /\ [Next]_vars
  BY NodeTypesAre, SessionStepIs DEF BirthInv, DeviceInv, SessionInv, Gated
<1>2. registered \subseteq Devices /\ registered' = registered
  BY <1>1 DEF SessionStep, DeviceTypes
<1>3. \A d \in Devices :
        /\ dev'[d].pc = dev[d].pc /\ dev'[d].res = dev[d].res
        /\ dev'[d].enabled = dev[d].enabled /\ dev'[d].birthed = dev[d].birthed
        /\ dev'[d].mail = IF d \in registered THEN Append(dev[d].mail, m) ELSE dev[d].mail
  BY <1>1, NotifyEffect
<1>4. AllSane'
  BY <1>1, <1>3 DEF AllSane, Sane, Believes
<1>5. ASSUME NEW d \in registered
      PROVE  /\ Believes(dev'[d]) => Believes(dev[d])
             /\ \A w : Unread(dev'[d].mail, w) <=> Unread(dev[d].mail, w) \/ m = w
  <2>1. dev[d].mail \in Seq(MailWords) /\ dev'[d].mail = Append(dev[d].mail, m)
    BY <1>1, <1>2, <1>3, TaskFields
  <2>2. \A w : Unread(dev'[d].mail, w) <=> Unread(dev[d].mail, w) \/ m = w
    BY <2>1, UnreadAppended
  <2> QED
    BY <1>2, <1>3, <2>2 DEF Believes
<1>6. CASE m = "Death" /\ ~st'.birthed
  BY <1>2, <1>4, <1>5, <1>6 DEF Undeceived, Announcing
<1>7. CASE st'.birthed /\ node.pc = "nbirth" /\ m = node.type
  <2>1. Undeceived'
    BY <1>7 DEF Undeceived
  <2>2. Announcing'
    <3>1. SUFFICES ASSUME Undisturbed', NEW d \in registered, Certain(dev'[d]) PROVE FALSE
      BY <1>2 DEF Announcing
    <3>2. Believes(dev[d]) /\ ~Unread(dev[d].mail, "Death") /\ m # "Rebirth"
      BY <1>5, <3>1 DEF Certain, Believes
    <3>3. Undisturbed /\ ~st.birthed
      BY <1>1, <1>7, <3>1, UndisturbedBefore DEF DeadWhileBirthing
    <3>4. ~BeingReborn
      BY <1>7, <3>2 DEF BeingReborn
    <3> QED
      BY <1>1, <3>2, <3>3, <3>4 DEF Undeceived
  <2> QED
    BY <1>4, <2>1, <2>2
<1> QED
  BY <1>6, <1>7

LEMMA SessionAnnounces ==
  ASSUME Distinct, BirthInv, SessionStep
  PROVE  AllSane' /\ Undeceived' /\ Announcing'
<1>1. /\ SessionTypes /\ ChanTypes /\ DeviceTypes /\ WireTypes /\ SessionInv
      /\ AllSane /\ Undeceived /\ Announcing /\ [Next]_vars
  BY NodeTypesAre, SessionStepIs DEF BirthInv, DeviceInv
<1>2. registered \subseteq Devices /\ registered' = registered
  BY <1>1 DEF SessionStep, DeviceTypes
<1>3. CASE NodeBirthed
  <2>1. node.type \in MailWords /\ node.pc = "nbirth" /\ st'.birthed
    BY <1>1, <1>3, BirthedEffect DEF NodeBirthed, SessionTypes, NodeTask, MailWords, Births
  <2> QED
    BY <1>3, <2>1, NotifyAnnounces DEF NodeBirthed
<1>4. CASE NodeOffline
  <2>1. /\ ~st'.birthed /\ (~st.online => ~st.birthed) /\ node.pc = "idle"
    BY <1>1, <1>4, OfflineEffect DEF NodeOffline, SessionInv, NodeOrder
  <2>2. CASE Notify("Death")
    BY <2>1, <2>2, NotifyAnnounces DEF MailWords
  <2>3. CASE ~st.online /\ dev' = dev
    <3>1. AllSane'
      BY <1>1, <2>3 DEF AllSane
    <3>2. Undeceived'
      BY <1>1, <1>2, <2>1, <2>3, UndisturbedBefore DEF Undeceived, BeingReborn
    <3>3. Announcing'
      BY <2>1 DEF Announcing
    <3> QED
      BY <3>1, <3>2, <3>3
  <2> QED
    BY <1>4, <2>2, <2>3 DEF NodeOffline
<1>5. CASE NodeDeathSent
  <2>1. ~st'.birthed
    BY <1>1, <1>5, DeathSentEffect DEF NodeDeathSent
  <2> QED
    BY <1>5, <2>1, NotifyAnnounces DEF NodeDeathSent, MailWords
<1>6. ASSUME dev' = dev, NodeOnlyStep \/ OtherStep,
             ASSUME st.birthed, Undisturbed', client'.conn = "up"
             PROVE  client.conn = "up" /\ \A d \in Devices : Announced(d) => Announced(d)'
      PROVE  AllSane' /\ Undeceived' /\ Announcing'
  <2>1. AllSane'
    BY <1>1, <1>6 DEF AllSane
  <2>2. Undisturbed' => Undisturbed /\ (st.birthed \/ BeingReborn => st'.birthed \/ BeingReborn')
    BY <1>1, <1>6, UndisturbedBefore, StaysBirthed
  <2>3. Undeceived'
    BY <1>1, <1>2, <1>6, <2>2 DEF Undeceived
  <2>4. st'.birthed => st.birthed
    BY <1>1, <1>6, BirthedByBirth
  <2>5. Announcing'
    BY <1>1, <1>2, <1>6, <2>2, <2>4 DEF Announcing
  <2> QED
    BY <2>1, <2>3, <2>5
<1>7. CASE HostsHear /\ dev' = dev
  BY <1>1, <1>6, <1>7, HostsLearn DEF HostsHear, OtherStep
<1>8. CASE NodeOnlyStep /\ UNCHANGED <<dev, wire>>
  <2>1. client' = client
    BY <1>1, <1>8, NodeElsewhere DEF NodeStep, Elsewhere
  <2> QED
    BY <1>1, <1>6, <1>8, <2>1, NodeSends
<1>9. CASE /\ UNCHANGED <<dev, wire>>
           /\ LoopStep \/ PollEvent \/ AppStep \/ HostFlips \/ OldState \/ CooldownEnds
  BY <1>1, <1>6, <1>9, OthersSend DEF OtherStep
<1> QED
  BY <1>3, <1>4, <1>5, <1>7, <1>8, <1>9 DEF SessionStep

LEMMA BirthInvKept == ASSUME Distinct, BirthInv, [NodeNext]_nodeVars PROVE BirthInv'
<1>1. DeviceInv'
  BY DeviceInvKept DEF BirthInv
<1>2. CASE SessionStep
  BY <1>1, <1>2, SessionAnnounces DEF BirthInv
<1>3. ASSUME NEW d \in Devices, DevStep(d) PROVE BirthInv'
  BY <1>1, <1>3, DevStepAnnounces DEF BirthInv
<1>4. CASE AppDeviceStep
  BY <1>1, <1>4, AppDeviceAnnounces DEF BirthInv
<1>5. CASE UNCHANGED nodeVars
  <2>1. AllSane' /\ Undeceived' /\ Announcing'
    BY <1>5 DEF nodeVars, vars, BirthInv, AllSane, Undeceived, Announcing, Announced,
                Undisturbed, BeingReborn
  <2> QED
    BY <1>1, <2>1 DEF BirthInv
<1> QED
  BY <1>2, <1>3, <1>4, <1>5 DEF NodeNext

LEMMA BirthInvInit == ASSUME NodeInit PROVE BirthInv
<1>1. DeviceInv
  BY DeviceInvInit
<1>2. \A d \in Devices : dev[d].pc = "new" /\ ~dev[d].birthed
  BY DEF NodeInit
<1>3. AllSane
  BY <1>2 DEF AllSane, Sane, Believes
<1>4. Undeceived /\ Announcing
  BY DEF NodeInit, Init, NewEoNState, Undeceived, Announcing
<1> QED
  BY <1>1, <1>3, <1>4 DEF BirthInv

(* A device that believes it is birthed has published its DBIRTH since the *)
(* latest NBIRTH, however rebirths, commands of the host, enable(),        *)
(* disable(), new registrations and lost connections interleave with the   *)
(* words in its channel (Node::node_birth, on_offline, Device::birth).     *)
(* The client must not have refused anything: the error of a refused       *)
(* rebirth is only logged and the devices stay birthed, though nobody told *)
(* them of the birth that follows.  No two of the devices may share a      *)
(* name: the DDEATH of one that was removed may follow the DBIRTH of its   *)
(* successor.                                                              *)
THEOREM BirthsAnnounced ==
  Distinct => (NodeSpec => [](env.fails = 0 => BirthedAnnounced))
<1> SUFFICES ASSUME Distinct PROVE NodeSpec => [](env.fails = 0 => BirthedAnnounced)
  OBVIOUS
<1>1. NodeInit => BirthInv
  BY BirthInvInit
<1>2. BirthInv /\ [NodeNext]_nodeVars => BirthInv'
  BY BirthInvKept
<1>3. BirthInv => (env.fails = 0 => BirthedAnnounced)
  <2>1. SUFFICES ASSUME BirthInv, env.fails = 0, Quiet, st.birthed, NEW d \in registered,
                        dev[d].birthed
                 PROVE  NameOf[d] \in wire.born
    BY DEF BirthedAnnounced
  <2>2. d \in Devices /\ dev[d].mail = <<>> /\ chan = <<>>
    BY <2>1, NodeTypesAre DEF BirthInv, DeviceInv, DeviceTypes, Quiet, Settled
  <2>3. Undisturbed /\ client.conn = "up"
    BY <2>1 DEF Undisturbed, Quiet, Settled
  <2>4. Certain(dev[d])
    BY <2>1, <2>2 DEF Certain, Unread
  <2>5. Announced(d)
    BY <2>1, <2>3, <2>4 DEF BirthInv, Announcing
  <2> QED
    BY <2>2, <2>5 DEF Announced
<1> QED
  BY <1>1, <1>2, <1>3, PTL DEF NodeSpec

=============================================================================
