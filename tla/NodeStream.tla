----------------------------- MODULE NodeStream ------------------------------
(***************************************************************************)
(* The sequenced messages of one edge node as its actor in the host        *)
(* application handles them: handle_resequencable_message and              *)
(* drain_resequence_buffer of srad-app/src/generic_app.rs around one       *)
(* Resequencer, for a node whose recorded state stays Birthed.             *)
(*                                                                         *)
(* Message n is the n-th message the edge node sent after its NBIRTH; its  *)
(* sequence number is n modulo SeqMod.  The network reorders: a message    *)
(* may overtake those before it as long as it is at most Window positions  *)
(* ahead of the last one applied.  It may also be delivered again.         *)
(***************************************************************************)
EXTENDS Resequencer

CONSTANTS MaxMsg,        \* bound: messages per birth
          Window,        \* how far ahead of the applied prefix one may arrive
          MaxDup,        \* bound: redeliveries per birth
          MaxBirth       \* bound: births after the first

ASSUME StreamAssumption ==
    /\ MaxMsg \in Nat /\ MaxDup \in Nat /\ MaxBirth \in Nat
    /\ Window \in Nat \ {0} /\ Window < SeqMod

VARIABLES rs,            \* Node::resequencer
          pc,            \* "ready" for a message, or "draining" the buffer
          result,        \* what process() said of the latest message
          arrived,       \* messages handed to process() since the birth
          last,          \* the last message applied to the metric stores
          dups, births   \* counters of the bounded environment

vars == <<rs, pc, result, arrived, last, dups, births>>

Msg == 1 .. MaxMsg

ProcessResults == {"MessageNextInSequence", "OutOfSequenceMessageInserted",
                   "DuplicateMessageSequence"}

SeqOf(n) == n % SeqMod

(* Mutant: the resequencer is not reset.                                   *)
AfterBirthNoReset == SetNextSequence(rs, 1 % SeqMod)

(* After an NBIRTH, whose own sequence number is 0, 1 is expected.         *)
AfterBirth == SetNextSequence(Reset(rs), 1 % SeqMod)

-----------------------------------------------------------------------------
Init ==
    /\ rs = SetNextSequence(NewResequencer, 1 % SeqMod)
    /\ pc = "ready"
    /\ result \in ProcessResults
    /\ arrived = {}
    /\ last = 0
    /\ dups = 0
    /\ births = 0

(* Mutant: the buffer is not drained after a message in sequence.          *)
HandleNoDrain(n) ==
    /\ pc = "ready"
    /\ rs' = Process(rs, SeqOf(n), n)
    /\ result' = ProcessResult(rs, SeqOf(n))
    /\ last' = IF result' = "MessageNextInSequence" THEN n ELSE last
    /\ arrived' = arrived \cup {n}
    /\ UNCHANGED <<pc, births>>

(* process() the message; one that is in sequence is applied and the drain *)
(* loop starts, any other leaves the handler.                              *)
Handle(n) ==
    /\ pc = "ready"
    /\ rs' = Process(rs, SeqOf(n), n)
    /\ result' = ProcessResult(rs, SeqOf(n))
    /\ IF result' = "MessageNextInSequence"
       THEN last' = n /\ pc' = "draining"
       ELSE UNCHANGED <<last, pc>>
    /\ arrived' = arrived \cup {n}
    /\ UNCHANGED births

(* After a redelivery the birth's stream ends with its first round of      *)
(* sequence numbers: a round later nobody can tell the two apart.          *)
OneRound(S) == \A n \in S : n < SeqMod

Receive(n) ==
    /\ n \notin arrived
    /\ n <= last + Window
    /\ dups > 0 => OneRound({n})
    /\ Handle(n)
    /\ UNCHANGED dups

Redeliver(n) ==
    /\ n \in arrived
    /\ n + SeqMod > last + 1
    /\ OneRound(arrived)
    /\ dups < MaxDup
    /\ Handle(n)
    /\ dups' = dups + 1

DrainMessage ==
    /\ pc = "draining"
    /\ \E k \in SeqNo :
          /\ CanPop(rs, k)
          /\ last' = rs.buffer[k]
          /\ rs' = Pop(rs, k)
    /\ UNCHANGED <<pc, result, arrived, dups, births>>

DrainEnd ==
    /\ pc = "draining"
    /\ DrainResult(rs) # "Message"
    /\ pc' = "ready"
    /\ UNCHANGED <<rs, result, arrived, last, dups, births>>

(* A newer NBIRTH: reset() and set_next_sequence(1); the messages of the   *)
(* new birth are numbered from 1 again.                                    *)
NewBirth ==
    /\ pc = "ready"
    /\ births < MaxBirth
    /\ rs' = AfterBirth
    /\ arrived' = {}
    /\ last' = 0
    /\ dups' = 0
    /\ births' = births + 1
    /\ UNCHANGED <<pc, result>>

Next ==
    \/ \E n \in Msg : Receive(n)
    \/ \E n \in Msg : Redeliver(n)
    \/ DrainMessage
    \/ DrainEnd
    \/ NewBirth

Spec == Init /\ [][Next]_vars

(* The actor's loop runs on: a drain loop is finished, and a message that  *)
(* has arrived in the actor's queue is taken out of it.                    *)
Fairness ==
    /\ WF_vars(DrainMessage) /\ WF_vars(DrainEnd)
    /\ \A n \in Msg : WF_vars(Receive(n))

FairSpec == Spec /\ Fairness

-----------------------------------------------------------------------------
(* The types of all variables.                                             *)
TypeOK ==
    /\ IsResequencer(rs, Msg)
    /\ pc \in {"ready", "draining"}
    /\ result \in ProcessResults
    /\ arrived \in SUBSET Msg
    /\ last \in Nat
    /\ dups \in Nat /\ births \in Nat

Buffered == {rs.buffer[k] : k \in DOMAIN rs.buffer}

(* The resequencer never forgets or invents a message: the actor has       *)
(* applied a prefix of the stream, and every other message that arrived is *)
(* still in the buffer, under one key only.                                *)
NothingLost ==
    /\ \A n \in Msg : n <= last => n \in arrived
    /\ \A n \in arrived : n > last => n \in Buffered
    /\ \A j, k \in DOMAIN rs.buffer : rs.buffer[j] = rs.buffer[k] => j = k

(* drain() reports SequenceMissing only "when there are no more messages   *)
(* that can be provided in order" (the comment over it in resequencer.rs): *)
(* between two messages, the expected one is never sitting in the buffer.  *)
(* A redelivered message that was applied before may hide it.              *)
DrainComplete == pc = "ready" /\ dups = 0 => last + 1 \notin Buffered

(* The expected message is in the buffer behind a later one: the later     *)
(* one's key, relative to the offset, has wrapped around.                  *)
Hidden ==
    \E j, k \in DOMAIN rs.buffer :
        j < k /\ rs.buffer[k] = last + 1 /\ rs.buffer[j] > last + 1

(* That is the only way drain() can fail its comment: between two messages *)
(* the expected one waits in the buffer only behind a later one whose key  *)
(* has wrapped, or after a redelivery.                                     *)
OnlyWrapHides == pc = "ready" /\ dups = 0 /\ last + 1 \in Buffered => Hidden

(* drain() asserts that a Good resequencer has an empty buffer; and one    *)
(* that is re-sequencing has something to wait for, so that the reorder    *)
(* timer is running only while messages are held back.                     *)
GoodIffEmpty == rs.state = Good <=> DOMAIN rs.buffer = {}

(* The actor implements in-order delivery: message n is applied right      *)
(* after message n - 1, once, whatever overtook it on the way.             *)
InOrder == INSTANCE InOrderDelivery
InOrderSafe == InOrder!Spec

(* Once it has arrived, a message is applied with all those before it,     *)
(* unless a new birth starts the stream over, a message is redelivered or  *)
(* a wrapped key hides the expected message.                               *)
ArrivedIsApplied == \A n \in Msg : (n \in arrived) ~> (last >= n \/ dups > 0 \/ Hidden)
=============================================================================
