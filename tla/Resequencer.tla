----------------------------- MODULE Resequencer -----------------------------
(***************************************************************************)
(* The Resequencer of srad-app/src/resequencer.rs: the buffer a host       *)
(* application uses to put the messages of one edge node back into the     *)
(* order of their Sparkplug sequence numbers.                              *)
(*                                                                         *)
(* A resequencer is a record; each method of the Rust type is an operator  *)
(* that returns the record after the call, together with the value the     *)
(* method returns.  The code's sequence numbers are u8, so SeqMod is 256   *)
(* there; every operator is written for an arbitrary modulus.              *)
(***************************************************************************)
EXTENDS Integers

CONSTANT SeqMod          \* number of distinct sequence numbers (2^8)

ASSUME SeqModAssumption == SeqMod \in Nat \ {0}

SeqNo == 0 .. SeqMod - 1

(* Mutant: the addition does not wrap.                                     *)
PlainAdd(a, b) == a + b

WrapAdd(a, b) == (a + b) % SeqMod
WrapSub(a, b) == (a + SeqMod - b) % SeqMod

-----------------------------------------------------------------------------
(* State::Good carries no data, State::ReSequencing carries the offset its *)
(* keys are relative to.  The offset is a SeqNo, so -1 can stand for Good. *)
Good == -1

NoMessages == [k \in {} |-> k]

NewResequencer == [buffer |-> NoMessages, next_seq |-> 0, state |-> Good]

IsResequencer(r, Msg) ==
    /\ r = [buffer |-> r.buffer, next_seq |-> r.next_seq, state |-> r.state]
    /\ DOMAIN r.buffer \subseteq SeqNo
    /\ r.buffer \in [DOMAIN r.buffer -> Msg]
    /\ r.next_seq \in SeqNo
    /\ r.state \in SeqNo \cup {Good}

SetNextSequence(r, seq) == [r EXCEPT !.next_seq = seq]

Reset(r) == NewResequencer

Put(f, k, m) == [x \in DOMAIN f \cup {k} |-> IF x = k THEN m ELSE f[x]]
Drop(f, k) == [x \in DOMAIN f \ {k} |-> f[x]]

(* The value of State::ReSequencing that the lookup and the insertion of a *)
(* message use: a Good resequencer starts counting at next_seq.            *)
Offset(r) == IF r.state = Good THEN r.next_seq ELSE r.state

(* Mutant: messages are stored under their own sequence number.            *)
KeyAbsolute(r, seq) == seq

Key(r, seq) == WrapSub(seq, Offset(r))

(* Holds(r, seq): the buffer already has a message under seq's key.        *)
Holds(r, seq) == r.state # Good /\ Key(r, seq) \in DOMAIN r.buffer

(***************************************************************************)
(* process(seq, m).  The message is the expected one, or it is inserted    *)
(* under its key, or the key is taken.                                     *)
(***************************************************************************)
ProcessResult(r, seq) ==
    CASE Holds(r, seq)                        -> "DuplicateMessageSequence"
      [] ~Holds(r, seq) /\ seq = r.next_seq   -> "MessageNextInSequence"
      [] OTHER                                -> "OutOfSequenceMessageInserted"

Process(r, seq, m) ==
    CASE Holds(r, seq)                        -> r
      [] ~Holds(r, seq) /\ seq = r.next_seq   -> [r EXCEPT !.next_seq = WrapAdd(@, 1)]
      [] OTHER -> [r EXCEPT !.state = Offset(r),
                            !.buffer = Put(@, Key(r, seq), m)]

(***************************************************************************)
(* drain().  Only the message with the smallest key is a candidate: it is  *)
(* popped when it carries the expected sequence number.                    *)
(***************************************************************************)
IsFirst(r, k) == k \in DOMAIN r.buffer /\ \A x \in DOMAIN r.buffer : k <= x

CanPop(r, k) == IsFirst(r, k) /\ WrapAdd(k, r.state) = r.next_seq

DrainResult(r) ==
    CASE DOMAIN r.buffer = {}                                  -> "Empty"
      [] DOMAIN r.buffer # {} /\ \E k \in SeqNo : CanPop(r, k)  -> "Message"
      [] OTHER                                                 -> "SequenceMissing"

(* Mutant: the whole buffer goes.                                          *)
PopClears(r, k) == [buffer |-> NoMessages, next_seq |-> WrapAdd(r.next_seq, 1),
                    state |-> Good]

Pop(r, k) ==
    [buffer   |-> Drop(r.buffer, k),
     next_seq |-> WrapAdd(r.next_seq, 1),
     state    |-> IF DOMAIN r.buffer = {k} THEN Good ELSE r.state]
=============================================================================
