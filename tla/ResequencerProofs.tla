-------------------------- MODULE ResequencerProofs --------------------------
(***************************************************************************)
(* What the operators of Resequencer do to a resequencer that is well      *)
(* formed, for every modulus and whatever the messages are.                *)
(***************************************************************************)
EXTENDS Resequencer, TLAPS

-----------------------------------------------------------------------------
(* Facts about arithmetic modulo M, on which the sequence numbers that      *)
(* wrap rest.                                                              *)

(* The remainder of a natural number, with its quotient.                   *)
LEMMA DivMod ==
  ASSUME NEW M \in Nat \ {0}, NEW a \in Nat
  PROVE  /\ a % M \in 0 .. M - 1
         /\ \E q \in Nat : a = M * q + (a % M)
<1>1. a % M \in 0 .. M - 1
  OBVIOUS
<1>2. a = M * (a \div M) + (a % M) /\ a \div M \in Nat
  OBVIOUS
<1>3. QED
  BY <1>1, <1>2

(* A positive multiple of M is at least M.                                 *)
LEMMA MultipleAtLeast ==
  ASSUME NEW M \in Nat \ {0}, NEW d \in Nat \ {0}
  PROVE  M * d >= M
  OBVIOUS

(* Two numbers less than M apart have different remainders.                *)
LEMMA SameRemainder ==
  ASSUME NEW M \in Nat \ {0}, NEW a \in Nat, NEW b \in Nat,
         a < b + M, b < a + M, a % M = b % M
  PROVE  a = b
<1>1. PICK p \in Nat : a = M * p + (a % M)
  BY DivMod
<1>2. PICK q \in Nat : b = M * q + (b % M)
  BY DivMod
<1>3. b - a = M * (q - p) /\ a - b = M * (p - q)
  <2> DEFINE r == a % M
  <2>1. r \in Int
    OBVIOUS
  <2>2. a = M * p + r /\ b = M * q + r
    BY <1>1, <1>2
  <2>3. HIDE DEF r
  <2>4. QED
    BY <2>1, <2>2
<1>4. CASE q - p >= 1
  BY <1>3, <1>4, M * (q - p) >= M, MultipleAtLeast
<1>5. CASE p - q >= 1
  BY <1>3, <1>5, M * (p - q) >= M, MultipleAtLeast
<1>6. CASE p = q
  BY <1>3, <1>6
<1>7. QED
  BY <1>4, <1>5, <1>6

(* A number below M is its own remainder, one below 2M is reduced once.    *)
LEMMA SmallRemainder ==
  ASSUME NEW M \in Nat \ {0}, NEW a \in 0 .. 2 * M - 1
  PROVE  a % M = IF a < M THEN a ELSE a - M
<1>0. a \in Nat
  OBVIOUS
<1>1. PICK q \in Nat : a = M * q + (a % M)
  BY <1>0, DivMod
<1>2. a % M \in 0 .. M - 1
  BY <1>0, DivMod
<1>3. q < 2
  <2>1. CASE q >= 2
    <3>1. M * (q - 1) >= M
      BY <2>1, MultipleAtLeast
    <3>2. M * q = M * (q - 1) + M
      OBVIOUS
    <3>3. QED
      BY <1>1, <1>2, <3>1, <3>2
  <2>2. QED
    BY <2>1
<1>4. CASE q = 0
  BY <1>1, <1>2, <1>4
<1>5. CASE q = 1
  BY <1>1, <1>2, <1>5
<1>6. QED
  BY <1>3, <1>4, <1>5

(* A multiple of M has remainder zero.                                     *)
LEMMA MultipleRemainder ==
  ASSUME NEW M \in Nat \ {0}, NEW d \in Nat
  PROVE  (M * d) % M = 0
<1>1. M * d \in Nat
  OBVIOUS
<1>2. PICK p \in Nat : M * d = M * p + ((M * d) % M)
  BY <1>1, DivMod
<1> DEFINE r == (M * d) % M
<1>3. r \in 0 .. M - 1
  BY <1>1, DivMod
<1>4. M * (d - p) = r
  <2>1. M * d = M * p + r
    BY <1>2
  <2>2. HIDE DEF r
  <2>3. QED
    BY <1>3, <2>1
<1>5. HIDE DEF r
<1>6. ~(d - p >= 1)
  <2>1. SUFFICES ASSUME d - p >= 1 PROVE FALSE
    OBVIOUS
  <2>2. M * (d - p) >= M
    BY <2>1, MultipleAtLeast
  <2>3. QED
    BY <1>3, <1>4, <2>2
<1>7. ~(p - d >= 1)
  <2>1. SUFFICES ASSUME p - d >= 1 PROVE FALSE
    OBVIOUS
  <2>2. M * (p - d) >= M
    BY <2>1, MultipleAtLeast
  <2>3. M * (p - d) = -r
    BY <1>3, <1>4
  <2>4. QED
    BY <1>3, <2>2, <2>3
<1>8. r = 0
  BY <1>3, <1>4, <1>6, <1>7
<1>9. QED
  BY <1>8 DEF r

(* Incrementing a number increments its remainder, modulo M.               *)
LEMMA SuccRemainder ==
  ASSUME NEW M \in Nat \ {0}, NEW a \in Nat
  PROVE  (a + 1) % M = ((a % M) + 1) % M
<1>1. PICK q \in Nat : a = M * q + (a % M)
  BY DivMod
<1> DEFINE r == a % M
<1>2. r \in 0 .. M - 1
  BY DivMod
<1>3. a = M * q + r
  BY <1>1
<1> HIDE DEF r
<1>4. r + 1 \in 0 .. 2 * M - 1 /\ a + 1 \in Nat
  BY <1>2
<1>5. CASE r + 1 = M
  <2>1. a + 1 = M * (q + 1)
    BY <1>2, <1>3, <1>5
  <2>2. (a + 1) % M = 0
    <3>1. q + 1 \in Nat
      OBVIOUS
    <3>2. (M * (q + 1)) % M = 0
      BY <3>1, MultipleRemainder
    <3>3. QED
      BY <2>1, <3>2
  <2>3. (r + 1) % M = 0
    BY <1>4, <1>5, SmallRemainder
  <2>4. QED
    BY <2>2, <2>3 DEF r
<1>6. CASE r + 1 < M
  <2>1. (r + 1) % M = r + 1
    BY <1>4, <1>6, SmallRemainder
  <2>2. PICK p \in Nat : a + 1 = M * p + ((a + 1) % M)
    BY <1>4, DivMod
  <2> DEFINE s == (a + 1) % M
  <2>3. s \in 0 .. M - 1
    BY <1>4, DivMod
  <2>4. a + 1 = M * p + s
    BY <2>2
  <2> HIDE DEF s
  <2>5. M * (p - q) = r + 1 - s /\ M * (q - p) = s - (r + 1)
    BY <1>2, <1>3, <2>3, <2>4
  <2>6. ~(p - q >= 1)
    <3>1. SUFFICES ASSUME p - q >= 1 PROVE FALSE
      OBVIOUS
    <3>2. M * (p - q) >= M
      BY <3>1, MultipleAtLeast
    <3>3. QED
      BY <1>2, <1>6, <2>3, <2>5, <3>2
  <2>7. ~(q - p >= 1)
    <3>1. SUFFICES ASSUME q - p >= 1 PROVE FALSE
      OBVIOUS
    <3>2. M * (q - p) >= M
      BY <3>1, MultipleAtLeast
    <3>3. QED
      BY <1>2, <2>3, <2>5, <3>2
  <2>8. s = r + 1
    BY <1>2, <2>3, <2>5, <2>6, <2>7
  <2>9. QED
    BY <2>1, <2>8 DEF r, s
<1>7. QED
  BY <1>2, <1>5, <1>6

-----------------------------------------------------------------------------
(* Fields in range, and nothing held back exactly while the state is Good. *)
WellFormed(r, Msg) == IsResequencer(r, Msg) /\ (r.state = Good <=> DOMAIN r.buffer = {})

-----------------------------------------------------------------------------
(* WrapAdd() and WrapSub() stay in range.                                  *)
LEMMA WrapType ==
  ASSUME NEW a \in SeqNo, NEW b \in SeqNo
  PROVE  WrapAdd(a, b) \in SeqNo /\ WrapSub(a, b) \in SeqNo
<1>1. a + b \in Nat /\ a + SeqMod - b \in Nat
  BY SeqModAssumption DEF SeqNo
<1> QED
  BY <1>1, SeqModAssumption, DivMod DEF SeqNo, WrapAdd, WrapSub

(* A key gives back the sequence number it was computed from.              *)
LEMMA KeyInverse ==
  ASSUME NEW s \in SeqNo, NEW o \in SeqNo
  PROVE  WrapAdd(WrapSub(s, o), o) = s
<1>0. SeqMod \in Nat \ {0} /\ s \in 0 .. SeqMod - 1 /\ o \in 0 .. SeqMod - 1
  BY SeqModAssumption DEF SeqNo
<1> DEFINE a == s + SeqMod - o
<1> DEFINE d == a % SeqMod
<1> DEFINE b == d + o
<1>1. a \in 0 .. 2 * SeqMod - 1
  BY <1>0
<1>2. d = IF a < SeqMod THEN a ELSE a - SeqMod
  <2> HIDE DEF a
  <2> QED
    BY <1>0, <1>1, SmallRemainder
<1>3. d \in Int /\ b = IF s < o THEN s + SeqMod ELSE s
  <2> HIDE DEF d
  <2> QED
    BY <1>0, <1>2
<1>4. b \in 0 .. 2 * SeqMod - 1
  <2> HIDE DEF b
  <2> QED
    BY <1>0, <1>3
<1>5. b % SeqMod = IF b < SeqMod THEN b ELSE b - SeqMod
  <2> HIDE DEF b
  <2> QED
    BY <1>0, <1>4, SmallRemainder
<1>6. b % SeqMod = s
  <2> HIDE DEF b
  <2> QED
    BY <1>0, <1>3, <1>5
<1> QED
  BY <1>6 DEF WrapAdd, WrapSub

(* Two keys for one sequence number are the same key.                      *)
LEMMA KeyInjective ==
  ASSUME NEW j \in SeqNo, NEW k \in SeqNo, NEW o \in SeqNo,
         WrapAdd(j, o) = WrapAdd(k, o)
  PROVE  j = k
<1>1. j + o \in Nat /\ k + o \in Nat /\ j \in Int /\ k \in Int /\ o \in Int
      /\ j + o < k + o + SeqMod /\ k + o < j + o + SeqMod
  BY SeqModAssumption DEF SeqNo
<1>2. (j + o) % SeqMod = (k + o) % SeqMod
  BY DEF WrapAdd
<1>3. j + o = k + o
  BY <1>1, <1>2, SeqModAssumption, SameRemainder
<1> QED
  BY <1>1, <1>3

-----------------------------------------------------------------------------
(* A new resequencer, and one that follows a birth.                        *)
LEMMA NewWellFormed ==
  ASSUME NEW Msg, NEW seq \in SeqNo
  PROVE  /\ WellFormed(NewResequencer, Msg)
         /\ WellFormed(SetNextSequence(NewResequencer, seq), Msg)
         /\ SetNextSequence(NewResequencer, seq).next_seq = seq
         /\ DOMAIN SetNextSequence(NewResequencer, seq).buffer = {}
         /\ DOMAIN NewResequencer.buffer = {}
BY SeqModAssumption
DEF WellFormed, IsResequencer, NewResequencer, SetNextSequence, NoMessages, SeqNo, Good

(* The three ways process() goes: what it keeps, and under which key.      *)
LEMMA ProcessEffect ==
  ASSUME NEW Msg, NEW r, WellFormed(r, Msg), NEW seq \in SeqNo, NEW m \in Msg
  PROVE  /\ WellFormed(Process(r, seq, m), Msg)
         /\ \/ /\ ProcessResult(r, seq) = "DuplicateMessageSequence"
               /\ Process(r, seq, m) = r
            \/ /\ ProcessResult(r, seq) = "MessageNextInSequence"
               /\ seq = r.next_seq
               /\ Process(r, seq, m).next_seq = WrapAdd(r.next_seq, 1)
               /\ Process(r, seq, m).buffer = r.buffer
               /\ Process(r, seq, m).state = r.state
            \/ /\ ProcessResult(r, seq) = "OutOfSequenceMessageInserted"
               /\ Process(r, seq, m).next_seq = r.next_seq
               /\ \A k \in DOMAIN Process(r, seq, m).buffer :
                    \/ /\ k \in DOMAIN r.buffer
                       /\ Process(r, seq, m).buffer[k] = r.buffer[k]
                       /\ Process(r, seq, m).state = r.state
                    \/ /\ Process(r, seq, m).buffer[k] = m
                       /\ WrapAdd(k, Process(r, seq, m).state) = seq
<1>1. /\ r = [buffer |-> r.buffer, next_seq |-> r.next_seq, state |-> r.state]
      /\ DOMAIN r.buffer \subseteq SeqNo /\ r.buffer \in [DOMAIN r.buffer -> Msg]
      /\ r.next_seq \in SeqNo /\ r.state \in SeqNo \cup {Good}
      /\ r.state = Good <=> DOMAIN r.buffer = {}
  BY DEF WellFormed, IsResequencer
<1>2. CASE Holds(r, seq)
  BY <1>2 DEF Process, ProcessResult
<1>3. CASE ~Holds(r, seq) /\ seq = r.next_seq
  <2>1. Process(r, seq, m) = [r EXCEPT !.next_seq = WrapAdd(@, 1)]
    BY <1>3 DEF Process
  <2>2. WrapAdd(r.next_seq, 1) \in SeqNo
    <3>1. r.next_seq + 1 \in Nat
      BY <1>1 DEF SeqNo
    <3> QED
      BY <3>1, SeqModAssumption, DivMod DEF WrapAdd, SeqNo
  <2>3. Process(r, seq, m) = [buffer |-> r.buffer, next_seq |-> WrapAdd(r.next_seq, 1),
                              state |-> r.state]
    BY <1>1, <2>1
  <2> QED
    BY <1>1, <1>3, <2>2, <2>3 DEF WellFormed, IsResequencer, ProcessResult
<1>4. CASE ~Holds(r, seq) /\ seq # r.next_seq
  <2> DEFINE o == Offset(r)
             k == WrapSub(seq, o)
  <2>1. o \in SeqNo
    BY <1>1 DEF Offset
  <2>2. k \in SeqNo /\ WrapAdd(k, o) = seq
    BY <2>1, WrapType, KeyInverse
  <2>3. Process(r, seq, m) = [buffer |-> Put(r.buffer, k, m), next_seq |-> r.next_seq,
                              state |-> o]
    BY <1>1, <1>4 DEF Process, Key
  <2>4. /\ DOMAIN Put(r.buffer, k, m) = DOMAIN r.buffer \cup {k}
        /\ Put(r.buffer, k, m)[k] = m
        /\ \A j \in DOMAIN r.buffer : j # k => Put(r.buffer, k, m)[j] = r.buffer[j]
        /\ Put(r.buffer, k, m) \in [DOMAIN r.buffer \cup {k} -> Msg]
    BY <1>1 DEF Put
  <2>5. DOMAIN r.buffer # {} => o = r.state
    BY <1>1 DEF Offset
  <2>6. o # Good
    BY <2>1, SeqModAssumption DEF SeqNo, Good
  <2>7. WellFormed(Process(r, seq, m), Msg)
    <3> HIDE DEF k, o
    <3> QED
      BY <1>1, <2>1, <2>2, <2>3, <2>4, <2>6 DEF WellFormed, IsResequencer
  <2>8. ProcessResult(r, seq) = "OutOfSequenceMessageInserted"
    BY <1>4 DEF ProcessResult
  <2> HIDE DEF k, o
  <2> QED
    BY <2>2, <2>3, <2>4, <2>5, <2>7, <2>8
<1> QED
  BY <1>2, <1>3, <1>4

(* drain() takes the message under the expected number and leaves the rest *)
(* where it was.                                                           *)
LEMMA PopEffect ==
  ASSUME NEW Msg, NEW r, WellFormed(r, Msg), NEW k \in SeqNo, CanPop(r, k)
  PROVE  /\ WellFormed(Pop(r, k), Msg)
         /\ k \in DOMAIN r.buffer /\ r.buffer[k] \in Msg
         /\ WrapAdd(k, r.state) = r.next_seq
         /\ Pop(r, k).next_seq = WrapAdd(r.next_seq, 1)
         /\ \A j \in DOMAIN Pop(r, k).buffer :
              /\ j \in DOMAIN r.buffer /\ Pop(r, k).buffer[j] = r.buffer[j]
              /\ Pop(r, k).state = r.state
<1>1. /\ DOMAIN r.buffer \subseteq SeqNo /\ r.buffer \in [DOMAIN r.buffer -> Msg]
      /\ r.next_seq \in SeqNo /\ r.state \in SeqNo \cup {Good}
      /\ r.state = Good <=> DOMAIN r.buffer = {}
  BY DEF WellFormed, IsResequencer
<1>2. k \in DOMAIN r.buffer /\ WrapAdd(k, r.state) = r.next_seq
  BY DEF CanPop, IsFirst
<1>3. WrapAdd(r.next_seq, 1) \in SeqNo
  <2>1. r.next_seq + 1 \in Nat
    BY <1>1 DEF SeqNo
  <2> QED
    BY <2>1, SeqModAssumption, DivMod DEF WrapAdd, SeqNo
<1>4. /\ DOMAIN Drop(r.buffer, k) = DOMAIN r.buffer \ {k}
      /\ \A j \in DOMAIN r.buffer \ {k} : Drop(r.buffer, k)[j] = r.buffer[j]
      /\ Drop(r.buffer, k) \in [DOMAIN r.buffer \ {k} -> Msg]
  BY <1>1 DEF Drop
<1>5. DOMAIN r.buffer = {k} <=> DOMAIN r.buffer \ {k} = {}
  BY <1>2
<1>6. WellFormed(Pop(r, k), Msg)
  BY <1>1, <1>2, <1>3, <1>4, <1>5 DEF WellFormed, IsResequencer, Pop
<1> QED
  BY <1>1, <1>2, <1>4, <1>6 DEF Pop
=============================================================================
