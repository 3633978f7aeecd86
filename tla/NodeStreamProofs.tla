--------------------------- MODULE NodeStreamProofs --------------------------
(***************************************************************************)
(* Proofs about NodeStream for every modulus, window and stream length.    *)
(*                                                                         *)
(* The keys of the resequencer tell messages apart as long as no stale     *)
(* message can stay in the buffer until its sequence number comes round    *)
(* again: a message is stale only after a redelivery, and the stream of a  *)
(* birth with redeliveries stays within one round of numbers (OneRound).   *)
(***************************************************************************)
EXTENDS NodeStream, ResequencerProofs

(* The strengthening of NothingLost that is inductive: the expected number *)
(* is the one after the last applied message, every key is the number of   *)
(* its message, and what is buffered has arrived.                          *)
ExpectsNext == rs.next_seq = SeqOf(last + 1)

KeysMatch == \A k \in DOMAIN rs.buffer : SeqOf(rs.buffer[k]) = WrapAdd(k, rs.state)

BufferedArrived == \A k \in DOMAIN rs.buffer : rs.buffer[k] \in arrived

InWindow == \A n \in arrived : n <= last + Window

NoStale == dups = 0 => \A k \in DOMAIN rs.buffer : rs.buffer[k] > last

FirstRound == dups > 0 => OneRound(arrived)

IInv ==
    /\ TypeOK
    /\ GoodIffEmpty
    /\ last <= MaxMsg
    /\ ExpectsNext
    /\ KeysMatch
    /\ BufferedArrived
    /\ InWindow
    /\ NoStale
    /\ FirstRound
    /\ \A n \in Msg : n <= last => n \in arrived
    /\ \A n \in arrived : n > last => n \in Buffered

-----------------------------------------------------------------------------
(* The constants, as the provers need them.                                *)
LEMMA Constants ==
    /\ SeqMod \in Nat \ {0} /\ MaxMsg \in Nat /\ MaxDup \in Nat
    /\ Window \in Nat \ {0} /\ Window < SeqMod
BY SeqModAssumption, StreamAssumption

(* Sequence numbers are sequence numbers.                                  *)
LEMMA SeqOfType == ASSUME NEW n \in Nat PROVE SeqOf(n) \in SeqNo
BY Constants, DivMod DEF SeqOf, SeqNo

(* The number expected after n is the number of n + 1.                     *)
LEMMA NextSeqOf == ASSUME NEW n \in Nat PROVE WrapAdd(SeqOf(n), 1) = SeqOf(n + 1)
BY Constants, SuccRemainder DEF WrapAdd, SeqOf

-----------------------------------------------------------------------------
(* What the type invariant says of the parts of the state.                 *)
LEMMA Parts ==
  ASSUME TypeOK
  PROVE  /\ rs = [buffer |-> rs.buffer, next_seq |-> rs.next_seq,
                  state |-> rs.state]
         /\ rs.next_seq \in SeqNo /\ rs.state \in SeqNo \cup {Good}
         /\ \A k \in DOMAIN rs.buffer : k \in SeqNo /\ rs.buffer[k] \in Msg
         /\ arrived \subseteq Msg /\ last \in Nat
BY DEF TypeOK, IsResequencer

(* A message in the window with the expected number is the expected one.   *)
LEMMA Expected ==
  ASSUME IInv, NEW n \in Msg, n <= last + Window, n + SeqMod > last + 1,
         SeqOf(n) = rs.next_seq
  PROVE  n = last + 1
<1>1. last \in Nat /\ n \in Nat
  BY Parts, Constants DEF IInv, Msg
<1>2. last + 1 \in Nat /\ n < last + 1 + SeqMod /\ last + 1 < n + SeqMod
  BY <1>1, Constants
<1>3. n % SeqMod = (last + 1) % SeqMod
  BY DEF IInv, ExpectsNext, SeqOf
<1> QED
  BY <1>1, <1>2, <1>3, Constants, SameRemainder

(* The message buffered under the number of an unapplied one is that       *)
(* message.                                                                *)
LEMMA SameSlot ==
  ASSUME IInv, NEW k \in DOMAIN rs.buffer,
         NEW n \in Nat, n > last, n <= last + Window, dups > 0 => n <= SeqMod,
         SeqOf(rs.buffer[k]) = SeqOf(n)
  PROVE  rs.buffer[k] = n
<1> DEFINE m == rs.buffer[k]
<1>1. m \in Nat /\ m >= 1 /\ last \in Nat /\ m \in arrived
  BY Parts, Constants DEF IInv, Msg, BufferedArrived
<1>2. m <= last + Window
  BY DEF IInv, BufferedArrived, InWindow
<1>3. m < n + SeqMod /\ n < m + SeqMod
  <2>1. CASE dups = 0
    <3>1. m > last
      BY <2>1 DEF IInv, NoStale
    <3> QED
      <4> HIDE DEF m
      <4> QED
        BY <1>1, <1>2, <3>1, Constants
  <2>2. CASE dups > 0
    <3>1. m < SeqMod
      BY <1>1, <2>2 DEF IInv, FirstRound, OneRound
    <3> HIDE DEF m
    <3> QED
      BY <2>2, <3>1, <1>1, Constants
  <2>3. dups \in Nat
    BY DEF IInv, TypeOK
  <2> QED
    BY <2>1, <2>2, <2>3
<1>4. m % SeqMod = n % SeqMod
  BY DEF SeqOf
<1> QED
  <2> HIDE DEF m
  <2>1. m = n
    BY <1>1, <1>3, <1>4, Constants, SameRemainder
  <2> QED
    BY <2>1 DEF m

(* The three ways process() goes.                                          *)
LEMMA HandleCases ==
  ASSUME NEW n \in Msg, Handle(n)
  PROVE  \/ /\ Holds(rs, SeqOf(n))
            /\ rs' = rs /\ last' = last /\ pc' = pc
            /\ result' \in ProcessResults
         \/ /\ ~Holds(rs, SeqOf(n)) /\ SeqOf(n) = rs.next_seq
            /\ rs' = [rs EXCEPT !.next_seq = WrapAdd(@, 1)]
            /\ last' = n /\ pc' = "draining"
            /\ result' \in ProcessResults
         \/ /\ ~Holds(rs, SeqOf(n)) /\ SeqOf(n) # rs.next_seq
            /\ rs' = [rs EXCEPT !.state = Offset(rs),
                                !.buffer = Put(@, Key(rs, SeqOf(n)), n)]
            /\ last' = last /\ pc' = pc
            /\ result' \in ProcessResults
BY DEF Handle, Process, ProcessResult, ProcessResults

(* A message given to process() while it is still due: it was delivered    *)
(* for the first time, or the stream stays within one round.               *)
Due(n) ==
    /\ n <= last + Window /\ n + SeqMod > last + 1
    /\ dups > 0 => n < SeqMod
    /\ dups' = 0 => dups = 0 /\ n \notin arrived
    /\ dups' > 0 => OneRound(arrived \cup {n})

(* A message whose key is taken was buffered before.                       *)
LEMMA DuplicateKeeps ==
  ASSUME IInv, NEW n \in Msg, Due(n), Holds(rs, SeqOf(n)),
         rs' = rs, last' = last, pc' = pc, result' \in ProcessResults,
         arrived' = arrived \cup {n}, dups' \in Nat, births' = births
  PROVE  IInv'
<1>1. n \in Nat /\ n <= MaxMsg /\ last \in Nat
  BY Parts, Constants DEF IInv, Msg
<1>2. n > last => n \in Buffered
  <2>1. SUFFICES ASSUME n > last PROVE n \in Buffered
    OBVIOUS
  <2> DEFINE k == Key(rs, SeqOf(n))
  <2>2. k \in DOMAIN rs.buffer /\ rs.state # Good /\ k = WrapSub(SeqOf(n), rs.state)
    BY DEF Holds, Key, Offset
  <2>3. rs.state \in SeqNo
    BY <2>2, Parts DEF IInv
  <2>4. WrapAdd(k, rs.state) = SeqOf(n)
    BY <1>1, <2>2, <2>3, SeqOfType, KeyInverse
  <2>5. SeqOf(rs.buffer[k]) = SeqOf(n)
    BY <2>2, <2>4 DEF IInv, KeysMatch
  <2>6. rs.buffer[k] = n
    <3> HIDE DEF k
    <3>1. dups > 0 => n <= SeqMod
      BY <1>1, Constants DEF Due
    <3> QED
      BY <1>1, <2>1, <2>2, <2>5, <3>1, SameSlot DEF Due
  <2> QED
    BY <2>2, <2>6 DEF Buffered
<1>3. TypeOK'
  BY DEF IInv, TypeOK
<1>4. InWindow'
  BY DEF IInv, InWindow, Due
<1>5. Buffered' = Buffered
  BY DEF Buffered
<1>6. NoStale' /\ FirstRound'
  BY DEF IInv, NoStale, FirstRound, Due
<1> QED
  BY <1>2, <1>3, <1>4, <1>5, <1>6
  DEF IInv, GoodIffEmpty, ExpectsNext, KeysMatch, BufferedArrived

(* The expected message is applied, and the next one is expected.          *)
LEMMA InSequenceKeeps ==
  ASSUME IInv, NEW n \in Msg, Due(n),
         SeqOf(n) = rs.next_seq, rs' = [rs EXCEPT !.next_seq = WrapAdd(@, 1)],
         last' = n, pc' = "draining", result' \in ProcessResults,
         arrived' = arrived \cup {n}, dups' \in Nat, births' = births
  PROVE  IInv'
<1>1. n = last + 1
  BY Expected DEF Due
<1>2. n \in Nat /\ n <= MaxMsg /\ last \in Nat
  BY Parts, Constants DEF IInv, Msg
<1>3. rs' = [buffer |-> rs.buffer, next_seq |-> WrapAdd(rs.next_seq, 1),
             state |-> rs.state]
  BY Parts DEF IInv
<1>4. rs.buffer' = rs.buffer /\ rs.state' = rs.state
      /\ rs.next_seq' = WrapAdd(rs.next_seq, 1)
  BY <1>3
<1>5. ExpectsNext'
  BY <1>2, <1>4, NextSeqOf DEF ExpectsNext
<1>6. rs.next_seq' \in SeqNo
  BY <1>2, <1>5, SeqOfType DEF ExpectsNext
<1>7. TypeOK'
  BY <1>2, <1>3, <1>4, <1>6 DEF IInv, TypeOK, IsResequencer
<1>8. InWindow'
  BY <1>1, <1>2, Parts, Constants DEF IInv, InWindow, Due, Msg
<1>9. NoStale'
  <2>1. SUFFICES ASSUME dups' = 0, NEW k \in DOMAIN rs.buffer PROVE rs.buffer[k] > n
    BY <1>4 DEF NoStale
  <2>2. rs.buffer[k] \in arrived /\ rs.buffer[k] > last /\ rs.buffer[k] \in Msg
    BY <2>1, Parts DEF IInv, BufferedArrived, NoStale, Due
  <2>3. rs.buffer[k] # n
    BY <2>1, <2>2 DEF Due
  <2> QED
    BY <1>1, <1>2, <2>2, <2>3, Constants DEF Msg
<1>10. Buffered' = Buffered
  BY <1>4 DEF Buffered
<1>11. \A i \in Msg : i <= last' => i \in arrived'
  BY <1>1, <1>2, Constants DEF IInv, Msg
<1>12. \A i \in arrived' : i > last' => i \in Buffered'
  BY <1>1, <1>2, <1>10, Parts, Constants DEF IInv, Msg
<1>13. FirstRound'
  BY DEF FirstRound, Due
<1> QED
  BY <1>2, <1>4, <1>5, <1>7, <1>8, <1>9, <1>11, <1>12, <1>13
  DEF IInv, GoodIffEmpty, KeysMatch, BufferedArrived

(* Any other message is added to the buffer under a free key.              *)
LEMMA InsertKeeps ==
  ASSUME IInv, NEW n \in Msg, Due(n), ~Holds(rs, SeqOf(n)),
         rs' = [rs EXCEPT !.state = Offset(rs),
                          !.buffer = Put(@, Key(rs, SeqOf(n)), n)],
         last' = last, pc' = pc, result' \in ProcessResults,
         arrived' = arrived \cup {n}, dups' \in Nat, births' = births
  PROVE  IInv'
<1> DEFINE key == Key(rs, SeqOf(n))
<1> DEFINE o == Offset(rs)
<1> DEFINE b == rs.buffer
<1>1. n \in Nat /\ n <= MaxMsg /\ last \in Nat
  BY Parts, Constants DEF IInv, Msg
<1>2. o \in SeqNo /\ key \in SeqNo
  BY <1>1, Parts, SeqOfType, WrapType DEF IInv, Offset, Key
<1>3. WrapAdd(key, o) = SeqOf(n)
  BY <1>1, <1>2, SeqOfType, KeyInverse DEF Key
<1>4. key \notin DOMAIN b
  BY DEF Holds, IInv, GoodIffEmpty
<1>5. \A k \in DOMAIN b : rs.state = o
  BY DEF IInv, GoodIffEmpty, Offset
<1>6. rs' = [buffer |-> Put(b, key, n), next_seq |-> rs.next_seq, state |-> o]
  BY Parts DEF IInv
<1>7. /\ rs.next_seq' = rs.next_seq /\ rs.state' = o
      /\ rs.buffer' = Put(b, key, n)
  BY <1>6
<1> HIDE DEF key, o
<1>8. /\ DOMAIN rs.buffer' = DOMAIN b \cup {key}
      /\ rs.buffer'[key] = n
      /\ \A k \in DOMAIN b : rs.buffer'[k] = b[k]
      /\ rs.buffer' = [k \in DOMAIN rs.buffer' |-> rs.buffer'[k]]
  BY <1>4, <1>7 DEF Put
<1>9. \A k \in DOMAIN rs.buffer' : k \in SeqNo /\ rs.buffer'[k] \in Msg
  BY <1>2, <1>8, Parts DEF IInv
<1>10. TypeOK'
  <2>1. rs.buffer' \in [DOMAIN rs.buffer' -> Msg]
    BY <1>8, <1>9
  <2> QED
    BY <1>2, <1>6, <1>7, <1>9, <2>1, Parts DEF IInv, TypeOK, IsResequencer
<1>11. GoodIffEmpty'
  <2>1. o # Good
    BY <1>2, Constants DEF SeqNo, Good
  <2> QED
    BY <1>7, <1>8, <2>1 DEF GoodIffEmpty
<1>12. KeysMatch'
  BY <1>3, <1>5, <1>7, <1>8 DEF IInv, KeysMatch
<1>13. BufferedArrived'
  BY <1>8 DEF IInv, BufferedArrived
<1>14. InWindow'
  BY DEF IInv, InWindow, Due
<1>15. NoStale'
  BY <1>1, <1>8 DEF IInv, NoStale, Due
<1>16. Buffered' = Buffered \cup {n}
  BY <1>8 DEF Buffered
<1>17. ExpectsNext'
  BY <1>7 DEF IInv, ExpectsNext
<1>18. FirstRound'
  BY DEF FirstRound, Due
<1> QED
  BY <1>10, <1>11, <1>12, <1>13, <1>14, <1>15, <1>16, <1>17, <1>18 DEF IInv

(* The whole handler keeps the invariant.                                  *)
LEMMA HandleKeeps ==
  ASSUME IInv, NEW n \in Msg, Due(n), Handle(n), dups' \in Nat
  PROVE  IInv'
<1>1. arrived' = arrived \cup {n} /\ births' = births
  BY DEF Handle
<1>2. CASE /\ Holds(rs, SeqOf(n))
           /\ rs' = rs /\ last' = last /\ pc' = pc
           /\ result' \in ProcessResults
  BY <1>1, <1>2, DuplicateKeeps
<1>3. CASE /\ ~Holds(rs, SeqOf(n)) /\ SeqOf(n) = rs.next_seq
           /\ rs' = [rs EXCEPT !.next_seq = WrapAdd(@, 1)]
           /\ last' = n /\ pc' = "draining"
           /\ result' \in ProcessResults
  BY <1>1, <1>3, InSequenceKeeps
<1>4. CASE /\ ~Holds(rs, SeqOf(n)) /\ SeqOf(n) # rs.next_seq
           /\ rs' = [rs EXCEPT !.state = Offset(rs),
                               !.buffer = Put(@, Key(rs, SeqOf(n)), n)]
           /\ last' = last /\ pc' = pc
           /\ result' \in ProcessResults
  BY <1>1, <1>4, InsertKeeps
<1> QED
  BY <1>2, <1>3, <1>4, HandleCases

(* What drain() returns is the message after the last applied one.         *)
LEMMA DrainTakesNext ==
  ASSUME IInv, NEW k \in SeqNo, CanPop(rs, k)
  PROVE  k \in DOMAIN rs.buffer /\ rs.buffer[k] = last + 1
<1>1. k \in DOMAIN rs.buffer /\ SeqOf(rs.buffer[k]) = SeqOf(last + 1)
  BY DEF CanPop, IsFirst, IInv, KeysMatch, ExpectsNext
<1>2. last \in Nat /\ last <= MaxMsg
  BY Parts DEF IInv
<1>3. last + 1 \in Nat /\ last + 1 > last /\ last + 1 <= last + Window
  BY <1>2, Constants
<1>4. dups > 0 => last + 1 <= SeqMod
  <2>1. CASE last = 0
    BY <2>1, Constants
  <2>2. CASE last > 0
    <3>1. last \in Msg /\ last <= last
      BY <1>2, <2>2, Constants DEF Msg
    <3>2. last \in arrived
      BY <3>1 DEF IInv
    <3> QED
      BY <1>2, <3>2, Constants DEF IInv, FirstRound, OneRound
  <2> QED
    BY <1>2, <2>1, <2>2
<1> QED
  BY <1>1, <1>3, <1>4, SameSlot

(* Applying it keeps the invariant.                                        *)
LEMMA DrainKeeps ==
  ASSUME IInv, NEW k \in SeqNo, CanPop(rs, k),
         last' = rs.buffer[k], rs' = Pop(rs, k),
         UNCHANGED <<pc, result, arrived, dups, births>>
  PROVE  IInv'
<1>1. k \in DOMAIN rs.buffer /\ rs.buffer[k] = last + 1 /\ last' = last + 1
  BY DrainTakesNext
<1>2. last \in Nat /\ last + 1 \in Msg /\ last + 1 \in arrived
  BY <1>1, Parts DEF IInv, BufferedArrived
<1>3. /\ rs' = [buffer |-> rs.buffer', next_seq |-> rs.next_seq',
                state |-> rs.state']
      /\ rs.buffer' = Drop(rs.buffer, k)
      /\ rs.next_seq' = WrapAdd(rs.next_seq, 1)
      /\ rs.state' = IF DOMAIN rs.buffer = {k} THEN Good ELSE rs.state
  BY DEF Pop
<1>4. /\ DOMAIN rs.buffer' = DOMAIN rs.buffer \ {k}
      /\ rs.buffer' = [x \in DOMAIN rs.buffer' |-> rs.buffer'[x]]
      /\ \A x \in DOMAIN rs.buffer' : rs.buffer'[x] = rs.buffer[x]
  BY <1>3 DEF Drop
<1>5. ExpectsNext'
  BY <1>1, <1>2, <1>3, NextSeqOf DEF IInv, ExpectsNext
<1>6. rs.next_seq' \in SeqNo
  BY <1>1, <1>2, <1>5, SeqOfType, Constants DEF ExpectsNext
<1>7. TypeOK'
  <2>1. rs.buffer' \in [DOMAIN rs.buffer' -> Msg] /\ DOMAIN rs.buffer' \subseteq SeqNo
    BY <1>4, Parts DEF IInv
  <2>2. rs.state' \in SeqNo \cup {Good}
    BY <1>3, Parts DEF IInv
  <2> QED
    BY <1>1, <1>2, <1>3, <1>6, <2>1, <2>2 DEF IInv, TypeOK, IsResequencer
<1>8. GoodIffEmpty'
  BY <1>1, <1>3, <1>4 DEF IInv, GoodIffEmpty
<1>9. KeysMatch'
  BY <1>3, <1>4 DEF IInv, KeysMatch
<1>10. BufferedArrived'
  BY <1>4 DEF IInv, BufferedArrived
<1>11. InWindow'
  BY <1>1, <1>2, Parts, Constants DEF IInv, InWindow, Msg
<1>12. \A x \in DOMAIN rs.buffer' : rs.buffer'[x] # last + 1
  <2>1. SUFFICES ASSUME NEW x \in DOMAIN rs.buffer', rs.buffer'[x] = last + 1
                 PROVE  FALSE
    OBVIOUS
  <2>2. x \in DOMAIN rs.buffer /\ x # k /\ rs.buffer[x] = last + 1
    BY <1>4, <2>1
  <2>3. x \in SeqNo /\ rs.state \in SeqNo
    BY <2>2, Parts DEF IInv, GoodIffEmpty
  <2>4. WrapAdd(x, rs.state) = WrapAdd(k, rs.state)
    BY <1>1, <2>2 DEF IInv, KeysMatch
  <2> QED
    BY <2>2, <2>3, <2>4, KeyInjective
<1>13. NoStale'
  <2>1. SUFFICES ASSUME dups = 0, NEW x \in DOMAIN rs.buffer'
                 PROVE  rs.buffer'[x] > last + 1
    BY <1>1 DEF NoStale
  <2>2. x \in DOMAIN rs.buffer /\ rs.buffer'[x] = rs.buffer[x]
    BY <1>4, <2>1
  <2>3. rs.buffer[x] > last /\ rs.buffer[x] # last + 1 /\ rs.buffer[x] \in Msg
    BY <1>12, <2>1, <2>2, Parts DEF IInv, NoStale
  <2> QED
    BY <1>2, <2>2, <2>3, Constants DEF Msg
<1>14. \A i \in Msg : i <= last' => i \in arrived'
  BY <1>1, <1>2, Constants DEF IInv, Msg
<1>15. \A i \in arrived' : i > last' => i \in Buffered'
  <2>1. SUFFICES ASSUME NEW i \in arrived, i > last + 1 PROVE i \in Buffered'
    BY <1>1
  <2>2. i \in Msg /\ i > last /\ i # last + 1
    BY <1>2, <2>1, Parts, Constants DEF IInv, Msg
  <2>3. PICK x \in DOMAIN rs.buffer : rs.buffer[x] = i
    BY <2>1, <2>2 DEF IInv, Buffered
  <2>4. x \in DOMAIN rs.buffer' /\ rs.buffer'[x] = i
    BY <1>1, <1>4, <2>2, <2>3
  <2> QED
    BY <2>4 DEF Buffered
<1>16. last' <= MaxMsg
  BY <1>1, <1>2 DEF Msg
<1>17. FirstRound'
  BY DEF IInv, FirstRound
<1> QED
  BY <1>5, <1>7, <1>8, <1>9, <1>10, <1>11, <1>13, <1>14, <1>15, <1>16, <1>17 DEF IInv

(* A birth starts over with an empty buffer.                               *)
LEMMA FreshResequencer ==
  ASSUME NEW r, r = SetNextSequence(NewResequencer, 1 % SeqMod)
  PROVE  /\ r.buffer = NoMessages /\ r.next_seq = SeqOf(0 + 1) /\ r.state = Good
         /\ DOMAIN r.buffer = {}
         /\ IsResequencer(r, Msg)
<1>1. r = [buffer |-> NoMessages, next_seq |-> SeqOf(0 + 1), state |-> Good]
  BY DEF SetNextSequence, NewResequencer, SeqOf
<1>2. /\ r.buffer = NoMessages /\ r.next_seq = SeqOf(0 + 1) /\ r.state = Good
      /\ r = [buffer |-> r.buffer, next_seq |-> r.next_seq, state |-> r.state]
  BY <1>1
<1>3. DOMAIN NoMessages = {} /\ NoMessages \in [DOMAIN NoMessages -> Msg]
  BY DEF NoMessages
<1>4. SeqOf(0 + 1) \in SeqNo
  BY SeqOfType
<1> QED
  BY <1>2, <1>3, <1>4 DEF IsResequencer

-----------------------------------------------------------------------------
(* The actor starts in the invariant.                                      *)
LEMMA InitInv == Init => IInv
<1>1. SUFFICES ASSUME Init PROVE IInv
  OBVIOUS
<1>2. /\ rs.next_seq = SeqOf(0 + 1) /\ rs.state = Good /\ DOMAIN rs.buffer = {}
      /\ IsResequencer(rs, Msg)
  BY <1>1, FreshResequencer DEF Init
<1> QED
  BY <1>1, <1>2, Constants
  DEF Init, IInv, TypeOK, GoodIffEmpty, ExpectsNext, KeysMatch, BufferedArrived,
      InWindow, NoStale, FirstRound, Msg

(* A new birth keeps it.                                                   *)
LEMMA BirthKeeps == ASSUME IInv, NewBirth PROVE IInv'
<1>1. /\ rs.next_seq' = SeqOf(0 + 1) /\ rs.state' = Good /\ DOMAIN rs.buffer' = {}
      /\ IsResequencer(rs', Msg)
  BY FreshResequencer DEF NewBirth, AfterBirth, Reset
<1>2. /\ last' = 0 /\ arrived' = {} /\ dups' = 0 /\ births' \in Nat
      /\ pc' = pc /\ result' = result
  BY DEF NewBirth, IInv, TypeOK
<1> QED
  BY <1>1, <1>2, Constants
  DEF IInv, TypeOK, GoodIffEmpty, ExpectsNext, KeysMatch, BufferedArrived,
      InWindow, NoStale, FirstRound, Msg

(* So does a step that only moves the control.                             *)
LEMMA StutterKeeps ==
  ASSUME IInv, UNCHANGED <<rs, arrived, last, dups, births, result>>,
         pc' \in {"ready", "draining"}
  PROVE  IInv'
BY DEF IInv, TypeOK, GoodIffEmpty, ExpectsNext, KeysMatch, BufferedArrived,
       InWindow, NoStale, FirstRound, Buffered

(* Both deliveries hand a message to process() that is due.                *)
LEMMA ReceiveIsDue ==
  ASSUME IInv, NEW n \in Msg, Receive(n)
  PROVE  Due(n) /\ Handle(n) /\ dups' \in Nat
<1>1. /\ n \notin arrived /\ n <= last + Window /\ Handle(n) /\ dups' = dups
      /\ dups > 0 => n < SeqMod
  BY DEF Receive, OneRound
<1>2. n \in Nat /\ last \in Nat /\ n > last /\ dups \in Nat
  BY <1>1, Parts, Constants DEF IInv, TypeOK, Msg
<1>3. dups > 0 => OneRound(arrived \cup {n})
  BY <1>1 DEF IInv, FirstRound, OneRound
<1> QED
  BY <1>1, <1>2, <1>3, Constants DEF Due

(* Likewise a message delivered again.                                     *)
LEMMA RedeliverIsDue ==
  ASSUME IInv, NEW n \in Msg, Redeliver(n)
  PROVE  Due(n) /\ Handle(n) /\ dups' \in Nat
<1>1. dups \in Nat /\ dups' = dups + 1 /\ n \in arrived
  BY DEF Redeliver, IInv, TypeOK
<1>2. OneRound(arrived \cup {n}) /\ n < SeqMod
  BY DEF Redeliver, OneRound
<1> QED
  BY <1>1, <1>2, Constants DEF Redeliver, Due, IInv, InWindow

(* Every step keeps the invariant.                                         *)
LEMMA NextKeeps == ASSUME IInv, [Next]_vars PROVE IInv'
<1>1. ASSUME NEW n \in Msg, Receive(n) PROVE IInv'
  BY <1>1, ReceiveIsDue, HandleKeeps
<1>2. ASSUME NEW n \in Msg, Redeliver(n) PROVE IInv'
  BY <1>2, RedeliverIsDue, HandleKeeps
<1>3. CASE DrainMessage
  BY <1>3, DrainKeeps DEF DrainMessage
<1>4. CASE DrainEnd
  BY <1>4, StutterKeeps DEF DrainEnd
<1>5. CASE NewBirth
  BY <1>5, BirthKeeps
<1>6. CASE UNCHANGED vars
  BY <1>6, StutterKeeps DEF vars, IInv, TypeOK
<1> QED
  BY <1>1, <1>2, <1>3, <1>4, <1>5, <1>6 DEF Next

(* The inductive invariant holds in every behaviour of the actor.          *)
THEOREM Invariance == Spec => []IInv
<1>1. IInv /\ [Next]_vars => IInv'
  BY NextKeeps
<1> QED
  BY <1>1, InitInv, PTL DEF Spec

(* Type correctness of the actor and its resequencer.                      *)
THEOREM TypeCorrect == Spec => []TypeOK
<1>1. IInv => TypeOK
  BY DEF IInv
<1> QED
  BY <1>1, Invariance, PTL

(* drain() never finds messages in a Good resequencer: its assertion holds *)
(* for every stream.                                                       *)
THEOREM AssertionHolds == Spec => []GoodIffEmpty
<1>1. IInv => GoodIffEmpty
  BY DEF IInv
<1> QED
  BY <1>1, Invariance, PTL

(* No message is forgotten, invented or kept twice, whatever the number of *)
(* messages, the modulus and the reordering.                               *)
THEOREM NeverLost == Spec => []NothingLost
<1>1. ASSUME IInv PROVE NothingLost
  <2>1. ASSUME NEW j \in DOMAIN rs.buffer, NEW k \in DOMAIN rs.buffer,
               rs.buffer[j] = rs.buffer[k]
        PROVE  j = k
    <3>1. j \in SeqNo /\ k \in SeqNo /\ rs.state \in SeqNo
      BY <1>1, Parts DEF IInv, GoodIffEmpty
    <3>2. WrapAdd(j, rs.state) = WrapAdd(k, rs.state)
      BY <1>1, <2>1 DEF IInv, KeysMatch
    <3> QED
      BY <3>1, <3>2, KeyInjective
  <2> QED
    BY <1>1, <2>1 DEF IInv, NothingLost
<1> QED
  BY <1>1, Invariance, PTL

-----------------------------------------------------------------------------
(* A step of the handler is an arrival, an application, or nothing new.    *)
LEMMA HandleImplements ==
  ASSUME IInv, NEW n \in Msg, Due(n), Handle(n)
  PROVE  [InOrder!Next]_(InOrder!vars)
<1>1. arrived' = arrived \cup {n} /\ (last' = last \/ (last' = n /\ SeqOf(n) = rs.next_seq))
  BY HandleCases DEF Handle
<1>2. last' = last \/ (last' = n /\ n = last + 1)
  BY <1>1, Expected DEF Due
<1>3. CASE n \in arrived
  BY <1>1, <1>2, <1>3 DEF InOrder!Next, InOrder!Apply, InOrder!vars
<1>4. CASE n \notin arrived
  <2>1. InOrder!Arrive(n)
    BY <1>1, <1>2, <1>4 DEF InOrder!Arrive
  <2> QED
    BY <2>1 DEF InOrder!Next, Msg
<1> QED
  BY <1>3, <1>4

(* Every step is one of in-order delivery.                                 *)
LEMMA NextImplements ==
  ASSUME IInv, [Next]_vars
  PROVE  [InOrder!Next]_(InOrder!vars)
<1>1. ASSUME NEW n \in Msg, Receive(n) PROVE [InOrder!Next]_(InOrder!vars)
  BY <1>1, ReceiveIsDue, HandleImplements
<1>2. ASSUME NEW n \in Msg, Redeliver(n) PROVE [InOrder!Next]_(InOrder!vars)
  BY <1>2, RedeliverIsDue, HandleImplements
<1>3. CASE DrainMessage
  <2>1. PICK k \in SeqNo : CanPop(rs, k) /\ last' = rs.buffer[k]
    BY <1>3 DEF DrainMessage
  <2>2. k \in DOMAIN rs.buffer /\ rs.buffer[k] = last + 1
    BY <2>1, DrainTakesNext
  <2>3. InOrder!Apply
    BY <1>3, <2>1, <2>2 DEF DrainMessage, InOrder!Apply, IInv, BufferedArrived
  <2> QED
    BY <2>3 DEF InOrder!Next
<1>4. CASE DrainEnd
  BY <1>4 DEF DrainEnd, InOrder!vars
<1>5. CASE NewBirth
  BY <1>5 DEF NewBirth, InOrder!Next, InOrder!Restart
<1>6. CASE UNCHANGED vars
  BY <1>6 DEF vars, InOrder!vars
<1> QED
  BY <1>1, <1>2, <1>3, <1>4, <1>5, <1>6 DEF Next

(* The actor with its resequencer implements in-order delivery: whatever   *)
(* overtook it, message n is applied right after message n - 1 and once.   *)
THEOREM Refinement == Spec => InOrderSafe
<1>1. Init => InOrder!Init
  BY DEF Init, InOrder!Init
<1>2. IInv /\ [Next]_vars => [InOrder!Next]_(InOrder!vars)
  BY NextImplements
<1> QED
  BY <1>1, <1>2, Invariance, PTL DEF Spec, InOrderSafe, InOrder!Spec

-----------------------------------------------------------------------------
(* The handler's states in which the expected message is overlooked only   *)
(* behind a wrapped key.                                                   *)
DInv == IInv /\ OnlyWrapHides

(* When the drain loop ends with the expected message in the buffer, a     *)
(* message with a smaller key is in its way, and it is a later one.        *)
LEMMA DrainEndHides ==
  ASSUME IInv, dups = 0, DrainResult(rs) # "Message", last + 1 \in Buffered
  PROVE  Hidden
<1>1. PICK k \in DOMAIN rs.buffer : rs.buffer[k] = last + 1
  BY DEF Buffered
<1>2. rs.state # Good /\ rs.state \in SeqNo /\ k \in SeqNo /\ last \in Nat
  BY <1>1, Parts DEF IInv, GoodIffEmpty
<1>3. WrapAdd(k, rs.state) = rs.next_seq
  BY <1>1 DEF IInv, KeysMatch, ExpectsNext
<1>4. ~CanPop(rs, k)
  BY <1>1, <1>2 DEF DrainResult
<1>5. PICK j \in DOMAIN rs.buffer : ~(k <= j)
  BY <1>1, <1>3, <1>4 DEF CanPop, IsFirst
<1>6. j \in SeqNo /\ rs.buffer[j] \in Msg /\ rs.buffer[j] > last
  BY <1>5, Parts DEF IInv, NoStale
<1>7. j < k
  BY <1>2, <1>5, <1>6, Constants DEF SeqNo
<1>8. rs.buffer[j] # last + 1
  <2>1. SUFFICES ASSUME rs.buffer[j] = last + 1 PROVE FALSE
    OBVIOUS
  <2>2. WrapAdd(j, rs.state) = WrapAdd(k, rs.state)
    BY <1>1, <2>1 DEF IInv, KeysMatch
  <2>3. j = k
    BY <1>2, <1>6, <2>2, KeyInjective
  <2> QED
    BY <1>2, <1>7, <2>3, Constants DEF SeqNo
<1>9. rs.buffer[j] > last + 1
  BY <1>2, <1>6, <1>8, Constants DEF Msg
<1> QED
  BY <1>1, <1>7, <1>9 DEF Hidden

(* A first delivery brings the expected message into the buffer of an idle *)
(* actor no more than it takes away what hides it.                         *)
LEMMA ReceiveHides ==
  ASSUME DInv, NEW n \in Msg, Receive(n)
  PROVE  OnlyWrapHides'
<1>1. Handle(n) /\ Due(n) /\ pc = "ready" /\ dups' = dups
  BY ReceiveIsDue DEF DInv, Receive, Handle
<1>2. CASE rs' = rs /\ last' = last /\ pc' = pc
  BY <1>1, <1>2 DEF DInv, OnlyWrapHides, Hidden, Buffered
<1>3. CASE pc' = "draining"
  BY <1>3 DEF OnlyWrapHides
<1>4. CASE /\ ~Holds(rs, SeqOf(n)) /\ SeqOf(n) # rs.next_seq
           /\ rs' = [rs EXCEPT !.state = Offset(rs),
                               !.buffer = Put(@, Key(rs, SeqOf(n)), n)]
           /\ last' = last /\ pc' = pc
  <2>1. n # last + 1
    BY <1>4 DEF DInv, IInv, ExpectsNext
  <2>2. rs.buffer' = Put(rs.buffer, Key(rs, SeqOf(n)), n)
    BY <1>4, Parts DEF DInv, IInv
  <2>3. Key(rs, SeqOf(n)) \notin DOMAIN rs.buffer
    BY <1>4 DEF Holds, DInv, IInv, GoodIffEmpty
  <2>4. Buffered' = Buffered \cup {n}
    BY <2>2, <2>3 DEF Buffered, Put
  <2>5. Hidden => Hidden'
    BY <1>4, <2>2, <2>3 DEF Hidden, Put
  <2> QED
    BY <1>1, <1>4, <2>1, <2>4, <2>5 DEF DInv, OnlyWrapHides
<1> QED
  BY <1>1, <1>2, <1>3, <1>4, HandleCases

(* Every step keeps it so.                                                 *)
LEMMA NextHides ==
  ASSUME DInv, [Next]_vars
  PROVE  DInv'
<1>1. IInv'
  BY NextKeeps DEF DInv
<1> SUFFICES OnlyWrapHides'
  BY <1>1 DEF DInv
<1>2. ASSUME NEW n \in Msg, Receive(n) PROVE OnlyWrapHides'
  BY <1>2, ReceiveHides
<1>3. ASSUME NEW n \in Msg, Redeliver(n) PROVE OnlyWrapHides'
  <2>1. dups \in Nat /\ dups' = dups + 1
    BY <1>3 DEF Redeliver, DInv, IInv, TypeOK
  <2>2. dups' # 0
    BY <2>1
  <2> QED
    BY <2>2 DEF OnlyWrapHides
<1>4. CASE DrainMessage
  BY <1>4 DEF DrainMessage, OnlyWrapHides
<1>5. CASE DrainEnd
  <2>1. rs' = rs /\ last' = last /\ dups' = dups /\ DrainResult(rs) # "Message"
    BY <1>5 DEF DrainEnd
  <2>2. dups = 0 /\ last + 1 \in Buffered => Hidden
    BY <2>1, DrainEndHides DEF DInv
  <2> QED
    BY <2>1, <2>2 DEF OnlyWrapHides, Hidden, Buffered
<1>6. CASE NewBirth
  BY <1>6, FreshResequencer DEF NewBirth, AfterBirth, Reset, OnlyWrapHides, Buffered
<1>7. CASE UNCHANGED vars
  BY <1>7 DEF vars, DInv, OnlyWrapHides, Hidden, Buffered
<1> QED
  BY <1>2, <1>3, <1>4, <1>5, <1>6, <1>7 DEF Next

(* drain() overlooks the expected message only behind a later one whose    *)
(* key has wrapped, however long the stream of a birth and whatever the    *)
(* modulus; the run NodeStreamKeyWrap shows that there it does.            *)
THEOREM DrainFinds == Spec => []OnlyWrapHides
<1>1. Init => DInv
  <2>1. SUFFICES ASSUME Init PROVE OnlyWrapHides
    BY InitInv DEF DInv
  <2> QED
    BY <2>1, FreshResequencer DEF Init, OnlyWrapHides, Buffered
<1>2. DInv /\ [Next]_vars => DInv'
  BY NextHides
<1>3. DInv => OnlyWrapHides
  BY DEF DInv
<1> QED
  BY <1>1, <1>2, <1>3, PTL DEF Spec
=============================================================================
