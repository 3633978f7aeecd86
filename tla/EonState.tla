------------------------------ MODULE EonState -------------------------------
(***************************************************************************)
(* EoNState of srad-eon/src/node.rs: the state the edge node's task, its   *)
(* event loop, its devices and its publishing threads share behind one     *)
(* mutex (bdseq and running are atomics beside it).  The state is a        *)
(* record; each method is an operator that returns the record after the    *)
(* call, or the value it reads.  seq and bdseq are u8 in the code.         *)
(***************************************************************************)
EXTENDS Integers

CONSTANTS SeqMod,        \* number of sequence numbers (2^8)
          BdMod,         \* number of bdSeq values (2^8)
          PrimaryHost    \* whether a primary host is configured

ASSUME EonStateAssumption ==
    /\ SeqMod \in Nat \ {0}
    /\ BdMod \in Nat \ {0}
    /\ PrimaryHost \in BOOLEAN

SeqNo == 0 .. SeqMod - 1
BdSeq == 0 .. BdMod - 1

(* hostTs is last_primary_host_timestamp; 0, below every timestamp, stands *)
(* for None.                                                               *)
EoNState == [running : BOOLEAN, bdseq : BdSeq, seq : SeqNo, online : BOOLEAN,
             birthed : BOOLEAN, host : BOOLEAN, hostTs : Nat]

NewEoNState ==
    [running |-> FALSE, bdseq |-> 0, seq |-> 0, online |-> FALSE,
     birthed |-> FALSE, host |-> FALSE, hostTs |-> 0]

-----------------------------------------------------------------------------
(* get_next_seq() fails on a node that is offline or not birthed.          *)
HasNextSeq(s) == s.online /\ s.birthed

(* Mutant: the sequence number does not wrap.                              *)
GetNextSeqNoWrap(s) == [s EXCEPT !.seq = @ + 1]

GetNextSeq(s) == [s EXCEPT !.seq = (@ + 1) % SeqMod]

SetOnline(s, b) == [s EXCEPT !.online = b]

ReadyToBirth(s) == ~PrimaryHost \/ s.host
SetPrimaryHostOnline(s, b) == [s EXCEPT !.host = b]

(* Mutant: what an earlier connection said of the host is kept.            *)
KeepPrimaryHost(s) == s

ResetPrimaryHost(s) == SetPrimaryHostOnline(s, FALSE)

(* Mutant: the host's death, which repeats the timestamp of its birth, is  *)
(* refused.                                                                *)
StrictlyNewer(s, ts) == ts > s.hostTs

(* update_primary_host_timestamp() refuses an older timestamp.             *)
NotOlder(s, ts) == ts >= s.hostTs
UpdatePrimaryHostTimestamp(s, ts) == [s EXCEPT !.hostTs = ts]

SetDead(s) == [s EXCEPT !.birthed = FALSE]
StartBirth(s) == [s EXCEPT !.birthed = FALSE, !.seq = 0]
BirthCompleted(s) == [s EXCEPT !.birthed = TRUE]

(* Mutant: bdSeq does not wrap.                                            *)
NextBdSeqNoWrap(s) == [s EXCEPT !.bdseq = @ + 1]

(* bdseq.fetch_add(1) of Node::death().                                    *)
NextBdSeq(s) == [s EXCEPT !.bdseq = (@ + 1) % BdMod]
=============================================================================
