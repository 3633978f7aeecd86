--------------------------- MODULE InOrderDelivery ---------------------------
(***************************************************************************)
(* What a host application wants of the stream of one edge node: the       *)
(* messages numbered 1, 2, 3, ... after a birth reach the metric stores in *)
(* exactly that order, each of them once, however they arrive.             *)
(***************************************************************************)
EXTENDS Naturals

CONSTANT MaxMsg          \* the last message of the stream

VARIABLES arrived,       \* the messages the node has sent that have arrived
          last           \* the last message applied; 0 is the birth itself

vars == <<arrived, last>>

Init == arrived = {} /\ last = 0

(* A message arrives; it may be applied at once when its turn has come.    *)
Arrive(n) ==
    /\ n \notin arrived
    /\ arrived' = arrived \cup {n}
    /\ last' = last \/ (n = last + 1 /\ last' = n)

(* A message that arrived too early is applied when its turn comes.        *)
Apply ==
    /\ last + 1 \in arrived
    /\ last' = last + 1
    /\ UNCHANGED arrived

(* A new birth starts a new stream.                                        *)
Restart == arrived' = {} /\ last' = 0

Next == (\E n \in 1 .. MaxMsg : Arrive(n)) \/ Apply \/ Restart

Spec == Init /\ [][Next]_vars
=============================================================================
