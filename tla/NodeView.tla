------------------------------ MODULE NodeView -------------------------------
(***************************************************************************)
(* What a host application promises about the edge node it follows: births *)
(* are recorded in the order the edge node published them; only while the  *)
(* node is Birthed are messages applied, none of them older than the birth *)
(* recorded and, when messages are resequenced, one after the other from   *)
(* that birth on; and a node that is stale has no device that is alive.    *)
(***************************************************************************)
EXTENDS Naturals

CONSTANT Device

VARIABLES ordered,   \* messages are resequenced
          life,      \* "Birthed" or "Stale"
          birth,     \* the birth recorded, counted by the edge node
          source,    \* the birth after which the last message was published
          last,      \* its place after that birth
          alive      \* devices taken for alive

vars == <<ordered, life, birth, source, last, alive>>

Init ==
    /\ ordered \in BOOLEAN /\ life = "Stale"
    /\ birth = 0 /\ source = 0 /\ last = 0 /\ alive = {}

StaleIsDead == life' = "Stale" => alive' = {}

Birth ==
    /\ life' = "Birthed"
    /\ birth' > birth /\ source' = birth' /\ last' = 0
    /\ UNCHANGED <<ordered, alive>>

Apply ==
    /\ life = "Birthed"
    /\ source' >= birth
    /\ ordered => last' = last + 1
    /\ life' \in {"Birthed", "Stale"}
    /\ alive' \subseteq Device /\ StaleIsDead
    /\ UNCHANGED <<ordered, birth>>

(* A death, a loss of connection or a request for a rebirth.               *)
GoStale ==
    /\ life' = "Stale" /\ alive' = {}
    /\ UNCHANGED <<ordered, birth, source, last>>

Next == Birth \/ Apply \/ GoStale

Spec == Init /\ [][Next]_vars
=============================================================================
