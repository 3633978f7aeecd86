----------------------------- MODULE MCEonNode -------------------------------
(***************************************************************************)
(* EonNode for model checking: the device tasks are given names, and the   *)
(* faults and interventions of one behaviour are bounded together.         *)
(***************************************************************************)
EXTENDS EonNode

CONSTANT MaxFaults       \* bound: kicks, refusals and unregistrations     

(* Every device task is a device of its own.                               *)
MCOwnNames == [d \in Devices |-> d]

(* All tasks are registrations of the same device, one after the other.    *)
MCSharedName == [d \in Devices |-> "device"]

Faults == env.kicks + env.fails + app.unregistered + app.fails

MCFewFaults == Faults' <= MaxFaults
=============================================================================
