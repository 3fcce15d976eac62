------------------------------ MODULE MCCycler ------------------------------
(* Cycler with three observations, two of them as good as one another, for TLC. *)
EXTENDS Cycler

Observations == {"near", "far", "other"}

PriorityOfObservation == [i \in Observations |-> IF i = "far" THEN 1 ELSE 2]
=============================================================================
