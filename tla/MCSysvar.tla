------------------------------ MODULE MCSysvar ------------------------------
(* Sysvar with two variables, one of which may be read-only. *)
EXTENDS Sysvar, TLC

CONSTANTS x, serial, v1, v2

TwoNames == {x, serial}
TwoValues == {v1, v2}
FactoryVars == (x :> Unset) @@ (serial :> v1)
=============================================================================
