------------------------------ MODULE MCRatchet ------------------------------
(* Ratchet with three steps, the last of them a FileTouchedCondition. *)
EXTENDS Ratchet

ThreeTimeouts == <<1, 0, 1>>
=============================================================================
