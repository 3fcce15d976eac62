-------------------------- MODULE MCPeripheralMon --------------------------
(* A device with a processor and a disk; temperatures and duty cycles on *)
(* scales of a few steps.                                                *)
EXTENDS PeripheralMon

SmallSoc == Params(3, 5, 1, 1, 2, 1, 7)
SmallHdd == Params(3, 5, 1, 1, 2, 1, 7)
=============================================================================
