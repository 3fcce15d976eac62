----------------------------- MODULE MCIsoping -----------------------------
(* A client that asks for a rate which a server may override.              *)
EXTENDS Isoping
=============================================================================
