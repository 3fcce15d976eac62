------------------------------ MODULE MCLogos ------------------------------
(* Buckets of a few bytes: 1 is the burst, 2 the daily and 3 the warning   *)
(* bucket.                                                                 *)
EXTENDS Logos

Buckets == 1..3
Limits == <<6, 7, 6>>
Rates == <<3, 2, 2>>
=============================================================================
