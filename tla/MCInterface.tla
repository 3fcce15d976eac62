---------------------------- MODULE MCInterface ----------------------------
(* Interface with two subnets that have one gateway each. *)
EXTENDS Interface, FiniteSets, TLC

CONSTANTS gw1, gw2, net1, net2

MCNetOf == (gw1 :> net1) @@ (gw2 :> net2)

\* The two networks may change places, each gateway with its subnet, and so may
\* the nodes.
MCSymmetry ==
  {(gw1 :> gw2) @@ (gw2 :> gw1) @@ (net1 :> net2) @@ (net2 :> net1)}
    \cup Permutations(Station)

\* MaxRoutes: the search goes on from states with at most one route more than there are types.
MaxRoutes == 4
MCBound == Cardinality(routes) <= MaxRoutes
=============================================================================
