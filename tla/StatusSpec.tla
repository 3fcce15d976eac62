----------------------------- MODULE StatusSpec -----------------------------
(***************************************************************************)
(* What a Status promises its callers: an assignment is one indivisible    *)
(* step whose effect depends on nothing but the table.  Making p true      *)
(* makes true all that p implies, however indirectly, and false all that   *)
(* this excludes together with whatever implies something false; making p  *)
(* false makes false whatever implies p.                                   *)
(***************************************************************************)
EXTENDS Naturals, FiniteSets

CONSTANTS Children, Prop, Implies, Excludes, Calls

VARIABLE status   \* status[c][p]: "None", "True" or "False"

\* The elements of Prop that a path along R of at most n edges leads to from one
\* of S.
Reach(R, S) ==
  LET reach[n \in 0..Cardinality(Prop)] ==
        IF n = 0 THEN S
        ELSE LET near == reach[n - 1] IN near \cup UNION {R[q] : q \in near}
  IN reach

\* Those that any path leads to: none needs more edges than there are elements.
Closure(R, S) == Reach(R, S)[Cardinality(Prop)]

\* Whatever cannot be true when all of S is false.
Refuted(S) == Closure([q \in Prop |-> {r \in Prop : q \in Implies[r]}], S)

Excluded(S) ==
  (UNION {Excludes[q] : q \in S}) \cup {r \in Prop : Excludes[r] \cap S # {}}

\* What assigning v to p makes true, and what it makes false.
Up(p, v) == IF v = "True" THEN Closure(Implies, {p}) ELSE {}

Down(p, v) == Refuted(IF v = "True" THEN Excluded(Up(p, v)) ELSE {p})

\* No assignment makes true what it makes false.
Coherent == \A pv \in Calls : Up(pv[1], pv[2]) \cap Down(pv[1], pv[2]) = {}

Assigned(old, p, v) ==
  LET up == Up(p, v)
      down == Down(p, v)
  IN [q \in Prop |-> CASE q \in up   -> "True"
                       [] q \in down -> "False"
                       [] OTHER      -> old[q]]

Init == status = [c \in Children |-> [p \in Prop |-> "None"]]

\* An assignment that has an effect; any other one is a stuttering step.
Assign ==
  /\ status' # status
  /\ \E c \in Children : \E pv \in Calls :
       status' = [status EXCEPT ![c] = Assigned(@, pv[1], pv[2])]

Restart == status' = [c \in Children |-> [p \in Prop |-> "None"]]

Spec == Init /\ [][Assign \/ Restart]_status
=============================================================================
