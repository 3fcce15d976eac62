----------------------------- MODULE SysvarSpec -----------------------------
(***************************************************************************)
(* What the system variables promise a program that opens them: it sees    *)
(* what is stored, and a save replaces the stored variables by those of    *)
(* the program in one indivisible step or not at all, whenever the power   *)
(* fails.  The promise ends, for the program that meets it, with an error  *)
(* of the flash: the failing operation itself loses nothing that was       *)
(* stored, but what the same program does afterwards may.                  *)
(***************************************************************************)
CONSTANTS
  Vars,   \* the contents that a list of variables can have
  None    \* no program, no save

VARIABLES
  stored,  \* the variables that survive
  view,    \* the variables that the program sees, None before it has loaded
  saving,  \* the variables that it is saving, None if it is not
  damaged  \* it has met an error of the flash

vars == <<stored, view, saving, damaged>>

Init ==
  /\ stored \in Vars
  /\ view = None /\ saving = None /\ damaged = FALSE

Open ==
  /\ view = None
  /\ view' = stored
  /\ UNCHANGED <<stored, saving, damaged>>

Edit ==
  /\ view # None /\ saving = None
  /\ view' \in Vars
  /\ UNCHANGED <<stored, saving, damaged>>

Begin ==
  /\ view # None /\ saving = None
  /\ saving' = view
  /\ UNCHANGED <<stored, view, damaged>>

Commit ==
  /\ saving # None
  /\ stored' = saving
  /\ UNCHANGED <<view, saving, damaged>>

Succeed ==
  /\ saving # None /\ stored = saving
  /\ saving' = None
  /\ UNCHANGED <<stored, view, damaged>>

\* The program ends, is killed, the power fails, or it loads once more.
Close ==
  /\ view' = None /\ saving' = None
  /\ damaged' \in {FALSE, damaged}
  /\ UNCHANGED stored

Error ==
  /\ damaged' = TRUE
  /\ stored' \in {stored, saving} \ {None}
  /\ saving' = None
  /\ view' \in Vars \cup {view}

\* A program that has met an error: what it sees and what it has been told
\* may differ from what is stored.
Harm ==
  /\ damaged
  /\ stored' \in Vars /\ view' \in Vars \cup {None}
  /\ saving' \in Vars \cup {None}
  /\ UNCHANGED damaged

Next == Open \/ Edit \/ Begin \/ Commit \/ Succeed \/ Close \/ Error \/ Harm

Spec == Init /\ [][Next]_vars
=============================================================================
