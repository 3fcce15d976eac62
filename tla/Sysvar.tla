------------------------------- MODULE Sysvar -------------------------------
(***************************************************************************)
(* The system variables of the boot flash (src/sysvar/): the read-write    *)
(* and the read-only variables, each in two partitions of which either is  *)
(* enough.  A program opens the partitions, which loads the variables and  *)
(* repairs a partition whose checksum is wrong from the other one, edits   *)
(* its list of variables and saves it, partition after partition.  Between *)
(* any two operations on the flash, and in the middle of one, the power    *)
(* may fail or the program be killed; reading, erasing and writing may     *)
(* fail.  One program has the partitions open at a time.                   *)
(***************************************************************************)
EXTENDS Naturals

CONSTANTS
  Names,    \* names of variables
  Values,   \* and values
  ReadOnly, \* the read-only variables of the factory
  Unset,    \* the value of a variable that is not in the list
  Bad,      \* a partition that is blank, half erased or half written
  None,     \* no program (for the view that SysvarSpec has of this module)
  Faults    \* which operations may fail: "read", "erase", "write"

\* What a list of variables holds.  Its order is left out: find_var looks for a
\* name, and setvar deletes a variable before it adds it.  The variables fit
\* into a partition, which setvar does not check.
Vars == [Names -> Values \cup {Unset}]

ASSUME SysvarAssumption ==
  /\ ReadOnly \in Vars
  /\ Bad \notin Vars /\ None \notin Vars
  /\ Unset \notin Values

Empty == [n \in Names |-> Unset]
Copies == {0, 1}
Area == {"rw", "ro"}

VARIABLES
  flash,   \* flash[a][c]: partition c of area a, Bad or the variables in it
  pc,      \* "off", "load", "recover_erase", "recover_write", "idle", "erase",
           \* "write"
  area,    \* the area that is being loaded
  target,  \* the partition that is being erased or written
  second,  \* a save has reached its second partition
  failed,  \* rw_buf.failed
  list,    \* list[a]: the variables that the program has loaded
  damaged  \* history: an operation of this program on the flash has failed

vars == <<flash, pc, area, target, second, failed, list, damaged>>

-----------------------------------------------------------------------------
\* check_var(SYSVAR_LOAD_MODE): the checksum fits.  It is the last thing written
\* to a partition, and it does not fit a blank one.
Intact(a) == {c \in Copies : flash[a][c] # Bad}

Init ==
  /\ \/ flash = [a \in Area |-> [c \in Copies |->
                   IF a = "ro" THEN ReadOnly ELSE Bad]]
     \/ \E v \in Vars : flash = [a \in Area |-> [c \in Copies |->
                   IF a = "ro" THEN ReadOnly ELSE v]]
  /\ pc = "off" /\ area = "rw" /\ target = 0 /\ second = FALSE
  /\ failed = [c \in Copies |-> FALSE]
  /\ list = [a \in Area |-> Empty]
  /\ damaged = FALSE

\* open_mtd.  The buffers start afresh.
open_mtd ==
  /\ pc = "off"
  /\ pc' = "load" /\ area' = "rw"
  /\ failed' = [c \in Copies |-> FALSE]
  /\ list' = [a \in Area |-> Empty]
  /\ UNCHANGED <<flash, target, second, damaged>>

\* The command "load" of the console.
load_cmd ==
  /\ pc = "idle"
  /\ pc' = "load" /\ area' = "rw"
  /\ UNCHANGED <<flash, target, second, failed, list, damaged>>

\* loadvar, after data_load has left v in the buffer: load_var moves it to the
\* list, and the read-only variables are next.
Loaded(v) ==
  /\ list' = [list EXCEPT ![area] = v]
  /\ IF area = "rw" THEN area' = "ro" /\ pc' = "load"
                    ELSE area' = area /\ pc' = "idle"

\* The partitions that can be read: all, or some when reading may fail.
Readable(seen) ==
  /\ seen \subseteq Intact(area)
  /\ "read" \in Faults \/ seen = Intact(area)

\* data_load, whose buffer holds the second partition if both are intact.
data_load ==
  /\ pc = "load"
  /\ Intact(area) = Copies
  /\ Loaded(flash[area][1])
  /\ failed' = IF area = "rw" THEN [c \in Copies |-> FALSE] ELSE failed
  /\ UNCHANGED <<flash, target, second, damaged>>

\* Mutant: the recovery of the read-only variables goes the wrong way.
data_recovery_in_place ==
  /\ pc = "load"
  /\ \E seen, again \in SUBSET Copies :
       /\ Readable(seen) /\ Readable(again)
       /\ seen # Copies
       /\ failed' = IF area = "rw" THEN [c \in Copies |-> c \notin seen]
                                   ELSE failed
       /\ damaged' = (damaged \/ seen # Intact(area) \/ again # Intact(area))
       /\ IF again = {}
            THEN Loaded(Empty) /\ UNCHANGED target
            ELSE /\ target' = IF (0 \in again) <=> area = "rw" THEN 1 ELSE 0
                 /\ pc' = "recover_erase"
                 /\ UNCHANGED <<area, list>>
  /\ UNCHANGED <<flash, second>>

\* data_load when a partition failed, and data_recovery, which reads again.
\* Without a good partition the buffer is cleared (clear_buf).
data_recovery ==
  /\ pc = "load"
  /\ \E seen, again \in SUBSET Copies :
       /\ Readable(seen) /\ Readable(again)
       /\ seen # Copies
       /\ failed' = IF area = "rw" THEN [c \in Copies |-> c \notin seen]
                                   ELSE failed
       /\ damaged' = (damaged \/ seen # Intact(area) \/ again # Intact(area))
       /\ IF again = {}
            THEN Loaded(Empty) /\ UNCHANGED target
            ELSE /\ target' = IF 0 \in again THEN 1 ELSE 0
                 /\ pc' = "recover_erase"
                 /\ UNCHANGED <<area, list>>
  /\ UNCHANGED <<flash, second>>

\* Partition `target' of area a becomes v.
Put(a, v) == flash' = [flash EXCEPT ![a][target] = v]

RecoverErase ==
  /\ pc = "recover_erase"
  /\ Put(area, Bad)
  /\ pc' = "recover_write"
  /\ UNCHANGED <<area, target, second, failed, list, damaged>>

\* Mutant: the variables are loaded and the bad partition is left as it is.
RecoverWriteNothing ==
  /\ pc = "recover_write"
  /\ Loaded(flash[area][1 - target])
  /\ UNCHANGED <<flash, target, second, failed, damaged>>

RecoverWrite ==
  /\ pc = "recover_write"
  /\ Put(area, flash[area][1 - target])
  /\ Loaded(flash[area][1 - target])
  /\ UNCHANGED <<target, second, failed, damaged>>

\* recovery_err: the buffer is cleared, though one partition is good.
RecoverFails ==
  /\ \/ /\ pc = "recover_erase" /\ "erase" \in Faults
        /\ \E v \in {flash[area][target], Bad} : Put(area, v)
     \/ /\ pc = "recover_write" /\ "write" \in Faults
        /\ Put(area, Bad)
  /\ Loaded(Empty)
  /\ damaged' = TRUE
  /\ UNCHANGED <<target, second, failed>>

-----------------------------------------------------------------------------
find_var(a, n) == list[a][n]

\* delete_var and set_var on the list of the read-write variables.
set_var(n, v) == list' = [list EXCEPT !["rw"][n] = v]

\* setvar with a value: a read-only variable is refused.
setvar(n, v) ==
  /\ pc = "idle"
  /\ find_var("ro", n) = Unset
  /\ set_var(n, v)
  /\ UNCHANGED <<flash, pc, area, target, second, failed, damaged>>

\* setvar without a value, of a variable that exists.
delete_cmd(n) ==
  /\ find_var("rw", n) # Unset
  /\ setvar(n, Unset)

\* setvar without a name: all read-write variables.
clear_cmd ==
  /\ pc = "idle"
  /\ list' = [list EXCEPT !["rw"] = Empty]
  /\ UNCHANGED <<flash, pc, area, target, second, failed, damaged>>

\* Mutant: the wrong partition first.
LastToErase == IF failed[1] THEN 0 ELSE 1

\* savevar: the partition to erase first.
FirstToErase == IF failed[1] THEN 1 ELSE 0

savevar ==
  /\ pc = "idle"
  /\ pc' = "erase" /\ target' = FirstToErase /\ second' = FALSE
  /\ UNCHANGED <<flash, area, failed, list, damaged>>

\* data_save: erase a partition, write it, go on to the other one.
SaveErase ==
  /\ pc = "erase"
  /\ Put("rw", Bad)
  /\ pc' = "write"
  /\ UNCHANGED <<area, target, second, failed, list, damaged>>

\* The buffer that save_var has filled from the list; no operation of data_save
\* changes the list.
save_var == list["rw"]

SaveWrite ==
  /\ pc = "write"
  /\ Put("rw", save_var)
  /\ IF second THEN pc' = "idle" /\ UNCHANGED <<target, second>>
               ELSE pc' = "erase" /\ target' = 1 - target /\ second' = TRUE
  /\ UNCHANGED <<area, failed, list, damaged>>

\* data_save returns at the first error.
SaveFails ==
  /\ \/ /\ pc = "erase" /\ "erase" \in Faults
        /\ \E v \in {flash["rw"][target], Bad} : Put("rw", v)
     \/ /\ pc = "write" /\ "write" \in Faults
        /\ Put("rw", Bad)
  /\ pc' = "idle"
  /\ damaged' = TRUE
  /\ UNCHANGED <<area, target, second, failed, list>>

\* close_mtd at the end of a program.
close_mtd ==
  /\ pc = "idle"
  /\ pc' = "off" /\ damaged' = FALSE
  /\ UNCHANGED <<flash, area, target, second, failed, list>>

\* The power fails or the program is killed.  A partition that is being erased
\* or written is then Bad, as it is after SaveErase and RecoverErase.
PowerCut ==
  /\ pc \notin {"off", "idle"}
  /\ pc' = "off" /\ damaged' = FALSE
  /\ UNCHANGED <<flash, area, target, second, failed, list>>

Next ==
  \/ open_mtd \/ load_cmd \/ data_load \/ data_recovery
  \/ RecoverErase \/ RecoverWrite \/ RecoverFails
  \/ \E n \in Names, v \in Values : setvar(n, v)
  \/ \E n \in Names : delete_cmd(n)
  \/ clear_cmd \/ savevar \/ SaveErase \/ SaveWrite \/ SaveFails
  \/ close_mtd \/ PowerCut

Spec == Init /\ [][Next]_vars

-----------------------------------------------------------------------------
\* The type invariant: what the partitions and the list of a program hold.
TypeOK ==
  /\ flash \in [Area -> [Copies -> Vars \cup {Bad}]]
  /\ pc \in {"off", "load", "recover_erase", "recover_write", "idle", "erase",
            "write"}
  /\ area \in Area /\ target \in Copies
  /\ second \in BOOLEAN /\ damaged \in BOOLEAN
  /\ failed \in [Copies -> BOOLEAN]
  /\ list \in [Area -> Vars]

\* What a program would load from area a now: the second partition, which
\* data_load reads last, or the first if only that is good.
Stored(a) ==
  IF 1 \in Intact(a) THEN flash[a][1]
  ELSE IF 0 \in Intact(a) THEN flash[a][0] ELSE Empty

View ==
  IF pc = "off" \/ (area = "rw" /\ pc \in {"load", "recover_erase",
                                          "recover_write"})
    THEN None ELSE list["rw"]

Saving == IF pc \in {"erase", "write"} THEN list["rw"] ELSE None

\* A save is atomic and lasting, whenever the power fails in data_save,
\* data_load or data_recovery, though it takes four operations on two
\* partitions and the partitions have no common version: after a power cut the
\* next program finds either all the old variables or all the new ones, and
\* every later one finds the same until something else is saved.
Promise == INSTANCE SysvarSpec WITH stored <- Stored("rw"), view <- View,
                                    saving <- Saving
ImplementsSysvarSpec == Promise!Spec

\* The read-only variables are never lost or changed, although data_recovery
\* erases and rewrites their partitions like the others, the power fails at any
\* moment and reading, erasing and writing fail any number of times.
ReadOnlyKept == Stored("ro") = ReadOnly

\* The types, and the read-only variables of the factory.
Inv == TypeOK /\ ReadOnlyKept

\* When a program has loaded the variables without an error of the flash, both
\* partitions are good again (or the read-write ones have never been written),
\* so that they withstand the next power cut; a save keeps them so.
Redundant ==
  pc = "idle" /\ ~damaged =>
    /\ Intact("ro") = Copies
    /\ Intact("rw") \in {{}, Copies}
=============================================================================
