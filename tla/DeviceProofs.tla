---------------------------- MODULE DeviceProofs ----------------------------
(***************************************************************************)
(* Proofs about the programs that serve the hardware of the device.        *)
(*                                                                         *)
(* Sysvar, for all names and values of variables, all variables of the     *)
(* factory, whichever operations of the flash may fail: the variables of   *)
(* the factory survive, a load leaves two good copies, and a save is       *)
(* atomic, i.e. Sysvar implements SysvarSpec.                              *)
(*                                                                         *)
(* PeripheralMon, for all sane parameters of the fan: sysmgr switches the  *)
(* fan off only when every sensor is cool.                                 *)
(***************************************************************************)
EXTENDS Sysvar, PeripheralMon, TLAPS

-----------------------------------------------------------------------------
(* Sysvar *)

Recovering == pc \in {"recover_erase", "recover_write"}

\* The partition that a recovery erases is not the one that it copies, which is
\* good.
SourceGood == Recovering => flash[area][1 - target] # Bad

\* The partitions of the read-only variables hold those of the factory or are
\* bad, and not all of them.
RoFits ==
  /\ \A c \in Copies : flash["ro"][c] \in {ReadOnly, Bad}
  /\ \E c \in Copies : flash["ro"][c] = ReadOnly
  /\ ~damaged /\ pc \in {"idle", "erase", "write"}
       => \A c \in Copies : flash["ro"][c] = ReadOnly

\* Both partitions of the read-write variables are good or none is; if the
\* second was bad when it was loaded, they are equal, so that savevar may
\* begin with either.
Settled ==
  /\ flash["rw"][0] = Bad <=> flash["rw"][1] = Bad
  /\ failed[1] => flash["rw"][0] = flash["rw"][1]

\* The read-write variables have been loaded and no save has erased anything.
Resting ==
  \/ pc = "idle"
  \/ pc \in {"load", "recover_erase", "recover_write"} /\ area = "ro"
  \/ pc = "erase" /\ ~second

\* The partition that is erased first is one that can be spared; the second is
\* erased when the first holds what is being saved.
RwFits ==
  /\ Resting => Settled
  /\ area = "rw" /\ Recovering => flash["rw"][target] = Bad
  /\ pc \in {"erase", "write"} /\ ~second => target = FirstToErase
  /\ pc = "write" => flash["rw"][target] = Bad
  /\ pc \in {"erase", "write"} /\ second
       => flash["rw"][1 - target] = list["rw"]

IInv == TypeOK /\ SourceGood /\ RoFits /\ (damaged \/ RwFits)

-----------------------------------------------------------------------------
\* Partitions hold variables or are bad, and never both.
LEMMA VarsFacts ==
  /\ Empty \in Vars /\ ReadOnly \in Vars /\ Bad \notin Vars /\ None \notin Vars
  /\ ReadOnly # Bad
BY SysvarAssumption DEF Empty, Vars

\* What an operation on one partition changes.
LEMMA PutChanges ==
  ASSUME TypeOK, NEW a \in Area, NEW v \in Vars \cup {Bad}, Put(a, v)
  PROVE  /\ flash' \in [Area -> [Copies -> Vars \cup {Bad}]]
         /\ flash'[a][target] = v
         /\ flash'[a][1 - target] = flash[a][1 - target]
         /\ \A b \in Area \ {a} : flash'[b] = flash[b]
BY DEF TypeOK, Put, Copies, Area

\* An assignment to a variable leaves a list of variables.
LEMMA ListTyped ==
  ASSUME TypeOK, NEW n \in Names, NEW v \in Values \cup {Unset}, set_var(n, v)
  PROVE  list' \in [Area -> Vars]
BY DEF TypeOK, set_var, Vars, Area

\* The factory writes good read-only partitions, and the same variables to
\* both read-write partitions or none.
LEMMA InitInv == Init => IInv
<1> SUFFICES ASSUME Init PROVE IInv
  OBVIOUS
<1>1. TypeOK
  <2>1. flash \in [Area -> [Copies -> Vars \cup {Bad}]]
    <3>1. CASE flash = [a \in Area |-> [c \in Copies |->
                          IF a = "ro" THEN ReadOnly ELSE Bad]]
      BY <3>1, VarsFacts
    <3>2. CASE \E v \in Vars : flash = [a \in Area |-> [c \in Copies |->
                          IF a = "ro" THEN ReadOnly ELSE v]]
      BY <3>2, VarsFacts
    <3>3. QED
      BY <3>1, <3>2 DEF Init
  <2>2. list \in [Area -> Vars] /\ failed \in [Copies -> BOOLEAN]
    BY VarsFacts DEF Init
  <2>3. QED
    BY <2>1, <2>2 DEF Init, TypeOK, Area, Copies
<1>2. RoFits
  BY VarsFacts DEF Init, RoFits, Recovering, Area, Copies
<1>3. RwFits
  BY VarsFacts DEF Init, RwFits, Recovering, Resting, Settled, Area, Copies
<1>4. SourceGood
  BY DEF Init, SourceGood, Recovering
<1>5. QED
  BY <1>1, <1>2, <1>3, <1>4 DEF IInv

\* Every step keeps the types.
LEMMA TypeStep == TypeOK /\ SourceGood /\ [Next]_vars => TypeOK'
<1> SUFFICES ASSUME TypeOK, SourceGood, [Next]_vars PROVE TypeOK'
  OBVIOUS
<1> USE VarsFacts DEF TypeOK
<1>0. 1 - target \in Copies
  BY DEF Copies
<1>1. CASE open_mtd \/ load_cmd \/ close_mtd \/ PowerCut \/ savevar
  BY <1>1 DEF open_mtd, load_cmd, close_mtd, PowerCut, savevar, FirstToErase,
              Area, Copies
<1>2. ASSUME NEW v \in Vars, Loaded(v)
      PROVE  /\ list' \in [Area -> Vars] /\ area' \in Area
             /\ pc' \in {"load", "idle"}
  BY <1>2 DEF Loaded, Area
<1>3. CASE data_load
  <2>1. flash[area][1] \in Vars
    BY <1>3 DEF data_load, Intact, Copies
  <2>2. QED
    BY <1>2, <1>3, <2>1 DEF data_load
<1>4. CASE data_recovery
  <2>1. failed' \in [Copies -> BOOLEAN] /\ damaged' \in BOOLEAN
        /\ UNCHANGED <<flash, second>>
    BY <1>4 DEF data_recovery
  <2>2. list' \in [Area -> Vars] /\ area' \in Area /\ target' \in Copies
        /\ pc' \in {"load", "idle", "recover_erase"}
    BY <1>2, <1>4 DEF data_recovery, Copies
  <2>3. QED
    BY <2>1, <2>2
<1>5. CASE RecoverErase
  BY <1>5, PutChanges DEF RecoverErase
<1>6. CASE RecoverWrite
  <2>1. PICK v \in Vars \cup {Bad} : v = flash[area][1 - target]
    BY <1>0
  <2>2. /\ flash' \in [Area -> [Copies -> Vars \cup {Bad}]]
    BY <1>6, <2>1, PutChanges DEF RecoverWrite
  <2>3. v \in Vars
    BY <1>6, <2>1 DEF RecoverWrite, SourceGood, Recovering
  <2>4. QED
    BY <1>2, <1>6, <2>1, <2>2, <2>3 DEF RecoverWrite
<1>7. CASE RecoverFails
  <2>1. \E v \in Vars \cup {Bad} : Put(area, v)
    BY <1>7 DEF RecoverFails
  <2>2. flash' \in [Area -> [Copies -> Vars \cup {Bad}]]
    BY <2>1, PutChanges
  <2>3. QED
    BY <1>2, <1>7, <2>2 DEF RecoverFails
<1>8. ASSUME NEW n \in Names, NEW v \in Values \cup {Unset}, setvar(n, v)
      PROVE  TypeOK'
  BY <1>8, ListTyped DEF setvar
<1>9. CASE clear_cmd
  BY <1>9 DEF clear_cmd, Area
<1>10. CASE SaveErase
  BY <1>10, PutChanges DEF SaveErase, Area
<1>11. CASE SaveWrite
  <2>1. save_var \in Vars
    BY DEF save_var, Area
  <2>2. flash' \in [Area -> [Copies -> Vars \cup {Bad}]]
    BY <1>11, <2>1, PutChanges DEF SaveWrite, Area
  <2>3. QED
    BY <1>0, <1>11, <2>2 DEF SaveWrite
<1>12. CASE SaveFails
  <2>1. \E v \in Vars \cup {Bad} : Put("rw", v)
    BY <1>12 DEF SaveFails, Area
  <2>2. flash' \in [Area -> [Copies -> Vars \cup {Bad}]]
    BY <2>1, PutChanges DEF Area
  <2>3. QED
    BY <1>12, <2>2 DEF SaveFails
<1>13. CASE UNCHANGED vars
  BY <1>13 DEF vars
<1>14. QED
  BY <1>1, <1>3, <1>4, <1>5, <1>6, <1>7, <1>8, <1>9, <1>10, <1>11, <1>12,
     <1>13 DEF Next, delete_cmd

\* A recovery begins with a good partition to copy from, and erases the other.
LEMMA SourceStep == TypeOK /\ SourceGood /\ [Next]_vars => SourceGood'
<1> SUFFICES ASSUME TypeOK, SourceGood, [Next]_vars, Recovering'
             PROVE  flash'[area'][1 - target'] # Bad
  BY DEF SourceGood
<1>1. CASE data_recovery
  <2>1. PICK again \in SUBSET Copies :
          /\ again \subseteq Intact(area) /\ again # {}
          /\ target' = IF 0 \in again THEN 1 ELSE 0
          /\ UNCHANGED <<area, flash>>
    BY <1>1 DEF data_recovery, Readable, Loaded, Recovering
  <2>2. CASE 0 \in again
    BY <2>1, <2>2 DEF Intact
  <2>3. CASE 1 \in again /\ 0 \notin again
    BY <2>1, <2>3 DEF Intact
  <2>4. QED
    BY <2>1, <2>2, <2>3 DEF Copies
<1>2. CASE RecoverErase
  BY <1>2, PutChanges DEF RecoverErase, SourceGood, Recovering, TypeOK
<1>3. CASE ~data_recovery /\ ~RecoverErase
  <2>1. Next => ~Recovering'
    BY <1>3 DEF Next, open_mtd, load_cmd, close_mtd, PowerCut, savevar,
      data_load, RecoverWrite, RecoverFails, Loaded, setvar, delete_cmd,
      clear_cmd, SaveErase, SaveWrite, SaveFails, Recovering
  <2>2. UNCHANGED vars
    BY <2>1
  <2>3. QED
    BY <2>2 DEF vars, SourceGood, Recovering
<1>4. QED
  BY <1>1, <1>2, <1>3

\* The read-only variables are never lost: only a recovery writes to their
\* partitions, and it copies them.
LEMMA RoStep == TypeOK /\ SourceGood /\ RoFits /\ [Next]_vars => RoFits'
<1> SUFFICES ASSUME TypeOK, SourceGood, RoFits, [Next]_vars PROVE RoFits'
  OBVIOUS
<1> USE VarsFacts
<1> DEFINE Good == \A c \in Copies : flash["ro"][c] = ReadOnly
<1>1. CASE data_load \/ data_recovery
  <2>1. flash' = flash
    BY <1>1 DEF data_load, data_recovery
  <2>2. ASSUME ~damaged', pc' = "idle" PROVE Good
    <3>1. CASE data_load
      <4>1. area = "ro" /\ Intact(area) = Copies
        BY <2>2, <3>1 DEF data_load, Loaded, TypeOK, Area
      <4>2. QED
        BY <4>1 DEF Intact, RoFits
    <3>2. CASE data_recovery
      <4>1. area = "ro" /\ Intact(area) = {}
        BY <2>2, <3>2 DEF data_recovery, Loaded, TypeOK, Area
      <4>2. QED
        BY <4>1 DEF RoFits, Intact
    <3>3. QED
      BY <1>1, <3>1, <3>2
  <2>3. pc' \in {"load", "idle", "recover_erase"}
    BY <1>1 DEF data_load, data_recovery, Loaded
  <2>4. QED
    BY <2>1, <2>2, <2>3 DEF RoFits
<1>2. CASE RecoverErase \/ RecoverWrite \/ RecoverFails
  <2>0. Recovering /\ area \in Area /\ target \in Copies
    BY <1>2 DEF RecoverErase, RecoverWrite, RecoverFails, Recovering, TypeOK
  <2>1. PICK v \in {flash[area][target], flash[area][1 - target], Bad} : Put(area, v)
    BY <1>2 DEF RecoverErase, RecoverWrite, RecoverFails
  <2>2. v \in Vars \cup {Bad}
    BY <2>0 DEF TypeOK, Copies
  <2>3. /\ flash'[area][target] = v
        /\ flash'[area][1 - target] = flash[area][1 - target]
        /\ area = "rw" => flash'["ro"] = flash["ro"]
    BY <2>0, <2>1, <2>2, PutChanges DEF Area
  <2>4. area = "ro" => flash["ro"][1 - target] = ReadOnly
    BY <2>0 DEF SourceGood, RoFits, Copies
  <2>5. /\ \A c \in Copies : flash'["ro"][c] \in {ReadOnly, Bad}
        /\ \E c \in Copies : flash'["ro"][c] = ReadOnly
    <3>1. CASE area = "rw"
      BY <2>3, <3>1 DEF RoFits
    <3>2. CASE area = "ro"
      BY <2>0, <2>1, <2>3, <2>4, <3>2 DEF RoFits, Copies
    <3>3. QED
      BY <2>0, <3>1, <3>2 DEF Area
  <2>6. ASSUME ~damaged', pc' \in {"idle", "erase", "write"}
        PROVE  \A c \in Copies : flash'["ro"][c] = ReadOnly
    <3>1. RecoverWrite /\ area = "ro"
      BY <1>2, <2>0, <2>6 DEF RecoverErase, RecoverWrite, RecoverFails, Loaded, Area
    <3>2. flash'["ro"][target] = ReadOnly
      BY <2>0, <2>4, <3>1, PutChanges DEF RecoverWrite
    <3>3. QED
      BY <2>0, <2>3, <2>4, <3>1, <3>2 DEF Copies
  <2>7. QED
    BY <2>5, <2>6 DEF RoFits
<1>3. CASE SaveErase \/ SaveWrite \/ SaveFails
  <2>1. PICK v \in {flash["rw"][target], list["rw"], Bad} : Put("rw", v)
    BY <1>3 DEF SaveErase, SaveWrite, SaveFails, save_var
  <2>2. flash'["ro"] = flash["ro"]
    BY <2>1, PutChanges DEF TypeOK, Area
  <2>3. /\ pc \in {"idle", "erase", "write"} /\ (~damaged' => ~damaged)
    BY <1>3 DEF SaveErase, SaveWrite, SaveFails
  <2>4. QED
    BY <2>2, <2>3 DEF RoFits
<1>4. ASSUME NEW n, NEW v, setvar(n, v) PROVE RoFits'
  BY <1>4 DEF setvar, RoFits
<1>5. CASE open_mtd \/ load_cmd \/ close_mtd \/ PowerCut \/ savevar \/ clear_cmd
  BY <1>5 DEF open_mtd, load_cmd, close_mtd, PowerCut, savevar, clear_cmd, RoFits
<1>6. CASE UNCHANGED vars
  BY <1>6 DEF vars, RoFits
<1>7. QED
  BY <1>1, <1>2, <1>3, <1>4, <1>5, <1>6 DEF Next, delete_cmd

\* Without an error of the flash, the read-write partitions stay as a save or a
\* recovery needs them.
LEMMA RwStep == IInv /\ [Next]_vars => (damaged \/ RwFits)'
<1> SUFFICES ASSUME TypeOK, SourceGood, damaged \/ RwFits, [Next]_vars, ~damaged'
             PROVE  RwFits'
  BY DEF IInv
<1> USE VarsFacts
<1> DEFINE rw == flash["rw"]
<1>0. target \in Copies /\ area \in Area /\ list["rw"] \in Vars
      /\ \A c \in Copies : rw[c] \in Vars \cup {Bad}
  BY DEF TypeOK, Area
<1>1. CASE open_mtd \/ load_cmd \/ close_mtd \/ PowerCut
  BY <1>1 DEF open_mtd, load_cmd, close_mtd, PowerCut, RwFits, Resting, Recovering
<1>2. CASE data_load
  <2>1. RwFits
    BY <1>2 DEF data_load
  <2>2. CASE area = "rw"
    <3>1. rw[0] # Bad /\ rw[1] # Bad
      BY <1>2, <2>2 DEF data_load, Intact, Copies
    <3>2. flash' = flash /\ pc' = "load" /\ area' = "ro" /\ ~failed'[1]
      BY <1>2, <2>2 DEF data_load, Loaded, Copies
    <3>3. QED
      BY <3>1, <3>2 DEF RwFits, Resting, Settled, Recovering
  <2>3. CASE area = "ro"
    <3>1. flash' = flash /\ pc' = "idle" /\ area' = "ro" /\ failed' = failed
          /\ pc = "load"
      BY <1>2, <2>3 DEF data_load, Loaded
    <3>2. QED
      BY <2>1, <2>3, <3>1 DEF RwFits, Resting, Settled, Recovering
  <2>4. QED
    BY <1>0, <2>2, <2>3 DEF Area
<1>3. CASE data_recovery
  <2>1. PICK again \in SUBSET Copies :
          /\ again = Intact(area) /\ again # Copies
          /\ IF again = {}
               THEN Loaded(Empty) /\ UNCHANGED target
               ELSE /\ target' = IF 0 \in again THEN 1 ELSE 0
                    /\ pc' = "recover_erase"
                    /\ UNCHANGED <<area, list>>
    BY <1>3 DEF data_recovery
  <2>2. flash' = flash /\ pc = "load" /\ ~damaged
        /\ (area = "ro" => failed' = failed)
    BY <1>3 DEF data_recovery
  <2>3. CASE area = "rw" /\ again = {}
    <3>1. rw[0] = Bad /\ rw[1] = Bad
      BY <2>1, <2>3 DEF Intact, Copies
    <3>2. pc' = "load" /\ area' = "ro"
      BY <2>1, <2>3 DEF Loaded
    <3>3. QED
      BY <2>2, <3>1, <3>2 DEF RwFits, Resting, Settled, Recovering
  <2>4. CASE area = "rw" /\ again # {}
    <3>1. rw[target'] = Bad
      BY <2>1, <2>4 DEF Intact, Copies
    <3>2. pc' = "recover_erase" /\ area' = "rw"
      BY <2>1, <2>4
    <3>3. QED
      BY <2>2, <3>1, <3>2 DEF RwFits, Resting, Recovering
  <2>5. CASE area = "ro"
    <3>1. pc' \in {"idle", "recover_erase"} /\ area' = "ro"
      BY <2>1, <2>5 DEF Loaded
    <3>2. QED
      BY <2>2, <2>5, <3>1 DEF RwFits, Resting, Settled, Recovering
  <2>6. QED
    BY <1>0, <2>3, <2>4, <2>5 DEF Area
<1>4. CASE RecoverErase \/ RecoverWrite
  <2>1. RwFits /\ Recovering /\ failed' = failed
    BY <1>4 DEF RecoverErase, RecoverWrite, Recovering
  <2>2. CASE RecoverErase
    <3>1. pc' = "recover_write" /\ area' = area /\ target' = target
          /\ flash'[area][target] = Bad
          /\ (area = "ro" => flash'["rw"] = rw)
      BY <1>0, <2>2, PutChanges DEF RecoverErase, Area
    <3>2. QED
      BY <1>0, <2>1, <3>1
        DEF RwFits, Resting, Settled, Recovering, Area
  <2>3. CASE RecoverWrite /\ area = "rw"
    <3>1. PICK v \in Vars : v = rw[1 - target]
      BY <1>0, <2>1, <2>3 DEF SourceGood, Copies
    <3>2. /\ flash'["rw"][target] = v /\ flash'["rw"][1 - target] = v
          /\ pc' = "load" /\ area' = "ro"
      BY <1>0, <2>3, <3>1, PutChanges DEF RecoverWrite, Loaded
    <3>3. flash'["rw"][0] = v /\ flash'["rw"][1] = v
      BY <1>0, <3>2 DEF Copies
    <3>4. QED
      BY <3>2, <3>3 DEF RwFits, Resting, Settled, Recovering
  <2>4. CASE RecoverWrite /\ area = "ro"
    <3>1. PICK v \in Vars \cup {Bad} : v = flash["ro"][1 - target]
      BY <1>0, <2>4 DEF TypeOK, Copies, Area
    <3>2. flash'["rw"] = rw /\ pc' = "idle" /\ area' = "ro"
      BY <1>0, <2>4, <3>1, PutChanges DEF RecoverWrite, Loaded, Area
    <3>3. QED
      BY <2>1, <2>4, <3>2 DEF RwFits, Resting, Settled, Recovering
  <2>5. QED
    BY <1>0, <1>4, <2>2, <2>3, <2>4 DEF Area
<1>5. ASSUME NEW n, NEW v, setvar(n, v) PROVE RwFits'
  BY <1>5 DEF setvar, RwFits, Resting, Settled, Recovering
<1>6. CASE clear_cmd
  BY <1>6 DEF clear_cmd, RwFits, Resting, Settled, Recovering
<1>7. CASE savevar
  BY <1>7 DEF savevar, RwFits, Resting, Settled, Recovering, FirstToErase
<1>8. CASE SaveErase
  <2>1. RwFits /\ pc = "erase" /\ pc' = "write"
        /\ UNCHANGED <<target, second, failed, list>>
    BY <1>8 DEF SaveErase
  <2>2. flash'["rw"][target] = Bad /\ flash'["rw"][1 - target] = rw[1 - target]
    BY <1>0, <1>8, PutChanges DEF SaveErase, Area
  <2>3. QED
    BY <2>1, <2>2 DEF RwFits, Resting, Recovering, FirstToErase
<1>9. CASE SaveWrite
  <2>1. RwFits /\ pc = "write" /\ UNCHANGED <<failed, list>>
    BY <1>9 DEF SaveWrite
  <2>2. /\ flash'["rw"][target] = list["rw"]
        /\ flash'["rw"][1 - target] = rw[1 - target]
    BY <1>0, <1>9, PutChanges DEF SaveWrite, save_var, Area
  <2>3. CASE second
    <3>1. pc' = "idle" /\ flash'["rw"][1 - target] = list["rw"]
      BY <1>9, <2>1, <2>2, <2>3 DEF SaveWrite, RwFits
    <3>2. flash'["rw"][0] = list["rw"] /\ flash'["rw"][1] = list["rw"]
      BY <1>0, <2>2, <3>1 DEF Copies
    <3>3. QED
      BY <3>1, <3>2 DEF RwFits, Resting, Settled, Recovering
  <2>4. CASE ~second
    <3>1. pc' = "erase" /\ target' = 1 - target /\ second'
      BY <1>9, <2>4 DEF SaveWrite
    <3>2. 1 - target' = target
      BY <1>0, <3>1 DEF Copies
    <3>3. QED
      BY <2>1, <2>2, <3>1, <3>2 DEF RwFits, Resting, Recovering
  <2>5. QED
    BY <2>3, <2>4
<1>10. CASE RecoverFails \/ SaveFails
  BY <1>10 DEF RecoverFails, SaveFails
<1>11. CASE UNCHANGED vars
  BY <1>11 DEF vars, RwFits, Resting, Settled, Recovering, FirstToErase
<1>12. QED
  BY <1>1, <1>2, <1>3, <1>4, <1>5, <1>6, <1>7, <1>8, <1>9, <1>10, <1>11
     DEF Next, delete_cmd

\* The invariant behind the theorems of this module, at every moment of every
\* sequence of loads, saves, errors and power cuts.
THEOREM InductiveInvariant == Spec => []IInv
<1>1. IInv /\ [Next]_vars => IInv'
  BY TypeStep, SourceStep, RoStep, RwStep DEF IInv
<1>2. QED
  BY <1>1, InitInv, PTL DEF Spec

\* What data_load would find of the partitions, one by one.
LEMMA StoredIs ==
  ASSUME NEW a \in Area
  PROVE  Stored(a) = IF flash[a][1] # Bad THEN flash[a][1]
                     ELSE IF flash[a][0] # Bad THEN flash[a][0] ELSE Empty
BY DEF Stored, Intact, Copies

\* data_recovery erases and rewrites the partitions of the factory's variables,
\* interrupted at any moment and with any errors, and never loses them.
THEOREM FactoryKept == Spec => []Inv
<1>1. IInv => Inv
  <2> SUFFICES ASSUME IInv PROVE ReadOnlyKept
    BY DEF IInv, Inv
  <2>1. /\ flash["ro"][0] \in {ReadOnly, Bad} /\ flash["ro"][1] \in {ReadOnly, Bad}
        /\ flash["ro"][0] = ReadOnly \/ flash["ro"][1] = ReadOnly
    BY DEF IInv, RoFits, Copies
  <2>2. QED
    BY <2>1, StoredIs, VarsFacts DEF ReadOnlyKept, Area
<1>2. QED
  BY <1>1, InductiveInvariant, PTL

\* A process that has met no error of the flash leaves both partitions good, or
\* the read-write ones both blank, between its loads and saves.
THEOREM RedundancyRestored == Spec => []Redundant
<1>1. IInv => Redundant
  <2> SUFFICES ASSUME IInv, pc = "idle", ~damaged
               PROVE  Intact("ro") = Copies /\ Intact("rw") \in {{}, Copies}
    BY DEF Redundant
  <2>1. \A c \in Copies : flash["ro"][c] # Bad
    BY VarsFacts DEF IInv, RoFits
  <2>2. Settled
    BY DEF IInv, RwFits, Resting
  <2>3. QED
    BY <2>1, <2>2 DEF Intact, Settled, Copies
<1>2. QED
  BY <1>1, InductiveInvariant, PTL

-----------------------------------------------------------------------------
(* Sysvar implements SysvarSpec. *)

\* The types of what SysvarSpec sees.
SpecTypes ==
  /\ Stored("rw") \in Vars
  /\ View \in Vars \cup {None} /\ Saving \in Vars \cup {None}

LEMMA AbstractTypes == TypeOK => SpecTypes
<1> SUFFICES ASSUME TypeOK PROVE SpecTypes
  OBVIOUS
<1>1. flash["rw"][0] \in Vars \cup {Bad} /\ flash["rw"][1] \in Vars \cup {Bad}
  BY DEF TypeOK, Area, Copies
<1>2. Stored("rw") \in Vars
  BY <1>1, StoredIs, VarsFacts DEF Area
<1>3. QED
  BY <1>2 DEF SpecTypes, View, Saving, TypeOK, Area

\* A program that has met an error: SysvarSpec promises nothing before the next
\* one begins.
LEMMA HarmStep ==
  ASSUME IInv, Next, damaged
  PROVE  Promise!Harm \/ Promise!Close
<1>1. TypeOK'
  BY TypeStep DEF IInv
<1>2. CASE damaged'
  <2>1. SpecTypes'
    BY <1>1, AbstractTypes, PTL
  <2>2. QED
    BY <1>2, <2>1 DEF Promise!Harm, SpecTypes
<1>3. CASE ~damaged'
  <2>1. pc' = "off" /\ flash' = flash /\ damaged' = FALSE
    BY <1>3 DEF Next, open_mtd, load_cmd, close_mtd, PowerCut, savevar,
      data_load, data_recovery, RecoverErase, RecoverWrite, RecoverFails,
      setvar, delete_cmd, clear_cmd, SaveErase, SaveWrite, SaveFails
  <2>2. QED
    BY <2>1 DEF Promise!Close, Stored, Intact, View, Saving
<1>4. QED
  BY <1>2, <1>3

\* Without an error, what is stored follows from the two partitions, before and
\* after a step.
LEMMA StoredNext ==
  /\ Stored("rw") = IF flash["rw"][1] # Bad THEN flash["rw"][1]
                    ELSE IF flash["rw"][0] # Bad THEN flash["rw"][0] ELSE Empty
  /\ Stored("rw")' = IF flash'["rw"][1] # Bad THEN flash'["rw"][1]
                     ELSE IF flash'["rw"][0] # Bad THEN flash'["rw"][0] ELSE Empty
BY DEF Stored, Intact, Copies

\* Loading, and loading again: a program sees what is stored.
LEMMA LoadStep ==
  ASSUME IInv, ~damaged,
         open_mtd \/ load_cmd \/ data_load \/ data_recovery \/ RecoverErase
           \/ RecoverWrite \/ RecoverFails
  PROVE  [Promise!Next]_(Promise!vars)
<1> USE VarsFacts
<1>0. /\ TypeOK /\ SourceGood /\ RwFits
      /\ target \in Copies /\ area \in Area /\ list \in [Area -> Vars]
      /\ flash["rw"][0] \in Vars \cup {Bad} /\ flash["rw"][1] \in Vars \cup {Bad}
  BY DEF IInv, TypeOK, Area, Copies
<1>1. CASE open_mtd \/ load_cmd
  <2>1. View' = None /\ Saving' = None /\ flash' = flash /\ damaged' = damaged
    BY <1>1 DEF open_mtd, load_cmd, View, Saving
  <2>2. Promise!Close
    BY <2>1, StoredNext DEF Promise!Close
  <2>3. QED
    BY <2>2 DEF Promise!Next
<1>2. ASSUME pc \in {"load", "recover_erase", "recover_write"}, area = "rw",
             damaged' = damaged, NEW v \in Vars, Loaded(v), v = Stored("rw"),
             Stored("rw")' = Stored("rw")
      PROVE  Promise!Open
  <2>1. View = None /\ Saving = None /\ Saving' = None
    BY <1>2 DEF View, Saving, Loaded
  <2>2. View' = v
    BY <1>0, <1>2 DEF View, Loaded, Area
  <2>3. QED
    BY <1>2, <2>1, <2>2 DEF Promise!Open
<1>3. ASSUME pc \in {"load", "recover_erase", "recover_write"}, area = "ro",
             NEW v \in Vars, Loaded(v)
      PROVE  View' = View /\ Saving' = None /\ Saving = None /\ View \in Vars
  BY <1>0, <1>3 DEF View, Saving, Loaded, Area
<1>4. CASE data_load
  <2>1. flash' = flash /\ damaged' = damaged /\ pc = "load"
        /\ Loaded(flash[area][1])
        /\ flash[area][1] \in Vars
    BY <1>0, <1>4 DEF data_load, Intact, TypeOK, Copies
  <2>2. CASE area = "rw"
    <3>1. Promise!Open
      BY <1>2, <2>1, <2>2, StoredNext
    <3>2. QED
      BY <3>1 DEF Promise!Next
  <2>3. CASE area = "ro"
    BY <1>3, <1>4, <2>1, <2>3, StoredNext DEF Promise!vars, data_load
  <2>4. QED
    BY <1>0, <2>2, <2>3 DEF Area
<1>5. CASE data_recovery
  <2>1. PICK again \in SUBSET Copies :
          /\ again \subseteq Intact(area)
          /\ ~damaged' => again = Intact(area)
          /\ IF again = {}
               THEN Loaded(Empty)
               ELSE pc' = "recover_erase" /\ UNCHANGED <<area, list>>
    BY <1>5 DEF data_recovery, Readable
  <2>2. /\ pc = "load" /\ flash' = flash /\ Stored("rw")' = Stored("rw")
        /\ ~damaged' => damaged' = damaged
    BY <1>0, <1>5, StoredNext DEF data_recovery, TypeOK
  <2>3. CASE again = {} /\ area = "rw"
    <3>1. CASE ~damaged'
      <4>1. flash["rw"][0] = Bad /\ flash["rw"][1] = Bad
        BY <2>1, <2>3, <3>1 DEF Intact, Copies
      <4>2. Promise!Open
        BY <1>2, <2>1, <2>2, <2>3, <3>1, <4>1, StoredNext
      <4>3. QED
        BY <4>2 DEF Promise!Next
    <3>2. CASE damaged'
      <4>1. View' \in Vars /\ Saving' = None
        BY <1>0, <2>1, <2>3 DEF Loaded, View, Saving, Area
      <4>2. Promise!Error
        BY <1>0, <2>2, <3>2, <4>1, AbstractTypes DEF Promise!Error, SpecTypes
      <4>3. QED
        BY <4>2 DEF Promise!Next
    <3>3. QED
      BY <3>1, <3>2
  <2>4. CASE again # {} \/ area = "ro"
    <3>1. View' = View /\ Saving' = None /\ Saving = None
      <4>1. CASE again = {}
        BY <1>3, <2>1, <2>2, <2>4, <4>1
      <4>2. CASE again # {}
        BY <1>0, <2>1, <2>2, <4>2 DEF View, Saving, Area
      <4>3. QED
        BY <4>1, <4>2
    <3>2. CASE ~damaged'
      BY <2>2, <3>1, <3>2 DEF Promise!vars
    <3>3. CASE damaged'
      <4>1. Promise!Error
        BY <1>0, <2>2, <3>1, <3>3, AbstractTypes DEF Promise!Error, SpecTypes
      <4>2. QED
        BY <4>1 DEF Promise!Next
    <3>4. QED
      BY <3>2, <3>3
  <2>5. QED
    BY <1>0, <2>3, <2>4 DEF Area
<1>6. CASE RecoverErase
  <2>1. View' = View /\ Saving' = Saving /\ damaged' = damaged
    BY <1>6 DEF RecoverErase, View, Saving
  <2>2. Stored("rw")' = Stored("rw")
    <3>1. CASE area = "rw"
      <4>1. /\ flash["rw"][target] = Bad
            /\ flash'["rw"][target] = Bad
            /\ flash'["rw"][1 - target] = flash["rw"][1 - target]
        BY <1>0, <1>6, <3>1, PutChanges DEF RecoverErase, RwFits, Recovering
      <4>2. QED
        BY <1>0, <4>1, StoredNext DEF Copies
    <3>2. CASE area = "ro"
      <4>1. flash'["rw"] = flash["rw"]
        BY <1>0, <1>6, <3>2, PutChanges DEF RecoverErase, Area
      <4>2. QED
        BY <4>1, StoredNext
    <3>3. QED
      BY <1>0, <3>1, <3>2 DEF Area
  <2>3. QED
    BY <2>1, <2>2 DEF Promise!vars
<1>7. CASE RecoverWrite
  <2>1. PICK v \in Vars : v = flash[area][1 - target]
    BY <1>0, <1>7 DEF RecoverWrite, SourceGood, Recovering, TypeOK, Copies
  <2>2. Put(area, v) /\ Loaded(v) /\ damaged' = damaged
        /\ pc = "recover_write"
    BY <1>7, <2>1 DEF RecoverWrite
  <2>3. CASE area = "rw"
    <3>1. /\ flash["rw"][target] = Bad /\ flash'["rw"][target] = v
          /\ flash'["rw"][1 - target] = v
      BY <1>0, <2>1, <2>2, <2>3, PutChanges DEF RwFits, Recovering
    <3>2. v = Stored("rw") /\ Stored("rw")' = Stored("rw")
      BY <1>0, <2>1, <2>3, <3>1, StoredNext DEF Copies
    <3>3. Promise!Open
      BY <1>2, <2>2, <2>3, <3>2
    <3>4. QED
      BY <3>3 DEF Promise!Next
  <2>4. CASE area = "ro"
    <3>1. flash'["rw"] = flash["rw"]
      BY <1>0, <2>1, <2>2, <2>4, PutChanges DEF Area
    <3>2. QED
      BY <1>3, <2>2, <2>4, <3>1, StoredNext DEF Promise!vars
  <2>5. QED
    BY <1>0, <2>3, <2>4 DEF Area
<1>8. CASE RecoverFails
  <2>1. PICK v \in {flash[area][target], Bad} : Put(area, v)
    BY <1>8 DEF RecoverFails
  <2>2. Recovering /\ Loaded(Empty) /\ damaged' = TRUE
        /\ v \in Vars \cup {Bad}
    BY <1>0, <1>8 DEF RecoverFails, Recovering, TypeOK
  <2>3. Stored("rw")' = Stored("rw")
    <3>1. CASE area = "rw"
      <4>1. /\ flash["rw"][target] = Bad
            /\ flash'["rw"][target] = Bad
            /\ flash'["rw"][1 - target] = flash["rw"][1 - target]
        BY <1>0, <2>1, <2>2, <3>1, PutChanges DEF RwFits
      <4>2. QED
        BY <1>0, <4>1, StoredNext DEF Copies
    <3>2. CASE area = "ro"
      <4>1. flash'["rw"] = flash["rw"]
        BY <1>0, <2>1, <2>2, <3>2, PutChanges DEF Area
      <4>2. QED
        BY <4>1, StoredNext
    <3>3. QED
      BY <1>0, <3>1, <3>2 DEF Area
  <2>4. View' \in Vars /\ Saving' = None
    BY <1>0, <2>2 DEF Loaded, View, Saving, Recovering, Area
  <2>5. Promise!Error
    BY <1>0, <2>2, <2>3, <2>4, AbstractTypes DEF Promise!Error, SpecTypes
  <2>6. QED
    BY <2>5 DEF Promise!Next
<1>9. QED
  BY <1>1, <1>4, <1>5, <1>6, <1>7, <1>8

\* Editing and saving: the save takes effect in one of its steps.
LEMMA SaveStep ==
  ASSUME IInv, ~damaged,
         savevar \/ SaveErase \/ SaveWrite \/ SaveFails
  PROVE  [Promise!Next]_(Promise!vars)
<1> USE VarsFacts
<1>0. /\ TypeOK /\ RwFits /\ target \in Copies /\ list["rw"] \in Vars
      /\ flash["rw"][0] \in Vars \cup {Bad} /\ flash["rw"][1] \in Vars \cup {Bad}
  BY DEF IInv, TypeOK, Area, Copies
<1>1. CASE savevar
  <2>1. /\ View = list["rw"] /\ View' = View /\ Saving = None
        /\ Saving' = list["rw"] /\ flash' = flash /\ damaged' = damaged
    BY <1>1 DEF savevar, View, Saving
  <2>2. Promise!Begin
    BY <1>0, <2>1, StoredNext DEF Promise!Begin
  <2>3. QED
    BY <2>2 DEF Promise!Next
<1>2. ASSUME pc = "erase",
             flash'["rw"][target] \in {flash["rw"][target], Bad},
             flash'["rw"][1 - target] = flash["rw"][1 - target]
      PROVE  Stored("rw")' \in {Stored("rw"), list["rw"]}
  <2>1. CASE flash'["rw"][target] = flash["rw"][target]
    BY <1>0, <1>2, <2>1, StoredNext DEF Copies
  <2>2. CASE flash'["rw"][target] = Bad /\ second
    <3>1. flash'["rw"][1 - target] = list["rw"]
      BY <1>0, <1>2, <2>2 DEF RwFits
    <3>2. QED
      BY <1>0, <2>2, <3>1, StoredNext DEF Copies
  <2>3. CASE flash'["rw"][target] = Bad /\ ~second
    <3>1. Settled /\ target = FirstToErase
      BY <1>0, <1>2, <2>3 DEF RwFits, Resting
    <3>2. CASE target = 0
      BY <1>0, <1>2, <2>3, <3>1, <3>2, StoredNext DEF Settled
    <3>3. CASE target = 1
      <4>1. flash["rw"][0] = flash["rw"][1]
        BY <3>1, <3>3 DEF Settled, FirstToErase
      <4>2. QED
        BY <1>0, <1>2, <2>3, <3>3, <4>1, StoredNext
    <3>4. QED
      BY <1>0, <3>2, <3>3 DEF Copies
  <2>4. QED
    BY <1>2, <2>1, <2>2, <2>3
<1>3. CASE SaveErase
  <2>1. /\ pc = "erase" /\ View' = View /\ Saving = list["rw"] /\ Saving' = Saving
        /\ View = list["rw"] /\ damaged' = damaged
    BY <1>3 DEF SaveErase, View, Saving
  <2>2. /\ flash'["rw"][target] = Bad
        /\ flash'["rw"][1 - target] = flash["rw"][1 - target]
    BY <1>0, <1>3, PutChanges DEF SaveErase, Area
  <2>3. Stored("rw")' \in {Stored("rw"), list["rw"]}
    BY <1>2, <2>1, <2>2
  <2>4. CASE Stored("rw")' = Stored("rw")
    BY <2>1, <2>4 DEF Promise!vars
  <2>5. CASE Stored("rw")' = list["rw"]
    <3>1. Promise!Commit
      BY <1>0, <2>1, <2>5 DEF Promise!Commit
    <3>2. QED
      BY <3>1 DEF Promise!Next
  <2>6. QED
    BY <2>3, <2>4, <2>5
<1>4. CASE SaveWrite
  <2>1. /\ pc = "write" /\ View' = View /\ Saving = list["rw"]
        /\ View = list["rw"] /\ damaged' = damaged
        /\ Saving' = IF second THEN None ELSE Saving
    BY <1>4 DEF SaveWrite, View, Saving
  <2>2. /\ flash["rw"][target] = Bad
        /\ flash'["rw"][target] = list["rw"]
        /\ flash'["rw"][1 - target] = flash["rw"][1 - target]
    BY <1>0, <1>4, PutChanges DEF SaveWrite, save_var, RwFits, Area
  <2>3. CASE second
    <3>1. flash["rw"][1 - target] = list["rw"]
      BY <1>0, <2>1, <2>3 DEF RwFits
    <3>2. Stored("rw") = list["rw"] /\ Stored("rw")' = list["rw"]
      BY <1>0, <2>2, <3>1, StoredNext DEF Copies
    <3>3. Promise!Succeed
      BY <1>0, <2>1, <2>3, <3>2 DEF Promise!Succeed
    <3>4. QED
      BY <3>3 DEF Promise!Next
  <2>4. CASE ~second
    <3>1. Stored("rw")' \in {Stored("rw"), list["rw"]}
      BY <1>0, <2>2, StoredNext DEF Copies
    <3>2. CASE Stored("rw")' = Stored("rw")
      BY <2>1, <2>4, <3>2 DEF Promise!vars
    <3>3. CASE Stored("rw")' = list["rw"]
      <4>1. Promise!Commit
        BY <1>0, <2>1, <2>4, <3>3 DEF Promise!Commit
      <4>2. QED
        BY <4>1 DEF Promise!Next
    <3>4. QED
      BY <3>1, <3>2, <3>3
  <2>5. QED
    BY <2>3, <2>4
<1>5. CASE SaveFails
  <2>1. PICK v \in {flash["rw"][target], Bad} : Put("rw", v)
    BY <1>5 DEF SaveFails
  <2>2. /\ flash'["rw"][target] = v
        /\ flash'["rw"][1 - target] = flash["rw"][1 - target]
    BY <1>0, <2>1, PutChanges DEF TypeOK, Area
  <2>3. /\ View' = View /\ Saving = list["rw"] /\ Saving' = None
        /\ damaged' = TRUE /\ pc \in {"erase", "write"}
    BY <1>5 DEF SaveFails, View, Saving
  <2>4. Stored("rw")' \in {Stored("rw"), list["rw"]}
    <3>1. CASE pc = "erase"
      BY <1>2, <2>1, <2>2, <3>1
    <3>2. CASE pc = "write"
      <4>1. flash["rw"][target] = Bad
        BY <1>0, <3>2 DEF RwFits
      <4>2. QED
        BY <1>0, <2>1, <2>2, <4>1, StoredNext DEF Copies
    <3>3. QED
      BY <2>3, <3>1, <3>2
  <2>5. Promise!Error
    BY <1>0, <2>3, <2>4, AbstractTypes DEF Promise!Error, SpecTypes
  <2>6. QED
    BY <2>5 DEF Promise!Next
<1>6. QED
  BY <1>1, <1>3, <1>4, <1>5

\* Every step of Sysvar is a step of SysvarSpec or changes nothing that it sees.
LEMMA Simulation == IInv /\ [Next]_vars => [Promise!Next]_(Promise!vars)
<1> SUFFICES ASSUME IInv, [Next]_vars PROVE [Promise!Next]_(Promise!vars)
  OBVIOUS
<1>0. TypeOK
  BY DEF IInv
<1>1. CASE Next /\ damaged
  BY <1>1, HarmStep DEF Promise!Next
<1>2. ASSUME NEW n \in Names, NEW v \in Values \cup {Unset}, setvar(n, v)
      PROVE  Promise!Edit
  <2>1. /\ list["rw"] \in Vars /\ list'["rw"] \in Vars
    BY <1>0, <1>2, ListTyped DEF setvar, TypeOK, Area
  <2>2. QED
    BY <1>2, <2>1, StoredNext, VarsFacts DEF setvar, View, Saving, Promise!Edit
<1>3. ASSUME clear_cmd PROVE Promise!Edit
  <2>1. list["rw"] \in Vars /\ list'["rw"] = Empty
    BY <1>0, <1>3 DEF clear_cmd, TypeOK, Area
  <2>2. QED
    BY <1>3, <2>1, StoredNext, VarsFacts DEF clear_cmd, View, Saving, Promise!Edit
<1>4. ASSUME close_mtd \/ PowerCut PROVE Promise!Close
  <2>1. pc' = "off" /\ flash' = flash /\ damaged' = FALSE
    BY <1>4 DEF close_mtd, PowerCut
  <2>2. QED
    BY <2>1 DEF Promise!Close, Stored, Intact, View, Saving
<1>5. CASE UNCHANGED vars
  BY <1>5, StoredNext DEF vars, View, Saving, Promise!vars
<1>6. QED
  BY <1>1, <1>2, <1>3, <1>4, <1>5, LoadStep, SaveStep
     DEF Next, delete_cmd, Promise!Next

\* A save is atomic and lasting: what the programs see of the read-write
\* partitions is what SysvarSpec promises, with power cuts and kills between and
\* inside all operations of data_load, data_recovery and data_save.
THEOREM SavesAtomic == Spec => ImplementsSysvarSpec
<1>1. Init => Promise!Init
  <2>1. Init => TypeOK
    BY InitInv DEF IInv
  <2>2. QED
    BY <2>1, AbstractTypes DEF Init, View, Saving, SpecTypes, Promise!Init
<1>2. QED
  BY <1>1, Simulation, InductiveInvariant, PTL
     DEF Spec, ImplementsSysvarSpec, Promise!Spec

-----------------------------------------------------------------------------
(* The fan *)

\* What the files of /tmp/gpio can hold.
GpioFiles ==
  [fanpercent : {Missing} \cup 0..Full, fanspeed : {Missing, 0, 1},
   cpu_temperature : {Missing, Unread} \cup Temps, ready : {Missing, 1}]

\* The types of the files and of what each process knows; a probe has read the
\* temperature before it adjusts the fan, and kicks a fan only to let it turn.
GpioTyped ==
  /\ soc \in Temps /\ pin \in 0..Full
  /\ file \in GpioFiles
  /\ gpio_pc \in {"down", "control", "capture", "poll"}
  /\ cpu_temp \in {Unwritten, Unread} \cup Temps
  /\ fanspeed \in {Unwritten, 0, 1} /\ readyval \in {Unwritten, 1}
  /\ fan_detected_speed \in {0, 1} /\ fan_loop_count \in 0..(Loops - 1)

MonTyped ==
  /\ mon_pc \in {"down", "probe", "adjust", "kick"}
  /\ duty \in 0..Full /\ want \in 0..Full /\ hdd_temp \in Nat
  /\ soc_temp \in {Missing, Unread} \cup Temps
  /\ overheating \in 0..(OVERHEATING_COUNT - 1)
  /\ mon_pc = "adjust" => soc_temp \in {Unread} \cup Temps
  /\ mon_pc = "kick" => want > 0

FanTyped == GpioTyped /\ MonTyped

\* What the controller relies on, for one sensor.
LEMMA SaneParams ==
  ASSUME NEW p, Sane(p, Startup, Full)
  PROVE  /\ p.temp_setpt \in Nat /\ p.temp_max \in Nat /\ p.temp_step \in Nat
         /\ p.duty_cycle_min \in 1..Full /\ p.duty_cycle_max \in 1..Full
         /\ p.pwm_step \in Nat \ {0} /\ p.temp_overheat \in Nat
         /\ p.temp_setpt + p.temp_step <= p.temp_max
BY GpioAssumption DEF Sane

\* A kick makes the fan turn.
LEMMA StartupTyped == Startup \in 1..Full
BY MonAssumption, GpioAssumption DEF Sane

\* A duty cycle stays within the limits.  Only a cool sensor asks for a fan that
\* does not turn, or one that leaves things as they are.
LEMMA ComputeOneBounds ==
  ASSUME NEW p, Sane(p, Startup, Full), NEW t \in Nat, NEW v \in {0, 1},
         NEW d \in 0..Full
  PROVE  /\ ComputeOne(t, v, p, d) \in 0..Full
         /\ ComputeOne(t, v, p, d) = 0 => Cool(t, p) \/ d = 0
<1>1. /\ p.temp_setpt \in Nat /\ p.temp_max \in Nat /\ p.temp_step \in Nat
      /\ p.duty_cycle_min \in 1..Full /\ p.duty_cycle_max \in 1..Full
      /\ p.pwm_step \in Nat \ {0}
  BY SaneParams
<1>2. CASE t > p.temp_max
  BY <1>1, <1>2, GpioAssumption DEF ComputeOne
<1>3. CASE ~(t > p.temp_max) /\ t > p.temp_setpt + p.temp_step
  BY <1>1, <1>3, GpioAssumption DEF ComputeOne
<1>4. CASE ~(t > p.temp_max) /\ ~(t > p.temp_setpt + p.temp_step)
             /\ t + p.temp_step < p.temp_setpt
  BY <1>1, <1>4, GpioAssumption DEF ComputeOne, Cool
<1>5. CASE ~(t > p.temp_max) /\ ~(t > p.temp_setpt + p.temp_step)
             /\ ~(t + p.temp_step < p.temp_setpt)
  BY <1>1, <1>5, GpioAssumption DEF ComputeOne
<1>6. QED
  BY <1>2, <1>3, <1>4, <1>5

\* The larger of two numbers.
LEMMA MaxOfTwo ==
  ASSUME NEW m \in Nat, NEW n \in Nat
  PROVE  Max({m, n}) \in {m, n} /\ Max({m, n}) >= m /\ Max({m, n}) >= n
<1>1. \E x \in {m, n} : \A y \in {m, n} : x >= y
  <2>1. m >= n \/ n >= m
    OBVIOUS
  <2>2. QED
    BY <2>1
<1>2. QED
  BY <1>1 DEF Max

\* A temperature that cannot be is cast to one that can, and to a cool one only if
\* it looks cool itself.
LEMMA CastBounds ==
  ASSUME soc_temp \in {Unread} \cup Temps, NEW temp \in Cast(soc_temp)
  PROVE  temp \in Nat /\ (Cool(temp, Soc) => Cool(soc_temp, Soc))
<1>1. Soc.temp_setpt \in Nat /\ Soc.temp_step \in Nat
  BY MonAssumption, SaneParams
<1>2. CASE soc_temp \in Temps
  BY <1>2, GpioAssumption DEF Cast
<1>3. CASE soc_temp = Unread
  <2>1. temp \in {0, 65535}
    BY <1>3 DEF Cast, Unread
  <2>2. QED
    BY <1>1, <1>3, <2>1 DEF Cool, Unread
<1>4. QED
  BY <1>2, <1>3

\* Of both sensors: the duty cycle is 0 only if both are cool, or if it was 0.
LEMMA DutyCycleBounds ==
  ASSUME FanTyped, mon_pc = "adjust", NEW temp \in Cast(soc_temp), NEW new,
         new = ComputeDutyCycle(temp, hdd_temp, ReadFanSpeed)
  PROVE  /\ new \in 0..Full
         /\ new = 0 => duty = 0 \/ (Cool(soc_temp, Soc) /\ Cool(hdd_temp, Hdd))
<1> DEFINE s == ComputeOne(temp, ReadFanSpeed, Soc, duty)
           h == ComputeOne(hdd_temp, ReadFanSpeed, Hdd, duty)
<1>1. /\ temp \in Nat /\ hdd_temp \in Nat /\ duty \in 0..Full
      /\ Cool(temp, Soc) => Cool(soc_temp, Soc)
  BY CastBounds DEF FanTyped, MonTyped
<1>2. ReadFanSpeed \in {0, 1}
  BY DEF GpioFiles, FanTyped, GpioTyped, ReadFanSpeed
<1>3. /\ s \in 0..Full /\ (s = 0 => Cool(temp, Soc) \/ duty = 0)
      /\ h \in 0..Full /\ (h = 0 => Cool(hdd_temp, Hdd) \/ duty = 0)
  BY <1>1, <1>2, MonAssumption, ComputeOneBounds
<1>4. new = Max({s, h})
  BY DEF ComputeDutyCycle
<1> HIDE DEF s, h
<1>5. new \in {s, h} /\ new >= s /\ new >= h
  BY <1>3, <1>4, MaxOfTwo, GpioAssumption
<1>6. new = 0 => s = 0 /\ h = 0
  BY <1>3, <1>5, GpioAssumption
<1>7. QED
  BY <1>1, <1>3, <1>5, <1>6

\* Writing a duty cycle, which may fail.
LEMMA DrivePwmTyped ==
  ASSUME FanTyped, NEW d \in 0..Full, NEW rtn \in BOOLEAN, DrivePwm(d, rtn)
  PROVE  /\ duty' = d
         /\ file' \in GpioFiles
         /\ file'.fanpercent \in {file.fanpercent, Missing, d}
<1>1. file \in GpioFiles
  BY DEF FanTyped, GpioTyped
<1>2. CASE UNCHANGED file
  BY <1>1, <1>2 DEF DrivePwm
<1>3. CASE \E v \in {d, file.fanpercent, Missing} :
             file' = [file EXCEPT !.fanpercent = v]
  <2>1. PICK v \in {d, file.fanpercent, Missing} : file' = [file EXCEPT !.fanpercent = v]
    BY <1>3
  <2>2. v \in {Missing} \cup 0..Full
    BY <1>1, <2>1 DEF GpioFiles
  <2>3. QED
    BY <1>1, <2>1, <2>2 DEF GpioFiles, DrivePwm
<1>4. QED
  BY <1>2, <1>3 DEF DrivePwm

\* Writing one of the other files, which may fail.
LEMMA WriteTyped ==
  ASSUME file \in GpioFiles, NEW last, NEW value, NEW name,
         \/ name = "fanspeed" /\ value \in {0, 1}
         \/ name = "cpu_temperature" /\ value \in {Unread} \cup Temps
         \/ name = "ready" /\ value = 1,
         Write(name, last, value)
  PROVE  file' \in GpioFiles /\ file'.fanpercent = file.fanpercent
<1>1. CASE UNCHANGED file
  BY <1>1
<1>2. CASE \E v \in {value, file[name], IF name = "ready" THEN value ELSE Missing} :
             file' = [file EXCEPT ![name] = v]
  <2>1. PICK v \in {value, file[name], IF name = "ready" THEN value ELSE Missing} :
          file' = [file EXCEPT ![name] = v]
    BY <1>2
  <2>2. CASE name = "fanspeed"
    BY <2>1, <2>2 DEF GpioFiles
  <2>3. CASE name = "cpu_temperature"
    BY <2>1, <2>3 DEF GpioFiles
  <2>4. CASE name = "ready"
    BY <2>1, <2>4 DEF GpioFiles
  <2>5. QED
    BY <2>2, <2>3, <2>4
<1>3. QED
  BY <1>1, <1>2 DEF Write

\* The steps of gpio-mailbox keep the types, and leave fanpercent alone.
LEMMA GpioStep ==
  ASSUME FanTyped, GpioNext \/ TempChanges, UNCHANGED mon_vars
  PROVE  FanTyped' /\ file'.fanpercent = file.fanpercent
<1>1. MonTyped'
  BY DEF FanTyped, MonTyped, mon_vars
<1>2. /\ soc' \in Temps /\ pin' \in 0..Full
      /\ gpio_pc' \in {"down", "control", "capture", "poll"}
  <2>1. Wantspeed \in 0..Full
    BY GpioAssumption DEF GpioFiles, Wantspeed, FanTyped, GpioTyped
  <2>2. Full \in 0..Full
    BY GpioAssumption
  <2>3. QED
    BY <2>1, <2>2 DEF FanTyped, GpioTyped, GpioNext, TempChanges, StartGpio, ControlFan,
       SkipControl, CaptureTemp, CaptureFails, Capture, PollFan, ShutDownGpio, KillGpio,
       EndGpio, gpio_vars
<1>3. /\ cpu_temp' \in {Unwritten, Unread} \cup Temps
      /\ fanspeed' \in {Unwritten, 0, 1} /\ readyval' \in {Unwritten, 1}
  BY DEF FanTyped, GpioTyped, GpioNext, TempChanges, StartGpio, ControlFan, SkipControl,
     CaptureTemp, CaptureFails, Capture, PollFan, ShutDownGpio, KillGpio, EndGpio,
     gpio_vars, remembered
<1>4. fan_detected_speed' \in {0, 1} /\ fan_loop_count' \in 0..(Loops - 1)
  <2>1. CASE PollFan
    BY <2>1, GpioAssumption DEF FanTyped, GpioTyped, PollFan, Spins
  <2>2. CASE ShutDownGpio \/ KillGpio
    BY <2>2, GpioAssumption DEF ShutDownGpio, KillGpio, EndGpio
  <2>3. CASE UNCHANGED <<fan_detected_speed, fan_loop_count>>
    BY <2>3 DEF FanTyped, GpioTyped
  <2>4. QED
    BY <2>1, <2>2, <2>3 DEF GpioNext, TempChanges, StartGpio, ControlFan, SkipControl,
       CaptureTemp, CaptureFails, Capture, gpio_vars
<1>5. /\ file' \in GpioFiles
      /\ file'.fanpercent = file.fanpercent
  <2>1. /\ file \in GpioFiles
        /\ soc \in Temps /\ fan_detected_speed \in {0, 1}
    BY DEF FanTyped, GpioTyped
  <2>2. CASE ControlFan
    BY <2>1, <2>2, WriteTyped DEF ControlFan
  <2>3. CASE CaptureTemp
    BY <2>1, <2>3, WriteTyped DEF CaptureTemp, Capture
  <2>4. CASE CaptureFails
    BY <2>1, <2>4, WriteTyped DEF CaptureFails, Capture
  <2>5. CASE PollFan
    BY <2>1, <2>5, WriteTyped DEF PollFan
  <2>6. CASE UNCHANGED file
    BY <2>1, <2>6
  <2>7. QED
    BY <2>2, <2>3, <2>4, <2>5, <2>6 DEF GpioNext, TempChanges, StartGpio, SkipControl,
       ShutDownGpio, KillGpio
<1>6. QED
  BY <1>1, <1>2, <1>3, <1>4, <1>5 DEF FanTyped, GpioTyped

\* A probe adjusts the fan.  A new duty cycle of 0 is written only when both
\* sensors are cool: else the duty cycle was 0 and nothing is written.
LEMMA AdjustStep ==
  ASSUME FanTyped, AdjustSpeed
  PROVE  /\ FanTyped'
         /\ file'.fanpercent # file.fanpercent /\ file'.fanpercent = 0 =>
              Cool(soc_temp, Soc) /\ Cool(hdd_temp, Hdd)
<1>1. /\ mon_pc = "adjust" /\ soc_temp' = Missing
      /\ UNCHANGED <<soc, pin, gpio_vars, hdd_temp>> /\ Overheating
  BY DEF AdjustSpeed
<1>2. PICK temp \in Cast(soc_temp), rtn \in BOOLEAN :
        LET new == ComputeDutyCycle(temp, hdd_temp, ReadFanSpeed)
        IN \/ mon_pc' = "probe" /\ new = duty /\ UNCHANGED <<file, duty, want>>
           \/ /\ new > duty /\ DrivePwm(Startup, rtn)
              /\ \/ mon_pc' = "probe" /\ want' = want
                 \/ mon_pc' = "kick" /\ want' = new
           \/ mon_pc' = "probe" /\ new # duty /\ DrivePwm(new, rtn) /\ want' = want
  BY DEF AdjustSpeed
<1> DEFINE new == ComputeDutyCycle(temp, hdd_temp, ReadFanSpeed)
<1>3. /\ new \in 0..Full
      /\ new = 0 => duty = 0 \/ (Cool(soc_temp, Soc) /\ Cool(hdd_temp, Hdd))
  BY <1>1, DutyCycleBounds
<1>4. overheating' \in 0..(OVERHEATING_COUNT - 1)
  BY <1>1, MonAssumption DEF Overheating, FanTyped, MonTyped
<1>5. \/ mon_pc' = "probe" /\ new = duty /\ UNCHANGED <<file, duty, want>>
      \/ /\ new > duty /\ DrivePwm(Startup, rtn)
         /\ \/ mon_pc' = "probe" /\ want' = want
            \/ mon_pc' = "kick" /\ want' = new
      \/ mon_pc' = "probe" /\ new # duty /\ DrivePwm(new, rtn) /\ want' = want
  BY <1>2
<1> HIDE DEF new
<1>6. SUFFICES
        /\ duty' \in 0..Full /\ want' \in 0..Full
        /\ mon_pc' \in {"probe", "kick"} /\ (mon_pc' = "kick" => want' > 0)
        /\ file' \in GpioFiles
        /\ file'.fanpercent # file.fanpercent /\ file'.fanpercent = 0 =>
             Cool(soc_temp, Soc) /\ Cool(hdd_temp, Hdd)
  BY <1>1, <1>4 DEF FanTyped, GpioTyped, MonTyped, gpio_vars, remembered
<1>7. CASE mon_pc' = "probe" /\ new = duty /\ UNCHANGED <<file, duty, want>>
  BY <1>7 DEF FanTyped, GpioTyped, MonTyped
<1>8. CASE new > duty /\ DrivePwm(Startup, rtn)
  <2>1. /\ duty' = Startup
        /\ file' \in GpioFiles
        /\ file'.fanpercent \in {file.fanpercent, Missing, Startup}
    BY <1>8, StartupTyped, DrivePwmTyped, GpioAssumption
  <2>2. /\ mon_pc' \in {"probe", "kick"} /\ want' \in {want, new}
        /\ mon_pc' = "kick" => want' = new
    BY <1>5, <1>8
  <2>3. new > 0
    BY <1>3, <1>8 DEF FanTyped, MonTyped
  <2>4. QED
    BY <1>3, <2>1, <2>2, <2>3, StartupTyped, GpioAssumption DEF FanTyped, MonTyped
<1>9. CASE mon_pc' = "probe" /\ new # duty /\ DrivePwm(new, rtn) /\ want' = want
  <2>1. /\ duty' = new
        /\ file' \in GpioFiles
        /\ file'.fanpercent \in {file.fanpercent, Missing, new}
    BY <1>3, <1>9, DrivePwmTyped
  <2>2. QED
    BY <1>3, <1>9, <2>1, GpioAssumption DEF FanTyped, MonTyped
<1>10. QED
  BY <1>5, <1>7, <1>8, <1>9

\* The other steps of sysmgr write no duty cycle of 0.
LEMMA MonStep ==
  ASSUME FanTyped, StartMon \/ ReadTemps \/ AdjustAfterKick \/ KillMon
  PROVE  FanTyped' /\ (file'.fanpercent = 0 => file.fanpercent = 0)
<1>1. CASE StartMon
  <2>1. Soc.duty_cycle_min \in 0..Full
    BY MonAssumption, SaneParams, GpioAssumption
  <2>2. duty' \in 0..Full
    BY <1>1, <2>1 DEF GpioFiles, StartMon, FanTyped, GpioTyped
  <2>3. QED
    BY <1>1, <2>2 DEF StartMon, FanTyped, GpioTyped, MonTyped, gpio_vars, remembered
<1>2. CASE ReadTemps
  <2>1. hdd_temp' \in Nat
    <3>1. hdd_temp' \in HddTemps \cup {0, hdd_temp}
      BY <1>2 DEF ReadTemps
    <3>2. QED
      BY <3>1, MonAssumption DEF FanTyped, MonTyped
  <2>2. /\ mon_pc' \in {"probe", "adjust"}
        /\ soc_temp' \in {Missing, Unread} \cup Temps
        /\ mon_pc' = "adjust" => soc_temp' \in {Unread} \cup Temps
    BY <1>2 DEF GpioFiles, ReadTemps, FanTyped, GpioTyped, MonTyped
  <2>3. QED
    BY <1>2, <2>1, <2>2 DEF ReadTemps, FanTyped, GpioTyped, MonTyped, gpio_vars,
       remembered
<1>3. CASE AdjustAfterKick
  <2>1. /\ mon_pc = "kick" /\ mon_pc' = "probe" /\ want' = 0
        /\ UNCHANGED <<soc, pin, gpio_vars, hdd_temp, soc_temp, overheating>>
    BY <1>3 DEF AdjustAfterKick
  <2>2. want \in 0..Full /\ want > 0
    BY <2>1 DEF FanTyped, MonTyped
  <2>3. /\ duty' = want
        /\ file' \in GpioFiles
        /\ file'.fanpercent \in {file.fanpercent, Missing, want}
    BY <1>3, <2>2, DrivePwmTyped DEF AdjustAfterKick
  <2>4. 0 \in 0..Full /\ Missing # 0
    BY GpioAssumption
  <2>5. QED
    BY <2>1, <2>2, <2>3, <2>4 DEF FanTyped, GpioTyped, MonTyped, gpio_vars, remembered
<1>4. CASE KillMon
  <2>1. 0 \in 0..Full /\ 0 \in 0..(OVERHEATING_COUNT - 1) /\ 0 \in Nat
    BY GpioAssumption, MonAssumption
  <2>2. QED
    BY <1>4, <2>1 DEF KillMon, FanTyped, GpioTyped, MonTyped, gpio_vars, remembered
<1>5. QED
  BY <1>1, <1>2, <1>3, <1>4

\* The types of the files, the pins and both processes.
THEOREM FanTypeCorrect == FanSpec => []FanTyped
<1>1. FanInit => FanTyped
  <2> SUFFICES ASSUME FanInit PROVE FanTyped
    OBVIOUS
  <2>1. Full \in 0..Full /\ 0 \in 0..Full /\ 0 \in 0..(Loops - 1)
        /\ 0 \in 0..(OVERHEATING_COUNT - 1)
    BY GpioAssumption, MonAssumption
  <2>2. GpioTyped
    BY <2>1 DEF GpioFiles, FanInit, InitGpio, GpioTyped
  <2>3. MonTyped
    BY <2>1 DEF FanInit, InitMon, MonTyped
  <2>4. QED
    BY <2>2, <2>3 DEF FanTyped
<1>2. FanTyped /\ [FanNext]_fan_vars => FanTyped'
  <2> SUFFICES ASSUME FanTyped, [FanNext]_fan_vars PROVE FanTyped'
    OBVIOUS
  <2>1. CASE UNCHANGED fan_vars
    BY <2>1 DEF fan_vars, gpio_vars, remembered, mon_vars, FanTyped, GpioTyped, MonTyped
  <2>2. CASE FanNext
    BY <2>2, GpioStep, MonStep, AdjustStep DEF FanNext, Mon
  <2>3. QED
    BY <2>1, <2>2
<1>3. QED
  BY <1>1, <1>2, PTL DEF FanSpec

\* The fan is switched off only by a probe that found every sensor cool, for all
\* parameters that the controller can rely on: a failed write, a stale speed or a
\* kill of either process does not make sysmgr write a duty cycle of 0.
THEOREM FanStopsWhenCool == FanSpec => StopsOnlyWhenCool
<1>1. FanTyped /\ [FanNext]_fan_vars
        => [file.fanpercent # 0 /\ file'.fanpercent = 0
              => Cool(soc_temp, Soc) /\ Cool(hdd_temp, Hdd)]_fan_vars
  <2> SUFFICES ASSUME FanTyped, FanNext, file.fanpercent # 0, file'.fanpercent = 0
               PROVE  Cool(soc_temp, Soc) /\ Cool(hdd_temp, Hdd)
    OBVIOUS
  <2>1. CASE AdjustSpeed
    BY <2>1, AdjustStep
  <2>2. CASE ~AdjustSpeed
    BY <2>2, GpioStep, MonStep DEF FanNext, Mon
  <2>3. QED
    BY <2>1, <2>2
<1>2. QED
  BY <1>1, FanTypeCorrect, PTL DEF FanSpec, StopsOnlyWhenCool

=============================================================================
