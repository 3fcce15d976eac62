------------------------- MODULE ProvisioningProofs -------------------------
(***************************************************************************)
(* Proofs about the two classes with which conman provisions over open     *)
(* networks: Ratchet, for any number of steps, any timeouts and any bound  *)
(* on time; and Cycler, for any set of items, any positive priorities and  *)
(* any cycle length, in time without end (the bounds MaxGap and MaxAge are *)
(* not used).                                                              *)
(***************************************************************************)
EXTENDS Ratchet, Cycler, TLAPS

-----------------------------------------------------------------------------
(* The ratchet *)

\* check runs only while an attempt is under way.
CheckingPending == pc # "idle" => Pending

\* A file whose modification time differs from the one at the last reset has
\* been touched or removed since.
ChangesSeen ==
  \A i \in Touch : mtime[i] # initial_mtime[i] => changed_at[i] # None

\* StepsInOrder needs to know that a check never runs after a timeout; ClocksFit
\* needs to know which steps are done.
IInv ==
  TypeOK /\ StepsInOrder /\ ClocksFit /\ CheckingPending /\ ChangesSeen
    /\ DoneMeansTouched

-----------------------------------------------------------------------------
\* The ratchet starts in order.
LEMMA InitIInv == Init => IInv
<1> SUFFICES ASSUME Init PROVE IInv
  OBVIOUS
<1> USE RatchetAssumption DEF Init, Step, None
<1>1. TypeOK
  <2>1. /\ now \in Time /\ current \in Step /\ done \in Time \cup {None}
        /\ pc \in {"idle", "evaluate", "mtime", "clock"}
    BY DEF Time
  <2>2. /\ start_at \in [Step -> Time] /\ not_done_before \in [Step -> Time]
        /\ done_after \in [Step -> Time \cup {None}]
        /\ done_by \in [Step -> Time \cup {None}]
        /\ changed_at \in [Step -> Time \cup {None}]
    BY DEF Time
  <2>3. /\ initial_mtime \in [Step -> Mtimes \cup {None}]
        /\ mtime \in [Step -> Mtimes \cup {None}]
    OBVIOUS
  <2>4. /\ timed_out \in [Step -> BOOLEAN] /\ active \in BOOLEAN
        /\ holds \in [Step -> BOOLEAN]
    OBVIOUS
  <2>5. QED
    BY <2>1, <2>2, <2>3, <2>4 DEF TypeOK
<1>2. StepsInOrder /\ CheckingPending
  BY DEF StepsInOrder, CheckingPending
<1>3. ClocksFit
  BY DEF ClocksFit
<1>4. ChangesSeen /\ DoneMeansTouched
  BY DEF ChangesSeen, DoneMeansTouched
<1>5. QED
  BY <1>1, <1>2, <1>3, <1>4 DEF IInv

\* Every step keeps the types.
LEMMA TypeStep == TypeOK /\ CheckingPending /\ [Next]_vars => TypeOK'
<1> SUFFICES ASSUME TypeOK, CheckingPending, [Next]_vars PROVE TypeOK'
  OBVIOUS
<1> USE RatchetAssumption DEF TypeOK, Step, Time, None
<1>1. CASE Start
  BY <1>1 DEF Start, ResetSteps, world
<1>2. CASE Stop
  BY <1>2 DEF Stop, steps, world
<1>3. CASE CheckBegin \/ Exists \/ NotDone
  <2>1. /\ pc' \in {"evaluate", "mtime", "clock"}
        /\ UNCHANGED <<now, steps, current, active, done, world, changed_at>>
    BY <1>3 DEF CheckBegin, Exists, NotDone
  <2>2. QED
    BY <2>1 DEF steps, world
<1>4. CASE Advance
  <2>1. current' \in Step
    BY <1>4 DEF Advance
  <2>2. /\ start_at' \in [Step -> Time]
        /\ done_after' \in [Step -> Time \cup {None}]
        /\ done_by' \in [Step -> Time \cup {None}]
    BY <1>4 DEF Advance, MarkStepDone
  <2>3. /\ pc' = "evaluate"
        /\ UNCHANGED <<now, timed_out, not_done_before, initial_mtime, active,
                       done, holds, mtime, changed_at>>
    BY <1>4 DEF Advance, world
  <2>4. QED
    BY <2>1, <2>2, <2>3
<1>5. CASE Finish
  BY <1>5 DEF Finish, MarkStepDone, world
<1>6. CASE TimeOut
  BY <1>6 DEF TimeOut, world
<1>7. CASE Wait
  BY <1>7 DEF Wait, world
<1>8. CASE Tick
  BY SMTT(30), <1>8 DEF Tick, steps, world
<1>9. ASSUME NEW i \in Step, Flip(i) PROVE TypeOK'
  BY <1>9 DEF Flip, steps
<1>10. ASSUME NEW i \in Step, TouchFile(i) \/ RemoveFile(i) PROVE TypeOK'
  <2>1. mtime' \in [Step -> Mtimes \cup {None}]
    BY <1>10 DEF TouchFile, RemoveFile
  <2>2. changed_at' \in [Step -> Time \cup {None}]
    <3>1. changed_at' \in {changed_at, [changed_at EXCEPT ![i] = now]}
      BY <1>10 DEF TouchFile, RemoveFile
    <3>2. QED
      BY <3>1
  <2>3. UNCHANGED <<now, steps, current, active, done, pc, holds>>
    BY <1>10 DEF TouchFile, RemoveFile
  <2>4. QED
    BY <2>1, <2>2, <2>3 DEF steps
<1>11. CASE UNCHANGED vars
  BY <1>11 DEF vars, steps, world
<1>12. QED
  BY <1>1, <1>2, <1>3, <1>4, <1>5, <1>6, <1>7, <1>8, <1>9, <1>10, <1>11
     DEF Next, Check, World

\* Every step keeps the steps in order.
LEMMA OrderStep ==
  TypeOK /\ StepsInOrder /\ CheckingPending /\ [Next]_vars
    => StepsInOrder' /\ CheckingPending'
<1> SUFFICES ASSUME TypeOK, StepsInOrder, CheckingPending, [Next]_vars
             PROVE  StepsInOrder' /\ CheckingPending'
  OBVIOUS
<1> USE RatchetAssumption
    DEF TypeOK, StepsInOrder, CheckingPending, Pending, Step, Time, None
<1>1. CASE Start
  BY <1>1 DEF Start, ResetSteps, world
<1>2. CASE Stop
  BY <1>2 DEF Stop, steps, world
<1>3. CASE CheckBegin \/ Exists \/ NotDone
  <2>1. UNCHANGED <<now, start_at, done_after, done_by, timed_out,
                    not_done_before, current, active, done>> /\ Pending
    BY <1>3 DEF CheckBegin, Exists, NotDone, EvaluatesFalse, steps, CheckingPending,
                Pending
  <2>2. QED
    BY <2>1
<1>4. CASE Advance
  BY SMTT(30), <1>4 DEF Advance, EvaluatesTrue, MarkStepDone, world
<1>5. CASE Finish
  BY <1>5 DEF Finish, EvaluatesTrue, MarkStepDone, world
<1>6. CASE TimeOut
  BY <1>6 DEF TimeOut, world
<1>7. CASE Wait
  BY <1>7 DEF Wait, world
<1>8. CASE Tick
  BY <1>8 DEF Tick, steps, world
<1>9. ASSUME NEW i \in Step, Flip(i) \/ TouchFile(i) \/ RemoveFile(i)
      PROVE  StepsInOrder' /\ CheckingPending'
  <2>1. UNCHANGED <<now, start_at, done_after, done_by, timed_out,
                    not_done_before, current, active, done, pc>>
    BY <1>9 DEF Flip, TouchFile, RemoveFile, steps
  <2>2. QED
    BY <2>1
<1>10. CASE UNCHANGED vars
  BY <1>10 DEF vars, steps, world
<1>11. QED
  BY <1>1, <1>2, <1>3, <1>4, <1>5, <1>6, <1>7, <1>8, <1>9, <1>10
     DEF Next, Check, World

\* Every step keeps the clocks of the steps consistent.
LEMMA ClockStep == IInv /\ [Next]_vars => ClocksFit'
<1> SUFFICES ASSUME TypeOK, StepsInOrder, CheckingPending, ClocksFit, [Next]_vars
             PROVE  ClocksFit'
  BY DEF IInv
<1> USE RatchetAssumption
    DEF TypeOK, ClocksFit, Step, Time, None
<1>1. CASE Start
  BY <1>1 DEF Start, ResetSteps, world
<1>2. CASE Stop
  BY <1>2 DEF Stop, steps, world
<1>3. CASE CheckBegin \/ Exists \/ NotDone
  <2>1. UNCHANGED <<now, start_at, done_after, done_by, timed_out,
                    not_done_before, current, active, done>> /\ Pending
    BY <1>3 DEF CheckBegin, Exists, NotDone, EvaluatesFalse, steps, CheckingPending,
                Pending
  <2>2. QED
    BY <2>1
<1>4. CASE Advance
  <2>1. /\ current < N /\ current' = current + 1 /\ now' = now
        /\ start_at' = [start_at EXCEPT ![current + 1] = now]
        /\ done_after' = [done_after EXCEPT ![current] = not_done_before[current]]
        /\ done_by' = [done_by EXCEPT ![current] = now]
        /\ not_done_before' = not_done_before
    BY <1>4 DEF Advance, MarkStepDone
  <2>2. \A i \in Step : i > current => done_by[i] = None
    BY <1>4 DEF Advance, EvaluatesTrue, StepsInOrder, CheckingPending, Pending
  <2>3. ASSUME NEW i \in Step
        PROVE  /\ start_at'[i] <= now' /\ not_done_before'[i] <= now'
               /\ done_by'[i] # None =>
                    done_after'[i] <= done_by'[i] /\ start_at'[i] <= done_by'[i]
    BY SMTT(30), <2>1, <2>2
  <2>4. ASSUME NEW i \in Step, i > 1, i <= current'
        PROVE  start_at'[i] = done_by'[i - 1]
    <3>1. CASE i = current + 1
      BY <2>1, <3>1
    <3>2. CASE i <= current
      BY <2>1, <2>4, <3>2
    <3>3. QED
      BY <2>1, <2>4, <3>1, <3>2
  <2>5. QED
    BY <2>3, <2>4
<1>5. CASE Finish
  BY <1>5 DEF Finish, EvaluatesTrue, MarkStepDone, world, StepsInOrder, CheckingPending,
              Pending
<1>6. CASE TimeOut
  BY <1>6 DEF TimeOut, world
<1>7. CASE Wait
  BY <1>7 DEF Wait, world
<1>8. CASE Tick
  BY SMTT(30), <1>8 DEF Tick, steps, world
<1>9. ASSUME NEW i \in Step, Flip(i) \/ TouchFile(i) \/ RemoveFile(i)
      PROVE  ClocksFit'
  <2>1. UNCHANGED <<now, start_at, done_after, done_by, timed_out,
                    not_done_before, current, active, done, pc>>
    BY <1>9 DEF Flip, TouchFile, RemoveFile, steps
  <2>2. QED
    BY <2>1
<1>10. CASE UNCHANGED vars
  BY <1>10 DEF vars, steps, world
<1>11. QED
  BY <1>1, <1>2, <1>3, <1>4, <1>5, <1>6, <1>7, <1>8, <1>9, <1>10
     DEF Next, Check, World

\* Every step keeps the record of the touched files.
LEMMA TouchStep ==
  IInv /\ [Next]_vars => ChangesSeen' /\ DoneMeansTouched'
<1> SUFFICES ASSUME TypeOK, ChangesSeen, DoneMeansTouched, [Next]_vars
             PROVE  ChangesSeen' /\ DoneMeansTouched'
  BY DEF IInv
<1> USE RatchetAssumption
    DEF TypeOK, ChangesSeen, DoneMeansTouched, Step, Time, None
<1>1. CASE Start
  BY <1>1 DEF Start, ResetSteps, world
<1>2. CASE Stop \/ CheckBegin \/ Exists \/ NotDone \/ TimeOut \/ Wait \/ Tick \/ UNCHANGED vars
  <2>1. UNCHANGED <<done_after, initial_mtime, mtime, changed_at>>
    BY <1>2 DEF Stop, CheckBegin, Exists, NotDone, TimeOut, Wait, Tick, vars, steps, world
  <2>2. QED
    BY <2>1
<1>3. CASE Advance \/ Finish
  <2>1. /\ UNCHANGED <<initial_mtime, mtime, changed_at>>
        /\ done_after' = [done_after EXCEPT ![current] = not_done_before[current]]
        /\ current \in Touch => mtime[current] # initial_mtime[current]
    BY <1>3 DEF Advance, Finish, MarkStepDone, EvaluatesTrue, world
  <2>2. QED
    BY <2>1
<1>4. ASSUME NEW i \in Step, Flip(i)
      PROVE  ChangesSeen' /\ DoneMeansTouched'
  BY <1>4 DEF Flip, steps
<1>5. ASSUME NEW i \in Step, TouchFile(i) \/ RemoveFile(i)
      PROVE  ChangesSeen' /\ DoneMeansTouched'
  <2>1. PICK m \in Mtimes \cup {None} :
          /\ mtime' = [mtime EXCEPT ![i] = m]
          /\ changed_at' = IF mtime[i] = initial_mtime[i]
                           THEN [changed_at EXCEPT ![i] = now] ELSE changed_at
    BY <1>5 DEF TouchFile, RemoveFile
  <2>2. UNCHANGED <<done_after, initial_mtime>> /\ i \in Touch
    BY <1>5 DEF TouchFile, RemoveFile, steps
  <2>3. CASE mtime[i] = initial_mtime[i]
    <3>1. changed_at' = [changed_at EXCEPT ![i] = now] /\ now # None
      BY <2>1, <2>3
    <3>2. QED
      BY <2>1, <2>2, <3>1
  <2>4. CASE mtime[i] # initial_mtime[i]
    <3>1. changed_at' = changed_at /\ changed_at[i] # None
      BY <2>1, <2>2, <2>4
    <3>2. QED
      BY <2>1, <2>2, <3>1
  <2>5. QED
    BY <2>3, <2>4
<1>6. QED
  BY <1>1, <1>2, <1>3, <1>4, <1>5 DEF Next, Check, World

\* The strengthened invariant is inductive.
THEOREM InductiveInvariant == Spec => []IInv
<1>1. IInv /\ [Next]_vars => IInv'
  BY TypeStep, OrderStep, ClockStep, TouchStep DEF IInv
<1>2. QED
  BY InitIInv, <1>1, PTL DEF Spec

\* The state of a ratchet keeps its types; in particular the current step is
\* always one of the steps.
THEOREM TypeCorrect == Spec => []TypeOK
BY InductiveInvariant, PTL DEF IInv

\* The ratchet never slips, for any number of steps.
THEOREM NeverSlips == Spec => []StepsInOrder
BY InductiveInvariant, PTL DEF IInv

\* No step is charged for the time that an earlier one took.
THEOREM ClocksCorrect == Spec => []ClocksFit
BY InductiveInvariant, PTL DEF IInv

\* A file step is done only when its file was touched after the start.
THEOREM TouchedWhenDone == Spec => []DoneMeansTouched
BY InductiveInvariant, PTL DEF IInv

\* Nothing but a new start gets a ratchet out of a timeout.
THEOREM TimeoutsStay == Spec => TimeoutIsFinal
<1> DEFINE Final == \A i \in Step :
             timed_out[i] /\ ~timed_out'[i] =>
               active' /\ current' = 1 /\ done' = None /\ start_at'[1] = now
<1>1. IInv /\ [Next]_vars => [Final]_vars
  <2> SUFFICES ASSUME TypeOK, Next PROVE Final
    BY DEF IInv
  <2>1. CASE Start
    <3>1. 1 \in Step
      BY RatchetAssumption DEF Step
    <3>2. QED
      BY <2>1, <3>1 DEF Start, ResetSteps
  <2>2. CASE TimeOut
    BY <2>2 DEF TimeOut, TypeOK
  <2>3. CASE Stop \/ CheckBegin \/ Exists \/ NotDone \/ Wait \/ Tick \/ Advance \/ Finish
    <3>1. UNCHANGED timed_out
      BY <2>3 DEF Stop, CheckBegin, Exists, NotDone, Wait, Tick, Advance, Finish, steps
    <3>2. QED
      BY <3>1
  <2>4. CASE World
    <3>1. UNCHANGED timed_out
      BY <2>4 DEF World, Flip, TouchFile, RemoveFile, steps
    <3>2. QED
      BY <3>1
  <2>5. QED
    BY <2>1, <2>2, <2>3, <2>4 DEF Next, Check
<1>2. QED
  BY <1>1, InductiveInvariant, PTL DEF Spec, TimeoutIsFinal

-----------------------------------------------------------------------------
(* The cycler *)

\* The age of an item inside its cycle tells how much of the cycle is left.
AgeTellsCycle ==
  \A i \in queue : since[i] < CycleLength => age[i] = since[i] - CycleLength

-----------------------------------------------------------------------------
\* What _find_next returns is in the queue and eligible, or None.
LEMMA FoundIsEligible ==
  ASSUME CyclerTypeOK, NEW i \in find_next
  PROVE  i = NoItem \/ (i \in queue /\ age[i] >= 0)
BY DEF CyclerTypeOK, find_next, Foremost

\* The sign of a product with a positive factor.
LEMMA SignOfProduct ==
  ASSUME NEW p \in Nat \ {0}, NEW a \in Int
  PROVE  /\ p * a \in Int
         /\ a < 0 => p * a < 0
         /\ a >= 0 => p * a >= 0
OBVIOUS

\* None is returned only when nothing in the queue is eligible.
LEMMA NoneFound ==
  ASSUME CyclerTypeOK, NoItem \in find_next, NEW j \in queue
  PROVE  age[j] < 0
<1>1. PICK i \in Foremost : age[i] < 0
  BY NoItemAssumption DEF find_next, Foremost, CyclerTypeOK
<1>2. /\ i \in Item /\ j \in Item /\ aged_priority(j) <= aged_priority(i)
      /\ priority[i] \in Nat \ {0} /\ priority[j] \in Nat \ {0}
      /\ age[i] \in Int /\ age[j] \in Int
  BY <1>1, CyclerAssumption DEF Foremost, CyclerTypeOK
<1>3. aged_priority(i) < 0 /\ aged_priority(i) \in Int /\ aged_priority(j) \in Int
  BY <1>1, <1>2, SignOfProduct DEF aged_priority
<1>4. aged_priority(j) < 0
  BY <1>2, <1>3
<1>5. QED
  BY <1>2, <1>4, SignOfProduct DEF aged_priority

\* The queue starts empty.
LEMMA CyclerInitInv == CyclerInit => CyclerTypeOK /\ AgeTellsCycle
BY CyclerAssumption DEF CyclerInit, CyclerTypeOK, AgeTellsCycle

\* Every operation, and time, keeps the types and the cycles.
LEMMA CyclerStepInv == CyclerTypeOK /\ AgeTellsCycle /\ [CyclerNext]_cyclerVars => CyclerTypeOK' /\ AgeTellsCycle'
<1> SUFFICES ASSUME CyclerTypeOK, AgeTellsCycle, [CyclerNext]_cyclerVars
             PROVE  CyclerTypeOK' /\ AgeTellsCycle'
  OBVIOUS
<1> USE CyclerAssumption DEF CyclerTypeOK, AgeTellsCycle
<1>1. ASSUME NEW i \in Item \cup {NoItem}, next(i)
      PROVE  CyclerTypeOK' /\ AgeTellsCycle'
  <2>1. CASE i = NoItem
    BY <1>1, <2>1 DEF next
  <2>2. CASE i # NoItem
    <3>1. i \in Item /\ returned' = i /\ gap' = 0 /\ UNCHANGED <<queue, priority>>
      BY <1>1, <2>2 DEF next
    <3>2. /\ age' = [age EXCEPT ![i] = 0 - CycleLength]
          /\ since' = [since EXCEPT ![i] = 0]
      BY <1>1, <2>2 DEF next
    <3>3. QED
      BY <3>1, <3>2
  <2>3. QED
    BY <2>1, <2>2
<1>2. ASSUME NEW items \in SUBSET Item, update(items, PriorityOf)
      PROVE  CyclerTypeOK' /\ AgeTellsCycle'
  BY <1>2 DEF update, Born
<1>3. ASSUME NEW i \in Item, NEW p \in Priority, insert(i, p)
      PROVE  CyclerTypeOK' /\ AgeTellsCycle'
  BY <1>3 DEF insert, Born
<1>4. ASSUME NEW i \in Item, remove(i)
      PROVE  CyclerTypeOK' /\ AgeTellsCycle'
  BY <1>4 DEF remove
<1>5. CASE CyclerTick
  BY <1>5 DEF CyclerTick
<1>6. CASE UNCHANGED cyclerVars
  BY <1>6 DEF cyclerVars
<1>7. QED
  BY <1>1, <1>2, <1>3, <1>4, <1>5, <1>6 DEF CyclerNext, Call, Rescan, Edit

\* The types and the cycles are kept for ever.
THEOREM CyclesKept == CyclerSpec => [](CyclerTypeOK /\ AgeTellsCycle)
BY CyclerInitInv, CyclerStepInv, PTL DEF CyclerSpec

\* The state of the queue keeps its types.
THEOREM CyclerTypeCorrect == CyclerSpec => []CyclerTypeOK
BY CyclesKept, PTL

\* next is empty-handed only when every item is inside its cycle.
THEOREM NoneIsRight == CyclerSpec => NoneMeansNoneEligible
<1>1. CyclerTypeOK => [\A i \in queue : next(NoItem) => age[i] < 0]_cyclerVars
  BY NoneFound DEF next
<1>2. QED
  BY <1>1, CyclesKept, PTL DEF NoneMeansNoneEligible

\* An observation that stays in the queue is not returned twice within a cycle.
THEOREM CyclesRespected == CyclerSpec => CycleRespected
<1>1. CyclerTypeOK /\ AgeTellsCycle =>
        [\A i \in queue : next(i) => since[i] = CycleLength]_cyclerVars
  <2> SUFFICES ASSUME CyclerTypeOK, AgeTellsCycle, NEW i \in queue, next(i)
               PROVE  since[i] = CycleLength
    OBVIOUS
  <2>1. i \in Item /\ i # NoItem /\ i \in find_next
    BY NoItemAssumption DEF CyclerTypeOK, next
  <2>2. age[i] >= 0 /\ since[i] \in 0..CycleLength /\ age[i] \in Int
    BY <2>1, FoundIsEligible DEF CyclerTypeOK
  <2>3. QED
    BY <2>2, CyclerAssumption DEF AgeTellsCycle
<1>2. QED
  BY <1>1, CyclesKept, PTL DEF CycleRespected
=============================================================================
