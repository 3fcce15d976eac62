------------------------------- MODULE Ratchet -------------------------------
(***************************************************************************)
(* The ratchet of conman (src/conman/ratchet.py): a series of conditions   *)
(* that must come true one after the other, each within its timeout.       *)
(* Conman follows a provisioning attempt on an open network with one       *)
(* (associated, DHCP, ACS reachable, cwmp woken up, ACS session).          *)
(*                                                                         *)
(* Condition.check evaluates the condition and reads the clock afterwards; *)
(* evaluating takes time (a connection check runs a program for up to five *)
(* seconds), so the world and the clock may move between the two.  A       *)
(* FileTouchedCondition tests that its file exists and then reads the      *)
(* modification time, and the file may go away in between.                 *)
(***************************************************************************)
EXTENDS Naturals

CONSTANTS
  N,         \* the number of steps
  Timeout,   \* Timeout[i]: the timeout of step i
  Touch,     \* the steps that are FileTouchedConditions
  Mtimes,    \* bound: the modification times a file can have
  MaxStart,  \* bound: the latest moment at which the ratchet is started
  Late,      \* bound: how late the main loop may come to check a step
  MaxTime    \* bound: the end of time

ASSUME RatchetAssumption ==
  /\ N \in Nat \ {0}
  /\ MaxStart \in Nat /\ Late \in Nat /\ MaxTime \in Nat \ {0}
  /\ Timeout \in [1..N -> Nat]
  /\ Touch \subseteq 1..N
  /\ Mtimes \subseteq Nat \ {0}

Step == 1..N
Time == 1..MaxTime
None == 0

VARIABLES
  now,              \* _gettime()
  start_at,         \* Condition.start_at, of each step
  done_after,       \* Condition.done_after
  done_by,          \* Condition.done_by
  timed_out,        \* Condition.timed_out
  not_done_before,  \* Condition.not_done_before
  initial_mtime,    \* FileTouchedCondition.initial_mtime
  current,          \* Ratchet._current_step, from 1
  active,           \* Ratchet.active
  done,             \* Ratchet.done_after
  pc,               \* where check is: not running, about to evaluate the
                    \* current step, about to read the modification time of
                    \* its file, about to read the clock
  holds,            \* world: whether the condition of a step holds
  mtime,            \* world: the modification time of its file, None without
  changed_at        \* history: when mtime ceased to be initial_mtime last

steps == <<start_at, done_after, done_by, timed_out, not_done_before,
           initial_mtime>>
world == <<holds, mtime>>
vars == <<now, steps, current, active, done, pc, world, changed_at>>

-----------------------------------------------------------------------------
\* Mutant: a file step keeps the modification time of an earlier reset.
ResetStepsKeepMtime ==
  /\ start_at' = [i \in Step |-> now]
  /\ not_done_before' = [i \in Step |-> now]
  /\ done_after' = [i \in Step |-> None]
  /\ done_by' = [i \in Step |-> None]
  /\ timed_out' = [i \in Step |-> FALSE]
  /\ initial_mtime' = initial_mtime
  /\ changed_at' = [i \in Step |-> None]

\* Condition.reset and FileTouchedCondition.reset, of every step.
ResetSteps ==
  /\ start_at' = [i \in Step |-> now]
  /\ not_done_before' = [i \in Step |-> now]
  /\ done_after' = [i \in Step |-> None]
  /\ done_by' = [i \in Step |-> None]
  /\ timed_out' = [i \in Step |-> FALSE]
  /\ initial_mtime' = mtime
  /\ changed_at' = [i \in Step |-> None]

Init ==
  /\ now = 1
  /\ start_at = [i \in Step |-> 1]
  /\ not_done_before = [i \in Step |-> 1]
  /\ done_after = [i \in Step |-> None]
  /\ done_by = [i \in Step |-> None]
  /\ timed_out = [i \in Step |-> FALSE]
  /\ current = 1 /\ active = FALSE /\ done = None /\ pc = "idle"
  /\ holds \in [Step -> BOOLEAN] /\ \A i \in Touch : ~holds[i]
  /\ mtime \in [Step -> Mtimes \cup {None}]
  /\ \A i \in Step \ Touch : mtime[i] = None
  /\ initial_mtime = mtime
  /\ changed_at = [i \in Step |-> None]

\* Mutant: Ratchet.reset forgets to call Condition.reset for itself.
StartKeepsDone ==
  /\ pc = "idle" /\ now <= MaxStart
  /\ ResetSteps
  /\ current' = 1 /\ active' = TRUE /\ done' = done
  /\ UNCHANGED <<now, pc, world>>

\* Ratchet.start, which resets everything, in the middle of an attempt too.
Start ==
  /\ pc = "idle" /\ now <= MaxStart
  /\ ResetSteps
  /\ current' = 1 /\ active' = TRUE /\ done' = None
  /\ UNCHANGED <<now, pc, world>>

\* Ratchet.stop, which conman calls when it has seen the ratchet done.
Stop ==
  /\ pc = "idle" /\ done # None
  /\ active' = FALSE
  /\ UNCHANGED <<now, steps, current, done, pc, world, changed_at>>

\* Mutant: check forgets an earlier timeout.
CheckBeginForgets ==
  /\ pc = "idle" /\ active /\ done = None
  /\ timed_out' = [timed_out EXCEPT ![current] = FALSE]
  /\ pc' = "evaluate"
  /\ UNCHANGED <<now, start_at, done_after, done_by, not_done_before,
                 initial_mtime, current, active, done, world, changed_at>>

\* Ratchet.check has something to do and no timeout to report again.
CheckBegin ==
  /\ pc = "idle" /\ active /\ done = None /\ ~timed_out[current]
  /\ pc' = "evaluate"
  /\ UNCHANGED <<now, steps, current, active, done, world, changed_at>>

\* evaluate of a FileTouchedCondition finds the file.
Exists ==
  /\ pc = "evaluate" /\ current \in Touch /\ mtime[current] # None
  /\ pc' = "mtime"
  /\ UNCHANGED <<now, steps, current, active, done, world, changed_at>>

\* evaluate of the current step returns True; mtime() is None when the file is gone
\* by then.
EvaluatesTrue ==
  \/ pc = "evaluate" /\ current \notin Touch /\ holds[current]
  \/ pc = "mtime" /\ mtime[current] # initial_mtime[current]

EvaluatesFalse ==
  \/ pc = "evaluate" /\ current \notin Touch /\ ~holds[current]
  \/ pc = "evaluate" /\ current \in Touch /\ mtime[current] = None
  \/ pc = "mtime" /\ mtime[current] = initial_mtime[current]

\* Condition.mark_done of the current step.  The callback that it ends with runs
\* once for each time that done_by is set, and changes nothing of the ratchet: the
\* time it takes may pass before the next step.
MarkStepDone ==
  /\ done_after' = [done_after EXCEPT ![current] = not_done_before[current]]
  /\ done_by' = [done_by EXCEPT ![current] = now]

\* The current step is done and there is another one: advance, and go on.
Advance ==
  /\ EvaluatesTrue /\ current < N
  /\ MarkStepDone
  /\ current' = current + 1
  /\ start_at' = [start_at EXCEPT ![current + 1] = now]
  /\ pc' = "evaluate"
  /\ UNCHANGED <<now, timed_out, not_done_before, initial_mtime, active, done,
                 world, changed_at>>

\* The last step is done, and with it the ratchet.
Finish ==
  /\ EvaluatesTrue /\ current = N
  /\ MarkStepDone
  /\ done' = not_done_before[current]
  /\ pc' = "idle"
  /\ UNCHANGED <<now, start_at, timed_out, not_done_before, initial_mtime,
                 current, active, world, changed_at>>

NotDone ==
  /\ EvaluatesFalse
  /\ pc' = "clock"
  /\ UNCHANGED <<now, steps, current, active, done, world, changed_at>>

\* Reading the clock shows the current step to be late ...
TimeOut ==
  /\ pc = "clock" /\ now > start_at[current] + Timeout[current]
  /\ timed_out' = [timed_out EXCEPT ![current] = TRUE]
  /\ pc' = "idle"
  /\ UNCHANGED <<now, start_at, done_after, done_by, not_done_before,
                 initial_mtime, current, active, done, world, changed_at>>

\* Mutant: every check that finds the condition false restarts the timeout.
WaitRestartsTimeout ==
  /\ pc = "clock" /\ now <= start_at[current] + Timeout[current]
  /\ not_done_before' = [not_done_before EXCEPT ![current] = now]
  /\ start_at' = [start_at EXCEPT ![current] = now]
  /\ pc' = "idle"
  /\ UNCHANGED <<now, done_after, done_by, timed_out, initial_mtime,
                 current, active, done, world, changed_at>>

\* ... or it has time left.
Wait ==
  /\ pc = "clock" /\ now <= start_at[current] + Timeout[current]
  /\ not_done_before' = [not_done_before EXCEPT ![current] = now]
  /\ pc' = "idle"
  /\ UNCHANGED <<now, start_at, done_after, done_by, timed_out, initial_mtime,
                 current, active, done, world, changed_at>>

Check == CheckBegin \/ Exists \/ Advance \/ Finish \/ NotDone \/ TimeOut \/ Wait

-----------------------------------------------------------------------------
Tick ==
  /\ now < MaxTime
  /\ now' = now + 1
  /\ UNCHANGED <<steps, current, active, done, pc, world, changed_at>>

\* A condition starts or ceases to hold.
Flip(i) ==
  /\ i \notin Touch
  /\ holds' = [holds EXCEPT ![i] = ~@]
  /\ UNCHANGED <<now, steps, current, active, done, pc, mtime, changed_at>>

\* The file of step i is touched; the wall clock may have been set back, so the
\* new modification time may be any other one.
TouchFile(i) ==
  /\ i \in Touch
  /\ \E m \in Mtimes \ {mtime[i]} :
       /\ mtime' = [mtime EXCEPT ![i] = m]
       /\ changed_at' =
            IF mtime[i] = initial_mtime[i]
            THEN [changed_at EXCEPT ![i] = now] ELSE changed_at
  /\ UNCHANGED <<now, steps, current, active, done, pc, holds>>

\* The file of step i is removed.
RemoveFile(i) ==
  /\ i \in Touch /\ mtime[i] # None
  /\ mtime' = [mtime EXCEPT ![i] = None]
  /\ changed_at' =
       IF mtime[i] = initial_mtime[i]
       THEN [changed_at EXCEPT ![i] = now] ELSE changed_at
  /\ UNCHANGED <<now, steps, current, active, done, pc, holds>>

World == \E i \in Step : Flip(i) \/ TouchFile(i) \/ RemoveFile(i)

Next == Start \/ Stop \/ Check \/ Tick \/ World

Spec == Init /\ [][Next]_vars

\* An attempt is under way.
Pending == active /\ done = None /\ ~timed_out[current]

\* The main loop comes round while time passes: what it does besides is bounded.
PromptTick ==
  /\ Pending => now <= start_at[current] + Timeout[current] + Late
  /\ Tick

NextPrompt == Start \/ Stop \/ Check \/ PromptTick \/ World

\* Time passes, and the main loop checks the ratchet in every iteration.
FairSpec ==
  Init /\ [][NextPrompt]_vars /\ WF_vars(PromptTick) /\ WF_vars(Check)

-----------------------------------------------------------------------------
TypeOK ==
  /\ now \in Time
  /\ start_at \in [Step -> Time] /\ not_done_before \in [Step -> Time]
  /\ done_after \in [Step -> Time \cup {None}]
  /\ done_by \in [Step -> Time \cup {None}]
  /\ timed_out \in [Step -> BOOLEAN]
  /\ initial_mtime \in [Step -> Mtimes \cup {None}]
  /\ current \in Step /\ active \in BOOLEAN /\ done \in Time \cup {None}
  /\ pc \in {"idle", "evaluate", "mtime", "clock"}
  /\ holds \in [Step -> BOOLEAN] /\ mtime \in [Step -> Mtimes \cup {None}]
  /\ changed_at \in [Step -> Time \cup {None}]

\* The ratchet never slips: the steps before the current one are done, those
\* after it are neither done nor timed out though they share the reset with it,
\* and the ratchet is done exactly when its last step is; a timeout is reported
\* of the current step only, and never of a ratchet that is done.
StepsInOrder ==
  /\ \A i \in Step : done_after[i] # None <=> i < current \/ done # None
  /\ \A i \in Step : done_by[i] # None <=> done_after[i] # None
  /\ \A i \in Step : timed_out[i] => i = current /\ done = None
  /\ done # None => current = N

\* The clocks of consecutive steps fit together: each step was seen done no
\* earlier than it was known not to be, and its successor's timeout runs from
\* the moment the step was seen done, so no step is charged for the time that an
\* earlier one took, however late that one was noticed.
ClocksFit ==
  \A i \in Step :
    /\ start_at[i] <= now /\ not_done_before[i] <= now
    /\ done_by[i] # None => done_after[i] <= done_by[i] /\ start_at[i] <= done_by[i]
    /\ i > 1 /\ i <= current => start_at[i] = done_by[i - 1]

\* A file step is done only when its file has changed after the ratchet was
\* started: a touch that came while an earlier step was current counts, and so does
\* the removal of the file between the two halves of evaluate, but never what the
\* file was at the start or became in an earlier attempt.
DoneMeansTouched ==
  \A i \in Touch : done_after[i] # None => changed_at[i] # None

\* Nothing but a new start gets a ratchet out of a timeout: the attempt stays
\* failed although the condition may come true later and check is called on.
TimeoutIsFinal ==
  [][\A i \in Step :
       timed_out[i] /\ ~timed_out'[i] =>
         active' /\ current' = 1 /\ done' = None /\ start_at'[1] = now]_vars

\* A ratchet that is started and checked comes to an end: it is done or one of
\* its steps times out, whatever the world does.
Settles == Pending ~> (done # None \/ timed_out[current])
=============================================================================
