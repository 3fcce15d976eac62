------------------------------- MODULE Status -------------------------------
(***************************************************************************)
(* The status of conman (src/conman/status.py): every interface of the     *)
(* connection manager owns a Status, a set of propositions that imply or   *)
(* exclude one another.  Setting one proposition sets the ones it implies, *)
(* clears the ones it excludes, and so on recursively; every change is     *)
(* exported at once as a file that other programs (the LED monitor) poll,  *)
(* and as a file of the CompositeStatus, the disjunction over interfaces.  *)
(*                                                                         *)
(* The recursion of Proposition.set is a stack machine here.  A frame is   *)
(* one activation of set that has stored its value, has exported its own   *)
(* file and holds what is left of its loops; the loops iterate over Python *)
(* sets, so the order within a loop is arbitrary.  The composite file is   *)
(* written before the loops in a step of its own, and the files are        *)
(* visible to their readers, and the process may be killed, between any    *)
(* two steps.                                                              *)
(***************************************************************************)
EXTENDS Naturals, Sequences

CONSTANTS
  Children,             \* the interfaces whose Status the composite joins
  Prop,                 \* the propositions (class P)
  Implications,         \* the IMPLICATIONS table: what p implies ...
  CounterImplications,  \* ... and what p excludes
  Calls                 \* the assignments <<p, v>> that conman makes

None == "None"
True == "True"
False == "False"
Value == {None, True, False}

ASSUME TableAssumption ==
  /\ Implications \in [Prop -> SUBSET Prop]
  /\ CounterImplications \in [Prop -> SUBSET Prop]

ASSUME CallsAssumption == Calls \subseteq Prop \X {True, False}

VARIABLES
  value,      \* value[c][p]: Proposition._value
  exported,   \* exported[c]: the propositions whose file exists for c
  composite,  \* the propositions whose composite file exists
  unexported, \* what the innermost set has yet to export to its parents
  stack,      \* the activations of Proposition.set, the innermost last
  before,     \* history: the values when no set was running last
  ended       \* history: the worst end of an earlier process

vars == <<value, exported, composite, unexported, stack, before, ended>>

-----------------------------------------------------------------------------
(***************************************************************************)
(* Status._set_up_propositions: for each p, implies for the first tuple of *)
(* the table and implies_not for the second, which overrides it.           *)
(***************************************************************************)
implications(p) == Implications[p] \ CounterImplications[p]

counter_implications(p) == CounterImplications[p]

impliers(p) == {q \in Prop : p \in implications(q)}

counter_impliers(p) == {q \in Prop : p \in counter_implications(q)}

\* Mutant: the contrapositive loop over the counter-impliers is missing.
FrameNoContrapositive(c, p, v) ==
  [child |-> c, prop |-> p,
   imp   |-> IF v = True THEN implications(p) ELSE {},
   cimp  |-> IF v = True THEN counter_implications(p) ELSE {},
   cback |-> {},
   back  |-> IF v = True THEN {} ELSE impliers(p)]

\* Mutant: the last loop is not in the else branch.
FrameWithoutElse(c, p, v) ==
  [child |-> c, prop |-> p,
   imp   |-> IF v = True THEN implications(p) ELSE {},
   cimp  |-> IF v = True THEN counter_implications(p) ELSE {},
   cback |-> IF v = True THEN counter_impliers(p) ELSE {},
   back  |-> impliers(p)]

\* An activation of set whose value changed: the loops it is about to run.
Frame(c, p, v) ==
  [child |-> c, prop |-> p,
   imp   |-> IF v = True THEN implications(p) ELSE {},
   cimp  |-> IF v = True THEN counter_implications(p) ELSE {},
   cback |-> IF v = True THEN counter_impliers(p) ELSE {},
   back  |-> IF v = True THEN {} ELSE impliers(p)]

FrameType ==
  [child : Children, prop : Prop, imp : SUBSET Prop, cimp : SUBSET Prop,
   cback : SUBSET Prop, back : SUBSET Prop]

Quiet == stack = << >>

\* The innermost activation.
Top == stack[Len(stack)]

\* It runs its loops once its parents are exported.
Looping == ~Quiet /\ unexported = {}

\* ExportedValue.export: the file exists iff the value is true.
Export(files, p, v) == IF v THEN files \cup {p} ELSE files \ {p}

\* Mutant: a proposition that is still None counts as false already.
SetNoneIsFalse(c, p, v, below) ==
  \/ /\ value[c][p] = v \/ (value[c][p] = None /\ v = False)
     /\ stack' = below
     /\ UNCHANGED <<value, exported, unexported>>
  \/ /\ value[c][p] # v /\ ~(value[c][p] = None /\ v = False)
     /\ value' = [value EXCEPT ![c][p] = v]
     /\ exported' = [exported EXCEPT ![c] = Export(@, p, v = True)]
     /\ unexported' = {p}
     /\ stack' = Append(below, Frame(c, p, v))

\* Proposition.set(v) on proposition p of child c, up to the export of its own
\* file; below is the stack that the call returns to.
Set(c, p, v, below) ==
  \/ /\ value[c][p] = v
     /\ stack' = below
     /\ UNCHANGED <<value, exported, unexported>>
  \/ /\ value[c][p] # v
     /\ value' = [value EXCEPT ![c][p] = v]
     /\ exported' = [exported EXCEPT ![c] = Export(@, p, v = True)]
     /\ unexported' = {p}
     /\ stack' = Append(below, Frame(c, p, v))

-----------------------------------------------------------------------------

Init ==
  /\ value = [c \in Children |-> [p \in Prop |-> None]]
  /\ exported = [c \in Children |-> {}]
  /\ composite = {}
  /\ unexported = {}
  /\ stack = << >>
  /\ before = value
  /\ ended = "never"

\* Status.__setattr__: conman assigns a status attribute.
SetAttr(c, p, v) ==
  /\ Quiet
  /\ Set(c, p, v, << >>)
  /\ UNCHANGED <<composite, before, ended>>

\* Mutant: the composite joins the interfaces with all instead of any.
ExportParentsAll ==
  /\ unexported # {}
  /\ \E p \in unexported :
       composite' = Export(composite, p, \A c \in Children : value[c][p] = True)
  /\ unexported' = {}
  /\ UNCHANGED <<value, exported, stack, before, ended>>

\* The innermost activation exports its parents: the composite file of the
\* proposition becomes the disjunction over the interfaces.
ExportParents ==
  /\ unexported # {}
  /\ \E p \in unexported :
       composite' = Export(composite, p, \E c \in Children : value[c][p] = True)
  /\ unexported' = {}
  /\ UNCHANGED <<value, exported, stack, before, ended>>

\* Mutant: a loop that does not advance.
WithoutAdvancing(loop, q) == [stack EXCEPT ![Len(stack)][loop] = @ \cup {q}]

\* The innermost activation with one element taken off one of its loops.
Without(loop, q) == [stack EXCEPT ![Len(stack)][loop] = @ \ {q}]

SetImplication ==
  /\ Looping
  /\ \E q \in Top.imp : Set(Top.child, q, True, Without("imp", q))
  /\ UNCHANGED <<composite, before, ended>>

SetCounterImplication ==
  /\ Looping /\ Top.imp = {}
  /\ \E q \in Top.cimp : Set(Top.child, q, False, Without("cimp", q))
  /\ UNCHANGED <<composite, before, ended>>

SetCounterImplier ==
  /\ Looping /\ Top.imp = {} /\ Top.cimp = {}
  /\ \E q \in Top.cback : Set(Top.child, q, False, Without("cback", q))
  /\ UNCHANGED <<composite, before, ended>>

SetImplier ==
  /\ Looping
  /\ \E q \in Top.back : Set(Top.child, q, False, Without("back", q))
  /\ UNCHANGED <<composite, before, ended>>

\* The innermost activation has run all its loops.
Return ==
  /\ Looping
  /\ Top.imp = {} /\ Top.cimp = {} /\ Top.cback = {} /\ Top.back = {}
  /\ stack' = SubSeq(stack, 1, Len(stack) - 1)
  /\ before' = IF stack' = << >> THEN value ELSE before
  /\ UNCHANGED <<value, exported, composite, unexported, ended>>

Cascade ==
  \/ ExportParents
  \/ SetImplication \/ SetCounterImplication
  \/ SetCounterImplier \/ SetImplier \/ Return

Forget ==
  /\ value' = [c \in Children |-> [p \in Prop |-> None]]
  /\ stack' = << >>
  /\ unexported' = {}
  /\ before' = value'
  /\ UNCHANGED <<exported, composite>>

\* conman dies outside set (an exception in its main loop) and is started
\* again: the values are None again, the files stay where they are.
Restart ==
  /\ Quiet /\ Forget
  /\ ended' = IF ended = "never" THEN "quiet" ELSE ended

\* conman is killed while set is running.
Killed == ~Quiet /\ Forget /\ ended' = "killed"

Assign == \E c \in Children : \E pv \in Calls : SetAttr(c, pv[1], pv[2])

Next == Assign \/ Cascade \/ Restart \/ Killed

\* One process that never crashes; set runs to its end once it is called.
NextAlive == Assign \/ Cascade

Spec == Init /\ [][Next]_vars
AliveSpec == Init /\ [][NextAlive]_vars /\ WF_vars(Cascade)

-----------------------------------------------------------------------------
TypeOK ==
  /\ value \in [Children -> [Prop -> Value]]
  /\ exported \in [Children -> SUBSET Prop]
  /\ composite \subseteq Prop
  /\ unexported \subseteq Prop
  /\ stack \in Seq(FrameType)
  /\ before \in [Children -> [Prop -> Value]]
  /\ ended \in {"never", "quiet", "killed"}

excludes(p) == counter_implications(p) \cup counter_impliers(p)

\* An activation in s is going to make q true, or p false.
ImplicationOwed(s, c, p, q) ==
  \E i \in 1..Len(s) :
    /\ s[i].child = c
    /\ \/ s[i].prop = p /\ q \in s[i].imp
       \/ s[i].prop = q /\ p \in s[i].back

\* An activation in s is going to make p or q false.
ExclusionOwed(s, c, p, q) ==
  \E i \in 1..Len(s) :
    /\ s[i].child = c
    /\ \/ s[i].prop = p /\ q \in s[i].cimp \cup s[i].cback
       \/ s[i].prop = q /\ p \in s[i].cimp \cup s[i].cback

\* In the middle of a cascade, every consequence of a true proposition holds
\* already or is still owed by an activation of set: no nested call ever undoes
\* what an outer one has done without becoming responsible for it.
ValuesOwed ==
  \A c \in Children : \A p \in Prop :
    value[c][p] = True =>
      /\ \A q \in implications(p) :
           value[c][q] = True \/ ImplicationOwed(stack, c, p, q)
      /\ \A q \in excludes(p) :
           value[c][q] = False \/ ExclusionOwed(stack, c, p, q)

\* The same of the files, in whatever state the processes before left them, as
\* long as each of them ended with no set running.
FilesOwed ==
  ended # "killed" =>
    \A c \in Children : \A p \in exported[c] :
      /\ \A q \in implications(p) :
           q \in exported[c] \/ ImplicationOwed(stack, c, p, q)
      /\ \A q \in excludes(p) :
           q \notin exported[c] \/ ExclusionOwed(stack, c, p, q)

\* A proposition with a value has its file exactly when it is true, though set
\* touches the file only when the value changes and the file may be older than
\* the process: only a proposition that is still None can have a stale file.
FilesFollowValues ==
  \A c \in Children : \A p \in Prop :
    /\ value[c][p] = True => p \in exported[c]
    /\ value[c][p] = False => p \notin exported[c]

\* Whenever no set is running, no proposition of an interface is true while one
\* that it implies is not, or while one that it excludes, or that excludes it,
\* is true: the recursion of Proposition.set leaves no implication unserved, in
\* whatever order the loops ran.
Consistent ==
  Quiet =>
    \A c \in Children : \A p \in Prop :
      value[c][p] = True =>
        /\ \A q \in implications(p) : value[c][q] = True
        /\ \A q \in counter_implications(p) : value[c][q] # True

\* The same of the files that the LED monitor reads, the ones that previous
\* conman processes left behind included, unless one was killed in set: a restart
\* starts from None values and removes no file, so old and new files coexist.
ExportedConsistent ==
  Quiet /\ ended # "killed" =>
    \A c \in Children : \A p \in exported[c] :
      /\ implications(p) \subseteq exported[c]
      /\ counter_implications(p) \cap exported[c] = {}

\* Even when a process was killed in the middle of a cascade and left files that
\* contradict each other, a proposition that this process has made true has the
\* files around it in order as soon as set returns.
TruthRepairsFiles ==
  Quiet =>
    \A c \in Children : \A p \in Prop :
      value[c][p] = True =>
        /\ implications(p) \cup {p} \subseteq exported[c]
        /\ excludes(p) \cap exported[c] = {}

\* As soon as a process has set a proposition of any interface, the composite
\* file is the disjunction of its values, whatever composite files the ends of
\* earlier processes, killed between the two writes included, left behind: it is
\* behind for one proposition at most, the one that the innermost set has just
\* changed, and never outside set.
CompositeIsDisjunction ==
  /\ unexported # {} => ~Quiet /\ unexported = {Top.prop}
  /\ \A p \in Prop \ unexported :
       (\E c \in Children : value[c][p] # None) =>
         (p \in composite <=> \E c \in Children : value[c][p] = True)

\* A cascade changes a proposition at most once (from the value it had when the
\* outermost set was called), so that no file is created and removed again, or
\* removed and created again, by one assignment.
GlitchFree ==
  [][~Quiet => \A c \in Children : \A p \in Prop :
        value'[c][p] # value[c][p] /\ value'[c][p] # None
           => value[c][p] = before[c][p]]_vars

\* Proposition.set always returns: the mutual recursion along the table ends.
SetReturns == ~Quiet ~> Quiet

\* The abstract status is the one of the last moment at which no set was
\* running.
Abstract ==
  INSTANCE StatusSpec
  WITH Implies <- [p \in Prop |-> implications(p)],
       Excludes <- [p \in Prop |-> counter_implications(p)],
       status <- before

\* Proposition.set, with its recursion in an arbitrary order, implements the
\* indivisible assignment of StatusSpec: the outcome is determined by the table,
\* the assigned proposition ends with the value assigned, and nothing else
\* changes.
ImplementsStatusSpec == Abstract!Spec
=============================================================================
