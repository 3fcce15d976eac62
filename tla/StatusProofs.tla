---------------------------- MODULE StatusProofs ----------------------------
(***************************************************************************)
(* Proofs about Status for every set of interfaces and every set of        *)
(* assignments.  The first part assumes nothing of the table, so that its  *)
(* theorems survive any edit of IMPLICATIONS; the second, on the outcome   *)
(* of an assignment, that the table lets none contradict itself.           *)
(***************************************************************************)
EXTENDS Status, FiniteSetTheorems, SequenceTheorems, WellFoundedInduction, TLAPS

\* What set(v) on p of child c may take off the stack before it runs: only an
\* obligation that p having the value v fulfils.
Below(c, p, v, below) ==
  /\ below \in Seq(FrameType)
  /\ \A d \in Children : \A x, y \in Prop :
       /\ ImplicationOwed(stack, d, x, y) =>
            \/ ImplicationOwed(below, d, x, y)
            \/ d = c /\ v = True /\ y = p
            \/ d = c /\ v = False /\ x = p
       /\ ExclusionOwed(stack, d, x, y) =>
            \/ ExclusionOwed(below, d, x, y)
            \/ d = c /\ v = False /\ p \in {x, y}

-----------------------------------------------------------------------------
\* A new activation of set has its type.
LEMMA FrameIsTyped ==
  ASSUME NEW c \in Children, NEW p \in Prop, NEW v
  PROVE  Frame(c, p, v) \in FrameType
BY TableAssumption
   DEF Frame, FrameType, implications, counter_implications, impliers,
       counter_impliers

\* An element of the stack owes what it owes wherever it stands.
LEMMA OwedBelow ==
  ASSUME NEW s \in Seq(FrameType), NEW f \in FrameType,
         NEW c, NEW p, NEW q
  PROVE  /\ ImplicationOwed(s, c, p, q) => ImplicationOwed(Append(s, f), c, p, q)
         /\ ExclusionOwed(s, c, p, q) => ExclusionOwed(Append(s, f), c, p, q)
<1>1. /\ Len(Append(s, f)) = Len(s) + 1
      /\ \A i \in 1..Len(s) : i \in 1..(Len(s) + 1) /\ Append(s, f)[i] = s[i]
  OBVIOUS
<1>2. QED
  BY <1>1 DEF ImplicationOwed, ExclusionOwed

\* The innermost activation owes what is left of its loops.
LEMMA OwedOnTop ==
  ASSUME NEW s \in Seq(FrameType), NEW f \in FrameType, NEW q
  PROVE  LET t == Append(s, f)
         IN /\ q \in f.imp => ImplicationOwed(t, f.child, f.prop, q)
            /\ q \in f.back => ImplicationOwed(t, f.child, q, f.prop)
            /\ q \in f.cimp \cup f.cback =>
                 /\ ExclusionOwed(t, f.child, f.prop, q)
                 /\ ExclusionOwed(t, f.child, q, f.prop)
<1> DEFINE t == Append(s, f)
<1>1. Len(s) + 1 \in 1..Len(t) /\ t[Len(s) + 1] = f
  OBVIOUS
<1> HIDE DEF t
<1>2. QED
  BY <1>1 DEF ImplicationOwed, ExclusionOwed, t

\* Taking q off a loop of the innermost activation leaves every other obligation
\* where it is.
LEMMA TakeOff ==
  ASSUME TypeOK, ~Quiet, NEW q
  PROVE  /\ Top \in FrameType
         /\ Without("imp", q) \in Seq(FrameType)
         /\ Without("cimp", q) \in Seq(FrameType)
         /\ Without("cback", q) \in Seq(FrameType)
         /\ Without("back", q) \in Seq(FrameType)
         /\ \A loop \in {"imp", "cimp", "cback", "back"} :
              /\ Len(Without(loop, q)) = Len(stack)
              /\ \A i \in 1..Len(stack) :
                   i # Len(stack) => Without(loop, q)[i] = stack[i]
              /\ Without(loop, q)[Len(stack)] = [Top EXCEPT ![loop] = @ \ {q}]
<1>1. stack \in Seq(FrameType) /\ stack # << >>
  BY DEF TypeOK, Quiet
<1>2. Len(stack) \in 1..Len(stack) /\ Top \in FrameType
  BY <1>1 DEF Top
<1>3. ASSUME NEW loop \in {"imp", "cimp", "cback", "back"}
      PROVE  [Top EXCEPT ![loop] = @ \ {q}] \in FrameType
  BY <1>2 DEF FrameType
<1>4. ASSUME NEW loop \in {"imp", "cimp", "cback", "back"}
      PROVE  /\ Without(loop, q) \in Seq(FrameType)
             /\ Len(Without(loop, q)) = Len(stack)
             /\ \A i \in 1..Len(stack) :
                  i # Len(stack) => Without(loop, q)[i] = stack[i]
             /\ Without(loop, q)[Len(stack)] = [Top EXCEPT ![loop] = @ \ {q}]
  <2> DEFINE new == [Top EXCEPT ![loop] = @ \ {q}]
  <2>1. Without(loop, q) = [stack EXCEPT ![Len(stack)] = new]
    BY DEF Without, Top
  <2>2. new \in FrameType
    BY <1>3
  <2> HIDE DEF new
  <2>3. QED
    BY <1>1, <1>2, <2>1, <2>2 DEF new
<1>5. QED
  BY <1>2, <1>4

\* Serving one element of a loop drops only the obligation that is served.
LEMMA LoopsServe ==
  ASSUME TypeOK, ~Quiet, NEW q \in Prop
  PROVE  /\ Below(Top.child, q, True, Without("imp", q))
         /\ Below(Top.child, q, False, Without("cimp", q))
         /\ Below(Top.child, q, False, Without("cback", q))
         /\ Below(Top.child, q, False, Without("back", q))
<1>1. stack \in Seq(FrameType) /\ Len(stack) \in Nat /\ Top = stack[Len(stack)]
  BY DEF TypeOK, Top
<1>3. ASSUME NEW loop \in {"imp", "cimp", "cback", "back"},
             NEW d \in Children, NEW x \in Prop, NEW y \in Prop
      PROVE  /\ ImplicationOwed(stack, d, x, y) =>
                  \/ ImplicationOwed(Without(loop, q), d, x, y)
                  \/ d = Top.child /\ loop = "imp" /\ y = q
                  \/ d = Top.child /\ loop = "back" /\ x = q
             /\ ExclusionOwed(stack, d, x, y) =>
                  \/ ExclusionOwed(Without(loop, q), d, x, y)
                  \/ d = Top.child /\ loop \in {"cimp", "cback"} /\ q \in {x, y}
  <2> DEFINE w == Without(loop, q)
             g == [Top EXCEPT ![loop] = @ \ {q}]
  <2>1. /\ Top \in FrameType /\ Len(w) = Len(stack) /\ w[Len(stack)] = g
        /\ \A i \in 1..Len(stack) : i # Len(stack) => w[i] = stack[i]
    BY ZenonT(40), TakeOff
  <2>2. /\ g.child = Top.child /\ g.prop = Top.prop
        /\ g.imp = IF loop = "imp" THEN Top.imp \ {q} ELSE Top.imp
        /\ g.cimp = IF loop = "cimp" THEN Top.cimp \ {q} ELSE Top.cimp
        /\ g.cback = IF loop = "cback" THEN Top.cback \ {q} ELSE Top.cback
        /\ g.back = IF loop = "back" THEN Top.back \ {q} ELSE Top.back
    BY <2>1 DEF FrameType
  <2> HIDE DEF w, g
  <2>3. ImplicationOwed(stack, d, x, y) =>
          \/ ImplicationOwed(w, d, x, y)
          \/ d = Top.child /\ loop = "imp" /\ y = q
          \/ d = Top.child /\ loop = "back" /\ x = q
    BY <1>1, <2>1, <2>2 DEF ImplicationOwed
  <2>4. ExclusionOwed(stack, d, x, y) =>
          \/ ExclusionOwed(w, d, x, y)
          \/ d = Top.child /\ loop \in {"cimp", "cback"} /\ q \in {x, y}
    BY <1>1, <2>1, <2>2 DEF ExclusionOwed
  <2>5. QED
    BY <2>3, <2>4 DEF w
<1>4. QED
  BY ZenonT(40), <1>3, TakeOff DEF Below

\* A return takes the innermost activation off the stack.
LEMMA ReturnPops ==
  ASSUME TypeOK, Return
  PROVE  /\ stack' \in Seq(FrameType) /\ Len(stack') = Len(stack) - 1
         /\ Len(stack) \in Nat \ {0}
         /\ \A i \in 1..(Len(stack) - 1) : stack'[i] = stack[i]
<1>1. /\ stack \in Seq(FrameType) /\ Len(stack) \in Nat \ {0}
      /\ stack' = SubSeq(stack, 1, Len(stack) - 1)
  BY DEF TypeOK, Return, Looping, Quiet
<1> DEFINE n == Len(stack) - 1
<1>2. n \in Nat /\ \A i \in 1..n : stack[i] \in FrameType
  BY <1>1
<1> HIDE DEF n
<1>3. /\ SubSeq(stack, 1, n) \in Seq(FrameType)
      /\ Len(SubSeq(stack, 1, n)) = IF 1 <= n THEN n - 1 + 1 ELSE 0
      /\ \A i \in 1..(n - 1 + 1) : SubSeq(stack, 1, n)[i] = stack[1 + i - 1]
  BY <1>2, SubSeqProperties
<1>4. stack' = SubSeq(stack, 1, n)
  BY <1>1 DEF n
<1>5. /\ stack' \in Seq(FrameType) /\ Len(stack') = n
      /\ \A i \in 1..n : stack'[i] = stack[i]
  BY <1>2, <1>3, <1>4
<1>6. QED
  BY <1>1, <1>5 DEF n

\* An activation that has run all its loops owes nothing.
LEMMA ReturnOwesNothing ==
  ASSUME TypeOK, Return, NEW c, NEW p, NEW q
  PROVE  /\ stack' \in Seq(FrameType)
         /\ ImplicationOwed(stack, c, p, q) => ImplicationOwed(stack', c, p, q)
         /\ ExclusionOwed(stack, c, p, q) => ExclusionOwed(stack', c, p, q)
<1>1. /\ Top = stack[Len(stack)]
      /\ Top.imp = {} /\ Top.cimp = {} /\ Top.cback = {} /\ Top.back = {}
  BY DEF Return, Top
<1>2. /\ stack' \in Seq(FrameType) /\ Len(stack') = Len(stack) - 1
      /\ Len(stack) \in Nat \ {0}
      /\ \A i \in 1..(Len(stack) - 1) : stack'[i] = stack[i]
  BY ReturnPops
<1>3. \A i \in 1..Len(stack) :
        i # Len(stack) => i \in 1..Len(stack') /\ stack'[i] = stack[i]
  BY <1>2
<1>4. ImplicationOwed(stack, c, p, q) => ImplicationOwed(stack', c, p, q)
  BY <1>1, <1>3 DEF ImplicationOwed
<1>5. ExclusionOwed(stack, c, p, q) => ExclusionOwed(stack', c, p, q)
  BY <1>1, <1>3 DEF ExclusionOwed
<1>6. QED
  BY <1>2, <1>4, <1>5

-----------------------------------------------------------------------------
(***************************************************************************)
(* One call of set, from wherever it is made, preserves the obligations.   *)
(***************************************************************************)
\* A call of set keeps the types of the state.
LEMMA SetIsTyped ==
  ASSUME TypeOK, NEW c \in Children, NEW p \in Prop, NEW v \in {True, False},
         NEW below \in Seq(FrameType), Set(c, p, v, below),
         UNCHANGED <<composite, before, ended>>
  PROVE  TypeOK'
<1>1. CASE value[c][p] = v
  BY <1>1 DEF TypeOK, Set
<1>2. CASE value[c][p] # v
  <2>1. /\ value' = [value EXCEPT ![c][p] = v]
        /\ exported' = [exported EXCEPT ![c] = Export(@, p, v = True)]
        /\ unexported' = {p}
        /\ stack' = Append(below, Frame(c, p, v))
    BY <1>2 DEF Set
  <2>2. value' \in [Children -> [Prop -> Value]]
    BY <2>1 DEF TypeOK, Value
  <2>3. exported' \in [Children -> SUBSET Prop] /\ unexported' \subseteq Prop
    BY <2>1 DEF TypeOK, Export
  <2>4. stack' \in Seq(FrameType)
    BY <2>1, FrameIsTyped
  <2>5. QED
    BY <2>2, <2>3, <2>4 DEF TypeOK
<1>3. QED
  BY <1>1, <1>2

\* What a call of set does to the obligations: those that were there, but for
\* the one that the call serves, are there still, and those of the new value
\* are added.
LEMMA SetOwes ==
  ASSUME TypeOK, NEW c \in Children, NEW p \in Prop, NEW v \in {True, False},
         NEW below, Below(c, p, v, below), Set(c, p, v, below),
         NEW d \in Children, NEW x \in Prop, NEW y \in Prop
  PROVE  /\ ImplicationOwed(stack, d, x, y) =>
              \/ ImplicationOwed(stack', d, x, y)
              \/ d = c /\ v = True /\ y = p
              \/ d = c /\ v = False /\ x = p
         /\ ExclusionOwed(stack, d, x, y) =>
              \/ ExclusionOwed(stack', d, x, y)
              \/ d = c /\ v = False /\ p \in {x, y}
         /\ value[c][p] # v /\ d = c /\ v = True /\ x = p =>
              /\ y \in implications(p) => ImplicationOwed(stack', d, x, y)
              /\ y \in excludes(p) => /\ ExclusionOwed(stack', d, x, y)
                                      /\ ExclusionOwed(stack', d, y, x)
         /\ value[c][p] # v /\ d = c /\ v = False /\ y = p =>
              (p \in implications(x) => ImplicationOwed(stack', d, x, y))
<1>1. CASE value[c][p] = v
  BY <1>1 DEF Set, Below
<1>2. CASE value[c][p] # v
  <2> DEFINE f == Frame(c, p, v)
  <2>1. stack' = Append(below, f) /\ below \in Seq(FrameType)
    BY <1>2 DEF Set, Below
  <2>2. f \in FrameType
    BY FrameIsTyped
  <2>3. /\ f.child = c /\ f.prop = p
        /\ v = True => /\ f.imp = implications(p)
                       /\ f.cimp \cup f.cback = excludes(p)
        /\ v = False => f.back = impliers(p)
    BY DEF Frame, excludes, True, False
  <2> HIDE DEF f
  <2>4. /\ ImplicationOwed(below, d, x, y) => ImplicationOwed(stack', d, x, y)
        /\ ExclusionOwed(below, d, x, y) => ExclusionOwed(stack', d, x, y)
    BY <2>1, <2>2, OwedBelow
  <2>5. /\ y \in f.imp => ImplicationOwed(stack', c, p, y)
        /\ x \in f.back => ImplicationOwed(stack', c, x, p)
        /\ y \in f.cimp \cup f.cback =>
             ExclusionOwed(stack', c, p, y) /\ ExclusionOwed(stack', c, y, p)
    BY <2>1, <2>2, <2>3, OwedOnTop
  <2>6. p \in implications(x) => x \in impliers(p)
    BY DEF impliers
  <2>7. QED
    BY <2>3, <2>4, <2>5, <2>6 DEF Below
<1>3. QED
  BY <1>1, <1>2

\* What a call of set does to the values and the files.
LEMMA SetChanges ==
  ASSUME TypeOK, NEW c \in Children, NEW p \in Prop, NEW v \in {True, False},
         NEW below, Set(c, p, v, below)
  PROVE  /\ value'[c][p] = v
         /\ exported' \in [Children -> SUBSET Prop]
         /\ value[c][p] # v => (p \in exported'[c] <=> v = True)
         /\ \A d \in Children : \A x \in Prop :
              d # c \/ x # p \/ value[c][p] = v =>
                /\ value'[d][x] = value[d][x]
                /\ x \in exported'[d] <=> x \in exported[d]
<1>1. CASE value[c][p] = v
  BY <1>1 DEF Set, TypeOK
<1>2. CASE value[c][p] # v
  <2>1. /\ value' = [value EXCEPT ![c][p] = v]
        /\ exported' = [exported EXCEPT ![c] = Export(@, p, v = True)]
    BY <1>2 DEF Set
  <2>2. QED
    BY <1>2, <2>1 DEF TypeOK, Export
<1>3. QED
  BY <1>1, <1>2

\* A call of set leaves no file that disagrees with a value.
LEMMA SetKeepsFilesFollowValues ==
  ASSUME TypeOK, FilesFollowValues,
         NEW c \in Children, NEW p \in Prop, NEW v \in {True, False},
         NEW below, Set(c, p, v, below)
  PROVE  FilesFollowValues'
BY SetChanges DEF FilesFollowValues, True, False

\* After a call of set every consequence of a true proposition holds or is owed:
\* if the call changed the value of one side it is the new activation that owes
\* it, and what the call took off the stack is what it has just served.
LEMMA SetKeepsValuesOwed ==
  ASSUME TypeOK, ValuesOwed,
         NEW c \in Children, NEW p \in Prop, NEW v \in {True, False},
         NEW below, Below(c, p, v, below), Set(c, p, v, below)
  PROVE  ValuesOwed'
<1> DEFINE unaffected(d, x) == d # c \/ x # p \/ value[c][p] = v
<1>1. /\ value'[c][p] = v
      /\ \A d \in Children : \A x \in Prop :
           unaffected(d, x) => value'[d][x] = value[d][x]
  BY SetChanges
<1>2. SUFFICES ASSUME NEW d \in Children, NEW x \in Prop, value'[d][x] = True
               PROVE  /\ \A y \in implications(x) :
                           value'[d][y] = True \/ ImplicationOwed(stack', d, x, y)
                      /\ \A y \in excludes(x) :
                           value'[d][y] = False \/ ExclusionOwed(stack', d, x, y)
  BY DEF ValuesOwed
<1>3. ASSUME NEW y \in implications(x)
      PROVE  value'[d][y] = True \/ ImplicationOwed(stack', d, x, y)
  <2>1. y \in Prop
    BY TableAssumption DEF implications
  <2>2. CASE ~unaffected(d, x)
    BY <1>1, <1>2, <2>1, <2>2, SetOwes DEF True, False
  <2>3. CASE unaffected(d, x) /\ ~unaffected(d, y)
    BY <1>1, <1>2, <2>1, <2>3, SetOwes DEF True, False
  <2>4. CASE unaffected(d, x) /\ unaffected(d, y)
    BY <1>1, <1>2, <2>1, <2>4, SetOwes DEF ValuesOwed, True, False
  <2>5. QED
    BY <2>2, <2>3, <2>4
<1>4. ASSUME NEW y \in excludes(x)
      PROVE  value'[d][y] = False \/ ExclusionOwed(stack', d, x, y)
  <2>1. y \in Prop /\ x \in excludes(y)
    BY TableAssumption DEF excludes, counter_implications, counter_impliers
  <2>2. CASE ~unaffected(d, x)
    BY <1>1, <1>2, <2>1, <2>2, SetOwes DEF True, False
  <2>3. CASE unaffected(d, x) /\ ~unaffected(d, y)
    BY <1>1, <1>2, <2>1, <2>3, SetOwes DEF True, False
  <2>4. CASE unaffected(d, x) /\ unaffected(d, y)
    BY <1>1, <1>2, <2>1, <2>4, SetOwes DEF ValuesOwed, True, False
  <2>5. QED
    BY <2>2, <2>3, <2>4
<1>5. QED
  BY <1>3, <1>4

\* The same of the files.
LEMMA SetKeepsFilesOwed ==
  ASSUME TypeOK, FilesFollowValues, FilesOwed,
         NEW c \in Children, NEW p \in Prop, NEW v \in {True, False},
         NEW below, Below(c, p, v, below), Set(c, p, v, below), UNCHANGED ended
  PROVE  FilesOwed'
<1> DEFINE unaffected(d, x) == d # c \/ x # p \/ value[c][p] = v
<1>1. /\ p \in exported'[c] <=> v = True
      /\ \A d \in Children : \A x \in Prop :
           unaffected(d, x) => (x \in exported'[d] <=> x \in exported[d])
  BY SetChanges DEF FilesFollowValues, True, False
<1>2. SUFFICES ASSUME ended # "killed",
                      NEW d \in Children, NEW x \in exported'[d], x \in Prop
               PROVE  /\ \A y \in implications(x) :
                           y \in exported'[d] \/ ImplicationOwed(stack', d, x, y)
                      /\ \A y \in excludes(x) :
                           y \notin exported'[d] \/ ExclusionOwed(stack', d, x, y)
  <2>1. exported' \in [Children -> SUBSET Prop]
    BY SetChanges
  <2>2. QED
    BY <2>1 DEF FilesOwed
<1>3. ASSUME NEW y \in implications(x)
      PROVE  y \in exported'[d] \/ ImplicationOwed(stack', d, x, y)
  <2>1. y \in Prop
    BY <1>2, TableAssumption DEF implications
  <2>2. CASE ~unaffected(d, x)
    BY <1>1, <1>2, <2>1, <2>2, SetOwes DEF True, False
  <2>3. CASE unaffected(d, x) /\ ~unaffected(d, y)
    BY <1>1, <1>2, <2>1, <2>3, SetOwes DEF True, False
  <2>4. CASE unaffected(d, x) /\ unaffected(d, y)
    BY <1>1, <1>2, <2>1, <2>4, SetOwes DEF FilesOwed, True, False
  <2>5. QED
    BY <2>2, <2>3, <2>4
<1>4. ASSUME NEW y \in excludes(x)
      PROVE  y \notin exported'[d] \/ ExclusionOwed(stack', d, x, y)
  <2>1. y \in Prop /\ x \in excludes(y)
    BY <1>2, TableAssumption DEF excludes, counter_implications, counter_impliers
  <2>2. CASE ~unaffected(d, x)
    BY <1>1, <1>2, <2>1, <2>2, SetOwes DEF True, False
  <2>3. CASE unaffected(d, x) /\ ~unaffected(d, y)
    BY <1>1, <1>2, <2>1, <2>3, SetOwes DEF True, False
  <2>4. CASE unaffected(d, x) /\ unaffected(d, y)
    BY <1>1, <1>2, <2>1, <2>4, SetOwes DEF FilesOwed, True, False
  <2>5. QED
    BY <2>2, <2>3, <2>4
<1>5. QED
  BY <1>3, <1>4

-----------------------------------------------------------------------------
(***************************************************************************)
(* Every step is a call of set, a return, or the end of the process.       *)
(***************************************************************************)
\* A call of set, by conman or by another activation of set.
CallOfSet ==
  /\ \E c \in Children : \E p \in Prop : \E v \in {True, False} :
       \E below \in Seq(FrameType) :
         Below(c, p, v, below) /\ Set(c, p, v, below)
  /\ UNCHANGED <<composite, before, ended>>

\* A step of a process that lives is a call of set, the export of its parents or
\* a return from it.
LEMMA StepsOfNextAlive ==
  ASSUME TypeOK, NextAlive
  PROVE  CallOfSet \/ ExportParents \/ Return
<1>1. CASE Assign
  <2>1. PICK c \in Children, pv \in Calls : SetAttr(c, pv[1], pv[2])
    BY <1>1 DEF Assign
  <2>2. pv[1] \in Prop /\ pv[2] \in {True, False} /\ << >> \in Seq(FrameType)
    BY CallsAssumption
  <2>3. Quiet /\ Set(c, pv[1], pv[2], << >>) /\ UNCHANGED <<composite, before, ended>>
    BY <2>1 DEF SetAttr
  <2>4. Below(c, pv[1], pv[2], << >>)
    BY <2>2, <2>3 DEF Below, Quiet
  <2>5. QED
    BY <2>2, <2>3, <2>4 DEF CallOfSet
<1>2. CASE Cascade
  <2>1. CASE Return \/ ExportParents
    BY <2>1
  <2>2. CASE ~Return /\ ~ExportParents
    <3>1. ~Quiet /\ UNCHANGED <<composite, before, ended>>
      BY <1>2, <2>2 DEF Cascade, SetImplication, SetCounterImplication,
                        SetCounterImplier, SetImplier, Looping
    <3>2. /\ Top.child \in Children /\ Top.imp \subseteq Prop
          /\ Top.cimp \subseteq Prop /\ Top.cback \subseteq Prop
          /\ Top.back \subseteq Prop
      BY <3>1, TakeOff DEF FrameType
    <3>3. \/ \E q \in Top.imp : Set(Top.child, q, True, Without("imp", q))
          \/ \E q \in Top.cimp : Set(Top.child, q, False, Without("cimp", q))
          \/ \E q \in Top.cback : Set(Top.child, q, False, Without("cback", q))
          \/ \E q \in Top.back : Set(Top.child, q, False, Without("back", q))
      BY <1>2, <2>2 DEF Cascade, SetImplication, SetCounterImplication,
                        SetCounterImplier, SetImplier
    <3>4. PICK q \in Prop :
            \/ Set(Top.child, q, True, Without("imp", q))
            \/ Set(Top.child, q, False, Without("cimp", q))
            \/ Set(Top.child, q, False, Without("cback", q))
            \/ Set(Top.child, q, False, Without("back", q))
      BY <3>2, <3>3
    <3>5. /\ Without("imp", q) \in Seq(FrameType)
          /\ Without("cimp", q) \in Seq(FrameType)
          /\ Without("cback", q) \in Seq(FrameType)
          /\ Without("back", q) \in Seq(FrameType)
      BY <3>1, TakeOff
    <3>6. /\ Below(Top.child, q, True, Without("imp", q))
          /\ Below(Top.child, q, False, Without("cimp", q))
          /\ Below(Top.child, q, False, Without("cback", q))
          /\ Below(Top.child, q, False, Without("back", q))
      BY <3>1, LoopsServe
    <3>7. QED
      BY <3>1, <3>2, <3>4, <3>5, <3>6 DEF CallOfSet
  <2>3. QED
    BY <2>1, <2>2
<1>3. QED
  BY <1>1, <1>2 DEF NextAlive

\* A step is one of those or the end of the process.
LEMMA StepsOfNext ==
  ASSUME TypeOK, Next
  PROVE  CallOfSet \/ ExportParents \/ Return \/ Restart \/ Killed
BY StepsOfNextAlive DEF Next, NextAlive

\* Every step, one that kills the process included, keeps the types.
LEMMA TypeStep ==
  ASSUME TypeOK, [Next]_vars
  PROVE  TypeOK'
<1>1. CASE CallOfSet
  BY <1>1, SetIsTyped DEF CallOfSet
<1>2. CASE Return
  <2>1. stack' \in Seq(FrameType)
    BY <1>2, ReturnOwesNothing
  <2>2. QED
    BY <1>2, <2>1 DEF Return, TypeOK
<1>3. CASE ExportParents
  BY <1>3 DEF ExportParents, Export, TypeOK
<1>4. CASE Restart \/ Killed
  <2>1. /\ value' = [c \in Children |-> [p \in Prop |-> None]]
        /\ before' = value' /\ stack' = << >> /\ unexported' = {}
        /\ ended' \in {ended, "quiet", "killed"}
        /\ UNCHANGED <<exported, composite>>
    BY <1>4 DEF Restart, Killed, Forget
  <2>2. value' \in [Children -> [Prop -> Value]] /\ stack' \in Seq(FrameType)
    BY <2>1 DEF Value
  <2>3. QED
    BY <2>1, <2>2 DEF TypeOK
<1>5. CASE UNCHANGED vars
  BY <1>5 DEF vars, TypeOK
<1>6. QED
  BY <1>1, <1>2, <1>3, <1>4, <1>5, StepsOfNext

\* The state of Status keeps its types.
THEOREM TypeCorrect == Spec => []TypeOK
<1>1. Init => TypeOK
  BY DEF Init, TypeOK, Value, Quiet
<1>2. QED
  BY <1>1, TypeStep, PTL DEF Spec

(***************************************************************************)
(* The inductive invariants.  Consistent alone is not inductive: between   *)
(* the steps of a cascade it does not hold, and what makes it true again   *)
(* when the stack is empty is that the obligations are on the stack.       *)
(***************************************************************************)
\* Every step keeps the obligations of the values.
LEMMA ValuesStep ==
  ASSUME TypeOK, ValuesOwed, FilesFollowValues, [Next]_vars
  PROVE  ValuesOwed' /\ FilesFollowValues'
<1>1. CASE CallOfSet
  BY <1>1, SetKeepsValuesOwed, SetKeepsFilesFollowValues DEF CallOfSet
<1>2. CASE Return
  <2>1. UNCHANGED <<value, exported>>
    BY <1>2 DEF Return
  <2>2. QED
    BY <1>2, <2>1, ReturnOwesNothing DEF ValuesOwed, FilesFollowValues
<1>3. CASE Restart \/ Killed
  BY <1>3 DEF Restart, Killed, Forget, ValuesOwed, FilesFollowValues,
              None, True, False
<1>4. CASE ExportParents \/ UNCHANGED vars
  BY <1>4 DEF ExportParents, vars, ValuesOwed, FilesFollowValues
<1>5. QED
  BY <1>1, <1>2, <1>3, <1>4, StepsOfNext

\* Nothing is true and no file exists at the start.
LEMMA InitOwesNothing == Init => ValuesOwed /\ FilesFollowValues /\ FilesOwed
BY DEF Init, ValuesOwed, FilesFollowValues, FilesOwed, None, True, False

\* When set has returned nothing is owed.
LEMMA QuietOwesNothing ==
  ASSUME Quiet, NEW c, NEW p, NEW q
  PROVE  ~ImplicationOwed(stack, c, p, q) /\ ~ExclusionOwed(stack, c, p, q)
<1>1. Len(stack) = 0
  BY DEF Quiet
<1>2. QED
  BY <1>1 DEF ImplicationOwed, ExclusionOwed

\* Obligations are never dropped, in whatever order the loops of set run and
\* wherever the process is killed.
THEOREM ObligationsKept == Spec => [](ValuesOwed /\ FilesFollowValues)
<1>1. QED
  BY TypeCorrect, InitOwesNothing, ValuesStep, PTL DEF Spec

\* When set has returned, no proposition is true while one that it implies is
\* not or one that it excludes is.
THEOREM StatusConsistent == Spec => []Consistent
<1>1. ValuesOwed => Consistent
  BY QuietOwesNothing DEF ValuesOwed, Consistent, excludes, True, False
<1>2. QED
  BY <1>1, ObligationsKept, PTL

\* When set has returned, the files around a true proposition agree with it,
\* whatever a killed process left behind.
THEOREM TruthRepairs == Spec => []TruthRepairsFiles
<1>1. TypeOK /\ ValuesOwed /\ FilesFollowValues => TruthRepairsFiles
  <2>1. SUFFICES ASSUME TypeOK, ValuesOwed, FilesFollowValues, Quiet,
                        NEW c \in Children, NEW p \in Prop, value[c][p] = True
                 PROVE  /\ implications(p) \cup {p} \subseteq exported[c]
                        /\ excludes(p) \cap exported[c] = {}
    BY DEF TruthRepairsFiles
  <2>2. implications(p) \subseteq Prop /\ excludes(p) \subseteq Prop
    BY TableAssumption
       DEF implications, excludes, counter_implications, counter_impliers
  <2>3. /\ \A q \in implications(p) : value[c][q] = True
        /\ \A q \in excludes(p) : value[c][q] = False
    BY <2>1, QuietOwesNothing DEF ValuesOwed
  <2>4. QED
    BY <2>1, <2>2, <2>3 DEF FilesFollowValues
<1>2. QED
  BY <1>1, ObligationsKept, TypeCorrect, PTL

\* Every step keeps the obligations of the files; a restart can keep them because
\* nothing is owed outside set.
LEMMA FilesStep ==
  ASSUME TypeOK, FilesFollowValues, FilesOwed, [Next]_vars
  PROVE  FilesOwed'
<1>1. CASE CallOfSet
  BY <1>1, SetKeepsFilesOwed DEF CallOfSet
<1>2. CASE Return
  <2>1. UNCHANGED <<exported, ended>>
    BY <1>2 DEF Return
  <2>2. QED
    BY <1>2, <2>1, ReturnOwesNothing DEF FilesOwed
<1>3. CASE Restart
  <2>1. ended' # "killed" => ended # "killed"
    BY <1>3 DEF Restart
  <2>2. Quiet /\ UNCHANGED exported
    BY <1>3 DEF Restart, Forget
  <2>3. QED
    BY <2>1, <2>2, QuietOwesNothing DEF FilesOwed
<1>4. CASE Killed
  BY <1>4 DEF Killed, FilesOwed
<1>5. CASE ExportParents \/ UNCHANGED vars
  BY <1>5 DEF ExportParents, vars, FilesOwed
<1>6. QED
  BY <1>1, <1>2, <1>3, <1>4, <1>5, StepsOfNext

\* As long as processes end outside set, the files never contradict each other
\* when set has returned, those of earlier processes included.
THEOREM FilesConsistent == Spec => []ExportedConsistent
<1>1. Spec => []FilesOwed
  BY TypeCorrect, ObligationsKept, InitOwesNothing, FilesStep, PTL
     DEF Spec
<1>2. FilesOwed => ExportedConsistent
  BY QuietOwesNothing DEF FilesOwed, ExportedConsistent, excludes
<1>3. QED
  BY <1>1, <1>2, PTL

-----------------------------------------------------------------------------
\* A call of set leaves the composite file of what it changes for ExportParents to
\* write, and the others as they are.
LEMMA SetKeepsComposite ==
  ASSUME TypeOK, CompositeIsDisjunction, unexported = {},
         NEW c \in Children, NEW p \in Prop, NEW v \in {True, False},
         NEW below \in Seq(FrameType), Set(c, p, v, below), UNCHANGED composite
  PROVE  CompositeIsDisjunction'
<1>1. CASE value[c][p] = v
  BY <1>1 DEF Set, CompositeIsDisjunction
<1>2. CASE value[c][p] # v
  <2>1. /\ unexported' = {p}
        /\ stack' = Append(below, Frame(c, p, v))
        /\ value' = [value EXCEPT ![c][p] = v]
    BY <1>2 DEF Set
  <2>2. stack'[Len(stack')] = Frame(c, p, v) /\ stack' # << >>
    BY <2>1, FrameIsTyped
  <2>3. ~Quiet' /\ Top'.prop = p
    BY <2>2 DEF Quiet, Top, Frame
  <2>4. \A x \in Prop \ {p} : \A d \in Children : value'[d][x] = value[d][x]
    BY <2>1 DEF TypeOK
  <2>5. QED
    BY <2>1, <2>3, <2>4 DEF CompositeIsDisjunction
<1>3. QED
  BY <1>1, <1>2

\* set is only called once the parents of the activation around it are exported.
LEMMA CallsWithoutExport ==
  ASSUME TypeOK, CompositeIsDisjunction, NextAlive, ~ExportParents
  PROVE  unexported = {}
BY DEF CompositeIsDisjunction, NextAlive, Assign, SetAttr, Cascade, Looping,
       SetImplication, SetCounterImplication, SetCounterImplier, SetImplier, Return

\* The composite status is the disjunction of the values, but for the proposition
\* that a running set has just changed, wherever earlier processes ended.
THEOREM CompositeCorrect == Spec => []CompositeIsDisjunction
<1>1. Init => CompositeIsDisjunction
  BY DEF Init, CompositeIsDisjunction
<1>2. ASSUME TypeOK, CompositeIsDisjunction, [Next]_vars
      PROVE  CompositeIsDisjunction'
  <2>1. CASE CallOfSet /\ unexported = {}
    BY <1>2, <2>1, SetKeepsComposite DEF CallOfSet
  <2>2. CASE Return
    <3>1. unexported = {} /\ UNCHANGED <<value, composite, unexported>>
      BY <2>2 DEF Return, Looping
    <3>2. QED
      BY <1>2, <3>1 DEF CompositeIsDisjunction
  <2>3. CASE ExportParents
    <3>1. PICK p \in unexported :
            composite' = Export(composite, p, \E c \in Children : value[c][p] = True)
      BY <2>3 DEF ExportParents
    <3>2. unexported = {p} /\ unexported' = {} /\ UNCHANGED <<value, stack>>
      BY <1>2, <2>3, <3>1 DEF ExportParents, CompositeIsDisjunction
    <3>3. \A x \in Prop :
            x \in composite' <=> IF x = p THEN \E c \in Children : value[c][p] = True
                                          ELSE x \in composite
      BY <3>1 DEF Export
    <3>4. QED
      BY <1>2, <3>2, <3>3 DEF CompositeIsDisjunction
  <2>4. CASE Restart \/ Killed
    <3>1. /\ value' = [c \in Children |-> [p \in Prop |-> None]]
          /\ unexported' = {}
      BY <2>4 DEF Restart, Killed, Forget
    <3>2. QED
      BY <3>1 DEF CompositeIsDisjunction
  <2>5. CASE UNCHANGED vars
    BY <1>2, <2>5 DEF vars, CompositeIsDisjunction, Quiet, Top
  <2>6. QED
    BY <1>2, <2>1, <2>2, <2>3, <2>4, <2>5, StepsOfNextAlive, CallsWithoutExport
       DEF Next, NextAlive
<1>3. QED
  BY <1>1, <1>2, TypeCorrect, PTL DEF Spec

-----------------------------------------------------------------------------
(***************************************************************************)
(* The outcome of an assignment.  For a table along which no assignment    *)
(* contradicts itself, everything that the cascade of an assignment makes  *)
(* true or false is in the two sets of StatusSpec, which are disjoint.     *)
(***************************************************************************)
\* Whatever implies something false is false, or an activation owes it.
FalseOwed ==
  \A c \in Children : \A q \in Prop :
    value[c][q] = False =>
      \A r \in impliers(q) : value[c][r] = False \/ ImplicationOwed(stack, c, r, q)

\* The loops of the activation f serve an assignment to child c that makes U true
\* and D false.
FrameWithin(f, c, U, D) ==
  f.child = c /\ f.imp \subseteq U /\ f.cimp \cup f.cback \cup f.back \subseteq D

\* The values of child c, and what is still to be done for it, are those of an
\* assignment of v to p that makes U true and D false.
Within(c, p, v, U, D) ==
  /\ \A d \in Children : d # c => value[d] = before[d]
  /\ value[c][p] = v
  /\ \A q \in Prop : value[c][q] # before[c][q] =>
       \/ q \in U /\ value[c][q] = True
       \/ q \in D /\ value[c][q] = False
  /\ \A i \in 1..Len(stack) : FrameWithin(stack[i], c, U, D)

\* Every cascade is that of an assignment of conman.
Contained ==
  IF Quiet THEN before = value
  ELSE \E c \in Children : \E pv \in Calls :
         Within(c, pv[1], pv[2], Abstract!Up(pv[1], pv[2]), Abstract!Down(pv[1], pv[2]))

-----------------------------------------------------------------------------
(* What is reachable along a relation *)

\* A set of natural numbers has a least element: this is how we argue by
\* induction.
LEMMA LeastNat ==
  ASSUME NEW S \in SUBSET Nat, S # {}
  PROVE  \E x \in S : \A y \in S : x <= y
<1>1. PICK x \in S : \A y \in S : ~(<<y, x>> \in OpToRel(<, Nat))
  BY NatLessThanWellFounded, WFMin
<1>2. ASSUME NEW y \in S, y < x PROVE FALSE
  <2>1. <<y, x>> \in OpToRel(<, Nat)
    BY <1>2, Zenon DEF OpToRel
  <2>2. QED
    BY <1>1, <2>1, Zenon
<1>3. QED
  BY <1>2

\* T with all that an edge of R leads to.
Spread(R, T) == T \cup UNION {R[q] : q \in T}

\* No edge of R leads out of T.
Closed(R, T) == \A q \in T : R[q] \subseteq T

\* The recursive definition of Reach has a solution.
LEMMA ReachExists ==
  ASSUME NEW N \in Nat, NEW R \in [Prop -> SUBSET Prop], NEW S \in SUBSET Prop
  PROVE  \E f : f = [n \in 0..N |-> IF n = 0 THEN S ELSE Spread(R, f[n - 1])]
<1> DEFINE Good(n, f) == f[0] = S /\ \A i \in 1..n : f[i] = Spread(R, f[i - 1])
           Bad == {n \in 0..N : ~ \E f \in [0..n -> SUBSET Prop] : Good(n, f)}
<1>1. Bad = {}
  <2> SUFFICES ASSUME Bad # {} PROVE FALSE
    OBVIOUS
  <2>1. PICK n \in Bad : \A m \in Bad : n <= m
    <3>1. Bad \in SUBSET Nat
      OBVIOUS
    <3> HIDE DEF Bad
    <3>2. QED
      BY <3>1, LeastNat
  <2>2. CASE n = 0
    <3>1. [i \in 0..0 |-> S] \in [0..0 -> SUBSET Prop]
      OBVIOUS
    <3>2. Good(0, [i \in 0..0 |-> S])
      OBVIOUS
    <3>3. QED
      BY <2>2, <3>1, <3>2
  <2>3. CASE n # 0
    <3>1. n \in 1..N /\ n - 1 \in 0..N /\ n - 1 \notin Bad
      <4>1. n \in 1..N /\ n - 1 \in 0..N /\ ~(n <= n - 1)
        BY <2>3
      <4> HIDE DEF Bad
      <4>2. QED
        BY <2>1, <4>1
    <3>2. PICK f \in [0..(n - 1) -> SUBSET Prop] : Good(n - 1, f)
      BY <3>1
    <3> DEFINE g == [i \in 0..n |-> IF i = n THEN Spread(R, f[n - 1]) ELSE f[i]]
    <3>3. Spread(R, f[n - 1]) \in SUBSET Prop
      BY <3>1, <3>2 DEF Spread
    <3>4. g \in [0..n -> SUBSET Prop]
      BY <3>1, <3>2, <3>3
    <3>5. Good(n, g)
      <4>1. g[0] = S
        BY <3>1, <3>2
      <4>2. ASSUME NEW i \in 1..n PROVE g[i] = Spread(R, g[i - 1])
        <5>1. g[i - 1] = f[i - 1]
          BY <3>1, <4>2
        <5>2. CASE i = n
          BY <3>1, <5>1, <5>2
        <5>3. CASE i # n
          <6>1. i \in 1..(n - 1) /\ g[i] = f[i]
            BY <3>1, <5>3
          <6>2. QED
            BY <3>2, <5>1, <6>1
        <5>4. QED
          BY <5>2, <5>3
      <4>3. QED
        BY <4>1, <4>2
    <3>6. QED
      BY <3>4, <3>5
  <2>4. QED
    BY <2>2, <2>3
<1>2. PICK f \in [0..N -> SUBSET Prop] : Good(N, f)
  BY <1>1, SMTT(30)
<1>3. f = [n \in 0..N |-> IF n = 0 THEN S ELSE Spread(R, f[n - 1])]
  BY <1>2
<1>4. QED
  BY <1>3

\* StatusSpec counts as we do.
LEMMA SameCardinality == Abstract!Cardinality(Prop) = Cardinality(Prop)
BY DEF Abstract!Cardinality, Cardinality

LEMMA ReachDef ==
  ASSUME Cardinality(Prop) \in Nat,
         NEW R \in [Prop -> SUBSET Prop], NEW S \in SUBSET Prop
  PROVE  /\ Abstract!Reach(R, S)[0] = S
         /\ \A n \in 1..Cardinality(Prop) :
              Abstract!Reach(R, S)[n] = Spread(R, Abstract!Reach(R, S)[n - 1])
<1> DEFINE N == Cardinality(Prop)
           r == Abstract!Reach(R, S)
<1>1. r = [n \in 0..N |-> IF n = 0 THEN S ELSE Spread(R, r[n - 1])]
  <2>1. PICK f : f = [n \in 0..N |-> IF n = 0 THEN S ELSE Spread(R, f[n - 1])]
    BY ReachExists, Zenon
  <2>2. QED
    BY <2>1, SameCardinality, Zenon DEF Abstract!Reach, Spread
<1> HIDE DEF r, N
<1>2. N \in Nat
  BY DEF N
<1>3. r[0] = S /\ \A n \in 1..N : r[n] = Spread(R, r[n - 1])
  BY <1>1, <1>2
<1>4. QED
  BY <1>3 DEF r, N

\* A set that holds at 0 and is passed on holds everywhere up to N.
LEMMA PassedOn ==
  ASSUME NEW N \in Nat, NEW G \in SUBSET (0..N), 0 \in G,
         \A n \in 1..N : n - 1 \in G => n \in G
  PROVE  G = 0..N
<1> DEFINE Bad == (0..N) \ G
<1> SUFFICES ASSUME Bad # {} PROVE FALSE
  OBVIOUS
<1>1. Bad \in SUBSET Nat
  OBVIOUS
<1>2. PICK n \in Bad : \A m \in Bad : n <= m
  <2> HIDE DEF Bad
  <2>1. QED
    BY <1>1, LeastNat
<1>3. n \in 1..N /\ n - 1 \in 0..N /\ ~(n <= n - 1)
  OBVIOUS
<1>4. n - 1 \notin Bad
  <2> HIDE DEF Bad
  <2>1. QED
    BY <1>2, <1>3
<1>5. QED
  BY <1>3, <1>4

\* After n rounds there is nothing more to reach, or at least n elements are
\* reached.
LEMMA ReachGrows ==
  ASSUME IsFiniteSet(Prop), NEW R \in [Prop -> SUBSET Prop], NEW S \in SUBSET Prop,
         NEW n \in 0..Cardinality(Prop)
  PROVE  LET T == Abstract!Reach(R, S)[n]
         IN S \subseteq T /\ T \subseteq Prop /\ (Closed(R, T) \/ Cardinality(T) >= n)
<1> DEFINE N == Cardinality(Prop)
           r == Abstract!Reach(R, S)
           Grown(m) == /\ S \subseteq r[m] /\ r[m] \subseteq Prop
                       /\ Closed(R, r[m]) \/ Cardinality(r[m]) >= m
           G == {m \in 0..N : Grown(m)}
<1>1. N \in Nat
  BY FS_CardinalityType
<1>2. r[0] = S /\ \A m \in 1..N : r[m] = Spread(R, r[m - 1])
  BY <1>1, ReachDef
<1> HIDE DEF r, N
<1>3. Grown(0)
  <2>1. IsFiniteSet(S) /\ Cardinality(S) \in Nat
    BY FS_Subset, FS_CardinalityType
  <2>2. QED
    BY <1>2, <2>1
<1>4. ASSUME NEW m \in 1..N, Grown(m - 1) PROVE Grown(m)
  <2> DEFINE A == r[m - 1]
             B == r[m]
  <2>1. B = Spread(R, A) /\ S \subseteq A /\ A \subseteq Prop
    BY <1>2, <1>4
  <2>2. Closed(R, A) \/ Cardinality(A) >= m - 1
    BY <1>4
  <2> HIDE DEF A, B
  <2>3. A \subseteq B /\ B \subseteq Prop
    BY <2>1 DEF Spread
  <2>4. IsFiniteSet(A) /\ IsFiniteSet(B) /\ Cardinality(A) \in Nat /\ Cardinality(B) \in Nat
    BY <2>1, <2>3, FS_Subset, FS_CardinalityType
  <2>5. CASE Closed(R, A)
    <3>1. B = A
      BY <2>1, <2>5 DEF Spread, Closed
    <3>2. QED
      BY <2>1, <2>5, <3>1 DEF A, B
  <2>6. CASE ~Closed(R, A)
    <3>1. A # B
      BY <2>1, <2>6 DEF Spread, Closed
    <3>2. Cardinality(A) <= Cardinality(B) /\ Cardinality(A) # Cardinality(B)
      BY <2>3, <2>4, <3>1, FS_Subset
    <3>3. Cardinality(B) >= m
      BY <1>1, <2>2, <2>4, <2>6, <3>2
    <3>4. QED
      BY <2>1, <2>3, <3>3 DEF B
  <2>7. QED
    BY <2>5, <2>6
<1> HIDE DEF Grown
<1>5. G = 0..N
  <2>1. G \in SUBSET (0..N) /\ 0 \in G /\ \A m \in 1..N : m - 1 \in G => m \in G
    BY <1>1, <1>3, <1>4
  <2> HIDE DEF G
  <2>2. QED
    BY <1>1, <2>1, PassedOn
<1>6. Grown(n)
  BY <1>5 DEF N
<1>7. QED
  BY <1>6 DEF Grown, r

\* Closure is the least set with the elements of S that no edge of R leads out
\* of.
LEMMA ClosureLeast ==
  ASSUME IsFiniteSet(Prop), NEW R \in [Prop -> SUBSET Prop], NEW S \in SUBSET Prop
  PROVE  /\ S \subseteq Abstract!Closure(R, S)
         /\ Abstract!Closure(R, S) \subseteq Prop
         /\ Closed(R, Abstract!Closure(R, S))
         /\ \A T : S \subseteq T /\ Closed(R, T) => Abstract!Closure(R, S) \subseteq T
<1> DEFINE N == Cardinality(Prop)
           r == Abstract!Reach(R, S)
<1>1. N \in Nat
  BY FS_CardinalityType
<1>2. r[0] = S /\ \A m \in 1..N : r[m] = Spread(R, r[m - 1])
  BY <1>1, ReachDef
<1>3. Abstract!Closure(R, S) = r[N]
  BY SameCardinality DEF Abstract!Closure
<1>4. /\ S \subseteq r[N] /\ r[N] \subseteq Prop
      /\ Closed(R, r[N]) \/ Cardinality(r[N]) >= N
  BY <1>1, ReachGrows
<1> HIDE DEF r
<1>5. Closed(R, r[N])
  <2>1. CASE Cardinality(r[N]) >= N
    <3>1. Cardinality(r[N]) <= N /\ Cardinality(r[N]) \in Nat
      BY <1>4, FS_Subset, FS_CardinalityType
    <3>2. Cardinality(r[N]) = N
      BY <1>1, <2>1, <3>1
    <3>3. r[N] = Prop
      BY <1>4, <3>2, FS_Subset
    <3>4. QED
      BY <3>3 DEF Closed
  <2>2. QED
    BY <1>4, <2>1
<1> HIDE DEF N
<1>6. ASSUME NEW T, S \subseteq T, Closed(R, T) PROVE r[N] \subseteq T
  <2> DEFINE G == {m \in 0..N : r[m] \subseteq T}
  <2>1. ASSUME NEW m \in 1..N, r[m - 1] \subseteq T PROVE r[m] \subseteq T
    BY <1>2, <1>6, <2>1 DEF Spread, Closed
  <2>2. G \in SUBSET (0..N) /\ 0 \in G /\ \A m \in 1..N : m - 1 \in G => m \in G
    BY <1>1, <1>2, <1>6, <2>1
  <2>3. G = 0..N
    <3> HIDE DEF G
    <3>1. QED
      BY <1>1, <2>2, PassedOn
  <2>4. QED
    BY <1>1, <2>3
<1>7. QED
  BY <1>3, <1>4, <1>5, <1>6

-----------------------------------------------------------------------------
(* What an assignment makes true and false *)

\* U and D hold together all consequences of assigning v to p.
Covers(p, v, U, D) ==
  /\ U \subseteq Prop /\ D \subseteq Prop
  /\ IF v = True THEN p \in U ELSE p \in D
  /\ \A q \in U : implications(q) \subseteq U /\ excludes(q) \subseteq D
  /\ \A q \in D : impliers(q) \subseteq D

\* Excluded holds what some element of S excludes or is excluded by.
LEMMA ExcludedIs ==
  ASSUME NEW S \in SUBSET Prop, NEW r
  PROVE  r \in Abstract!Excluded(S) <=> \E q \in S : r \in excludes(q)
<1> DEFINE E == [q \in Prop |-> counter_implications(q)]
<1>1. r \in Abstract!Excluded(S) <=>
        r \in UNION {E[q] : q \in S} \/ (r \in Prop /\ E[r] \cap S # {})
  BY DEF Abstract!Excluded
<1>2. r \in UNION {E[q] : q \in S} <=> \E q \in S : r \in E[q]
  OBVIOUS
<1>3. \A q \in Prop : E[q] = counter_implications(q) /\ E[q] \subseteq Prop
  BY TableAssumption DEF counter_implications
<1> HIDE DEF E
<1>4. \A q \in S : r \in excludes(q) <=> r \in E[q] \/ (r \in Prop /\ q \in E[r])
  BY <1>3 DEF excludes, counter_impliers
<1>5. QED
  BY <1>1, <1>2, <1>4

\* The sets of StatusSpec hold all consequences of an assignment, and nothing
\* else.
LEMMA OutcomeLeast ==
  ASSUME IsFiniteSet(Prop), NEW p \in Prop, NEW v \in {True, False}
  PROVE  LET U == Abstract!Up(p, v)
             D == Abstract!Down(p, v)
         IN /\ Covers(p, v, U, D)
            /\ \A T, F : Covers(p, v, T, F) => U \subseteq T /\ D \subseteq F
<1> DEFINE I == [q \in Prop |-> implications(q)]
           J == [q \in Prop |-> {r \in Prop : q \in I[r]}]
           U == Abstract!Up(p, v)
           X == IF v = True THEN Abstract!Excluded(U) ELSE {p}
           D == Abstract!Down(p, v)
<1>1. I \in [Prop -> SUBSET Prop] /\ J \in [Prop -> SUBSET Prop]
  BY TableAssumption DEF implications
<1>2. \A q \in Prop : I[q] = implications(q) /\ J[q] = impliers(q)
  BY DEF impliers
<1>3. \A S \in SUBSET Prop :
        /\ Abstract!Excluded(S) \subseteq Prop
        /\ \A q \in S : excludes(q) \subseteq Abstract!Excluded(S)
        /\ \A F : (\A q \in S : excludes(q) \subseteq F) => Abstract!Excluded(S) \subseteq F
  <2>1. \A q \in Prop : excludes(q) \subseteq Prop
    BY TableAssumption DEF excludes, counter_implications, counter_impliers
  <2>2. QED
    BY <2>1, ExcludedIs
<1>4. v = True => U = Abstract!Closure(I, {p})
  BY DEF Abstract!Up, True
<1>5. v = False => U = {}
  BY DEF Abstract!Up, True, False
<1>6. D = Abstract!Closure(J, X)
  BY DEF Abstract!Down, Abstract!Refuted, True
<1> HIDE DEF I, J, U, D
<1>7. U \subseteq Prop /\ (v = True => p \in U) /\ \A q \in U : implications(q) \subseteq U
  <2>1. CASE v = True
    BY <1>1, <1>2, <1>4, <2>1, ClosureLeast DEF Closed
  <2>2. CASE v = False
    BY <1>5, <2>2 DEF True, False
  <2>3. QED
    BY <2>1, <2>2
<1>8. X \subseteq Prop /\ (v = False => X = {p}) /\ \A q \in U : excludes(q) \subseteq X
  <2>1. CASE v = True
    BY <1>3, <1>7, <2>1 DEF True, False
  <2>2. CASE v = False
    BY <1>5, <2>2 DEF True, False
  <2>3. QED
    BY <2>1, <2>2
<1>9. \A F : (\A q \in U : excludes(q) \subseteq F) /\ (v = False => p \in F) => X \subseteq F
  BY <1>3, <1>7 DEF True, False
<1> HIDE DEF X
<1>10. D \subseteq Prop /\ X \subseteq D /\ \A q \in D : impliers(q) \subseteq D
  BY <1>1, <1>2, <1>6, <1>8, ClosureLeast DEF Closed
<1>11. Covers(p, v, U, D)
  BY <1>7, <1>8, <1>10 DEF Covers, True, False
<1>12. ASSUME NEW T, NEW F, Covers(p, v, T, F) PROVE U \subseteq T /\ D \subseteq F
  <2>1. /\ T \subseteq Prop /\ F \subseteq Prop
        /\ v = True => p \in T
        /\ v = False => p \in F
        /\ \A q \in T : implications(q) \subseteq T /\ excludes(q) \subseteq F
        /\ \A q \in F : impliers(q) \subseteq F
    BY <1>12 DEF Covers, True, False
  <2>2. Closed(I, T) /\ Closed(J, F)
    BY <1>2, <2>1 DEF Closed
  <2>3. U \subseteq T
    BY <1>1, <1>4, <1>5, <2>1, <2>2, ClosureLeast
  <2>4. X \subseteq F
    BY <1>9, <2>1, <2>3
  <2>5. QED
    BY <1>1, <1>6, <1>8, <2>2, <2>3, <2>4, ClosureLeast
<1>13. QED
  BY <1>11, <1>12 DEF U, D

\* A call of set inside the cascade of an assignment.
CallWithin(c, U, D) ==
  /\ \E q \in Prop : \E w \in {True, False} : \E below \in Seq(FrameType) :
       /\ Set(c, q, w, below)
       /\ IF w = True THEN q \in U ELSE q \in D
       /\ \A i \in 1..Len(below) : FrameWithin(below[i], c, U, D)
  /\ UNCHANGED before

\* The loops of an activation call set for what the assignment changes.
LEMMA LoopsStayWithin ==
  ASSUME TypeOK, NEW c \in Children, NEW p, NEW v, NEW U, NEW D,
         Within(c, p, v, U, D), Cascade, ~Return, ~ExportParents
  PROVE  CallWithin(c, U, D)
<1>1. ~Quiet /\ UNCHANGED before
  BY DEF Cascade, SetImplication, SetCounterImplication, SetCounterImplier, SetImplier,
         Looping
<1>2. stack \in Seq(FrameType) /\ Len(stack) \in 1..Len(stack)
  BY <1>1 DEF TypeOK, Quiet
<1>3. Top \in FrameType /\ FrameWithin(Top, c, U, D)
  BY <1>2 DEF Within, Top
<1>4. /\ Top.child = c /\ Top.imp \subseteq U /\ Top.imp \subseteq Prop
      /\ Top.cimp \subseteq D /\ Top.cback \subseteq D /\ Top.back \subseteq D
      /\ Top.cimp \subseteq Prop /\ Top.cback \subseteq Prop /\ Top.back \subseteq Prop
  BY <1>3 DEF FrameWithin, FrameType
<1>5. ASSUME NEW q, NEW loop \in {"imp", "cimp", "cback", "back"}
      PROVE  /\ Without(loop, q) \in Seq(FrameType)
             /\ \A i \in 1..Len(Without(loop, q)) : FrameWithin(Without(loop, q)[i], c, U, D)
  <2> DEFINE w == Without(loop, q)
             g == [Top EXCEPT ![loop] = @ \ {q}]
  <2>1. /\ w \in Seq(FrameType) /\ Len(w) = Len(stack) /\ w[Len(stack)] = g
        /\ \A i \in 1..Len(stack) : i # Len(stack) => w[i] = stack[i]
    BY <1>1, TakeOff, ZenonT(40)
  <2>2. FrameWithin(g, c, U, D)
    BY <1>3 DEF FrameWithin, FrameType
  <2> HIDE DEF w, g
  <2>3. QED
    BY <2>1, <2>2 DEF Within, w
<1>6. \/ \E q \in Top.imp : Set(c, q, True, Without("imp", q))
      \/ \E q \in Top.cimp : Set(c, q, False, Without("cimp", q))
      \/ \E q \in Top.cback : Set(c, q, False, Without("cback", q))
      \/ \E q \in Top.back : Set(c, q, False, Without("back", q))
  BY <1>4 DEF Cascade, SetImplication, SetCounterImplication, SetCounterImplier, SetImplier
<1>7. CASE \E q \in Top.imp : Set(c, q, True, Without("imp", q))
  BY <1>1, <1>4, <1>5, <1>7 DEF CallWithin
<1>8. CASE \E q \in Top.cimp : Set(c, q, False, Without("cimp", q))
  BY <1>1, <1>4, <1>5, <1>8 DEF CallWithin, True, False
<1>9. CASE \E q \in Top.cback : Set(c, q, False, Without("cback", q))
  BY <1>1, <1>4, <1>5, <1>9 DEF CallWithin, True, False
<1>10. CASE \E q \in Top.back : Set(c, q, False, Without("back", q))
  BY <1>1, <1>4, <1>5, <1>10 DEF CallWithin, True, False
<1>11. QED
  BY <1>6, <1>7, <1>8, <1>9, <1>10

\* A new activation inside the cascade stays inside it.
LEMMA NewFrameWithin ==
  ASSUME NEW c, NEW p, NEW v, NEW U, NEW D, Covers(p, v, U, D),
         NEW q \in Prop, NEW w \in {True, False}, IF w = True THEN q \in U ELSE q \in D
  PROVE  FrameWithin(Frame(c, q, w), c, U, D)
BY DEF FrameWithin, Frame, Covers, excludes, True, False

\* A call of set inside the cascade keeps the values and the stack inside it.
LEMMA CallKeepsWithin ==
  ASSUME TypeOK, NEW c \in Children, NEW p \in Prop, NEW v \in {True, False},
         NEW U, NEW D, Covers(p, v, U, D), U \cap D = {}, CallWithin(c, U, D),
         \/ Within(c, p, v, U, D)
         \/ before = value /\ Set(c, p, v, << >>)
  PROVE  stack' # << >> => Within(c, p, v, U, D)'
<1> SUFFICES ASSUME stack' # << >> PROVE Within(c, p, v, U, D)'
  OBVIOUS
<1>1. PICK q \in Prop, w \in {True, False}, below \in Seq(FrameType) :
        /\ Set(c, q, w, below)
        /\ IF w = True THEN q \in U ELSE q \in D
        /\ \A i \in 1..Len(below) : FrameWithin(below[i], c, U, D)
  BY DEF CallWithin
<1>2. UNCHANGED before
  BY DEF CallWithin
<1>3. /\ value' \in [Children -> [Prop -> Value]]
      /\ value \in [Children -> [Prop -> Value]]
      /\ before \in [Children -> [Prop -> Value]]
  <2>1. value' = value \/ value' = [value EXCEPT ![c][q] = w]
    BY <1>1 DEF Set
  <2>2. /\ value \in [Children -> [Prop -> Value]] /\ w \in Value
        /\ before \in [Children -> [Prop -> Value]]
    BY DEF TypeOK, Value
  <2>3. QED
    BY <2>1, <2>2
<1>4. /\ value'[c][q] = w
      /\ \A d \in Children : \A x \in Prop : d # c \/ x # q => value'[d][x] = value[d][x]
  BY <1>1, SetChanges
<1>5. \A d \in Children : d # c => value'[d] = before'[d]
  <2> SUFFICES ASSUME NEW d \in Children, d # c PROVE value'[d] = before[d]
    BY <1>2
  <2>1. value[d] = before[d]
    BY DEF Within
  <2>2. \A x \in Prop : value'[d][x] = value[d][x]
    BY <1>4
  <2>3. value'[d] \in [Prop -> Value] /\ value[d] \in [Prop -> Value]
    BY <1>3
  <2>4. value'[d] = value[d]
    BY <2>2, <2>3
  <2>5. QED
    BY <2>1, <2>4
<1>6. value'[c][p] = v
  <2>1. CASE Within(c, p, v, U, D)
    <3>1. value[c][p] = v
      BY <2>1 DEF Within
    <3>2. p = q => v = w
      BY <1>1 DEF Covers, True, False
    <3>3. QED
      BY <1>4, <3>1, <3>2
  <2>2. CASE before = value /\ Set(c, p, v, << >>)
    <3>1. << >> \in Seq(FrameType)
      OBVIOUS
    <3>2. QED
      BY <2>2, <3>1, SetChanges
  <2>3. QED
    BY <2>1, <2>2
<1>7. ASSUME NEW x \in Prop, value'[c][x] # before'[c][x]
      PROVE  (x \in U /\ value'[c][x] = True) \/ (x \in D /\ value'[c][x] = False)
  <2>1. CASE x = q
    BY <1>1, <1>4, <2>1 DEF True, False
  <2>2. CASE x # q
    <3>1. value'[c][x] = value[c][x] /\ value[c][x] # before[c][x]
      BY <1>2, <1>4, <1>7, <2>2
    <3>2. QED
      BY <3>1 DEF Within
  <2>3. QED
    BY <2>1, <2>2
<1>8. ASSUME NEW i \in 1..Len(stack') PROVE FrameWithin(stack'[i], c, U, D)
  <2>1. CASE stack' = below
    BY <1>1, <2>1
  <2>2. CASE stack' = Append(below, Frame(c, q, w))
    <3> DEFINE f == Frame(c, q, w)
    <3>1. FrameWithin(f, c, U, D)
      BY <1>1, NewFrameWithin
    <3> HIDE DEF f
    <3>2. /\ Len(Append(below, f)) = Len(below) + 1
          /\ Append(below, f)[Len(below) + 1] = f
          /\ \A j \in 1..Len(below) : Append(below, f)[j] = below[j]
      OBVIOUS
    <3>3. stack' = Append(below, f)
      BY <2>2 DEF f
    <3>4. QED
      BY <1>1, <3>1, <3>2, <3>3
  <2>3. QED
    BY <1>1, <2>1, <2>2 DEF Set
<1>9. QED
  BY <1>5, <1>6, <1>7, <1>8 DEF Within

\* The table lets no assignment of conman contradict itself.
Unambiguous == IsFiniteSet(Prop) /\ Abstract!Coherent

\* What Unambiguous says of an assignment.
LEMMA OutcomeOfCall ==
  ASSUME Unambiguous, NEW pv \in Calls
  PROVE  /\ pv[1] \in Prop /\ pv[2] \in {True, False}
         /\ Covers(pv[1], pv[2], Abstract!Up(pv[1], pv[2]), Abstract!Down(pv[1], pv[2]))
         /\ Abstract!Up(pv[1], pv[2]) \cap Abstract!Down(pv[1], pv[2]) = {}
<1>1. pv[1] \in Prop /\ pv[2] \in {True, False}
  BY CallsAssumption
<1>2. QED
  BY <1>1, OutcomeLeast DEF Unambiguous, Abstract!Coherent

\* Every step keeps the cascade inside its assignment.
LEMMA ContainedStep ==
  ASSUME Unambiguous, TypeOK, Contained, [Next]_vars
  PROVE  Contained'
<1>1. CASE Assign
  <2>1. PICK c \in Children, pv \in Calls : SetAttr(c, pv[1], pv[2])
    BY <1>1 DEF Assign
  <2> DEFINE p == pv[1]
             v == pv[2]
             U == Abstract!Up(p, v)
             D == Abstract!Down(p, v)
  <2>2. /\ Quiet /\ Set(c, p, v, << >>) /\ UNCHANGED before /\ before = value
    BY <2>1 DEF SetAttr, Contained
  <2>3. p \in Prop /\ v \in {True, False} /\ Covers(p, v, U, D) /\ U \cap D = {}
    BY OutcomeOfCall
  <2> HIDE DEF U, D
  <2>4. CallWithin(c, U, D)
    <3>1. << >> \in Seq(FrameType) /\ 1..Len(<< >>) = {}
      OBVIOUS
    <3>2. IF v = True THEN p \in U ELSE p \in D
      BY <2>3 DEF Covers
    <3>3. QED
      BY <2>2, <2>3, <3>1, <3>2 DEF CallWithin
  <2>5. CASE stack' # << >>
    <3>1. Within(c, p, v, U, D)'
      BY <2>2, <2>3, <2>4, <2>5, CallKeepsWithin
    <3>2. QED
      BY <2>5, <3>1 DEF Contained, Quiet, U, D
  <2>6. CASE stack' = << >>
    <3>1. stack' # Append(<< >>, Frame(c, p, v))
      BY <2>6
    <3>2. value' = value
      BY <2>2, <3>1 DEF Set
    <3>3. QED
      BY <2>2, <2>6, <3>2 DEF Contained, Quiet
  <2>7. QED
    BY <2>5, <2>6
<1>2. CASE Cascade /\ ~Return /\ ~ExportParents
  <2>1. ~Quiet
    BY <1>2 DEF Cascade, SetImplication, SetCounterImplication, SetCounterImplier,
                SetImplier, Looping
  <2>2. PICK c \in Children, pv \in Calls :
          Within(c, pv[1], pv[2], Abstract!Up(pv[1], pv[2]), Abstract!Down(pv[1], pv[2]))
    BY <2>1 DEF Contained
  <2> DEFINE p == pv[1]
             v == pv[2]
             U == Abstract!Up(p, v)
             D == Abstract!Down(p, v)
  <2>3. p \in Prop /\ v \in {True, False} /\ Covers(p, v, U, D) /\ U \cap D = {}
    BY OutcomeOfCall
  <2>4. Within(c, p, v, U, D)
    BY <2>2
  <2> HIDE DEF U, D
  <2>5. CallWithin(c, U, D)
    BY <1>2, <2>4, LoopsStayWithin
  <2>6. stack' # << >>
    <3>1. PICK q \in Prop, w \in {True, False}, loop \in {"imp", "cimp", "cback", "back"} :
            Set(Top.child, q, w, Without(loop, q))
      BY <1>2, <2>1, TakeOff
         DEF Cascade, SetImplication, SetCounterImplication, SetCounterImplier,
             SetImplier, FrameType
    <3>2. Without(loop, q) \in Seq(FrameType) /\ Len(Without(loop, q)) = Len(stack)
      BY <2>1, TakeOff, ZenonT(40)
    <3>3. Len(stack) # 0
      BY <2>1 DEF TypeOK, Quiet
    <3>4. stack' = Without(loop, q) \/ \E f : stack' = Append(Without(loop, q), f)
      BY <3>1 DEF Set
    <3> DEFINE b == Without(loop, q)
    <3> HIDE DEF b
    <3>5. b # << >> /\ b \in Seq(FrameType)
      BY <3>2, <3>3 DEF b
    <3>6. \A f : Append(b, f) # << >>
      BY <3>5
    <3>7. QED
      BY <3>4, <3>5, <3>6 DEF b
  <2>7. Within(c, p, v, U, D)'
    BY <2>3, <2>4, <2>5, <2>6, CallKeepsWithin
  <2>8. QED
    BY <2>6, <2>7 DEF Contained, Quiet, U, D
<1>3. CASE Return
  <2>1. ~Quiet /\ value' = value /\ before' = IF stack' = << >> THEN value ELSE before
    BY <1>3 DEF Return, Looping
  <2>2. CASE stack' = << >>
    BY <2>1, <2>2 DEF Contained, Quiet
  <2>3. CASE stack' # << >>
    <3>1. PICK c \in Children, pv \in Calls :
            Within(c, pv[1], pv[2], Abstract!Up(pv[1], pv[2]), Abstract!Down(pv[1], pv[2]))
      BY <2>1 DEF Contained
    <3>2. Len(stack') < Len(stack) /\ \A i \in 1..Len(stack') : i \in 1..Len(stack) /\ stack'[i] = stack[i]
      BY <1>3, ReturnPops
    <3>3. Within(c, pv[1], pv[2], Abstract!Up(pv[1], pv[2]), Abstract!Down(pv[1], pv[2]))'
      BY <2>1, <2>3, <3>1, <3>2 DEF Within
    <3>4. QED
      BY <2>3, <3>3 DEF Contained, Quiet
  <2>4. QED
    BY <2>2, <2>3
<1>4. CASE Restart \/ Killed
  BY <1>4 DEF Restart, Killed, Forget, Contained, Quiet
<1>5. CASE ExportParents \/ UNCHANGED vars
  <2>1. UNCHANGED <<value, stack, before>>
    BY <1>5 DEF ExportParents, vars
  <2>2. QED
    BY <2>1 DEF Contained, Quiet, Within
<1>6. QED
  BY <1>1, <1>2, <1>3, <1>4, <1>5 DEF Next

\* Every step keeps what is owed to the propositions that are false.
LEMMA FalseStep ==
  ASSUME TypeOK, FalseOwed, [Next]_vars
  PROVE  FalseOwed'
<1>1. CASE CallOfSet
  <2>1. PICK c \in Children, p \in Prop, v \in {True, False}, below \in Seq(FrameType) :
          Below(c, p, v, below) /\ Set(c, p, v, below)
    BY <1>1 DEF CallOfSet
  <2> SUFFICES ASSUME NEW d \in Children, NEW y \in Prop, value'[d][y] = False,
                      NEW x \in impliers(y)
               PROVE  value'[d][x] = False \/ ImplicationOwed(stack', d, x, y)
    BY DEF FalseOwed
  <2>2. x \in Prop /\ y \in implications(x)
    BY DEF impliers
  <2>3. /\ value'[c][p] = v
        /\ \A e \in Children : \A z \in Prop :
             e # c \/ z # p \/ value[c][p] = v => value'[e][z] = value[e][z]
    BY <2>1, SetChanges
  <2>4. /\ ImplicationOwed(stack, d, x, y) =>
             \/ ImplicationOwed(stack', d, x, y)
             \/ d = c /\ v = True /\ y = p
             \/ d = c /\ v = False /\ x = p
        /\ value[c][p] # v /\ d = c /\ v = True /\ x = p => ImplicationOwed(stack', d, x, y)
        /\ value[c][p] # v /\ d = c /\ v = False /\ y = p => ImplicationOwed(stack', d, x, y)
    BY <2>1, <2>2, SetOwes
  <2>5. CASE value[d][y] = False
    <3>1. value[d][x] = False \/ ImplicationOwed(stack, d, x, y)
      BY <2>5 DEF FalseOwed
    <3>2. QED
      BY <2>2, <2>3, <2>4, <3>1 DEF True, False
  <2>6. CASE value[d][y] # False
    BY <2>2, <2>3, <2>4, <2>6
  <2>7. QED
    BY <2>5, <2>6
<1>2. CASE Return
  <2>1. UNCHANGED value
    BY <1>2 DEF Return
  <2>2. QED
    BY <1>2, <2>1, ReturnOwesNothing DEF FalseOwed
<1>3. CASE Restart \/ Killed
  BY <1>3 DEF Restart, Killed, Forget, FalseOwed, None, False
<1>4. CASE ExportParents \/ UNCHANGED vars
  BY <1>4 DEF ExportParents, vars, FalseOwed
<1>5. QED
  BY <1>1, <1>2, <1>3, <1>4, StepsOfNext

\* Along a table without contradictions every cascade stays inside the outcome
\* of its assignment, at every moment and wherever the process is killed.
THEOREM CascadesContained ==
  ASSUME Unambiguous
  PROVE  Spec => [](Contained /\ FalseOwed)
<1>1. Init => Contained /\ FalseOwed
  BY DEF Init, Contained, FalseOwed, Quiet, None, False
<1>2. TypeOK /\ Contained /\ FalseOwed /\ [Next]_vars => (Contained /\ FalseOwed)'
  BY ContainedStep, FalseStep
<1>3. QED
  BY <1>1, <1>2, TypeCorrect, PTL DEF Spec

\* A cascade changes a proposition at most once, so that no file appears and
\* vanishes again within one assignment.
THEOREM NoGlitches ==
  ASSUME Unambiguous
  PROVE  Spec => GlitchFree
<1> DEFINE Once == ~Quiet => \A c \in Children : \A p \in Prop :
                     value'[c][p] # value[c][p] /\ value'[c][p] # None
                       => value[c][p] = before[c][p]
<1>1. ASSUME TypeOK, Contained, Next PROVE Once
  <2> SUFFICES ASSUME ~Quiet, NEW d \in Children, NEW x \in Prop,
                      value'[d][x] # value[d][x], value'[d][x] # None
               PROVE  value[d][x] = before[d][x]
    OBVIOUS
  <2>1. CASE Cascade /\ ~Return /\ ~ExportParents
    <3>1. PICK c \in Children, pv \in Calls :
            Within(c, pv[1], pv[2], Abstract!Up(pv[1], pv[2]), Abstract!Down(pv[1], pv[2]))
      BY <1>1 DEF Contained
    <3> DEFINE U == Abstract!Up(pv[1], pv[2])
               D == Abstract!Down(pv[1], pv[2])
    <3>2. U \cap D = {}
      BY OutcomeOfCall
    <3>3. Within(c, pv[1], pv[2], U, D)
      BY <3>1
    <3> HIDE DEF U, D
    <3>4. PICK q \in Prop, w \in {True, False}, below \in Seq(FrameType) :
            Set(c, q, w, below) /\ IF w = True THEN q \in U ELSE q \in D
      BY <1>1, <2>1, <3>3, LoopsStayWithin DEF CallWithin
    <3>5. d = c /\ x = q /\ value[c][q] # w /\ value'[c][q] = w
      BY <1>1, <3>4, SetChanges
    <3>6. QED
      BY <3>2, <3>3, <3>4, <3>5 DEF Within, True, False
  <2>2. CASE Restart \/ Killed
    BY <2>2 DEF Restart, Killed, Forget
  <2>3. CASE Return \/ ExportParents
    BY <2>3 DEF Return, ExportParents
  <2>4. QED
    BY <1>1, <2>1, <2>2, <2>3 DEF Next, Assign, SetAttr
<1>2. TypeOK /\ Contained /\ [Next]_vars => [Once]_vars
  BY <1>1
<1>3. [][Once]_vars => GlitchFree
  BY PTL DEF GlitchFree
<1>4. QED
  BY <1>2, <1>3, TypeCorrect, CascadesContained, PTL DEF Spec

\* When the outermost set returns, the values are those of StatusSpec.
LEMMA ReturnAssigns ==
  ASSUME Unambiguous, TypeOK, ValuesOwed, FalseOwed, Contained, Return, stack' = << >>
  PROVE  \E c \in Children : \E pv \in Calls :
           value = [before EXCEPT ![c] = Abstract!Assigned(@, pv[1], pv[2])]
<1>1. ~Quiet /\ UNCHANGED value
  BY DEF Return, Looping
<1>2. PICK c \in Children, pv \in Calls :
        Within(c, pv[1], pv[2], Abstract!Up(pv[1], pv[2]), Abstract!Down(pv[1], pv[2]))
  BY <1>1 DEF Contained
<1> DEFINE p == pv[1]
           v == pv[2]
           U == Abstract!Up(p, v)
           D == Abstract!Down(p, v)
           T == {q \in Prop : value[c][q] = True}
           F == {q \in Prop : value[c][q] = False}
<1>3. p \in Prop /\ v \in {True, False} /\ U \cap D = {}
  BY OutcomeOfCall
<1>4. \A x, y \in Prop : ~ImplicationOwed(stack, c, x, y) /\ ~ExclusionOwed(stack, c, x, y)
  <2>1. \A x, y \in Prop : ~ImplicationOwed(stack', c, x, y) /\ ~ExclusionOwed(stack', c, x, y)
    <3>1. Len(stack') = 0
      OBVIOUS
    <3>2. QED
      BY <3>1 DEF ImplicationOwed, ExclusionOwed
  <2>2. QED
    BY <2>1, ReturnOwesNothing
<1>5. Covers(p, v, T, F)
  <2>1. T \subseteq Prop /\ F \subseteq Prop
    OBVIOUS
  <2>2. IF v = True THEN p \in T ELSE p \in F
    BY <1>2, <1>3 DEF Within, True, False
  <2>3. ASSUME NEW q \in T PROVE implications(q) \subseteq T /\ excludes(q) \subseteq F
    <3>1. implications(q) \subseteq Prop /\ excludes(q) \subseteq Prop
      BY TableAssumption
         DEF implications, excludes, counter_implications, counter_impliers
    <3>2. QED
      BY <1>4, <3>1 DEF ValuesOwed
  <2>4. ASSUME NEW q \in F PROVE impliers(q) \subseteq F
    BY <1>4 DEF FalseOwed, impliers
  <2>5. QED
    BY <2>1, <2>2, <2>3, <2>4 DEF Covers
<1>6. U \subseteq T /\ D \subseteq F
  BY <1>3, <1>5, OutcomeLeast DEF Unambiguous
<1>7. \A q \in Prop : q \notin U /\ q \notin D => value[c][q] = before[c][q]
  BY <1>2 DEF Within
<1>8. \A d \in Children : d # c => value[d] = before[d]
  BY <1>2 DEF Within
<1>9. Abstract!Assigned(before[c], p, v) =
        [q \in Prop |-> CASE q \in U -> "True" [] q \in D -> "False" [] OTHER -> before[c][q]]
  BY DEF Abstract!Assigned
<1>10. /\ value \in [Children -> [Prop -> Value]]
       /\ before \in [Children -> [Prop -> Value]]
  BY DEF TypeOK
<1> HIDE DEF U, D
<1>11. value[c] = Abstract!Assigned(before[c], p, v)
  <2>1. value[c] \in [Prop -> Value]
    BY <1>10
  <2>2. \A q \in U : value[c][q] = "True"
    BY <1>6 DEF True
  <2>3. \A q \in D : value[c][q] = "False"
    BY <1>6 DEF False
  <2>4. QED
    BY <1>3, <1>7, <1>9, <2>1, <2>2, <2>3
<1>12. value = [before EXCEPT ![c] = Abstract!Assigned(before[c], p, v)]
  BY <1>8, <1>10, <1>11
<1>13. QED
  BY <1>12

\* Along a table without contradictions Proposition.set, with its recursion in
\* any order and kills at any moment, implements the indivisible assignment of
\* StatusSpec.
THEOREM SetIsIndivisible ==
  ASSUME Unambiguous
  PROVE  Spec => ImplementsStatusSpec
<1>1. Init => Abstract!Init
  BY DEF Init, Abstract!Init, None
<1>2. ASSUME TypeOK, ValuesOwed, FalseOwed, Contained, [Next]_vars
      PROVE  [Abstract!Assign \/ Abstract!Restart]_before
  <2>1. CASE Return /\ stack' = << >>
    <3>1. before' = value
      BY <2>1 DEF Return
    <3>2. PICK c \in Children, pv \in Calls :
            value = [before EXCEPT ![c] = Abstract!Assigned(@, pv[1], pv[2])]
      BY <1>2, <2>1, ReturnAssigns
    <3>3. QED
      BY <3>1, <3>2 DEF Abstract!Assign
  <2>2. CASE Restart \/ Killed
    <3>1. before' = [c \in Children |-> [p \in Prop |-> None]]
      BY <2>2 DEF Restart, Killed, Forget
    <3>2. QED
      BY <3>1 DEF Abstract!Restart, None
  <2>3. CASE CallOfSet \/ ExportParents \/ (Return /\ stack' # << >>) \/ UNCHANGED vars
    BY <2>3 DEF CallOfSet, ExportParents, Return, vars
  <2>4. QED
    BY <1>2, <2>1, <2>2, <2>3, StepsOfNext
<1>3. QED
  BY <1>1, <1>2, TypeCorrect, ObligationsKept, CascadesContained, PTL
     DEF Spec, ImplementsStatusSpec, Abstract!Spec
=============================================================================
