------------------------------- MODULE Cycler -------------------------------
(***************************************************************************)
(* AgingPriorityCycler (src/conman/cycler.py): the queue of open networks  *)
(* that conman tries for provisioning.  An item that is returned stays in  *)
(* the queue and is not returned again for a cycle; among the others the   *)
(* one with the largest priority times age goes first.                     *)
(*                                                                         *)
(* Two items are the same when they are equal.  The items of conman are    *)
(* observations of networks (iw.BssInfo), which compare all attributes,    *)
(* the signal strength and the vendor elements too, that determine the     *)
(* priority: a network that a scan sees otherwise than the scan before is  *)
(* another item, newly born, and the observation before it leaves.         *)
(*                                                                         *)
(* The class stores the birth of an item and compares it with the clock;   *)
(* only the age, the clock minus the birth, matters, so the model keeps    *)
(* the age.  It is negative during the cycle after the item was returned.  *)
(* The parts of the specification are named after the module, so that a    *)
(* module can extend it together with Ratchet.                             *)
(***************************************************************************)
EXTENDS Integers

CONSTANTS
  Item,         \* what can be in the queue: networks as a scan may see them
  Priority,     \* the priorities that items can have
  PriorityOf,   \* _bssid_priority of an observation
  CycleLength,  \* cycle_length_s
  MaxGap,       \* bound: the time that may pass between two calls of next
  MaxAge        \* bound: the age at which time stops

ASSUME CyclerAssumption ==
  /\ Priority \subseteq Nat \ {0}
  /\ PriorityOf \in [Item -> Priority]
  /\ CycleLength \in Nat /\ MaxGap \in Nat /\ MaxAge \in Nat

NoItem == "None"

ASSUME NoItemAssumption == NoItem \notin Item

VARIABLES
  queue,     \* the items in the queue (the keys of _items)
  priority,  \* priority[i]: the first element of _items[i]
  age,       \* age[i]: the clock minus the second element of _items[i]
  gap,       \* the time since next was called last
  returned,  \* what the last call of next returned
  since      \* history: how long ago next returned i, CycleLength once that is
             \* over or when i was not in the queue since

cyclerVars == <<queue, priority, age, gap, returned, since>>

-----------------------------------------------------------------------------
\* Mutant: the priority does not age.
aged_priority_without_age(i) == priority[i]

aged_priority(i) == priority[i] * age[i]

\* What max finds: an item with the largest aged priority, any one of them since
\* the order of a dict is arbitrary.
Foremost == {i \in queue : \A j \in queue : aged_priority(j) <= aged_priority(i)}

\* _find_next: the items it may return, NoItem for None.
find_next ==
  IF queue = {} THEN {NoItem}
  ELSE {IF age[i] < 0 THEN NoItem ELSE i : i \in Foremost}

CyclerInit ==
  /\ queue = {}
  /\ priority \in [Item -> Priority]
  /\ age = [i \in Item |-> 0]
  /\ gap = 0
  /\ returned = NoItem
  /\ since = [i \in Item |-> CycleLength]

\* Mutant: the item returned is eligible again at once.
next_without_cycle(i) ==
  /\ i \in find_next
  /\ returned' = i
  /\ gap' = 0
  /\ age' = IF i = NoItem THEN age ELSE [age EXCEPT ![i] = 0]
  /\ since' = IF i = NoItem THEN since ELSE [since EXCEPT ![i] = 0]
  /\ UNCHANGED <<queue, priority>>

\* next: the item returned is reinserted, to be eligible in CycleLength.
next(i) ==
  /\ i \in find_next
  /\ returned' = i
  /\ gap' = 0
  /\ age' = IF i = NoItem THEN age ELSE [age EXCEPT ![i] = 0 - CycleLength]
  /\ since' = IF i = NoItem THEN since ELSE [since EXCEPT ![i] = 0]
  /\ UNCHANGED <<queue, priority>>

\* An item that is new to the queue is born now and was never returned.
Born(new) ==
  /\ age' = [i \in Item |-> IF i \in new THEN 0 ELSE age[i]]
  /\ since' = [i \in Item |-> IF i \in new THEN CycleLength ELSE since[i]]

\* update: the result of a scan replaces the queue; an item that was in it keeps
\* its birth and takes the priority given.
update(items, p) ==
  /\ queue' = items
  /\ priority' = [i \in Item |-> IF i \in items THEN p[i] ELSE priority[i]]
  /\ Born(items \ queue)
  /\ UNCHANGED <<gap, returned>>

\* insert: an item that is in the queue keeps its birth and takes the priority.
insert(i, p) ==
  /\ queue' = queue \cup {i}
  /\ priority' = [priority EXCEPT ![i] = p]
  /\ Born({i} \ queue)
  /\ UNCHANGED <<gap, returned>>

remove(i) ==
  /\ queue' = queue \ {i}
  /\ UNCHANGED <<priority, age, gap, returned, since>>

CyclerTick ==
  /\ gap < MaxGap
  /\ \A i \in queue : age[i] < MaxAge
  /\ gap' = gap + 1
  /\ age' = [i \in Item |-> IF i \in queue THEN age[i] + 1 ELSE age[i]]
  /\ since' = [i \in Item |-> IF since[i] < CycleLength THEN since[i] + 1 ELSE since[i]]
  /\ UNCHANGED <<queue, priority, returned>>

Call == \E i \in Item \cup {NoItem} : next(i)

\* A scan of conman: any observations, each with the priority that follows from it.
Rescan == \E items \in SUBSET Item : update(items, PriorityOf)

\* The operations of the class that conman does not call.
Edit == \E i \in Item : remove(i) \/ \E p \in Priority : insert(i, p)

CyclerNext == Call \/ Rescan \/ Edit \/ CyclerTick

CyclerSpec == CyclerInit /\ [][CyclerNext]_cyclerVars

\* Conman calls next again and again, at the latest MaxGap after the last time.
CyclerFairSpec == CyclerSpec /\ WF_cyclerVars(CyclerTick) /\ WF_cyclerVars(Call)

-----------------------------------------------------------------------------
CyclerTypeOK ==
  /\ queue \subseteq Item
  /\ priority \in [Item -> Priority]
  /\ age \in [Item -> Int]
  /\ gap \in Nat
  /\ returned \in Item \cup {NoItem}
  /\ since \in [Item -> 0..CycleLength]

\* next comes back empty-handed only when every item of the queue is inside its
\* cycle: an item that waits is never hidden by one that may not be returned yet,
\* though both take part in the same maximum.
NoneMeansNoneEligible ==
  [][\A i \in queue : next(NoItem) => age[i] < 0]_cyclerVars

\* An item that stays in the queue is not returned twice within a cycle, however
\* scans in between change the rest of the queue and insert changes its priority:
\* as long as the scans see a network with the same attributes, conman does not
\* try it again before cycle_length_s have passed.
CycleRespected ==
  [][\A i \in queue : next(i) => since[i] = CycleLength]_cyclerVars

\* Every item of the queue is returned some day or leaves the queue (because a scan
\* does not see the network any more or sees it with other attributes).
Served == \A i \in Item : i \in queue ~> (returned = i \/ i \notin queue)
=============================================================================
