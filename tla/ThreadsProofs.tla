---------------------------- MODULE ThreadsProofs ----------------------------
(***************************************************************************)
(* Proofs about Threads for any number of threads, handlers and calls.     *)
(***************************************************************************)
EXTENDS Threads, TLAPS, SequenceTheorems, WellFoundedInduction

-----------------------------------------------------------------------------
(* The types of messages and frames whose numbers are at most n *)

Message(n) == [id : 1..n, h : Handler, from : Thread]

AppFrames == [op : {"app"}]
GetFrames == [op : {"get"}, at : {"queue", "stop", "wait"}]
ReceiveFrames == [op : {"receive"}, at : {"check", "pop"}]
HandleFrames(n) == [op : {"handle"}, sent : Message(n) \cup {None}]
PostFrames(n) ==
  [op : {"post"}, to : Thread, h : Handler, id : 1..n, at : {"enter", "add"}]
SendFrames(n) ==
  [op : {"send"}, to : Thread, h : Handler, id : 1..n,
   at : {"enter", "add", "wake", "loop", "wait"}, waited : BOOLEAN]
JoinFrames == [op : {"join"}, of : Thread]
TellFrames == [op : {"tell"}, to : SUBSET Thread, of : Thread]
ClearFrames == [op : {"clear"}, h : Handler, left : SUBSET Thread,
                to : SUBSET Thread, of : Thread \cup {None}]

Frame(n) ==
  AppFrames \cup GetFrames \cup ReceiveFrames \cup HandleFrames(n)
    \cup PostFrames(n) \cup SendFrames(n) \cup JoinFrames \cup TellFrames
    \cup ClearFrames

VarTypes ==
  /\ has_sends \in [Thread -> BOOLEAN] /\ wakeup \in [Thread -> BOOLEAN]
  /\ fStop \in [Thread -> BOOLEAN] /\ active \in [Thread -> BOOLEAN]
  /\ crit \in [Thread -> Thread \cup {None}]
  /\ manager \in Thread \cup {None} /\ queues \subseteq Thread
  /\ calls \in 0..MaxCalls
StackType == stack \in [Thread -> Seq(Frame(calls))]
ListsType ==
  /\ msgq \in [Thread -> Seq(Message(calls))]
  /\ sendlist \in [Thread -> Seq(Message(calls))]
ReadyType == ready \subseteq 1..calls

-----------------------------------------------------------------------------
(* The inductive invariant *)

\* What waits for another call of the same thread to return.
Waiting(f) ==
  \/ f.op \in {"app", "handle"}
  \/ f.op = "get" /\ f.at = "queue"
  \/ f.op = "receive"
  \/ f.op = "send" /\ f.at = "wait"
Below == \A t \in Thread : \A k \in DOMAIN stack[t] : k > 1 => Waiting(stack[t][k])

\* Locks: a queue that is being added is locked and not yet known to the
\* manager; a queue is locked while senders are told; who clears the queues has
\* the manager's lock.
Held == \A t \in Thread : crit[t] # None => Adds(crit[t], t) \/ Tells(crit[t], t)
Managing == \A t \in Thread : manager = t => stack[t] # <<>> /\ Top(t).op = "clear"
Adding ==
  \A t, u \in Thread : Adds(t, u) => crit[u] = t /\ active[u] /\ u \notin queues
Telling == \A t, u \in Thread : Tells(t, u) => crit[u] = t
Known == \A u \in queues : active[u]
Clearing ==
  \A t \in Thread : stack[t] # <<>> /\ Top(t).op = "clear"
    => manager = t /\ Top(t).left \subseteq queues

\* A call of Send, the handling of a sent message, and a call of Send that has
\* not yet listed its message.
Sends(f) == f.op = "send"
Answers(f) == f.op = "handle" /\ f.sent # None
Early(f) == f.op = "send" /\ f.at \in {"enter", "add"}

\* A number is in one call of Send only, in one list only, or in one handler's
\* call.
SendsUnique ==
  \A t, v \in Thread : \A k \in DOMAIN stack[t], l \in DOMAIN stack[v] :
    Sends(stack[t][k]) /\ Sends(stack[v][l]) /\ stack[t][k].id = stack[v][l].id
      => t = v /\ k = l
AnswersUnique ==
  \A t, v \in Thread : \A k \in DOMAIN stack[t], l \in DOMAIN stack[v] :
    /\ Answers(stack[t][k]) /\ Answers(stack[v][l])
    /\ stack[t][k].sent.id = stack[v][l].sent.id
    => t = v /\ k = l
ListedUnique ==
  \A u, v \in Thread : \A i \in DOMAIN sendlist[u], j \in DOMAIN sendlist[v] :
    sendlist[u][i].id = sendlist[v][j].id => u = v /\ i = j
ListedUnanswered ==
  \A u, t \in Thread : \A i \in DOMAIN sendlist[u], k \in DOMAIN stack[t] :
    Answers(stack[t][k]) => stack[t][k].sent.id # sendlist[u][i].id

\* A message that is not answered yet belongs to a call of Send, which still
\* waits; what a call has not yet listed is new.
ListedWaiting ==
  \A u \in Thread : \A i \in DOMAIN sendlist[u] :
    Sending(sendlist[u][i].from, sendlist[u][i].id) /\ sendlist[u][i].id \notin ready
HandledWaiting ==
  \A u \in Thread : \A k \in DOMAIN stack[u] :
    Answers(stack[u][k])
      => /\ Sending(stack[u][k].sent.from, stack[u][k].sent.id)
         /\ stack[u][k].sent.id \notin ready
IsNew(i) ==
  /\ i \notin ready
  /\ \A u \in Thread : \A j \in DOMAIN sendlist[u] : sendlist[u][j].id # i
  /\ \A u \in Thread : \A l \in DOMAIN stack[u] :
       Answers(stack[u][l]) => stack[u][l].sent.id # i
EarlyNew ==
  \A t \in Thread : \A k \in DOMAIN stack[t] :
    Early(stack[t][k]) => IsNew(stack[t][k].id)

Types == VarTypes /\ StackType /\ ListsType /\ ReadyType
Locks == Below /\ Held /\ Managing /\ Adding /\ Telling /\ Known /\ Clearing
Numbers == SendsUnique /\ AnswersUnique /\ ListedUnique /\ ListedUnanswered
Answered == ListedWaiting /\ HandledWaiting /\ EarlyNew

IInv == Types /\ SendsSeen /\ Locks /\ Numbers /\ Answered

-----------------------------------------------------------------------------
(* Clearing a list *)

\* A set of natural numbers has a least element: this is how we argue by
\* induction.
LEMMA LeastNat ==
  ASSUME NEW S \in SUBSET Nat, S # {}
  PROVE  \E x \in S : \A y \in S : x <= y
<1>1. PICK x \in S : \A y \in S : ~(<<y, x>> \in OpToRel(<, Nat))
  BY NatLessThanWellFounded, WFMin
<1>2. ASSUME NEW y \in S, y < x PROVE FALSE
  <2>1. <<y, x>> \in OpToRel(<, Nat)
    BY <1>2, Zenon DEF OpToRel
  <2>2. QED
    BY <1>1, <2>1, Zenon
<1>3. QED
  BY <1>2

\* One step of the loop of Clear.
KeepStep(s, h, f, i) ==
  IF Matches(s[i], h) THEN f[i - 1] ELSE Append(f[i - 1], s[i])

\* The recursive definition of Kept has a solution.
LEMMA KeptExists ==
  ASSUME NEW M, NEW s \in Seq(M), NEW h
  PROVE  \E f : f = [i \in 0..Len(s) |-> IF i = 0 THEN <<>> ELSE KeepStep(s, h, f, i)]
<1> DEFINE Good(n, f) ==
             f[0] = <<>> /\ \A i \in 1..n : f[i] = KeepStep(s, h, f, i)
           Bad == {n \in 0..Len(s) : ~ \E f \in [0..n -> Seq(M)] : Good(n, f)}
<1>1. Bad = {}
  <2> SUFFICES ASSUME Bad # {} PROVE FALSE
    OBVIOUS
  <2>1. PICK n \in Bad : \A m \in Bad : n <= m
    <3>1. Bad \in SUBSET Nat
      OBVIOUS
    <3> HIDE DEF Bad
    <3>2. QED
      BY <3>1, LeastNat
  <2>2. CASE n = 0
    <3>1. [i \in 0..0 |-> <<>>] \in [0..0 -> Seq(M)]
      OBVIOUS
    <3>2. Good(0, [i \in 0..0 |-> <<>>])
      OBVIOUS
    <3>3. QED
      BY <2>2, <3>1, <3>2
  <2>3. CASE n # 0
    <3>1. n \in 1..Len(s) /\ n - 1 \in 0..Len(s) /\ n - 1 \notin Bad
      <4>1. n \in 1..Len(s) /\ n - 1 \in 0..Len(s) /\ ~(n <= n - 1)
        BY <2>3
      <4> HIDE DEF Bad
      <4>2. QED
        BY <2>1, <4>1
    <3>2. PICK f \in [0..(n - 1) -> Seq(M)] : Good(n - 1, f)
      BY <3>1
    <3> DEFINE g == [i \in 0..n |-> IF i = n THEN KeepStep(s, h, f, n) ELSE f[i]]
    <3>3. KeepStep(s, h, f, n) \in Seq(M)
      BY <3>1, <3>2 DEF KeepStep
    <3>4. g \in [0..n -> Seq(M)]
      BY <3>1, <3>2, <3>3
    <3>5. Good(n, g)
      <4>1. g[0] = <<>>
        BY <3>1, <3>2
      <4>2. ASSUME NEW i \in 1..n PROVE g[i] = KeepStep(s, h, g, i)
        <5>1. g[i - 1] = f[i - 1]
          BY <3>1, <4>2
        <5>2. CASE i = n
          BY <5>1, <5>2 DEF KeepStep
        <5>3. CASE i # n
          <6>1. i \in 1..(n - 1) /\ g[i] = f[i]
            BY <3>1, <5>3
          <6>2. QED
            BY <3>2, <5>1, <6>1 DEF KeepStep
        <5>4. QED
          BY <5>2, <5>3
      <4>3. QED
        BY <4>1, <4>2
    <3>6. QED
      BY <3>4, <3>5
  <2>4. QED
    BY <2>2, <2>3
<1>2. PICK f \in [0..Len(s) -> Seq(M)] : Good(Len(s), f)
  BY <1>1, SMTT(30)
<1>3. f = [i \in 0..Len(s) |-> IF i = 0 THEN <<>> ELSE KeepStep(s, h, f, i)]
  BY <1>2
<1>4. QED
  BY <1>3

LEMMA KeptDef ==
  ASSUME NEW M, NEW s \in Seq(M), NEW h
  PROVE  /\ Kept(s, h)[0] = <<>>
         /\ \A i \in 1..Len(s) : Kept(s, h)[i] = KeepStep(s, h, Kept(s, h), i)
<1>1. Kept(s, h) = [i \in 0..Len(s) |->
                      IF i = 0 THEN <<>> ELSE KeepStep(s, h, Kept(s, h), i)]
  <2>1. PICK f : f = [i \in 0..Len(s) |->
                        IF i = 0 THEN <<>> ELSE KeepStep(s, h, f, i)]
    BY KeptExists, Zenon
  <2>2. QED
    BY <2>1, Zenon DEF Kept, KeepStep
<1> DEFINE k == Kept(s, h)
<1>2. k = [i \in 0..Len(s) |-> IF i = 0 THEN <<>> ELSE KeepStep(s, h, k, i)]
  BY <1>1
<1> HIDE DEF k
<1>3. k[0] = <<>> /\ \A i \in 1..Len(s) : k[i] = KeepStep(s, h, k, i)
  BY <1>2
<1>4. QED
  BY <1>3 DEF k

\* Clear keeps the messages for other handlers, in their order.
LEMMA OthersKept ==
  ASSUME NEW M, NEW s \in Seq(M), NEW h
  PROVE  /\ Others(s, h) \in Seq(M)
         /\ \E g \in [1..Len(Others(s, h)) -> 1..Len(s)] :
              /\ \A k \in 1..Len(Others(s, h)) :
                   Others(s, h)[k] = s[g[k]] /\ ~Matches(s[g[k]], h)
              /\ \A k, l \in 1..Len(Others(s, h)) : k < l => g[k] < g[l]
<1> DEFINE kept == Kept(s, h)
           Picks(r, n, g) ==
             /\ \A k \in 1..Len(r) : r[k] = s[g[k]] /\ ~Matches(s[g[k]], h)
             /\ \A k, l \in 1..Len(r) : k < l => g[k] < g[l]
           Good(r, n) == r \in Seq(M) /\ \E g \in [1..Len(r) -> 1..n] : Picks(r, n, g)
           Bad == {n \in 0..Len(s) : ~Good(kept[n], n)}
<1>1. kept[0] = <<>> /\ \A i \in 1..Len(s) : kept[i] = KeepStep(s, h, kept, i)
  BY KeptDef
<1> HIDE DEF kept
<1>2. Good(<<>>, 0)
  <2> DEFINE r == <<>>
             g == [k \in 1..Len(r) |-> 1]
  <2>1. r \in Seq(M) /\ 1..Len(r) = {}
    OBVIOUS
  <2> HIDE DEF r
  <2>2. g \in [1..Len(r) -> 1..0] /\ Picks(r, 0, g)
    BY <2>1
  <2>3. Good(r, 0)
    BY <2>1, <2>2
  <2>4. QED
    BY <2>3 DEF r
<1>3. ASSUME NEW r, NEW n \in Nat, Good(r, n) PROVE Good(r, n + 1)
  <2>1. PICK g \in [1..Len(r) -> 1..n] : Picks(r, n, g)
    BY <1>3
  <2>2. g \in [1..Len(r) -> 1..(n + 1)]
    OBVIOUS
  <2>3. QED
    BY <1>3, <2>1, <2>2
<1>4. ASSUME NEW r, NEW n \in 1..Len(s), Good(r, n - 1), ~Matches(s[n], h)
      PROVE  Good(Append(r, s[n]), n)
  <2>1. r \in Seq(M) /\ s[n] \in M
    BY <1>4
  <2>2. PICK g \in [1..Len(r) -> 1..(n - 1)] : Picks(r, n - 1, g)
    BY <1>4
  <2> DEFINE q == Append(r, s[n])
             f == [k \in 1..Len(q) |-> IF k = Len(q) THEN n ELSE g[k]]
  <2>3. q \in Seq(M) /\ Len(q) = Len(r) + 1 /\ Len(r) \in Nat
    BY <2>1
  <2>4. q[Len(q)] = s[n] /\ \A k \in 1..Len(r) : q[k] = r[k]
    BY <2>1
  <2> HIDE DEF q
  <2>5. f \in [1..Len(q) -> 1..n]
    BY <2>2, <2>3
  <2>6. Picks(q, n, f)
    <3>1. ASSUME NEW k \in 1..Len(q) PROVE q[k] = s[f[k]] /\ ~Matches(s[f[k]], h)
      <4>1. CASE k = Len(q)
        BY <1>4, <2>4, <4>1
      <4>2. CASE k # Len(q)
        <5>1. k \in 1..Len(r) /\ f[k] = g[k]
          BY <2>3, <4>2
        <5>2. QED
          BY <2>2, <2>4, <5>1
      <4>3. QED
        BY <4>1, <4>2
    <3>2. ASSUME NEW k \in 1..Len(q), NEW l \in 1..Len(q), k < l PROVE f[k] < f[l]
      <4>1. k \in 1..Len(r) /\ f[k] = g[k] /\ g[k] \in 1..(n - 1)
        BY <2>2, <2>3, <3>2, SMTT(30)
      <4>2. CASE l = Len(q)
        BY <4>1, <4>2
      <4>3. CASE l # Len(q)
        <5>1. l \in 1..Len(r) /\ f[l] = g[l]
          BY <2>3, <4>3
        <5>2. QED
          BY <2>2, <3>2, <4>1, <5>1
      <4>4. QED
        BY <4>2, <4>3
    <3>3. QED
      BY <3>1, <3>2
  <2>7. QED
    BY <2>3, <2>5, <2>6 DEF q
<1> HIDE DEF Good
<1>5. Bad = {}
  <2> SUFFICES ASSUME Bad # {} PROVE FALSE
    OBVIOUS
  <2>1. PICK n \in Bad : \A m \in Bad : n <= m
    <3>1. Bad \in SUBSET Nat
      OBVIOUS
    <3> HIDE DEF Bad
    <3>2. QED
      BY <3>1, LeastNat
  <2>2. n # 0
    BY <1>1, <1>2, <2>1
  <2>3. Good(kept[n - 1], n - 1)
    <3>1. n - 1 \in 0..Len(s) /\ ~(n <= n - 1)
      BY <2>2
    <3>2. n - 1 \notin Bad
      <4> HIDE DEF Bad
      <4>1. QED
        BY <2>1, <3>1
    <3>3. QED
      BY <3>1, <3>2
  <2>4. n \in 1..Len(s) /\ n - 1 \in Nat /\ n - 1 + 1 = n
    BY <2>2
  <2>5. CASE Matches(s[n], h)
    <3>1. kept[n] = kept[n - 1]
      BY <1>1, <2>4, <2>5 DEF KeepStep
    <3>2. QED
      BY <1>3, <2>1, <2>3, <2>4, <3>1
  <2>6. CASE ~Matches(s[n], h)
    <3>1. kept[n] = Append(kept[n - 1], s[n])
      BY <1>1, <2>4, <2>6 DEF KeepStep
    <3>2. QED
      BY <1>4, <2>1, <2>3, <2>4, <2>6, <3>1
  <2>7. QED
    BY <2>5, <2>6
<1>6. Good(Others(s, h), Len(s))
  BY <1>5 DEF Others, kept
<1>7. QED
  BY <1>6 DEF Good

-----------------------------------------------------------------------------
(* Frames and stacks *)

\* The operation of a frame tells what kind of record it is.
LEMMA FrameKinds ==
  ASSUME NEW n \in Nat, NEW f \in Frame(n)
  PROVE  /\ f.op = "app" => f \in AppFrames
         /\ f.op = "get" => f \in GetFrames
         /\ f.op = "receive" => f \in ReceiveFrames
         /\ f.op = "handle" => f \in HandleFrames(n)
         /\ f.op = "post" => f \in PostFrames(n)
         /\ f.op = "send" => f \in SendFrames(n)
         /\ f.op = "join" => f \in JoinFrames
         /\ f.op = "tell" => f \in TellFrames
         /\ f.op = "clear" => f \in ClearFrames
BY DEF Frame, AppFrames, GetFrames, ReceiveFrames, HandleFrames, PostFrames,
       SendFrames, JoinFrames, TellFrames, ClearFrames

LEMMA FrameMonotonic ==
  ASSUME NEW n \in Nat
  PROVE  Frame(n) \subseteq Frame(n + 1) /\ Message(n) \subseteq Message(n + 1)
<1>1. 1..n \subseteq 1..(n + 1)
  OBVIOUS
<1>2. Message(n) \subseteq Message(n + 1)
  BY <1>1 DEF Message
<1>3. /\ HandleFrames(n) \subseteq HandleFrames(n + 1)
      /\ PostFrames(n) \subseteq PostFrames(n + 1)
      /\ SendFrames(n) \subseteq SendFrames(n + 1)
  BY <1>1, <1>2 DEF HandleFrames, PostFrames, SendFrames
<1>4. QED
  BY <1>2, <1>3 DEF Frame

\* What Replace does to a stack.
LEMMA Replaced ==
  ASSUME NEW F, NEW G, F \subseteq G, stack \in [Thread -> Seq(F)],
         NEW t \in Thread, stack[t] # <<>>, NEW fs \in Seq(G), Replace(t, fs)
  PROVE  /\ stack' \in [Thread -> Seq(G)]
         /\ \A v \in Thread : v # t => stack'[v] = stack[v]
         /\ Len(stack'[t]) = Len(fs) + Len(stack[t]) - 1
         /\ \A k \in 1..Len(fs) : stack'[t][k] = fs[k]
         /\ \A k \in 2..Len(stack[t]) : stack'[t][k + Len(fs) - 1] = stack[t][k]
         /\ \A k \in DOMAIN stack'[t] :
              \/ k \in DOMAIN fs /\ stack'[t][k] = fs[k]
              \/ /\ k > Len(fs) /\ k - Len(fs) + 1 \in 2..Len(stack[t])
                 /\ stack'[t][k] = stack[t][k - Len(fs) + 1]
<1> DEFINE tl == Tail(stack[t])
           st == fs \o tl
<1>1. Seq(F) \subseteq Seq(G)
  BY SeqMonotonic
<1>2. /\ tl \in Seq(F) /\ Len(tl) = Len(stack[t]) - 1 /\ Len(stack[t]) \in Nat
      /\ \A k \in 1..Len(tl) : tl[k] = stack[t][k + 1]
  OBVIOUS
<1>3. /\ st \in Seq(G) /\ Len(st) = Len(fs) + Len(tl) /\ Len(fs) \in Nat
      /\ DOMAIN st = 1..Len(st) /\ DOMAIN fs = 1..Len(fs)
      /\ \A k \in 1..Len(fs) : st[k] = fs[k]
      /\ \A k \in 1..Len(tl) : st[k + Len(fs)] = tl[k]
  <2> HIDE DEF tl
  <2>1. tl \in Seq(G)
    BY <1>1, <1>2
  <2>2. QED
    BY <2>1
<1>4. stack' = [stack EXCEPT ![t] = st]
  BY DEF Replace
<1> HIDE DEF st, tl
<1>5. stack'[t] = st /\ \A v \in Thread : v # t => stack'[v] = stack[v]
  BY <1>4
<1>6. stack' \in [Thread -> Seq(G)]
  BY <1>1, <1>3, <1>4
<1>7. ASSUME NEW k \in 2..Len(stack[t]) PROVE st[k + Len(fs) - 1] = stack[t][k]
  <2>1. k - 1 \in 1..Len(tl) /\ k - 1 + Len(fs) = k + Len(fs) - 1 /\ k - 1 + 1 = k
    BY <1>2, <1>3, SMTT(30)
  <2>2. QED
    BY <1>2, <1>3, <2>1, ZenonT(30)
<1>8. ASSUME NEW k \in DOMAIN st
      PROVE  \/ k \in DOMAIN fs /\ st[k] = fs[k]
             \/ /\ k > Len(fs) /\ k - Len(fs) + 1 \in 2..Len(stack[t])
                /\ st[k] = stack[t][k - Len(fs) + 1]
  <2>1. CASE k <= Len(fs)
    BY <1>3, <2>1
  <2>2. CASE k > Len(fs)
    <3>1. PICK j \in 1..Len(tl) : j = k - Len(fs)
      BY <1>2, <1>3, <2>2
    <3>2. j + Len(fs) = k /\ j + 1 = k - Len(fs) + 1 /\ j + 1 \in 2..Len(stack[t])
      BY <1>2, <1>3, <3>1, SMTT(30)
    <3>3. st[j + Len(fs)] = stack[t][j + 1]
      BY <1>2, <1>3
    <3>4. QED
      BY <2>2, <3>2, <3>3
  <2>3. QED
    BY <1>2, <1>3, <2>1, <2>2
<1>9. Len(st) = Len(fs) + Len(stack[t]) - 1
  BY <1>2, <1>3
<1>10. QED
  BY <1>3, <1>5, <1>6, <1>7, <1>8, <1>9

\* The frames that the steps put on a stack.
LEMMA NewFrames ==
  ASSUME NEW n \in Nat
  PROVE  /\ AppFrame \in Frame(n)
         /\ \A at \in {"queue", "stop", "wait"} : GetFrame(at) \in Frame(n)
         /\ \A at \in {"check", "pop"} : ReceiveFrame(at) \in Frame(n)
         /\ \A m \in Message(n) \cup {None} : HandleFrame(m) \in Frame(n)
         /\ \A u \in Thread, h \in Handler, i \in 1..n :
              /\ PostFrame(u, h, i, "enter") \in Frame(n)
              /\ SendFrame(u, h, i, "enter", FALSE) \in Frame(n)
         /\ \A u \in Thread : JoinFrame(u) \in Frame(n)
         /\ \A u \in Thread, ts \in SUBSET Thread : TellFrame(ts, u) \in Frame(n)
         /\ \A h \in Handler, q \in SUBSET Thread : ClearFrame(h, q) \in Frame(n)
<1>1. AppFrame \in AppFrames
  BY DEF AppFrame, AppFrames
<1>2. \A at \in {"queue", "stop", "wait"} : GetFrame(at) \in GetFrames
  BY DEF GetFrame, GetFrames
<1>3. \A at \in {"check", "pop"} : ReceiveFrame(at) \in ReceiveFrames
  BY DEF ReceiveFrame, ReceiveFrames
<1>4. \A m \in Message(n) \cup {None} : HandleFrame(m) \in HandleFrames(n)
  BY DEF HandleFrame, HandleFrames
<1>5. \A u \in Thread, h \in Handler, i \in 1..n :
        /\ PostFrame(u, h, i, "enter") \in PostFrames(n)
        /\ SendFrame(u, h, i, "enter", FALSE) \in SendFrames(n)
  BY DEF PostFrame, PostFrames, SendFrame, SendFrames
<1>6. \A u \in Thread : JoinFrame(u) \in JoinFrames
  BY DEF JoinFrame, JoinFrames
<1>7. \A h \in Handler, q \in SUBSET Thread : ClearFrame(h, q) \in ClearFrames
  BY DEF ClearFrame, ClearFrames
<1>8. \A u \in Thread, ts \in SUBSET Thread : TellFrame(ts, u) \in TellFrames
  BY DEF TellFrame, TellFrames
<1>9. QED
  BY <1>1, <1>2, <1>3, <1>4, <1>5, <1>6, <1>7, <1>8 DEF Frame

\* The frames that they change.
LEMMA ChangedFrames ==
  ASSUME NEW n \in Nat, NEW f \in Frame(n)
  PROVE  /\ f.op = "post" =>
              /\ [f EXCEPT !.at = "add"] \in Frame(n)
              /\ [f EXCEPT !.at = "add"].op = "post"
              /\ [f EXCEPT !.at = "add"].at = "add"
              /\ [f EXCEPT !.at = "add"].to = f.to
         /\ f.op = "send" => \A at \in {"add", "wake", "loop", "wait"} :
              /\ [f EXCEPT !.at = at] \in Frame(n)
              /\ [f EXCEPT !.at = at].op = "send"
              /\ [f EXCEPT !.at = at].at = at
              /\ [f EXCEPT !.at = at].id = f.id /\ [f EXCEPT !.at = at].to = f.to
         /\ f.op = "send" =>
              /\ [f EXCEPT !.at = "loop", !.waited = TRUE] \in Frame(n)
              /\ [f EXCEPT !.at = "loop", !.waited = TRUE].op = "send"
              /\ [f EXCEPT !.at = "loop", !.waited = TRUE].at = "loop"
              /\ [f EXCEPT !.at = "loop", !.waited = TRUE].id = f.id
<1>1. ASSUME f.op = "post"
      PROVE  /\ [f EXCEPT !.at = "add"] \in PostFrames(n)
             /\ [f EXCEPT !.at = "add"].op = "post"
             /\ [f EXCEPT !.at = "add"].at = "add"
             /\ [f EXCEPT !.at = "add"].to = f.to
  BY <1>1, FrameKinds DEF PostFrames
<1>2. ASSUME f.op = "send", NEW at \in {"add", "wake", "loop", "wait"}
      PROVE  /\ [f EXCEPT !.at = at] \in SendFrames(n)
             /\ [f EXCEPT !.at = at].op = "send"
             /\ [f EXCEPT !.at = at].at = at
             /\ [f EXCEPT !.at = at].id = f.id /\ [f EXCEPT !.at = at].to = f.to
  BY <1>2, FrameKinds DEF SendFrames
<1>3. ASSUME f.op = "send"
      PROVE  /\ [f EXCEPT !.at = "loop", !.waited = TRUE] \in SendFrames(n)
             /\ [f EXCEPT !.at = "loop", !.waited = TRUE].op = "send"
             /\ [f EXCEPT !.at = "loop", !.waited = TRUE].at = "loop"
             /\ [f EXCEPT !.at = "loop", !.waited = TRUE].id = f.id
  BY <1>3, FrameKinds, ZenonT(30) DEF SendFrames
<1>4. QED
  BY <1>1, <1>2, <1>3 DEF Frame

LEMMA ToldFrame ==
  ASSUME NEW n \in Nat, NEW f \in Frame(n), f.op = "clear"
  PROVE  /\ [f EXCEPT !.to = {}, !.of = None] \in Frame(n)
         /\ [f EXCEPT !.to = {}, !.of = None].op = "clear"
         /\ [f EXCEPT !.to = {}, !.of = None].left = f.left
         /\ [f EXCEPT !.to = {}, !.of = None].of = None
<1>1. f \in ClearFrames
  BY FrameKinds
<1>2. QED
  BY <1>1 DEF ClearFrames, Frame

-----------------------------------------------------------------------------
(* Steps *)

\* The stack of t becomes fs on top of what was below its innermost call.
Stepped(t, fs) ==
  /\ stack[t] # <<>> /\ fs \in Seq(Frame(calls')) /\ Replace(t, fs)
  /\ calls' \in {calls, calls + 1}
  /\ \A k \in DOMAIN fs : k > 1 => Waiting(fs[k])

LEMMA Grown ==
  ASSUME VarTypes, calls' \in {calls, calls + 1}
  PROVE  /\ calls \in Nat /\ calls' \in Nat /\ calls <= calls'
         /\ Frame(calls) \subseteq Frame(calls')
         /\ Message(calls) \subseteq Message(calls')
         /\ 1..calls \subseteq 1..calls'
<1>1. calls \in Nat
  BY ThreadsAssumption DEF VarTypes
<1>2. QED
  BY <1>1, FrameMonotonic

\* Where the frames of the new stacks come from, and what becomes of the old.
LEMMA Stacks ==
  ASSUME VarTypes, StackType, NEW t \in Thread, NEW fs, Stepped(t, fs)
  PROVE  /\ StackType'
         /\ \A v \in Thread : \A k \in DOMAIN stack'[v] :
              \/ \E l \in DOMAIN stack[v] :
                   /\ stack'[v][k] = stack[v][l]
                   /\ v = t => l > 1 /\ k = l + Len(fs) - 1
                   /\ v # t => k = l
              \/ v = t /\ k \in DOMAIN fs /\ stack'[t][k] = fs[k]
         /\ \A v \in Thread : \A l \in DOMAIN stack[v] :
              \/ \E k \in DOMAIN stack'[v] : stack'[v][k] = stack[v][l]
              \/ v = t /\ l = 1
         /\ \A k \in DOMAIN fs : k \in DOMAIN stack'[t] /\ stack'[t][k] = fs[k]
         /\ \A v \in Thread : v # t => stack'[v] = stack[v]
<1>1. stack \in [Thread -> Seq(Frame(calls))] /\ Frame(calls) \subseteq Frame(calls')
  BY Grown DEF Stepped, StackType
<1>2. /\ stack' \in [Thread -> Seq(Frame(calls'))]
      /\ \A v \in Thread : v # t => stack'[v] = stack[v]
      /\ Len(stack'[t]) = Len(fs) + Len(stack[t]) - 1
      /\ \A k \in 1..Len(fs) : stack'[t][k] = fs[k]
      /\ \A k \in 2..Len(stack[t]) : stack'[t][k + Len(fs) - 1] = stack[t][k]
      /\ \A k \in DOMAIN stack'[t] :
           \/ k \in DOMAIN fs /\ stack'[t][k] = fs[k]
           \/ /\ k > Len(fs) /\ k - Len(fs) + 1 \in 2..Len(stack[t])
              /\ stack'[t][k] = stack[t][k - Len(fs) + 1]
  <2> fs \in Seq(Frame(calls')) /\ Replace(t, fs) /\ stack[t] # <<>>
    BY DEF Stepped
  <2>1. QED
    BY <1>1, Replaced
<1>3. /\ DOMAIN fs = 1..Len(fs) /\ Len(fs) \in Nat
      /\ DOMAIN stack[t] = 1..Len(stack[t]) /\ Len(stack[t]) \in Nat /\ Len(stack[t]) > 0
      /\ DOMAIN stack'[t] = 1..Len(stack'[t])
  <2>1. fs \in Seq(Frame(calls')) /\ stack[t] # <<>>
    BY DEF Stepped
  <2>2. stack[t] \in Seq(Frame(calls)) /\ stack'[t] \in Seq(Frame(calls'))
    BY <1>1, <1>2
  <2>3. QED
    BY <2>1, <2>2
<1>4. ASSUME NEW v \in Thread, NEW k \in DOMAIN stack'[v]
      PROVE  \/ \E l \in DOMAIN stack[v] :
                  /\ stack'[v][k] = stack[v][l]
                  /\ v = t => l > 1 /\ k = l + Len(fs) - 1
                  /\ v # t => k = l
             \/ v = t /\ k \in DOMAIN fs /\ stack'[t][k] = fs[k]
  <2>1. CASE v # t
    BY <1>2, <2>1
  <2>2. CASE v = t
    <3>1. CASE k \in DOMAIN fs /\ stack'[t][k] = fs[k]
      BY <2>2, <3>1
    <3>2. CASE /\ k > Len(fs) /\ k - Len(fs) + 1 \in 2..Len(stack[t])
               /\ stack'[t][k] = stack[t][k - Len(fs) + 1]
      <4>1. PICK l \in 2..Len(stack[t]) : l = k - Len(fs) + 1
        BY <3>2
      <4>2. /\ l \in DOMAIN stack[t] /\ l > 1 /\ k = l + Len(fs) - 1
            /\ stack'[t][k] = stack[t][l]
        <5>1. k \in Nat
          BY <1>3, <2>2
        <5>2. QED
          BY <1>3, <3>2, <4>1, <5>1
      <4>3. QED
        BY <2>2, <4>2
    <3>3. QED
      BY <1>2, <2>2, <3>1, <3>2
  <2>3. QED
    BY <2>1, <2>2
<1>5. ASSUME NEW v \in Thread, NEW l \in DOMAIN stack[v]
      PROVE  \/ \E k \in DOMAIN stack'[v] : stack'[v][k] = stack[v][l]
             \/ v = t /\ l = 1
  <2>1. CASE v # t
    BY <1>2, <2>1
  <2>2. CASE v = t /\ l # 1
    <3>1. l \in 2..Len(stack[t]) /\ l + Len(fs) - 1 \in DOMAIN stack'[t]
      <4>1. l \in 2..Len(stack[t])
        BY <1>3, <2>2
      <4>2. Len(stack'[t]) = Len(fs) + Len(stack[t]) - 1
        BY <1>2
      <4>3. l + Len(fs) - 1 \in 1..Len(stack'[t])
        BY <1>3, <4>1, <4>2
      <4>4. QED
        BY <1>3, <4>1, <4>3
    <3>2. stack'[t][l + Len(fs) - 1] = stack[t][l]
      BY <1>2, <3>1
    <3>3. QED
      BY <2>2, <3>1, <3>2
  <2>3. QED
    BY <2>1, <2>2
<1>6. ASSUME NEW k \in DOMAIN fs PROVE k \in DOMAIN stack'[t] /\ stack'[t][k] = fs[k]
  BY <1>2, <1>3
<1>7. StackType'
  BY <1>2 DEF StackType
<1>8. QED
  BY <1>2, <1>4, <1>5, <1>6, <1>7

\* If at most one of all frames is in the set A, and fs has at most one, which is
\* new or replaces the innermost, then at most one of all frames still is.
LEMMA OneEach ==
  ASSUME VarTypes, StackType, NEW t \in Thread, NEW fs, Stepped(t, fs), NEW A,
         \A v, w \in Thread : \A k \in DOMAIN stack[v], l \in DOMAIN stack[w] :
           stack[v][k] \in A /\ stack[w][l] \in A => v = w /\ k = l,
         \A k, l \in DOMAIN fs : fs[k] \in A /\ fs[l] \in A => k = l,
         \A k \in DOMAIN fs : fs[k] \in A =>
           \/ stack[t][1] \in A
           \/ \A v \in Thread : \A l \in DOMAIN stack[v] : stack[v][l] \notin A
  PROVE  \A v, w \in Thread : \A k \in DOMAIN stack'[v], l \in DOMAIN stack'[w] :
           stack'[v][k] \in A /\ stack'[w][l] \in A => v = w /\ k = l
<1>1. Len(fs) \in Nat /\ DOMAIN stack[t] \subseteq Nat /\ 1 \in DOMAIN stack[t]
  <2>1. fs \in Seq(Frame(calls')) /\ stack[t] # <<>>
    BY DEF Stepped
  <2>2. stack[t] \in Seq(Frame(calls))
    BY DEF StackType
  <2>3. QED
    BY <2>1, <2>2
<1> DEFINE Old(v, k, i) ==
             /\ i \in DOMAIN stack[v] /\ stack'[v][k] = stack[v][i]
             /\ v = t => i > 1 /\ k = i + Len(fs) - 1
             /\ v # t => k = i
           New(v, k) == v = t /\ k \in DOMAIN fs /\ stack'[t][k] = fs[k]
<1>2. ASSUME NEW v \in Thread, NEW k \in DOMAIN stack'[v]
      PROVE  New(v, k) \/ \E i : Old(v, k, i)
  BY Stacks
<1>3. ASSUME NEW v \in Thread, NEW k, NEW w \in Thread, NEW l, NEW j,
             New(v, k), Old(w, l, j), stack'[v][k] \in A
      PROVE  stack'[w][l] \notin A
  BY <1>1, <1>3
<1>4. ASSUME NEW v \in Thread, NEW k, NEW w \in Thread, NEW l, NEW i, NEW j,
             Old(v, k, i), Old(w, l, j), stack'[v][k] \in A, stack'[w][l] \in A
      PROVE  v = w /\ k = l
  BY <1>4
<1>5. ASSUME NEW v \in Thread, NEW k, NEW w \in Thread, NEW l,
             New(v, k), New(w, l), stack'[v][k] \in A, stack'[w][l] \in A
      PROVE  v = w /\ k = l
  BY <1>5
<1> HIDE DEF Old, New
<1>6. ASSUME NEW v \in Thread, NEW w \in Thread,
             NEW k \in DOMAIN stack'[v], NEW l \in DOMAIN stack'[w],
             stack'[v][k] \in A, stack'[w][l] \in A
      PROVE  v = w /\ k = l
  <2>1. CASE New(v, k) /\ New(w, l)
    BY <1>5, <1>6, <2>1
  <2>2. CASE New(v, k) /\ \E j : Old(w, l, j)
    BY <1>3, <1>6, <2>2
  <2>3. CASE New(w, l) /\ \E i : Old(v, k, i)
    BY <1>3, <1>6, <2>3
  <2>4. CASE (\E i : Old(v, k, i)) /\ \E j : Old(w, l, j)
    BY <1>4, <1>6, <2>4
  <2>5. QED
    BY <1>2, <2>1, <2>2, <2>3, <2>4
<1>7. QED
  BY <1>6

LEMMA Tuples ==
  ASSUME NEW S, NEW a \in S, NEW b \in S, NEW c \in S
  PROVE  /\ <<>> \in Seq(S) /\ DOMAIN <<>> = {}
         /\ <<a>> \in Seq(S) /\ DOMAIN <<a>> = {1} /\ <<a>>[1] = a
         /\ <<a, b>> \in Seq(S) /\ DOMAIN <<a, b>> = {1, 2}
         /\ <<a, b>>[1] = a /\ <<a, b>>[2] = b
         /\ <<a, b, c>> \in Seq(S) /\ DOMAIN <<a, b, c>> = {1, 2, 3}
         /\ <<a, b, c>>[1] = a /\ <<a, b, c>>[2] = b /\ <<a, b, c>>[3] = c
         /\ <<a>> \o <<b, c>> = <<a, b, c>>
<1>1. <<>> \in Seq(S) /\ DOMAIN <<>> = {}
  OBVIOUS
<1>2. <<a>> \in Seq(S) /\ DOMAIN <<a>> = {1} /\ <<a>>[1] = a
  OBVIOUS
<1>3. /\ <<a, b>> \in Seq(S) /\ DOMAIN <<a, b>> = {1, 2}
      /\ <<a, b>>[1] = a /\ <<a, b>>[2] = b
  OBVIOUS
<1>4. /\ <<a, b, c>> \in Seq(S) /\ DOMAIN <<a, b, c>> = {1, 2, 3}
      /\ <<a, b, c>>[1] = a /\ <<a, b, c>>[2] = b /\ <<a, b, c>>[3] = c
  OBVIOUS
<1>5. <<a>> \o <<b, c>> = <<a, b, c>>
  <2> DEFINE x == <<a>>
             y == <<b, c>>
             z == x \o y
  <2>1. x \in Seq(S) /\ Len(x) = 1 /\ x[1] = a
    OBVIOUS
  <2>2. y \in Seq(S) /\ Len(y) = 2 /\ y[1] = b /\ y[2] = c
    OBVIOUS
  <2> HIDE DEF x, y
  <2>3. z \in Seq(S) /\ Len(z) = 3 /\ z[1] = a /\ z[2] = b /\ z[3] = c
    <3>1. /\ z \in Seq(S) /\ Len(z) = Len(x) + Len(y)
          /\ \A i \in 1..(Len(x) + Len(y)) :
               z[i] = IF i <= Len(x) THEN x[i] ELSE y[i - Len(x)]
      BY <2>1, <2>2, ConcatProperties, Zenon
    <3> HIDE DEF z
    <3>2. QED
      BY <2>1, <2>2, <3>1
  <2>4. Len(<<a, b, c>>) = 3
    OBVIOUS
  <2> HIDE DEF z
  <2>5. z = <<a, b, c>>
    <3>1. \A i \in 1..Len(z) : z[i] = <<a, b, c>>[i]
      BY <1>4, <2>3
    <3>2. QED
      BY <1>4, <2>3, <2>4, <3>1, SeqEqual
  <2>6. QED
    BY <2>5 DEF x, y, z
<1>6. QED
  BY <1>1, <1>2, <1>3, <1>4, <1>5

\* What a step may put on the stack: the call of Send that was innermost,
\* further on, or a new one; the handler's call that was innermost, or one for the
\* first message of the list, which is removed.
Pops(t) == sendlist[t] # <<>> /\ sendlist' = [sendlist EXCEPT ![t] = Tail(@)]
GoesOn(f, g) == Sends(g) /\ f.id = g.id /\ (Early(f) => Early(g))
Changes(t, fs) ==
  /\ Stepped(t, fs)
  /\ \A k \in DOMAIN fs : Sends(fs[k]) => GoesOn(fs[k], Top(t)) \/ fs[k].id > calls
  /\ \A k \in DOMAIN fs : Answers(fs[k]) =>
       \/ fs[k] = Top(t)
       \/ Pops(t) /\ fs[k].sent = Head(sendlist[t])
  /\ \A k, l \in DOMAIN fs :
       (Sends(fs[k]) /\ Sends(fs[l])) \/ (Answers(fs[k]) /\ Answers(fs[l])) => k = l
  /\ Sends(Top(t)) =>
       \/ Top(t).id \in ready
       \/ \E k \in DOMAIN fs : Sends(fs[k]) /\ fs[k].id = Top(t).id
Keeps(t, fs) ==
  Changes(t, fs) /\ \A k \in DOMAIN fs : Answers(fs[k]) => fs[k] = Top(t)

LEMMA FrameNumbers ==
  ASSUME Types, NEW v \in Thread, NEW k \in DOMAIN stack[v]
  PROVE  /\ stack[v][k] \in Frame(calls)
         /\ Sends(stack[v][k]) => stack[v][k].id \in 1..calls
         /\ Answers(stack[v][k]) => stack[v][k].sent \in Message(calls)
<1>1. stack[v][k] \in Frame(calls) /\ calls \in Nat
  BY ThreadsAssumption DEF Types, VarTypes, StackType
<1>2. QED
  BY <1>1, FrameKinds DEF Sends, Answers, SendFrames, HandleFrames

LEMMA TopFrame ==
  ASSUME StackType, NEW t \in Thread, stack[t] # <<>>
  PROVE  1 \in DOMAIN stack[t] /\ Top(t) = stack[t][1] /\ Top(t) \in Frame(calls)
BY DEF StackType, Top

LEMMA SendsStayUnique ==
  ASSUME Types, SendsUnique, NEW t \in Thread, NEW fs, Changes(t, fs)
  PROVE  SendsUnique'
<1> USE DEF Types
<1>1. Stepped(t, fs) /\ Top(t) = stack[t][1]
  BY TopFrame DEF Changes, Stepped
<1>2. StackType' /\ Frame(calls) \subseteq Frame(calls')
  BY <1>1, Stacks, Grown DEF Stepped
<1>3. fs \in Seq(Frame(calls'))
  BY <1>1 DEF Stepped
<1>4. ASSUME NEW v \in Thread, NEW w \in Thread,
             NEW k \in DOMAIN stack'[v], NEW l \in DOMAIN stack'[w],
             Sends(stack'[v][k]), Sends(stack'[w][l]), stack'[v][k].id = stack'[w][l].id
      PROVE  v = w /\ k = l
  <2> DEFINE i == stack'[v][k].id
             A == {f \in Frame(calls') : Sends(f) /\ f.id = i}
  <2>1. stack'[v][k] \in A /\ stack'[w][l] \in A
    BY <1>2, <1>4 DEF StackType
  <2> HIDE DEF i
  <2>2. \A x, y \in Thread : \A a \in DOMAIN stack[x], b \in DOMAIN stack[y] :
          stack[x][a] \in A /\ stack[y][b] \in A => x = y /\ a = b
    BY DEF SendsUnique
  <2>3. \A a, b \in DOMAIN fs : fs[a] \in A /\ fs[b] \in A => a = b
    BY DEF Changes
  <2>4. ASSUME NEW a \in DOMAIN fs, fs[a] \in A
        PROVE  \/ stack[t][1] \in A
               \/ \A x \in Thread : \A b \in DOMAIN stack[x] : stack[x][b] \notin A
    <3>1. CASE GoesOn(fs[a], Top(t))
      <4>1. stack[t][1] \in Frame(calls')
        BY <1>1, <1>2, TopFrame DEF Stepped
      <4>2. QED
        BY <1>1, <2>4, <3>1, <4>1 DEF GoesOn
    <3>2. CASE fs[a].id > calls
      <4>1. ASSUME NEW x \in Thread, NEW b \in DOMAIN stack[x], stack[x][b] \in A
            PROVE  FALSE
        <5>1. i \in 1..calls
          BY <4>1, FrameNumbers
        <5>2. i > calls /\ calls \in Nat
          BY <2>4, <3>2, ThreadsAssumption DEF VarTypes
        <5>3. QED
          BY <5>1, <5>2
      <4>2. QED
        BY <4>1
    <3>3. QED
      BY <2>4, <3>1, <3>2 DEF Changes
  <2> HIDE DEF A
  <2>5. \A x, y \in Thread : \A a \in DOMAIN stack'[x], b \in DOMAIN stack'[y] :
          stack'[x][a] \in A /\ stack'[y][b] \in A => x = y /\ a = b
    BY <1>1, <2>2, <2>3, <2>4, OneEach
  <2>6. QED
    BY <2>1, <2>5
<1>5. QED
  BY <1>4 DEF SendsUnique

LEMMA AnswersStayUnique ==
  ASSUME Types, AnswersUnique, ListedUnanswered,
         NEW t \in Thread, NEW fs, Changes(t, fs)
  PROVE  AnswersUnique'
<1> USE DEF Types
<1>1. Stepped(t, fs) /\ Top(t) = stack[t][1]
  BY TopFrame DEF Changes, Stepped
<1>2. StackType' /\ Frame(calls) \subseteq Frame(calls')
  BY <1>1, Stacks, Grown DEF Stepped
<1>3. fs \in Seq(Frame(calls'))
  BY <1>1 DEF Stepped
<1>4. ASSUME NEW v \in Thread, NEW w \in Thread,
             NEW k \in DOMAIN stack'[v], NEW l \in DOMAIN stack'[w],
             Answers(stack'[v][k]), Answers(stack'[w][l]),
             stack'[v][k].sent.id = stack'[w][l].sent.id
      PROVE  v = w /\ k = l
  <2> DEFINE i == stack'[v][k].sent.id
             A == {f \in Frame(calls') : Answers(f) /\ f.sent.id = i}
  <2>1. stack'[v][k] \in A /\ stack'[w][l] \in A
    BY <1>2, <1>4 DEF StackType
  <2> HIDE DEF i
  <2>2. \A x, y \in Thread : \A a \in DOMAIN stack[x], b \in DOMAIN stack[y] :
          stack[x][a] \in A /\ stack[y][b] \in A => x = y /\ a = b
    BY DEF AnswersUnique
  <2>3. \A a, b \in DOMAIN fs : fs[a] \in A /\ fs[b] \in A => a = b
    BY DEF Changes
  <2>4. ASSUME NEW a \in DOMAIN fs, fs[a] \in A
        PROVE  \/ stack[t][1] \in A
               \/ \A x \in Thread : \A b \in DOMAIN stack[x] : stack[x][b] \notin A
    <3>1. CASE fs[a] = Top(t)
      BY <1>1, <2>4, <3>1
    <3>2. CASE Pops(t) /\ fs[a].sent = Head(sendlist[t])
      <4>1. 1 \in DOMAIN sendlist[t] /\ sendlist[t][1].id = i
        BY <2>4, <3>2 DEF Pops, ListsType
      <4>2. QED
        BY <4>1 DEF ListedUnanswered
    <3>3. QED
      BY <2>4, <3>1, <3>2 DEF Changes
  <2> HIDE DEF A
  <2>5. \A x, y \in Thread : \A a \in DOMAIN stack'[x], b \in DOMAIN stack'[y] :
          stack'[x][a] \in A /\ stack'[y][b] \in A => x = y /\ a = b
    BY <1>1, <2>2, <2>3, <2>4, OneEach
  <2>6. QED
    BY <2>1, <2>5
<1>5. QED
  BY <1>4 DEF AnswersUnique

\* Where handlers' calls and calls of Send that are new come from; a call of Send
\* that is not answered does not return.
LEMMA Sources ==
  ASSUME Types, NEW t \in Thread, NEW fs, Changes(t, fs)
  PROVE  /\ \A v \in Thread : \A k \in DOMAIN stack'[v] : Answers(stack'[v][k]) =>
              \/ \E l \in DOMAIN stack[v] : stack'[v][k] = stack[v][l]
              \/ v = t /\ Pops(t) /\ stack'[v][k].sent = Head(sendlist[t])
         /\ \A v \in Thread : \A k \in DOMAIN stack'[v] : Early(stack'[v][k]) =>
              \/ \E l \in DOMAIN stack[v] :
                   Early(stack[v][l]) /\ stack'[v][k].id = stack[v][l].id
              \/ stack'[v][k].id > calls
         /\ \A v \in Thread : \A i : Sending(v, i) /\ i \notin ready => Sending(v, i)'
<1> USE DEF Types
<1>1. Stepped(t, fs) /\ 1 \in DOMAIN stack[t] /\ Top(t) = stack[t][1]
  BY TopFrame DEF Changes, Stepped
<1>2. ASSUME NEW v \in Thread, NEW k \in DOMAIN stack'[v], Answers(stack'[v][k])
      PROVE  \/ \E l \in DOMAIN stack[v] : stack'[v][k] = stack[v][l]
             \/ v = t /\ Pops(t) /\ stack'[v][k].sent = Head(sendlist[t])
  <2>1. \/ \E l \in DOMAIN stack[v] : stack'[v][k] = stack[v][l]
        \/ v = t /\ k \in DOMAIN fs /\ stack'[t][k] = fs[k]
    BY <1>1, Stacks
  <2>2. QED
    BY <1>1, <1>2, <2>1 DEF Changes
<1>3. ASSUME NEW v \in Thread, NEW k \in DOMAIN stack'[v], Early(stack'[v][k])
      PROVE  \/ \E l \in DOMAIN stack[v] :
                  Early(stack[v][l]) /\ stack'[v][k].id = stack[v][l].id
             \/ stack'[v][k].id > calls
  <2>1. \/ \E l \in DOMAIN stack[v] : stack'[v][k] = stack[v][l]
        \/ v = t /\ k \in DOMAIN fs /\ stack'[t][k] = fs[k]
    BY <1>1, Stacks
  <2>2. Sends(stack'[v][k])
    BY <1>3 DEF Early, Sends
  <2>3. QED
    BY <1>1, <1>3, <2>1, <2>2 DEF Changes, GoesOn
<1>4. ASSUME NEW v \in Thread, NEW i, Sending(v, i), i \notin ready
      PROVE  Sending(v, i)'
  <2>1. PICK l \in DOMAIN stack[v] : stack[v][l].op = "send" /\ stack[v][l].id = i
    BY <1>4 DEF Sending
  <2>2. CASE \E k \in DOMAIN stack'[v] : stack'[v][k] = stack[v][l]
    BY <2>1, <2>2 DEF Sending
  <2>3. CASE v = t /\ l = 1
    <3>1. Sends(Top(t)) /\ Top(t).id = i
      BY <1>1, <2>1, <2>3 DEF Sends
    <3>2. PICK k \in DOMAIN fs : Sends(fs[k]) /\ fs[k].id = i
      BY <1>4, <3>1 DEF Changes
    <3>3. k \in DOMAIN stack'[t] /\ stack'[t][k] = fs[k]
      BY <1>1, Stacks
    <3>4. QED
      BY <2>3, <3>2, <3>3 DEF Sends, Sending
  <2>4. QED
    BY <1>1, <2>2, <2>3, Stacks
<1>5. QED
  BY <1>2, <1>3, <1>4

LEMMA EarlyWereNew ==
  ASSUME Types, EarlyNew, NEW t \in Thread, NEW fs, Changes(t, fs)
  PROVE  \A v \in Thread : \A k \in DOMAIN stack'[v] :
           Early(stack'[v][k]) => IsNew(stack'[v][k].id)
<1> SUFFICES ASSUME NEW v \in Thread, NEW k \in DOMAIN stack'[v], Early(stack'[v][k])
             PROVE  IsNew(stack'[v][k].id)
  OBVIOUS
<1>1. CASE \E l \in DOMAIN stack[v] :
             Early(stack[v][l]) /\ stack'[v][k].id = stack[v][l].id
  BY <1>1 DEF EarlyNew
<1>2. CASE stack'[v][k].id > calls
  <2> DEFINE i == stack'[v][k].id
  <2>1. calls \in Nat /\ i \notin 1..calls
    BY <1>2, ThreadsAssumption DEF Types, VarTypes
  <2> HIDE DEF i
  <2>2. i \notin ready
    BY <2>1 DEF Types, ReadyType
  <2>3. ASSUME NEW u \in Thread, NEW j \in DOMAIN sendlist[u] PROVE sendlist[u][j].id # i
    <3>1. sendlist[u][j] \in Message(calls)
      BY DEF Types, ListsType
    <3>2. QED
      BY <2>1, <3>1 DEF Message
  <2>4. ASSUME NEW u \in Thread, NEW l \in DOMAIN stack[u], Answers(stack[u][l])
        PROVE  stack[u][l].sent.id # i
    <3>1. stack[u][l].sent \in Message(calls)
      BY <2>4, FrameNumbers
    <3>2. QED
      BY <2>1, <3>1 DEF Message
  <2>5. QED
    BY <2>2, <2>3, <2>4 DEF IsNew, i
<1>3. QED
  BY <1>1, <1>2, Sources

LEMMA KeptAnswers ==
  ASSUME Types, NEW t \in Thread, NEW fs, Keeps(t, fs)
  PROVE  \A v \in Thread : \A k \in DOMAIN stack'[v] : Answers(stack'[v][k]) =>
           \E l \in DOMAIN stack[v] : stack'[v][k] = stack[v][l]
<1> USE DEF Types
<1>1. Stepped(t, fs) /\ 1 \in DOMAIN stack[t] /\ Top(t) = stack[t][1]
  BY TopFrame DEF Keeps, Changes, Stepped
<1>2. ASSUME NEW v \in Thread, NEW k \in DOMAIN stack'[v], Answers(stack'[v][k])
      PROVE  \E l \in DOMAIN stack[v] : stack'[v][k] = stack[v][l]
  <2>1. \/ \E l \in DOMAIN stack[v] : stack'[v][k] = stack[v][l]
        \/ v = t /\ k \in DOMAIN fs /\ stack'[t][k] = fs[k]
    BY <1>1, Stacks
  <2>2. QED
    BY <1>1, <1>2, <2>1 DEF Keeps
<1>3. QED
  BY <1>2

\* The next state, with a name for each message.
LEMMA ListedWaitingNext ==
  ASSUME ready' = ready,
         \A u \in Thread : \A i \in DOMAIN sendlist'[u] : \A m :
           m = sendlist'[u][i] => Sending(m.from, m.id)' /\ m.id \notin ready
  PROVE  ListedWaiting'
BY DEF ListedWaiting, Sending

LEMMA HandledWaitingNext ==
  ASSUME ready' = ready,
         \A u \in Thread : \A k \in DOMAIN stack'[u] : Answers(stack'[u][k]) =>
           \A m : m = stack'[u][k].sent
                    => Sending(m.from, m.id)' /\ m.id \notin ready
  PROVE  HandledWaiting'
BY DEF HandledWaiting, Sending

\* Steps that neither list nor answer a sent message.
LEMMA ListsUnchanged ==
  ASSUME Types, Numbers, Answered, NEW t \in Thread, NEW fs, Keeps(t, fs),
         UNCHANGED <<sendlist, ready>>
  PROVE  Numbers' /\ Answered'
<1> USE DEF Numbers, Answered
<1>1. Changes(t, fs)
  BY DEF Keeps
<1>2. SendsUnique' /\ AnswersUnique'
  BY <1>1, SendsStayUnique, AnswersStayUnique
<1>3. \A v \in Thread : \A k \in DOMAIN stack'[v] : Answers(stack'[v][k]) =>
        \E l \in DOMAIN stack[v] : stack'[v][k] = stack[v][l]
  BY KeptAnswers
<1>4. \A v \in Thread : \A i : Sending(v, i) /\ i \notin ready => Sending(v, i)'
  BY <1>1, Sources
<1>5. ListedUnique'
  BY DEF ListedUnique
<1>6. ListedUnanswered'
  BY <1>3 DEF ListedUnanswered
<1>7. ListedWaiting'
  <2> SUFFICES ASSUME NEW u \in Thread, NEW i \in DOMAIN sendlist[u],
                      NEW m, m = sendlist[u][i]
               PROVE  Sending(m.from, m.id)' /\ m.id \notin ready
    BY DEF ListedWaiting, Sending
  <2>1. m \in Message(calls)
    BY DEF Types, ListsType
  <2>2. m.from \in Thread
    BY <2>1 DEF Message
  <2>3. QED
    BY <1>4, <2>2 DEF ListedWaiting
<1>8. HandledWaiting'
  <2> SUFFICES ASSUME NEW u \in Thread, NEW k \in DOMAIN stack'[u], Answers(stack'[u][k]),
                      NEW m, m = stack'[u][k].sent
               PROVE  Sending(m.from, m.id)' /\ m.id \notin ready
    BY HandledWaitingNext, Zenon
  <2>1. PICK l \in DOMAIN stack[u] : stack'[u][k] = stack[u][l]
    BY <1>3
  <2>2. m \in Message(calls)
    BY <2>1, FrameNumbers
  <2>3. m.from \in Thread
    BY <2>2 DEF Message
  <2>4. QED
    BY <1>4, <2>1, <2>3 DEF HandledWaiting
<1>9. EarlyNew'
  BY <1>1, <1>3, EarlyWereNew DEF EarlyNew, IsNew
<1>10. QED
  BY <1>2, <1>5, <1>6, <1>7, <1>8, <1>9

\* Send lists its message.
LEMMA MessageListed ==
  ASSUME Types, Numbers, Answered, NEW t \in Thread, NEW fs, Keeps(t, fs),
         Early(Top(t)), NEW u \in Thread, NEW m \in Message(calls),
         m.id = Top(t).id, m.from = t,
         sendlist' = [sendlist EXCEPT ![u] = Append(@, m)], UNCHANGED ready,
         1 \in DOMAIN fs, Sends(fs[1]), fs[1].id = m.id, ~Early(fs[1])
  PROVE  Numbers' /\ Answered'
<1> USE DEF Numbers, Answered
<1>1. Changes(t, fs) /\ Stepped(t, fs) /\ stack[t] # <<>>
  BY DEF Keeps, Changes, Stepped
<1>2. SendsUnique' /\ AnswersUnique'
  BY <1>1, SendsStayUnique, AnswersStayUnique
<1>3. \A v \in Thread : \A k \in DOMAIN stack'[v] : Answers(stack'[v][k]) =>
        \E l \in DOMAIN stack[v] : stack'[v][k] = stack[v][l]
  BY KeptAnswers
<1>4. \A v \in Thread : \A i : Sending(v, i) /\ i \notin ready => Sending(v, i)'
  BY <1>1, Sources
<1>5. 1 \in DOMAIN stack[t] /\ Top(t) = stack[t][1] /\ stack[t][1].op = "send"
  BY <1>1, TopFrame DEF Types, Early
<1>6. IsNew(m.id)
  BY <1>5 DEF EarlyNew
<1>7. Sending(t, m.id)'
  BY <1>4, <1>5, <1>6 DEF Sending, IsNew
<1>8. ASSUME NEW v \in Thread, NEW j \in DOMAIN sendlist'[v]
      PROVE  \/ j \in DOMAIN sendlist[v] /\ sendlist'[v][j] = sendlist[v][j]
             \/ v = u /\ j = Len(sendlist[u]) + 1 /\ sendlist'[v][j] = m
  <2>1. sendlist \in [Thread -> Seq(Message(calls))] /\ sendlist[u] \in Seq(Message(calls))
    BY DEF Types, ListsType
  <2>2. CASE v = u
    <3>1. sendlist'[v] = Append(sendlist[u], m)
      BY <2>1, <2>2
    <3>2. QED
      BY <2>1, <2>2, <3>1
  <2>3. CASE v # u
    BY <2>1, <2>3
  <2>4. QED
    BY <2>2, <2>3
<1>9. ListedUnique'
  <2> SUFFICES ASSUME NEW v \in Thread, NEW w \in Thread,
                      NEW i \in DOMAIN sendlist'[v], NEW j \in DOMAIN sendlist'[w],
                      sendlist'[v][i].id = sendlist'[w][j].id
               PROVE  v = w /\ i = j
    BY DEF ListedUnique
  <2>1. QED
    BY <1>6, <1>8 DEF ListedUnique, IsNew
<1>10. ListedUnanswered'
  <2> SUFFICES ASSUME NEW v \in Thread, NEW w \in Thread, NEW i \in DOMAIN sendlist'[v],
                      NEW k \in DOMAIN stack'[w], Answers(stack'[w][k])
               PROVE  stack'[w][k].sent.id # sendlist'[v][i].id
    BY DEF ListedUnanswered
  <2>1. PICK l \in DOMAIN stack[w] : stack'[w][k] = stack[w][l]
    BY <1>3
  <2>2. QED
    BY <1>6, <1>8, <2>1 DEF ListedUnanswered, IsNew
<1>11. ListedWaiting'
  <2> SUFFICES ASSUME NEW v \in Thread, NEW i \in DOMAIN sendlist'[v],
                      NEW x, x = sendlist'[v][i]
               PROVE  Sending(x.from, x.id)' /\ x.id \notin ready
    BY ListedWaitingNext, Zenon
  <2>1. CASE x = m
    BY <1>6, <1>7, <2>1 DEF IsNew
  <2>2. CASE i \in DOMAIN sendlist[v] /\ x = sendlist[v][i]
    <3>1. x \in Message(calls)
      BY <2>2 DEF Types, ListsType
    <3>2. x.from \in Thread
      BY <3>1 DEF Message
    <3>3. QED
      BY <1>4, <2>2, <3>2 DEF ListedWaiting
  <2>3. QED
    BY <1>8, <2>1, <2>2
<1>12. HandledWaiting'
  <2> SUFFICES ASSUME NEW v \in Thread, NEW k \in DOMAIN stack'[v], Answers(stack'[v][k]),
                      NEW x, x = stack'[v][k].sent
               PROVE  Sending(x.from, x.id)' /\ x.id \notin ready
    BY HandledWaitingNext, Zenon
  <2>1. PICK l \in DOMAIN stack[v] : stack'[v][k] = stack[v][l]
    BY <1>3
  <2>2. x \in Message(calls)
    BY <2>1, FrameNumbers
  <2>3. x.from \in Thread
    BY <2>2 DEF Message
  <2>4. QED
    BY <1>4, <2>1, <2>3 DEF HandledWaiting
<1>13. EarlyNew'
  <2> SUFFICES ASSUME NEW v \in Thread, NEW k \in DOMAIN stack'[v], Early(stack'[v][k]),
                      NEW i, i = stack'[v][k].id
               PROVE  IsNew(i)'
    BY DEF EarlyNew, IsNew
  <2>1. IsNew(i)
    BY <1>1, EarlyWereNew
  <2>2. i # m.id
    <3>1. 1 \in DOMAIN stack'[t] /\ stack'[t][1] = fs[1]
      BY <1>1, Stacks DEF Types
    <3>2. ASSUME i = m.id PROVE FALSE
      <4>1. /\ Sends(stack'[v][k]) /\ Sends(stack'[t][1])
            /\ stack'[v][k].id = stack'[t][1].id
        BY <3>1, <3>2 DEF Early, Sends
      <4>2. \A x, y \in Thread : \A a \in DOMAIN stack'[x], b \in DOMAIN stack'[y] :
              /\ Sends(stack'[x][a]) /\ Sends(stack'[y][b])
              /\ stack'[x][a].id = stack'[y][b].id
              => x = y /\ a = b
        BY <1>2, Zenon DEF SendsUnique
      <4>3. v = t /\ k = 1
        <5>1. ASSUME NEW b \in DOMAIN stack'[t], Sends(stack'[t][b]),
                     stack'[v][k].id = stack'[t][b].id
              PROVE  v = t /\ k = b
          BY <4>1, <4>2, <5>1
        <5>2. QED
          BY <3>1, <4>1, <5>1
      <4>4. QED
        BY <3>1, <4>3
    <3>3. QED
      BY <3>2
  <2>3. QED
    BY <1>3, <1>8, <2>1, <2>2 DEF IsNew
<1>14. QED
  BY <1>2, <1>9, <1>10, <1>11, <1>12, <1>13

\* ReceiveSends takes the first message from the list.
LEMMA MessagePopped ==
  ASSUME Types, Numbers, Answered, NEW t \in Thread, NEW fs, Changes(t, fs),
         Pops(t), UNCHANGED ready
  PROVE  Numbers' /\ Answered'
<1> USE DEF Numbers, Answered
<1> DEFINE m == sendlist[t][1]
<1>1. SendsUnique' /\ AnswersUnique'
  BY SendsStayUnique, AnswersStayUnique
<1>2. \A v \in Thread : \A i : Sending(v, i) /\ i \notin ready => Sending(v, i)'
  BY Sources
<1>3. /\ sendlist \in [Thread -> Seq(Message(calls))]
      /\ 1 \in DOMAIN sendlist[t] /\ m \in Message(calls) /\ Head(sendlist[t]) = m
  BY DEF Types, ListsType, Pops
<1>4. ASSUME NEW v \in Thread, NEW j \in DOMAIN sendlist'[v]
      PROVE  \E i \in DOMAIN sendlist[v] :
               /\ sendlist'[v][j] = sendlist[v][i]
               /\ v = t => i > 1 /\ j = i - 1
               /\ v # t => j = i
  <2>1. CASE v = t
    <3>1. /\ sendlist'[v] = Tail(sendlist[t]) /\ sendlist[t] \in Seq(Message(calls))
          /\ sendlist[t] # <<>>
      BY <1>3, <2>1 DEF Pops
    <3>2. /\ j \in 1..(Len(sendlist[t]) - 1) /\ j + 1 \in DOMAIN sendlist[t]
          /\ Tail(sendlist[t])[j] = sendlist[t][j + 1]
      BY <3>1
    <3>3. PICK i \in DOMAIN sendlist[t] : i = j + 1
      BY <3>2
    <3>4. sendlist'[v][j] = sendlist[v][i] /\ i > 1 /\ j = i - 1
      BY <2>1, <3>1, <3>2, <3>3
    <3>5. QED
      BY <2>1, <3>4
  <2>2. CASE v # t
    BY <1>3, <2>2 DEF Pops
  <2>3. QED
    BY <2>1, <2>2
<1>5. ASSUME NEW v \in Thread, NEW k \in DOMAIN stack'[v], Answers(stack'[v][k])
      PROVE  \/ \E l \in DOMAIN stack[v] : stack'[v][k] = stack[v][l]
             \/ stack'[v][k].sent = m
  BY <1>3, <1>5, Sources
<1>6. ListedUnique'
  <2> SUFFICES ASSUME NEW v \in Thread, NEW w \in Thread,
                      NEW i \in DOMAIN sendlist'[v], NEW j \in DOMAIN sendlist'[w],
                      sendlist'[v][i].id = sendlist'[w][j].id
               PROVE  v = w /\ i = j
    BY DEF ListedUnique
  <2>1. PICK a \in DOMAIN sendlist[v] : /\ sendlist'[v][i] = sendlist[v][a]
                                        /\ v = t => a > 1 /\ i = a - 1
                                        /\ v # t => i = a
    BY <1>4
  <2>2. PICK b \in DOMAIN sendlist[w] : /\ sendlist'[w][j] = sendlist[w][b]
                                        /\ w = t => b > 1 /\ j = b - 1
                                        /\ w # t => j = b
    BY <1>4
  <2>3. v = w /\ a = b
    BY <2>1, <2>2 DEF ListedUnique
  <2>4. QED
    BY <2>1, <2>2, <2>3
<1>7. ListedUnanswered'
  <2> SUFFICES ASSUME NEW v \in Thread, NEW w \in Thread, NEW i \in DOMAIN sendlist'[v],
                      NEW k \in DOMAIN stack'[w], Answers(stack'[w][k])
               PROVE  stack'[w][k].sent.id # sendlist'[v][i].id
    BY DEF ListedUnanswered
  <2>1. PICK a \in DOMAIN sendlist[v] : sendlist'[v][i] = sendlist[v][a] /\ (v = t => a > 1)
    BY <1>4
  <2>2. CASE \E l \in DOMAIN stack[w] : stack'[w][k] = stack[w][l]
    BY <2>1, <2>2 DEF ListedUnanswered
  <2>3. CASE stack'[w][k].sent = m
    <3>1. ASSUME m.id = sendlist[v][a].id PROVE FALSE
      <4>1. t = v /\ 1 = a
        BY <1>3, <3>1 DEF ListedUnique
      <4>2. QED
        BY <2>1, <4>1
    <3>2. QED
      BY <2>1, <2>3, <3>1
  <2>4. QED
    BY <1>5, <2>2, <2>3
<1>8. ASSUME NEW x \in Message(calls), Sending(x.from, x.id), x.id \notin ready
      PROVE  Sending(x.from, x.id)' /\ x.id \notin ready'
  <2>1. x.from \in Thread
    BY DEF Message
  <2>2. QED
    BY <1>2, <1>8, <2>1
<1>9. ListedWaiting'
  <2> SUFFICES ASSUME NEW v \in Thread, NEW i \in DOMAIN sendlist'[v],
                      NEW x, x = sendlist'[v][i]
               PROVE  Sending(x.from, x.id)' /\ x.id \notin ready'
    BY DEF ListedWaiting, Sending
  <2>1. PICK a \in DOMAIN sendlist[v] : x = sendlist[v][a]
    BY <1>4
  <2>2. x \in Message(calls)
    BY <1>3, <2>1
  <2>3. QED
    BY <1>8, <2>1, <2>2 DEF ListedWaiting
<1>10. HandledWaiting'
  <2> SUFFICES ASSUME NEW v \in Thread, NEW k \in DOMAIN stack'[v], Answers(stack'[v][k]),
                      NEW x, x = stack'[v][k].sent
               PROVE  Sending(x.from, x.id)' /\ x.id \notin ready'
    BY DEF HandledWaiting, Sending
  <2>1. CASE \E l \in DOMAIN stack[v] : stack'[v][k] = stack[v][l]
    <3>1. PICK l \in DOMAIN stack[v] : stack'[v][k] = stack[v][l]
      BY <2>1
    <3>2. x \in Message(calls)
      BY <3>1, FrameNumbers
    <3>3. QED
      BY <1>8, <3>1, <3>2 DEF HandledWaiting
  <2>2. CASE x = m
    BY <1>3, <1>8, <2>2 DEF ListedWaiting
  <2>3. QED
    BY <1>5, <2>1, <2>2
<1>11. EarlyNew'
  <2> SUFFICES ASSUME NEW v \in Thread, NEW k \in DOMAIN stack'[v], Early(stack'[v][k]),
                      NEW i, i = stack'[v][k].id
               PROVE  IsNew(i)'
    BY DEF EarlyNew, IsNew
  <2>1. IsNew(i)
    BY EarlyWereNew
  <2>2. m.id # i
    BY <1>3, <2>1 DEF IsNew
  <2>3. QED
    BY <1>4, <1>5, <2>1, <2>2 DEF IsNew
<1>12. QED
  BY <1>1, <1>6, <1>7, <1>9, <1>10, <1>11

\* The sender of a message that has been handled is told.
LEMMA MessageAnswered ==
  ASSUME Types, Numbers, Answered, NEW t \in Thread, NEW fs, Keeps(t, fs),
         \A k \in DOMAIN fs : ~Answers(fs[k]), Answers(Top(t)),
         ready' = ready \cup {Top(t).sent.id}, UNCHANGED sendlist
  PROVE  Numbers' /\ Answered'
<1> USE DEF Numbers, Answered
<1>1. Changes(t, fs) /\ Stepped(t, fs) /\ stack[t] # <<>>
  BY DEF Keeps, Changes, Stepped
<1>2. SendsUnique' /\ AnswersUnique'
  BY <1>1, SendsStayUnique, AnswersStayUnique
<1>3. \A v \in Thread : \A i : Sending(v, i) /\ i \notin ready => Sending(v, i)'
  BY <1>1, Sources
<1>4. 1 \in DOMAIN stack[t] /\ Top(t) = stack[t][1]
  BY <1>1, TopFrame DEF Types
<1>5. ASSUME NEW v \in Thread, NEW k \in DOMAIN stack'[v], Answers(stack'[v][k])
      PROVE  \E l \in DOMAIN stack[v] :
               stack'[v][k] = stack[v][l] /\ stack[v][l].sent.id # Top(t).sent.id
  <2>1. PICK l \in DOMAIN stack[v] : stack'[v][k] = stack[v][l] /\ (v = t => l > 1)
    BY <1>1, <1>5, Stacks DEF Types
  <2>2. ASSUME stack[v][l].sent.id = Top(t).sent.id PROVE FALSE
    <3>1. v = t /\ l = 1
      BY <1>4, <1>5, <2>1, <2>2 DEF AnswersUnique
    <3>2. QED
      BY <2>1, <3>1
  <2>3. QED
    BY <2>1, <2>2
<1>6. ListedUnique'
  BY DEF ListedUnique
<1>7. ListedUnanswered'
  BY <1>5 DEF ListedUnanswered
<1>8. ASSUME NEW x \in Message(calls), Sending(x.from, x.id), x.id \notin ready,
             x.id # Top(t).sent.id
      PROVE  Sending(x.from, x.id)' /\ x.id \notin ready'
  <2>1. x.from \in Thread
    BY DEF Message
  <2>2. QED
    BY <1>3, <1>8, <2>1
<1>9. ListedWaiting'
  <2> SUFFICES ASSUME NEW v \in Thread, NEW i \in DOMAIN sendlist[v],
                      NEW x, x = sendlist[v][i]
               PROVE  Sending(x.from, x.id)' /\ x.id \notin ready'
    BY DEF ListedWaiting, Sending
  <2>1. x \in Message(calls)
    BY DEF Types, ListsType
  <2>2. x.id # Top(t).sent.id
    BY <1>4 DEF ListedUnanswered
  <2>3. QED
    BY <1>8, <2>1, <2>2 DEF ListedWaiting
<1>10. HandledWaiting'
  <2> SUFFICES ASSUME NEW v \in Thread, NEW k \in DOMAIN stack'[v], Answers(stack'[v][k]),
                      NEW x, x = stack'[v][k].sent
               PROVE  Sending(x.from, x.id)' /\ x.id \notin ready'
    BY DEF HandledWaiting, Sending
  <2>1. PICK l \in DOMAIN stack[v] :
               stack'[v][k] = stack[v][l] /\ stack[v][l].sent.id # Top(t).sent.id
    BY <1>5
  <2>2. x \in Message(calls)
    BY <2>1, FrameNumbers
  <2>3. QED
    BY <1>8, <2>1, <2>2 DEF HandledWaiting
<1>11. EarlyNew'
  <2> SUFFICES ASSUME NEW v \in Thread, NEW k \in DOMAIN stack'[v], Early(stack'[v][k]),
                      NEW i, i = stack'[v][k].id
               PROVE  IsNew(i)'
    BY DEF EarlyNew, IsNew
  <2>1. IsNew(i)
    BY <1>1, EarlyWereNew
  <2>2. Top(t).sent.id # i
    BY <1>4, <2>1 DEF IsNew
  <2>3. QED
    BY <1>5, <2>1, <2>2 DEF IsNew
<1>12. QED
  BY <1>2, <1>6, <1>7, <1>9, <1>10, <1>11

\* Clear removes the messages for h from the list of q and tells their senders.
LEMMA QueueCleared ==
  ASSUME Types, Numbers, Answered, NEW t \in Thread, NEW fs, Keeps(t, fs),
         NEW q \in Thread, NEW h,
         ready' = ready \cup {m.id : m \in {m \in ToSet(sendlist[q]) : Matches(m, h)}},
         sendlist' = [sendlist EXCEPT ![q] = Others(@, h)]
  PROVE  Numbers' /\ Answered'
<1> USE DEF Numbers, Answered
<1> DEFINE Gone(i) == \E j \in DOMAIN sendlist[q] :
                        sendlist[q][j].id = i /\ Matches(sendlist[q][j], h)
<1>1. Changes(t, fs)
  BY DEF Keeps
<1>2. SendsUnique' /\ AnswersUnique'
  BY <1>1, SendsStayUnique, AnswersStayUnique
<1>3. \A v \in Thread : \A k \in DOMAIN stack'[v] : Answers(stack'[v][k]) =>
        \E l \in DOMAIN stack[v] : stack'[v][k] = stack[v][l]
  BY KeptAnswers
<1>4. \A v \in Thread : \A i : Sending(v, i) /\ i \notin ready => Sending(v, i)'
  BY <1>1, Sources
<1>5. sendlist \in [Thread -> Seq(Message(calls))]
  BY DEF Types, ListsType
<1>6. \A i \in ready' : i \in ready \/ Gone(i)
  <2>1. ToSet(sendlist[q]) = {sendlist[q][j] : j \in DOMAIN sendlist[q]}
    BY DEF ToSet
  <2>2. QED
    BY <2>1
<1> DEFINE left == Others(sendlist[q], h)
<1>7. PICK g \in [1..Len(left) -> 1..Len(sendlist[q])] :
        /\ \A k \in 1..Len(left) :
             left[k] = sendlist[q][g[k]] /\ ~Matches(sendlist[q][g[k]], h)
        /\ \A k, l \in 1..Len(left) : k < l => g[k] < g[l]
  BY <1>5, OthersKept
<1>8. DOMAIN left = 1..Len(left) /\ DOMAIN sendlist[q] = 1..Len(sendlist[q])
  BY <1>5, OthersKept
<1>9. sendlist'[q] = left /\ \A v \in Thread : v # q => sendlist'[v] = sendlist[v]
  BY <1>5
<1> HIDE DEF left
<1>10. ASSUME NEW v \in Thread, NEW j \in DOMAIN sendlist'[v]
      PROVE  \E i \in DOMAIN sendlist[v] :
               /\ sendlist'[v][j] = sendlist[v][i]
               /\ v = q => i = g[j] /\ ~Matches(sendlist[v][i], h)
               /\ v # q => j = i
  <2>1. CASE v = q
    <3>1. j \in 1..Len(left) /\ g[j] \in DOMAIN sendlist[q]
      BY <1>7, <1>8, <1>9, <2>1
    <3>2. QED
      BY <1>7, <1>9, <2>1, <3>1
  <2>2. CASE v # q
    BY <1>9, <2>2
  <2>3. QED
    BY <2>1, <2>2
<1>11. ListedUnique'
  <2> SUFFICES ASSUME NEW v \in Thread, NEW w \in Thread,
                      NEW i \in DOMAIN sendlist'[v], NEW j \in DOMAIN sendlist'[w],
                      sendlist'[v][i].id = sendlist'[w][j].id
               PROVE  v = w /\ i = j
    BY DEF ListedUnique
  <2>1. PICK a \in DOMAIN sendlist[v] : /\ sendlist'[v][i] = sendlist[v][a]
                                        /\ v = q => a = g[i]
                                        /\ v # q => i = a
    BY <1>10
  <2>2. PICK b \in DOMAIN sendlist[w] : /\ sendlist'[w][j] = sendlist[w][b]
                                        /\ w = q => b = g[j]
                                        /\ w # q => j = b
    BY <1>10
  <2>3. v = w /\ a = b
    BY <2>1, <2>2 DEF ListedUnique
  <2>4. CASE v = q
    <3>1. i \in 1..Len(left) /\ j \in 1..Len(left) /\ g[i] = g[j]
      BY <1>8, <1>9, <2>1, <2>2, <2>3, <2>4
    <3>2. ~(i < j) /\ ~(j < i)
      BY <1>7, <1>8, <3>1
    <3>3. QED
      BY <2>3, <3>1, <3>2
  <2>5. CASE v # q
    BY <2>1, <2>2, <2>3, <2>5
  <2>6. QED
    BY <2>4, <2>5
<1>12. ListedUnanswered'
  <2> SUFFICES ASSUME NEW v \in Thread, NEW w \in Thread, NEW i \in DOMAIN sendlist'[v],
                      NEW k \in DOMAIN stack'[w], Answers(stack'[w][k])
               PROVE  stack'[w][k].sent.id # sendlist'[v][i].id
    BY DEF ListedUnanswered
  <2>1. PICK a \in DOMAIN sendlist[v] : sendlist'[v][i] = sendlist[v][a]
    BY <1>10
  <2>2. PICK l \in DOMAIN stack[w] : stack'[w][k] = stack[w][l]
    BY <1>3
  <2>3. QED
    BY <2>1, <2>2 DEF ListedUnanswered
<1>13. ASSUME NEW x \in Message(calls), Sending(x.from, x.id), x.id \notin ready,
              ~Gone(x.id)
       PROVE  Sending(x.from, x.id)' /\ x.id \notin ready'
  <2>1. x.from \in Thread
    BY DEF Message
  <2>2. QED
    BY <1>4, <1>6, <1>13, <2>1
<1> HIDE DEF Gone
<1>14. ListedWaiting'
  <2> SUFFICES ASSUME NEW v \in Thread, NEW i \in DOMAIN sendlist'[v],
                      NEW x, x = sendlist'[v][i]
               PROVE  Sending(x.from, x.id)' /\ x.id \notin ready'
    BY DEF ListedWaiting, Sending
  <2>1. PICK a \in DOMAIN sendlist[v] :
               x = sendlist[v][a] /\ (v = q => ~Matches(sendlist[v][a], h))
    BY <1>10
  <2>2. x \in Message(calls)
    BY <1>5, <2>1
  <2>3. ~Gone(x.id)
    <3>1. ASSUME NEW j \in DOMAIN sendlist[q], sendlist[q][j].id = x.id,
                 Matches(sendlist[q][j], h)
          PROVE  FALSE
      <4>1. q = v /\ j = a
        BY <2>1, <3>1 DEF ListedUnique
      <4>2. QED
        BY <2>1, <3>1, <4>1
    <3>2. QED
      BY <3>1 DEF Gone
  <2>4. QED
    BY <1>13, <2>1, <2>2, <2>3 DEF ListedWaiting
<1>15. HandledWaiting'
  <2> SUFFICES ASSUME NEW v \in Thread, NEW k \in DOMAIN stack'[v], Answers(stack'[v][k]),
                      NEW x, x = stack'[v][k].sent
               PROVE  Sending(x.from, x.id)' /\ x.id \notin ready'
    BY DEF HandledWaiting, Sending
  <2>1. PICK l \in DOMAIN stack[v] : stack'[v][k] = stack[v][l]
    BY <1>3
  <2>2. x \in Message(calls)
    BY <2>1, FrameNumbers
  <2>3. ~Gone(x.id)
    BY <2>1 DEF ListedUnanswered, Gone
  <2>4. QED
    BY <1>13, <2>1, <2>2, <2>3 DEF HandledWaiting
<1>16. EarlyNew'
  <2> SUFFICES ASSUME NEW v \in Thread, NEW k \in DOMAIN stack'[v], Early(stack'[v][k]),
                      NEW i, i = stack'[v][k].id
               PROVE  IsNew(i)'
    BY DEF EarlyNew, IsNew
  <2>1. IsNew(i)
    BY <1>1, EarlyWereNew
  <2>2. i \notin ready'
    <3>1. i \notin ready /\ ~Gone(i)
      BY <2>1 DEF IsNew, Gone
    <3>2. QED
      BY <1>6, <3>1 DEF Gone
  <2>3. QED
    BY <1>3, <1>10, <2>1, <2>2 DEF IsNew
<1>17. QED
  BY <1>2, <1>11, <1>12, <1>14, <1>15, <1>16

-----------------------------------------------------------------------------
(* The locks *)

\* A call that holds a lock.
Locking(f) == f.op \in {"tell", "clear"} \/ (f.op \in {"post", "send"} /\ f.at = "add")

LEMMA NewTop ==
  ASSUME Types, Below, NEW t \in Thread, NEW fs, Stepped(t, fs)
  PROVE  /\ Below'
         /\ \A v \in Thread : v # t => stack'[v] = stack[v]
         /\ 1 \in DOMAIN fs => stack'[t] # <<>> /\ Top(t)' = fs[1]
         /\ DOMAIN fs = {} /\ stack'[t] # <<>> => ~Locking(Top(t)')
<1> USE DEF Types
<1>1. /\ fs \in Seq(Frame(calls')) /\ stack[t] # <<>>
      /\ \A k \in DOMAIN fs : k > 1 => Waiting(fs[k])
  BY DEF Stepped
<1>2. Len(fs) \in Nat /\ DOMAIN fs = 1..Len(fs) /\ stack'[t] \in Seq(Frame(calls'))
  BY <1>1, Stacks DEF StackType
<1>3. ASSUME NEW v \in Thread, NEW k \in DOMAIN stack'[v], k > 1
      PROVE  Waiting(stack'[v][k])
  <2>1. CASE \E l \in DOMAIN stack[v] : /\ stack'[v][k] = stack[v][l]
                                        /\ v = t => l > 1
                                        /\ v # t => k = l
    BY <1>3, <2>1 DEF Below
  <2>2. CASE v = t /\ k \in DOMAIN fs /\ stack'[t][k] = fs[k]
    BY <1>1, <1>3, <2>2
  <2>3. QED
    BY <2>1, <2>2, Stacks
<1>4. Below'
  <2>1. \A v \in Thread : \A k \in DOMAIN stack'[v] : k > 1 => Waiting(stack'[v][k])
    BY <1>3
  <2>2. QED
    BY <2>1 DEF Below, Waiting
<1>5. ASSUME 1 \in DOMAIN fs PROVE stack'[t] # <<>> /\ Top(t)' = fs[1]
  <2>1. 1 \in DOMAIN stack'[t] /\ stack'[t][1] = fs[1]
    BY <1>5, Stacks
  <2>2. QED
    BY <1>2, <2>1 DEF Top
<1>6. ASSUME DOMAIN fs = {}, stack'[t] # <<>> PROVE ~Locking(Top(t)')
  <2>1. 1 \in DOMAIN stack'[t] /\ Top(t)' = stack'[t][1]
    BY <1>2, <1>6 DEF Top
  <2>2. PICK l \in DOMAIN stack[t] : stack'[t][1] = stack[t][l] /\ l > 1
    BY <1>6, <2>1, Stacks
  <2>3. Waiting(stack[t][l])
    BY <2>2 DEF Below
  <2>4. QED
    BY <2>1, <2>2, <2>3 DEF Waiting, Locking
<1>7. QED
  BY <1>4, <1>5, <1>6, Stacks

\* Who holds a lock after a step.
LEMMA LockHolders ==
  ASSUME Types, Below, NEW t \in Thread, NEW fs, Stepped(t, fs)
  PROVE  /\ \A v, u \in Thread : v # t =>
              (Adds(v, u)' <=> Adds(v, u)) /\ (Tells(v, u)' <=> Tells(v, u))
         /\ \A v \in Thread : v # t =>
              stack'[v] = stack[v] /\ Top(v)' = Top(v)
         /\ 1 \in DOMAIN fs => stack'[t] # <<>> /\ Top(t)' = fs[1]
         /\ (1 \in DOMAIN fs => ~Locking(fs[1])) =>
              /\ \A u \in Thread : ~Adds(t, u)' /\ ~Tells(t, u)'
              /\ ~(stack'[t] # <<>> /\ Top(t)'.op = "clear")
         /\ ~Locking(Top(t)) =>
              /\ \A u \in Thread : ~Adds(t, u) /\ ~Tells(t, u)
              /\ Top(t).op # "clear"
<1>1. \A v \in Thread : v # t => stack'[v] = stack[v] /\ Top(v)' = Top(v)
  BY NewTop DEF Top
<1>2. ASSUME NEW v \in Thread, NEW u \in Thread, v # t
      PROVE  (Adds(v, u)' <=> Adds(v, u)) /\ (Tells(v, u)' <=> Tells(v, u))
  BY <1>1, <1>2 DEF Adds, Calls, Tells
<1>3. ASSUME 1 \in DOMAIN fs => ~Locking(fs[1])
      PROVE  /\ \A u \in Thread : ~Adds(t, u)' /\ ~Tells(t, u)'
             /\ ~(stack'[t] # <<>> /\ Top(t)'.op = "clear")
  <2>1. fs \in Seq(Frame(calls'))
    BY DEF Stepped
  <2>2. 1 \in DOMAIN fs \/ DOMAIN fs = {}
    BY <2>1
  <2>3. stack'[t] # <<>> => ~Locking(Top(t)')
    BY <1>3, <2>2, NewTop
  <2>4. QED
    BY <2>3 DEF Locking, Adds, Calls, Tells
<1>4. ~Locking(Top(t)) => /\ \A u \in Thread : ~Adds(t, u) /\ ~Tells(t, u)
                          /\ Top(t).op # "clear"
  BY DEF Locking, Adds, Calls, Tells
<1>5. QED
  BY <1>1, <1>2, <1>3, <1>4, NewTop

\* Telling senders takes the lock of a queue that is free and gives it back.
LEMMA QueueTold ==
  ASSUME Types, Locks, NEW t \in Thread, NEW fs, Stepped(t, fs),
         \A u \in Thread : ~Adds(t, u) /\ ~Adds(t, u)',
         \A u \in Thread : Tells(t, u)' => crit[u] \in {None, t},
         \A u \in Thread : crit'[u] = IF Tells(t, u)' THEN t
                                      ELSE IF Tells(t, u) THEN None ELSE crit[u],
         UNCHANGED <<active, queues>>
  PROVE  Below' /\ Held' /\ Adding' /\ Telling' /\ Known'
<1> USE DEF Locks
<1>1. \A v, u \in Thread : v # t =>
        (Adds(v, u)' <=> Adds(v, u)) /\ (Tells(v, u)' <=> Tells(v, u))
  BY LockHolders
<1>2. crit \in [Thread -> Thread \cup {None}] /\ None \notin Thread
  BY ThreadsAssumption DEF Types, VarTypes
<1>3. Held'
  <2> SUFFICES ASSUME NEW u \in Thread
               PROVE  \A x : x = crit'[u] /\ x # None => Adds(x, u)' \/ Tells(x, u)'
    BY DEF Held, Adds, Calls, Tells, Top
  <2>1. CASE Tells(t, u)'
    BY <2>1
  <2>2. CASE ~Tells(t, u)'
    <3> SUFFICES ASSUME NEW x, x = crit'[u], x # None
                 PROVE  Adds(x, u)' \/ Tells(x, u)'
      OBVIOUS
    <3>1. x = crit[u] /\ ~Tells(t, u)
      BY <2>2
    <3>2. x \in Thread /\ (Adds(x, u) \/ Tells(x, u))
      BY <1>2, <3>1 DEF Held
    <3>3. x # t
      BY <3>1, <3>2
    <3>4. QED
      BY <1>1, <3>2, <3>3
  <2>3. QED
    BY <2>1, <2>2
<1>4. ASSUME NEW v \in Thread, NEW u \in Thread, v # t, crit[u] = v
      PROVE  crit'[u] = v
  <2>1. ~Tells(t, u)'
    BY <1>2, <1>4
  <2>2. ~Tells(t, u)
    BY <1>4 DEF Telling
  <2>3. QED
    BY <1>4, <2>1, <2>2
<1>5. Adding'
  <2> SUFFICES ASSUME NEW v \in Thread, NEW u \in Thread, Adds(v, u)'
               PROVE  crit'[u] = v /\ active[u] /\ u \notin queues
    BY DEF Adding
  <2>1. v # t /\ Adds(v, u)
    BY <1>1
  <2>2. QED
    BY <1>4, <2>1 DEF Adding
<1>6. Telling'
  <2> SUFFICES ASSUME NEW v \in Thread, NEW u \in Thread, Tells(v, u)'
               PROVE  crit'[u] = v
    BY DEF Telling
  <2>1. CASE v = t
    BY <2>1
  <2>2. CASE v # t
    BY <1>1, <1>4, <2>2 DEF Telling
  <2>3. QED
    BY <2>1, <2>2
<1>7. Below' /\ Known'
  BY NewTop DEF Known
<1>8. QED
  BY <1>3, <1>5, <1>6, <1>7

\* Calls that leave the manager alone.
LEMMA ManagerUnchanged ==
  ASSUME Types, Locks, NEW t \in Thread, NEW fs, Stepped(t, fs),
         Top(t).op # "clear", ~(stack'[t] # <<>> /\ Top(t)'.op = "clear"),
         UNCHANGED <<manager, queues>>
  PROVE  Managing' /\ Clearing'
<1> USE DEF Locks
<1>1. \A v \in Thread : v # t => stack'[v] = stack[v] /\ Top(v)' = Top(v)
  BY LockHolders
<1>2. Managing'
  <2> SUFFICES ASSUME NEW v \in Thread, manager = v
               PROVE  stack'[v] # <<>> /\ Top(v)'.op = "clear"
    BY DEF Managing
  <2>1. QED
    BY <1>1 DEF Managing
<1>3. Clearing'
  <2> SUFFICES ASSUME NEW v \in Thread, stack'[v] # <<>>, Top(v)'.op = "clear"
               PROVE  manager = v /\ Top(v)'.left \subseteq queues
    BY DEF Clearing
  <2>1. QED
    BY <1>1 DEF Clearing
<1>4. QED
  BY <1>2, <1>3

\* Steps of calls that hold no lock.
LEMMA LocksUnchanged ==
  ASSUME Types, Locks, NEW t \in Thread, NEW fs, Stepped(t, fs),
         ~Locking(Top(t)), 1 \in DOMAIN fs => ~Locking(fs[1]),
         UNCHANGED <<active, crit, manager, queues>>
  PROVE  Locks'
<1>1. /\ \A u \in Thread : ~Adds(t, u) /\ ~Adds(t, u)' /\ ~Tells(t, u) /\ ~Tells(t, u)'
      /\ Top(t).op # "clear" /\ ~(stack'[t] # <<>> /\ Top(t)'.op = "clear")
  BY LockHolders DEF Locks
<1>2. Below' /\ Held' /\ Adding' /\ Telling' /\ Known'
  BY <1>1, QueueTold
<1>3. Managing' /\ Clearing'
  BY <1>1, ManagerUnchanged
<1>4. QED
  BY <1>2, <1>3 DEF Locks

\* The lock of a queue is taken to tell a sender.
LEMMA SenderTold ==
  ASSUME Types, Locks, NEW t \in Thread, NEW fs, Stepped(t, fs), NEW u \in Thread,
         ~Locking(Top(t)), 1 \in DOMAIN fs, fs[1].op = "tell", fs[1].of = u,
         crit[u] = None, crit' = [crit EXCEPT ![u] = t],
         UNCHANGED <<active, manager, queues>>
  PROVE  Locks'
<1>1. /\ \A x \in Thread : ~Adds(t, x) /\ ~Tells(t, x)
      /\ stack'[t] # <<>> /\ Top(t)' = fs[1] /\ Top(t).op # "clear"
  BY LockHolders DEF Locks
<1>2. \A x \in Thread : ~Adds(t, x)' /\ (Tells(t, x)' <=> x = u)
  BY <1>1 DEF Adds, Calls, Tells
<1>3. crit \in [Thread -> Thread \cup {None}]
  BY DEF Types, VarTypes
<1>4. Below' /\ Held' /\ Adding' /\ Telling' /\ Known'
  BY <1>1, <1>2, <1>3, QueueTold
<1>5. Managing' /\ Clearing'
  BY <1>1, ManagerUnchanged
<1>6. QED
  BY <1>4, <1>5 DEF Locks

\* The lock of a queue that becomes active is taken,
LEMMA QueueLocked ==
  ASSUME Types, Locks, NEW t \in Thread, NEW fs, Stepped(t, fs), NEW u \in Thread,
         ~Locking(Top(t)), 1 \in DOMAIN fs, fs[1].op \in {"post", "send"},
         fs[1].at = "add", fs[1].to = u,
         crit[u] = None, ~active[u], active' = [active EXCEPT ![u] = TRUE],
         crit' = [crit EXCEPT ![u] = t], UNCHANGED <<manager, queues>>
  PROVE  Locks'
<1> USE DEF Locks
<1>1. /\ \A v, x \in Thread : v # t =>
           (Adds(v, x)' <=> Adds(v, x)) /\ (Tells(v, x)' <=> Tells(v, x))
      /\ stack'[t] # <<>> /\ Top(t)' = fs[1]
      /\ \A x \in Thread : ~Adds(t, x) /\ ~Tells(t, x)
      /\ Top(t).op # "clear"
  BY LockHolders
<1>2. /\ crit \in [Thread -> Thread \cup {None}] /\ active \in [Thread -> BOOLEAN]
      /\ None \notin Thread /\ queues \subseteq Thread
  BY ThreadsAssumption DEF Types, VarTypes
<1>3. crit'[u] = t /\ active'[u] /\ \A x \in Thread : x # u =>
        crit'[x] = crit[x] /\ active'[x] = active[x]
  BY <1>2
<1>4. \A x \in Thread : (Adds(t, x)' <=> x = u) /\ ~Tells(t, x)'
  BY <1>1 DEF Adds, Calls, Tells
<1>5. Held'
  <2> SUFFICES ASSUME NEW v \in Thread
               PROVE  \A x : x = crit'[v] /\ x # None => Adds(x, v)' \/ Tells(x, v)'
    BY DEF Held, Adds, Calls, Tells, Top
  <2>1. CASE v = u
    BY <1>3, <1>4, <2>1
  <2>2. CASE v # u
    <3> SUFFICES ASSUME NEW x, x = crit'[v], x # None PROVE Adds(x, v)' \/ Tells(x, v)'
      OBVIOUS
    <3>1. x \in Thread /\ (Adds(x, v) \/ Tells(x, v))
      BY <1>2, <1>3, <2>2 DEF Held
    <3>2. QED
      BY <1>1, <3>1
  <2>3. QED
    BY <2>1, <2>2
<1>6. Adding'
  <2> SUFFICES ASSUME NEW v \in Thread, NEW x \in Thread, Adds(v, x)'
               PROVE  crit'[x] = v /\ active'[x] /\ x \notin queues
    BY DEF Adding
  <2>1. CASE v = t
    BY <1>3, <1>4, <2>1 DEF Known
  <2>2. CASE v # t
    <3>1. crit[x] = v /\ active[x] /\ x \notin queues
      BY <1>1, <2>2 DEF Adding
    <3>2. QED
      BY <1>2, <1>3, <3>1
  <2>3. QED
    BY <2>1, <2>2
<1>7. Telling'
  <2> SUFFICES ASSUME NEW v \in Thread, NEW x \in Thread, Tells(v, x)'
               PROVE  crit'[x] = v
    BY DEF Telling
  <2>1. crit[x] = v
    BY <1>1, <1>4 DEF Telling
  <2>2. QED
    BY <1>2, <1>3, <2>1
<1>8. Known'
  BY <1>2, <1>3 DEF Known
<1>9. Below' /\ Managing' /\ Clearing'
  <2>1. ~(stack'[t] # <<>> /\ Top(t)'.op = "clear")
    BY <1>1
  <2>2. QED
    BY <1>1, <2>1, NewTop, ManagerUnchanged
<1>10. QED
  BY <1>5, <1>6, <1>7, <1>8, <1>9

\* and given back once the manager knows the queue.
LEMMA QueueAdded ==
  ASSUME Types, Locks, NEW t \in Thread, NEW fs, Stepped(t, fs), NEW u \in Thread,
         Adds(t, u), 1 \in DOMAIN fs => ~Locking(fs[1]), manager = None,
         queues' = queues \cup {u}, crit' = [crit EXCEPT ![u] = None],
         UNCHANGED <<manager, active>>
  PROVE  Locks'
<1> USE DEF Locks
<1>1. /\ \A v, x \in Thread : v # t =>
           (Adds(v, x)' <=> Adds(v, x)) /\ (Tells(v, x)' <=> Tells(v, x))
      /\ \A v \in Thread : v # t => stack'[v] = stack[v] /\ Top(v)' = Top(v)
      /\ \A x \in Thread : ~Adds(t, x)' /\ ~Tells(t, x)'
      /\ ~(stack'[t] # <<>> /\ Top(t)'.op = "clear")
  BY LockHolders
<1>2. crit \in [Thread -> Thread \cup {None}] /\ queues \subseteq Thread /\ None \notin Thread
  BY ThreadsAssumption DEF Types, VarTypes
<1>3. crit'[u] = None /\ \A x \in Thread : x # u => crit'[x] = crit[x]
  BY <1>2
<1>4. /\ crit[u] = t /\ active[u]
      /\ \A x \in Thread : Adds(t, x) => x = u
      /\ \A x \in Thread : ~Tells(t, x)
      /\ \A v, x \in Thread : Adds(v, x) => crit[x] = v /\ active[x] /\ x \notin queues
      /\ \A v, x \in Thread : Tells(v, x) => crit[x] = v
      /\ \A v \in Thread : ~(stack[v] # <<>> /\ Top(v).op = "clear")
  BY <1>2 DEF Adding, Adds, Calls, Telling, Tells, Clearing
<1>5. Below'
  BY NewTop
<1>6. Held'
  <2> SUFFICES ASSUME NEW v \in Thread, NEW x, x = crit'[v], x # None
               PROVE  Adds(x, v)' \/ Tells(x, v)'
    BY DEF Held, Adds, Calls, Tells, Top
  <2>1. v # u /\ x = crit[v] /\ x \in Thread /\ (Adds(x, v) \/ Tells(x, v))
    BY <1>2, <1>3 DEF Held
  <2>2. x # t
    BY <1>4, <2>1
  <2>3. QED
    BY <1>1, <2>1, <2>2
<1>7. Managing'
  BY <1>2 DEF Managing
<1>8. Adding'
  <2> SUFFICES ASSUME NEW v \in Thread, NEW x \in Thread, Adds(v, x)'
               PROVE  crit'[x] = v /\ active[x] /\ x \notin queues'
    BY DEF Adding
  <2>1. v # t /\ Adds(v, x)
    BY <1>1
  <2>2. x # u
    BY <1>4, <2>1
  <2>3. QED
    BY <1>3, <1>4, <2>1, <2>2
<1>9. Telling'
  <2> SUFFICES ASSUME NEW v \in Thread, NEW x \in Thread, Tells(v, x)'
               PROVE  crit'[x] = v
    BY DEF Telling
  <2>1. v # t /\ crit[x] = v
    BY <1>1, <1>4
  <2>2. QED
    BY <1>3, <1>4, <2>1
<1>10. Known'
  BY <1>4 DEF Known
<1>11. Clearing'
  <2> SUFFICES ASSUME NEW v \in Thread, stack'[v] # <<>>, Top(v)'.op = "clear"
               PROVE  FALSE
    BY DEF Clearing
  <2>1. v # t
    BY <1>1
  <2>2. QED
    BY <1>1, <1>4, <2>1
<1>12. QED
  BY <1>5, <1>6, <1>7, <1>8, <1>9, <1>10, <1>11

\* Clear has the manager's lock from its first step to its last, and takes the
\* locks of the queues one after the other.
LEMMA ManagerLocked ==
  ASSUME Types, Locks, NEW t \in Thread, NEW fs, Stepped(t, fs),
         manager = None \/ manager = t, manager' = t, \A u \in Thread : ~Adds(t, u),
         1 \in DOMAIN fs, fs[1].op = "clear", fs[1].left \subseteq queues,
         \A u \in Thread : u = fs[1].of => crit[u] \in {None, t},
         \A u \in Thread : crit'[u] = IF u = fs[1].of THEN t
                                      ELSE IF Tells(t, u) THEN None ELSE crit[u],
         UNCHANGED <<active, queues>>
  PROVE  Locks'
<1> USE DEF Locks
<1>1. /\ \A v \in Thread : v # t => stack'[v] = stack[v] /\ Top(v)' = Top(v)
      /\ stack'[t] # <<>> /\ Top(t)' = fs[1]
  BY LockHolders
<1>2. \A u \in Thread : ~Adds(t, u)' /\ (Tells(t, u)' <=> u = fs[1].of)
  BY <1>1 DEF Adds, Calls, Tells
<1>3. Below' /\ Held' /\ Adding' /\ Telling' /\ Known'
  BY <1>2, QueueTold
<1>4. Managing'
  BY <1>1 DEF Managing
<1>5. Clearing'
  <2> SUFFICES ASSUME NEW v \in Thread, stack'[v] # <<>>, Top(v)'.op = "clear"
               PROVE  t = v /\ Top(v)'.left \subseteq queues
    BY DEF Clearing
  <2>1. v = t
    BY <1>1, ThreadsAssumption DEF Clearing
  <2>2. QED
    BY <1>1, <2>1
<1>6. QED
  BY <1>3, <1>4, <1>5

LEMMA ManagerUnlocked ==
  ASSUME Types, Locks, NEW t \in Thread, NEW fs, Stepped(t, fs), Clears(t),
         manager' = None, 1 \in DOMAIN fs => ~Locking(fs[1]),
         UNCHANGED <<active, crit, queues>>
  PROVE  Locks'
<1> USE DEF Locks
<1>1. /\ \A v \in Thread : v # t => stack'[v] = stack[v] /\ Top(v)' = Top(v)
      /\ \A u \in Thread : ~Adds(t, u)' /\ ~Tells(t, u)'
      /\ ~(stack'[t] # <<>> /\ Top(t)'.op = "clear")
  BY LockHolders
<1>2. /\ \A u \in Thread : ~Adds(t, u) /\ ~Tells(t, u)
      /\ manager = t
  BY ThreadsAssumption DEF Adds, Calls, Tells, Clears, Clearing
<1>3. Below' /\ Held' /\ Adding' /\ Telling' /\ Known'
  BY <1>1, <1>2, QueueTold
<1>4. Managing'
  BY ThreadsAssumption DEF Managing
<1>5. Clearing'
  <2> SUFFICES ASSUME NEW v \in Thread, stack'[v] # <<>>, Top(v)'.op = "clear"
               PROVE  FALSE
    BY DEF Clearing
  <2>1. v # t
    BY <1>1
  <2>2. QED
    BY <1>1, <1>2, <2>1 DEF Clearing
<1>6. QED
  BY <1>3, <1>4, <1>5

-----------------------------------------------------------------------------
(* What the steps put on the stack *)

LEMMA CallsNat ==
  ASSUME Types
  PROVE  calls \in Nat
BY ThreadsAssumption DEF Types, VarTypes

LEMMA Returns ==
  ASSUME Types, NEW t \in Thread, stack[t] # <<>>, Return(t), UNCHANGED calls,
         Sends(Top(t)) => Top(t).id \in ready
  PROVE  Keeps(t, <<>>) /\ Stepped(t, <<>>) /\ DOMAIN <<>> = {}
<1> DEFINE fs == <<>>
<1>1. fs \in Seq(Frame(calls')) /\ DOMAIN fs = {}
  OBVIOUS
<1>2. Replace(t, fs)
  BY DEF Return
<1> HIDE DEF fs
<1>3. Stepped(t, fs)
  BY <1>1, <1>2 DEF Stepped
<1>4. Keeps(t, fs)
  BY <1>1, <1>3 DEF Keeps, Changes
<1>5. QED
  BY <1>1, <1>3, <1>4 DEF fs

LEMMA ReplacesTop ==
  ASSUME Types, NEW t \in Thread, stack[t] # <<>>, NEW f \in Frame(calls),
         Replace(t, <<f>>), UNCHANGED calls, ~Answers(f),
         Sends(f) => GoesOn(f, Top(t)), Sends(Top(t)) => Sends(f)
  PROVE  Keeps(t, <<f>>) /\ Stepped(t, <<f>>) /\ DOMAIN <<f>> = {1} /\ <<f>>[1] = f
<1> DEFINE fs == <<f>>
<1>1. fs \in Seq(Frame(calls')) /\ DOMAIN fs = {1} /\ fs[1] = f
  BY Tuples
<1>2. Replace(t, fs)
  OBVIOUS
<1> HIDE DEF fs
<1>3. Stepped(t, fs)
  BY <1>1, <1>2 DEF Stepped
<1>4. Sends(Top(t)) => \E k \in DOMAIN fs : Sends(fs[k]) /\ fs[k].id = Top(t).id
  BY <1>1 DEF GoesOn
<1>5. Keeps(t, fs)
  BY <1>1, <1>3, <1>4 DEF Keeps, Changes
<1>6. QED
  BY <1>1, <1>3, <1>5 DEF fs

LEMMA CallsMade ==
  ASSUME Types, NEW t \in Thread, Runs(t), NEW f \in Frame(calls'),
         calls' = calls + 1, Call(t, f), ~Answers(f), Sends(f) => f.id > calls
  PROVE  /\ Keeps(t, <<f, Top(t)>>) /\ Stepped(t, <<f, Top(t)>>)
         /\ DOMAIN <<f, Top(t)>> = {1, 2} /\ <<f, Top(t)>>[1] = f
         /\ ~Locking(Top(t)) /\ ~Sends(Top(t))
<1> DEFINE fs == <<f, Top(t)>>
<1>1. /\ stack[t] # <<>> /\ Top(t).op \in {"app", "handle"}
      /\ Top(t) \in Frame(calls')
  BY TopFrame, Grown DEF Runs, Types
<1>2. /\ fs \in Seq(Frame(calls')) /\ DOMAIN fs = {1, 2} /\ fs[1] = f
      /\ fs[2] = Top(t)
  BY <1>1, Tuples
<1>3. Replace(t, fs)
  BY DEF Call
<1>4. ~Locking(Top(t)) /\ ~Sends(Top(t)) /\ Waiting(Top(t))
  BY <1>1 DEF Locking, Sends, Waiting
<1> HIDE DEF fs
<1>5. Stepped(t, fs)
  BY <1>1, <1>2, <1>3, <1>4 DEF Stepped
<1>6. Keeps(t, fs)
  <2>1. \A k \in DOMAIN fs : Sends(fs[k]) => fs[k].id > calls
    BY <1>2, <1>4
  <2>2. \A k \in DOMAIN fs : Answers(fs[k]) => fs[k] = Top(t)
    BY <1>2
  <2>3. \A k, l \in DOMAIN fs :
          (Sends(fs[k]) /\ Sends(fs[l])) \/ (Answers(fs[k]) /\ Answers(fs[l])) => k = l
    BY <1>2, <1>4
  <2>4. QED
    BY <1>4, <1>5, <2>1, <2>2, <2>3 DEF Keeps, Changes
<1>7. QED
  BY <1>2, <1>4, <1>5, <1>6 DEF fs

\* A turn of the loop of Get or of Send: sent messages are received first.
LEMMA LoopTurns ==
  ASSUME Types, NEW t \in Thread, stack[t] # <<>>, NEW f \in Frame(calls),
         Replace(t, <<ReceiveFrame("check"), f>>), UNCHANGED calls, ~Answers(f),
         Waiting(f), Sends(f) => GoesOn(f, Top(t)), Sends(Top(t)) => Sends(f)
  PROVE  LET fs == <<ReceiveFrame("check"), f>>
         IN Keeps(t, fs) /\ 1 \in DOMAIN fs /\ ~Locking(fs[1])
<1> DEFINE r == ReceiveFrame("check")
           fs == <<r, f>>
<1>1. r \in Frame(calls)
  BY CallsNat, NewFrames
<1>2. ~Answers(r) /\ ~Sends(r) /\ ~Locking(r)
  BY DEF ReceiveFrame, Answers, Sends, Locking
<1> HIDE DEF r
<1>3. fs \in Seq(Frame(calls)) /\ DOMAIN fs = {1, 2} /\ fs[1] = r /\ fs[2] = f
  BY <1>1, Tuples
<1>4. Replace(t, fs)
  BY DEF r
<1> HIDE DEF fs
<1>5. Stepped(t, fs)
  BY <1>3, <1>4 DEF Stepped
<1>6. Sends(Top(t)) => \E k \in DOMAIN fs : Sends(fs[k]) /\ fs[k].id = Top(t).id
  BY <1>3 DEF GoesOn
<1>7. Changes(t, fs)
  BY <1>2, <1>3, <1>5, <1>6 DEF Changes
<1>8. Keeps(t, fs)
  BY <1>2, <1>3, <1>7 DEF Keeps
<1>9. QED
  BY <1>2, <1>3, <1>8 DEF fs, r

\* A posted message is handled, and then Get is called again.
LEMMA PostedHandled ==
  ASSUME Types, NEW t \in Thread, stack[t] # <<>>, ~Sends(Top(t)),
         Replace(t, <<HandleFrame(None)>> \o GetLoop), UNCHANGED calls
  PROVE  \E fs : Keeps(t, fs) /\ 1 \in DOMAIN fs /\ ~Locking(fs[1])
<1> DEFINE a == HandleFrame(None)
           b == ReceiveFrame("check")
           c == GetFrame("queue")
           fs == <<a, b, c>>
<1>1. a \in Frame(calls) /\ b \in Frame(calls) /\ c \in Frame(calls)
  BY CallsNat, NewFrames
<1>2. /\ ~Answers(a) /\ ~Sends(a) /\ ~Locking(a) /\ Waiting(a)
      /\ ~Answers(b) /\ ~Sends(b) /\ Waiting(b)
      /\ ~Answers(c) /\ ~Sends(c) /\ Waiting(c)
  BY DEF HandleFrame, ReceiveFrame, GetFrame, Answers, Sends, Locking, Waiting
<1>3. Replace(t, <<a>> \o <<b, c>>)
  BY DEF GetLoop
<1> HIDE DEF a, b, c
<1>4. /\ fs \in Seq(Frame(calls)) /\ DOMAIN fs = {1, 2, 3}
      /\ fs[1] = a /\ fs[2] = b /\ fs[3] = c /\ fs = <<a>> \o <<b, c>>
  BY <1>1, Tuples
<1>5. Replace(t, fs)
  BY <1>3, <1>4, Zenon
<1> HIDE DEF fs
<1>6. Stepped(t, fs)
  BY <1>2, <1>4, <1>5 DEF Stepped
<1>7. Changes(t, fs)
  BY <1>2, <1>4, <1>6 DEF Changes
<1>8. Keeps(t, fs)
  BY <1>2, <1>4, <1>7 DEF Keeps
<1>9. QED
  BY <1>2, <1>4, <1>8

-----------------------------------------------------------------------------
(* Every action preserves the invariant *)

LEMMA WokenUp ==
  ASSUME NEW ts, WakeUp(ts), wakeup \in [Thread -> BOOLEAN]
  PROVE  wakeup' \in [Thread -> BOOLEAN]
BY Zenon DEF WakeUp

\* Lists and answers that are left alone keep their types.
LEMMA ListsKeepTypes ==
  ASSUME Types, calls' \in {calls, calls + 1}
  PROVE  /\ UNCHANGED msgq => msgq' \in [Thread -> Seq(Message(calls'))]
         /\ UNCHANGED sendlist => sendlist' \in [Thread -> Seq(Message(calls'))]
         /\ UNCHANGED ready => ReadyType'
<1>1. Message(calls) \subseteq Message(calls') /\ 1..calls \subseteq 1..calls'
  BY Grown DEF Types
<1>2. Seq(Message(calls)) \subseteq Seq(Message(calls'))
  BY <1>1, SeqMonotonic
<1>3. QED
  BY <1>1, <1>2 DEF Types, ListsType, ReadyType

\* A step that changes no lock and no list of sent messages.
LEMMA SimpleStep ==
  ASSUME IInv, NEW t \in Thread, NEW fs, Keeps(t, fs), ~Locking(Top(t)),
         1 \in DOMAIN fs => ~Locking(fs[1]),
         UNCHANGED <<sendlist, ready, active, crit, manager, queues>>,
         VarTypes', msgq' \in [Thread -> Seq(Message(calls'))], SendsSeen'
  PROVE  IInv'
<1>1. Stepped(t, fs) /\ Types /\ calls' \in {calls, calls + 1}
  BY DEF IInv, Keeps, Changes, Stepped
<1>2. StackType'
  BY <1>1, Stacks DEF Types
<1>3. ListsType' /\ ReadyType'
  BY <1>1, ListsKeepTypes DEF ListsType
<1>4. Locks'
  BY <1>1, LocksUnchanged DEF IInv
<1>5. Numbers' /\ Answered'
  BY ListsUnchanged DEF IInv
<1>6. QED
  BY <1>2, <1>3, <1>4, <1>5 DEF IInv, Types

LEMMA BeginStep ==
  ASSUME IInv, NEW t \in Thread, NEW f \in Frame(calls + 1), Begin(t, f),
         ~Answers(f), ~Locking(f), Sends(f) => f.id > calls
  PROVE  IInv'
<1>1. /\ Types /\ Runs(t) /\ calls' = calls + 1 /\ calls < MaxCalls /\ Call(t, f)
      /\ UNCHANGED <<msgq, sendlist, has_sends, wakeup, fStop, active, crit,
                     manager, queues, ready>>
  BY DEF Begin, IInv
<1>2. /\ Keeps(t, <<f, Top(t)>>) /\ <<f, Top(t)>>[1] = f /\ ~Locking(Top(t))
  BY <1>1, CallsMade
<1>3. VarTypes'
  BY <1>1, ThreadsAssumption DEF Types, VarTypes
<1>4. msgq' \in [Thread -> Seq(Message(calls'))]
  BY <1>1, ListsKeepTypes
<1>5. SendsSeen'
  BY <1>1 DEF IInv, SendsSeen
<1>6. QED
  BY <1>1, <1>2, <1>3, <1>4, <1>5, SimpleStep

LEMMA PostStep ==
  ASSUME IInv, NEW t \in Thread, NEW u \in Thread, NEW h \in Handler, Post(t, u, h)
  PROVE  IInv'
<1> DEFINE f == PostFrame(u, h, calls + 1, "enter")
<1>1. calls \in Nat /\ calls + 1 \in Nat /\ calls + 1 \in 1..(calls + 1)
  BY CallsNat DEF IInv
<1>2. f \in Frame(calls + 1)
  BY <1>1, NewFrames
<1>3. ~Answers(f) /\ ~Locking(f) /\ ~Sends(f)
  BY DEF PostFrame, Answers, Locking, Sends
<1>4. Begin(t, f)
  BY DEF Post
<1>5. QED
  BY <1>2, <1>3, <1>4, BeginStep

LEMMA SendStep ==
  ASSUME IInv, NEW t \in Thread, NEW u \in Thread, NEW h \in Handler, Send(t, u, h)
  PROVE  IInv'
<1> DEFINE f == SendFrame(u, h, calls + 1, "enter", FALSE)
<1>1. /\ calls \in Nat /\ calls + 1 \in Nat /\ calls + 1 \in 1..(calls + 1)
      /\ calls + 1 > calls
  BY CallsNat DEF IInv
<1>2. f \in Frame(calls + 1)
  BY <1>1, NewFrames
<1>3. ~Answers(f) /\ ~Locking(f) /\ f.id = calls + 1
  BY DEF SendFrame, Answers, Locking
<1>4. Begin(t, f)
  BY DEF Send
<1>5. f.id > calls
  BY <1>1, <1>3
<1> HIDE DEF f
<1>6. QED
  BY <1>2, <1>3, <1>4, <1>5, BeginStep

\* The end of Post and of the first part of Send.
LEMMA EnqueueStep ==
  ASSUME IInv, NEW t \in Thread, Calls(t), Top(t).at \in {"enter", "add"},
         Enqueue(t), UNCHANGED <<ready, calls>>
  PROVE  /\ \E fs : Stepped(t, fs) /\ (1 \in DOMAIN fs => ~Locking(fs[1]))
         /\ Numbers' /\ Answered' /\ SendsSeen'
         /\ StackType' /\ ListsType' /\ ReadyType'
         /\ wakeup' \in [Thread -> BOOLEAN] /\ has_sends' \in [Thread -> BOOLEAN]
<1> DEFINE f == Top(t)
           m == [id |-> f.id, h |-> f.h, from |-> t]
<1>1. /\ Types /\ stack[t] # <<>> /\ f \in Frame(calls) /\ calls \in Nat
      /\ f.op \in {"post", "send"}
  BY TopFrame, CallsNat DEF IInv, Types, Calls
<1>2. f.to \in Thread /\ f.id \in 1..calls /\ f.h \in Handler
  BY <1>1, FrameKinds DEF PostFrames, SendFrames
<1>3. m \in Message(calls) /\ m.id = f.id /\ m.from = t
  BY <1>2 DEF Message
<1>4. /\ msgq \in [Thread -> Seq(Message(calls))]
      /\ sendlist \in [Thread -> Seq(Message(calls))]
      /\ has_sends \in [Thread -> BOOLEAN] /\ wakeup \in [Thread -> BOOLEAN]
  BY <1>1 DEF Types, ListsType, VarTypes
<1>5. CASE f.op = "post"
  <2>1. /\ msgq' = [msgq EXCEPT ![f.to] = Append(@, m)] /\ WakeUp({f.to})
        /\ Return(t) /\ UNCHANGED <<sendlist, has_sends>>
    BY <1>5 DEF Enqueue
  <2> HIDE DEF m
  <2>2. ~Sends(Top(t))
    BY <1>5 DEF Sends
  <2>3. Keeps(t, <<>>) /\ Stepped(t, <<>>) /\ DOMAIN <<>> = {}
    BY <1>1, <2>1, <2>2, Returns
  <2>4. Numbers' /\ Answered'
    BY <2>1, <2>3, ListsUnchanged DEF IInv
  <2>5. SendsSeen'
    BY <2>1 DEF IInv, SendsSeen
  <2>6. StackType'
    BY <1>1, <2>3, Stacks DEF Types
  <2>7. ReadyType'
    BY <1>1, ListsKeepTypes
  <2>8. ListsType'
    BY <1>2, <1>3, <1>4, <2>1 DEF ListsType
  <2>9. wakeup' \in [Thread -> BOOLEAN]
    BY <1>4, <2>1, WokenUp
  <2>10. QED
    BY <1>4, <2>1, <2>3, <2>4, <2>5, <2>6, <2>7, <2>8, <2>9
<1>6. CASE f.op = "send"
  <2> DEFINE g == [f EXCEPT !.at = "wake"]
  <2>1. /\ sendlist' = [sendlist EXCEPT ![f.to] = Append(@, m)]
        /\ has_sends' = [has_sends EXCEPT ![f.to] = TRUE]
        /\ Replace(t, <<g>>) /\ UNCHANGED <<msgq, wakeup>>
    BY <1>6 DEF Enqueue
  <2>2. g \in Frame(calls) /\ g.op = "send" /\ g.at = "wake" /\ g.id = f.id
    BY <1>1, <1>6, ChangedFrames
  <2> HIDE DEF m, g
  <2>3. /\ ~Answers(g) /\ Sends(g) /\ ~Early(g) /\ ~Locking(g) /\ GoesOn(g, Top(t))
        /\ Early(Top(t))
    BY <1>6, <2>2 DEF Answers, Sends, Early, Locking, GoesOn
  <2>4. /\ Keeps(t, <<g>>) /\ Stepped(t, <<g>>) /\ DOMAIN <<g>> = {1} /\ <<g>>[1] = g
    BY <1>1, <2>1, <2>2, <2>3, ReplacesTop
  <2>5. Numbers' /\ Answered'
    <3> DEFINE fs == <<g>>
    <3>1. Keeps(t, fs) /\ 1 \in DOMAIN fs /\ fs[1] = g
      BY <2>4
    <3> HIDE DEF fs
    <3>2. QED
      BY <1>2, <1>3, <2>1, <2>2, <2>3, <3>1, MessageListed DEF IInv
  <2>6. SendsSeen'
    BY <1>2, <1>4, <2>1 DEF IInv, SendsSeen
  <2>7. StackType'
    BY <1>1, <2>4, Stacks DEF Types
  <2>8. ReadyType'
    BY <1>1, ListsKeepTypes
  <2>9. ListsType'
    BY <1>2, <1>3, <1>4, <2>1 DEF ListsType
  <2>10. has_sends' \in [Thread -> BOOLEAN]
    BY <1>4, <2>1
  <2>11. QED
    BY <1>4, <2>1, <2>3, <2>4, <2>5, <2>6, <2>7, <2>8, <2>9, <2>10
<1>7. QED
  BY <1>1, <1>5, <1>6

LEMMA EnterStep ==
  ASSUME IInv, NEW t \in Thread, Enter(t)
  PROVE  IInv'
<1> DEFINE f == Top(t)
           u == f.to
<1>1. /\ Types /\ stack[t] # <<>> /\ f \in Frame(calls) /\ calls \in Nat
      /\ f.op \in {"post", "send"}
      /\ Calls(t) /\ f.at = "enter" /\ crit[u] = None
      /\ UNCHANGED <<fStop, manager, queues, ready, calls>>
  BY TopFrame, CallsNat DEF IInv, Types, Calls, Enter
<1>2. u \in Thread /\ ~Locking(f)
  BY <1>1, FrameKinds DEF PostFrames, SendFrames, Locking
<1>3. CASE active[u]
  <2>1. Enqueue(t) /\ UNCHANGED <<active, crit>>
    BY <1>3 DEF Enter
  <2>2. /\ \E fs : Stepped(t, fs) /\ (1 \in DOMAIN fs => ~Locking(fs[1]))
        /\ Numbers' /\ Answered' /\ SendsSeen'
        /\ StackType' /\ ListsType' /\ ReadyType'
        /\ wakeup' \in [Thread -> BOOLEAN] /\ has_sends' \in [Thread -> BOOLEAN]
    BY <1>1, <2>1, EnqueueStep
  <2>3. Locks'
    BY <1>1, <1>2, <2>1, <2>2, LocksUnchanged DEF IInv
  <2>4. VarTypes'
    BY <1>1, <2>1, <2>2 DEF Types, VarTypes
  <2>5. QED
    BY <2>2, <2>3, <2>4 DEF IInv, Types
<1>4. CASE ~active[u]
  <2> DEFINE g == [f EXCEPT !.at = "add"]
  <2>1. /\ active' = [active EXCEPT ![u] = TRUE] /\ crit' = [crit EXCEPT ![u] = t]
        /\ Replace(t, <<g>>)
        /\ UNCHANGED <<msgq, sendlist, has_sends, wakeup>>
    BY <1>4 DEF Enter
  <2>2. /\ g \in Frame(calls) /\ g.op = f.op /\ g.at = "add" /\ g.to = u
        /\ f.op = "send" => g.id = f.id
    BY <1>1, ChangedFrames
  <2> HIDE DEF g
  <2>3. /\ ~Answers(g) /\ (Sends(g) => GoesOn(g, Top(t))) /\ (Sends(Top(t)) => Sends(g))
    BY <1>1, <2>2 DEF Answers, Sends, Early, GoesOn
  <2>4. /\ Keeps(t, <<g>>) /\ Stepped(t, <<g>>) /\ DOMAIN <<g>> = {1} /\ <<g>>[1] = g
    BY <1>1, <2>1, <2>2, <2>3, ReplacesTop
  <2>5. Numbers' /\ Answered'
    BY <1>1, <2>1, <2>4, ListsUnchanged DEF IInv
  <2>6. SendsSeen'
    BY <2>1 DEF IInv, SendsSeen
  <2>7. StackType' /\ ListsType' /\ ReadyType'
    BY <1>1, <2>1, <2>4, Stacks, ListsKeepTypes DEF Types, ListsType
  <2>8. VarTypes'
    BY <1>1, <1>2, <2>1 DEF Types, VarTypes
  <2>9. Locks'
    <3> DEFINE fs == <<g>>
    <3>1. Stepped(t, fs) /\ 1 \in DOMAIN fs /\ fs[1] = g
      BY <2>4
    <3> HIDE DEF fs
    <3>2. QED
      BY <1>1, <1>2, <1>4, <2>1, <2>2, <3>1, QueueLocked DEF IInv
  <2>10. QED
    BY <2>5, <2>6, <2>7, <2>8, <2>9 DEF IInv, Types
<1>5. QED
  BY <1>3, <1>4

LEMMA AddStep ==
  ASSUME IInv, NEW t \in Thread, Add(t)
  PROVE  IInv'
<1> DEFINE u == Top(t).to
<1>1. /\ Types /\ stack[t] # <<>> /\ Top(t) \in Frame(calls) /\ calls \in Nat
      /\ Top(t).op \in {"post", "send"}
      /\ Calls(t) /\ Top(t).at = "add" /\ manager = None /\ Enqueue(t)
      /\ queues' = queues \cup {u} /\ crit' = [crit EXCEPT ![u] = None]
      /\ UNCHANGED <<fStop, active, manager, ready, calls>>
  BY TopFrame, CallsNat DEF IInv, Types, Calls, Add
<1>2. u \in Thread /\ Adds(t, u)
  BY <1>1, FrameKinds DEF PostFrames, SendFrames, Adds
<1>3. /\ \E fs : Stepped(t, fs) /\ (1 \in DOMAIN fs => ~Locking(fs[1]))
      /\ Numbers' /\ Answered' /\ SendsSeen'
      /\ StackType' /\ ListsType' /\ ReadyType'
      /\ wakeup' \in [Thread -> BOOLEAN] /\ has_sends' \in [Thread -> BOOLEAN]
  BY <1>1, EnqueueStep
<1>4. Locks'
  BY <1>1, <1>2, <1>3, QueueAdded DEF IInv
<1>5. VarTypes'
  BY <1>1, <1>2, <1>3 DEF Types, VarTypes
<1>6. QED
  BY <1>3, <1>4, <1>5 DEF IInv, Types

LEMMA SendWakeStep ==
  ASSUME IInv, NEW t \in Thread, SendWake(t)
  PROVE  IInv'
<1> DEFINE g == [Top(t) EXCEPT !.at = "loop"]
<1>1. /\ Types /\ stack[t] # <<>> /\ Top(t) \in Frame(calls) /\ calls \in Nat
      /\ Top(t).op = "send" /\ Top(t).at = "wake"
      /\ WakeUp({Top(t).to}) /\ Replace(t, <<g>>)
      /\ UNCHANGED <<msgq, sendlist, has_sends, fStop, active, crit, manager,
                     queues, ready, calls>>
  BY TopFrame, CallsNat DEF IInv, Types, At, SendWake
<1>2. g \in Frame(calls) /\ g.op = "send" /\ g.at = "loop" /\ g.id = Top(t).id
  BY <1>1, ChangedFrames
<1> HIDE DEF g
<1>3. /\ ~Answers(g) /\ Sends(g) /\ GoesOn(g, Top(t)) /\ ~Locking(g) /\ ~Locking(Top(t))
  BY <1>1, <1>2 DEF Answers, Sends, Early, GoesOn, Locking
<1>4. Keeps(t, <<g>>) /\ <<g>>[1] = g
  BY <1>1, <1>2, <1>3, ReplacesTop
<1>5. VarTypes'
  BY <1>1, WokenUp DEF Types, VarTypes
<1>6. SendsSeen' /\ msgq' \in [Thread -> Seq(Message(calls'))]
  BY <1>1, ListsKeepTypes DEF IInv, SendsSeen
<1>7. QED
  BY <1>1, <1>3, <1>4, <1>5, <1>6, SimpleStep

LEMMA SendLoopStep ==
  ASSUME IInv, NEW t \in Thread, SendLoop(t)
  PROVE  IInv'
<1>1. /\ Types /\ stack[t] # <<>> /\ Top(t) \in Frame(calls) /\ calls \in Nat
      /\ Top(t).op = "send" /\ Top(t).at = "loop"
      /\ UNCHANGED <<msgq, sendlist, has_sends, fStop, active, crit, manager,
                     queues, ready, calls>>
  BY TopFrame, CallsNat DEF IInv, Types, At, SendLoop
<1>2. SendsSeen' /\ msgq' \in [Thread -> Seq(Message(calls'))]
  BY <1>1, ListsKeepTypes DEF IInv, SendsSeen
<1>3. ~Locking(Top(t))
  BY <1>1 DEF Locking
<1>4. CASE Top(t).id \in ready
  <2>1. Return(t) /\ WakeUp(IF Top(t).waited THEN {t} ELSE {})
    BY <1>4 DEF SendLoop
  <2>2. Keeps(t, <<>>) /\ DOMAIN <<>> = {}
    BY <1>1, <1>4, <2>1, Returns
  <2>3. VarTypes'
    BY <1>1, <2>1, WokenUp DEF Types, VarTypes
  <2>4. QED
    BY <1>1, <1>2, <1>3, <2>2, <2>3, SimpleStep
<1>5. CASE Top(t).id \notin ready
  <2> DEFINE g == [Top(t) EXCEPT !.at = "wait"]
             fs == <<ReceiveFrame("check"), g>>
  <2>1. Replace(t, <<ReceiveFrame("check"), g>>) /\ UNCHANGED wakeup
    BY <1>5 DEF SendLoop
  <2>2. g \in Frame(calls) /\ g.op = "send" /\ g.at = "wait" /\ g.id = Top(t).id
    BY <1>1, ChangedFrames
  <2> HIDE DEF g
  <2>3. /\ ~Answers(g) /\ Waiting(g) /\ Sends(g) /\ GoesOn(g, Top(t))
    BY <1>1, <2>2 DEF Answers, Sends, Early, GoesOn, Waiting
  <2>4. Keeps(t, fs) /\ 1 \in DOMAIN fs /\ ~Locking(fs[1])
    BY <1>1, <2>1, <2>2, <2>3, LoopTurns
  <2>5. VarTypes'
    BY <1>1, <2>1 DEF Types, VarTypes
  <2> HIDE DEF fs
  <2>6. QED
    BY <1>1, <1>2, <1>3, <2>4, <2>5, SimpleStep
<1>6. QED
  BY <1>4, <1>5

LEMMA SendWaitStep ==
  ASSUME IInv, NEW t \in Thread, SendWait(t)
  PROVE  IInv'
<1> DEFINE g == [Top(t) EXCEPT !.at = "loop", !.waited = TRUE]
<1>1. /\ Types /\ stack[t] # <<>> /\ Top(t) \in Frame(calls) /\ calls \in Nat
      /\ Top(t).op = "send" /\ Top(t).at = "wait"
      /\ wakeup' = [wakeup EXCEPT ![t] = FALSE] /\ Replace(t, <<g>>)
      /\ UNCHANGED <<msgq, sendlist, has_sends, fStop, active, crit, manager,
                     queues, ready, calls>>
  BY TopFrame, CallsNat DEF IInv, Types, At, SendWait
<1>2. g \in Frame(calls) /\ g.op = "send" /\ g.at = "loop" /\ g.id = Top(t).id
  BY <1>1, ChangedFrames
<1> HIDE DEF g
<1>3. /\ ~Answers(g) /\ Sends(g) /\ GoesOn(g, Top(t)) /\ ~Locking(g) /\ ~Locking(Top(t))
  BY <1>1, <1>2 DEF Answers, Sends, Early, GoesOn, Locking
<1>4. Keeps(t, <<g>>) /\ <<g>>[1] = g
  BY <1>1, <1>2, <1>3, ReplacesTop
<1>5. VarTypes'
  BY <1>1 DEF Types, VarTypes
<1>6. SendsSeen' /\ msgq' \in [Thread -> Seq(Message(calls'))]
  BY <1>1, ListsKeepTypes DEF IInv, SendsSeen
<1>7. QED
  BY <1>1, <1>3, <1>4, <1>5, <1>6, SimpleStep

LEMMA ReceiveCheckStep ==
  ASSUME IInv, NEW t \in Thread, ReceiveCheck(t)
  PROVE  IInv'
<1> DEFINE g == ReceiveFrame("pop")
<1>1. /\ Types /\ stack[t] # <<>> /\ calls \in Nat /\ Top(t).op = "receive"
      /\ UNCHANGED <<msgq, sendlist, has_sends, wakeup, fStop, active, crit,
                     manager, queues, ready, calls>>
  BY CallsNat DEF IInv, At, ReceiveCheck
<1>2. SendsSeen' /\ msgq' \in [Thread -> Seq(Message(calls'))] /\ VarTypes'
  BY <1>1, ListsKeepTypes DEF IInv, SendsSeen, Types, VarTypes
<1>3. ~Locking(Top(t)) /\ ~Sends(Top(t))
  BY <1>1 DEF Locking, Sends
<1>4. CASE has_sends[t]
  <2>1. Replace(t, <<g>>)
    BY <1>4 DEF ReceiveCheck
  <2>2. g \in Frame(calls) /\ ~Answers(g) /\ ~Sends(g) /\ ~Locking(g)
    <3>1. g \in Frame(calls)
      BY <1>1, NewFrames
    <3>2. QED
      BY <3>1 DEF ReceiveFrame, Answers, Sends, Locking
  <2> HIDE DEF g
  <2>3. Keeps(t, <<g>>) /\ <<g>>[1] = g
    BY <1>1, <1>3, <2>1, <2>2, ReplacesTop
  <2>4. QED
    BY <1>1, <1>2, <1>3, <2>2, <2>3, SimpleStep
<1>5. CASE ~has_sends[t]
  <2>1. Return(t)
    BY <1>5 DEF ReceiveCheck
  <2>2. Keeps(t, <<>>) /\ DOMAIN <<>> = {}
    BY <1>1, <1>3, <2>1, Returns
  <2>3. QED
    BY <1>1, <1>2, <1>3, <2>2, SimpleStep
<1>6. QED
  BY <1>4, <1>5

LEMMA ReceivePopStep ==
  ASSUME IInv, NEW t \in Thread, ReceivePop(t)
  PROVE  IInv'
<1>1. /\ Types /\ stack[t] # <<>> /\ calls \in Nat /\ Top(t).op = "receive"
      /\ Top(t) \in Frame(calls)
      /\ UNCHANGED <<msgq, wakeup, fStop, active, crit, manager, queues, ready, calls>>
  BY TopFrame, CallsNat DEF IInv, Types, At, ReceivePop
<1>2. ~Locking(Top(t)) /\ ~Sends(Top(t)) /\ ~Answers(Top(t)) /\ Waiting(Top(t))
  BY <1>1 DEF Locking, Sends, Answers, Waiting
<1>3. /\ sendlist \in [Thread -> Seq(Message(calls))] /\ has_sends \in [Thread -> BOOLEAN]
      /\ \A v \in Thread : sendlist[v] # <<>> => has_sends[v]
  BY DEF IInv, Types, ListsType, VarTypes, SendsSeen
<1>4. CASE sendlist[t] = <<>>
  <2>1. has_sends' = [has_sends EXCEPT ![t] = FALSE] /\ Return(t) /\ UNCHANGED sendlist
    BY <1>4 DEF ReceivePop
  <2>2. Keeps(t, <<>>) /\ DOMAIN <<>> = {}
    BY <1>1, <1>2, <2>1, Returns
  <2>3. SendsSeen'
    BY <1>3, <1>4, <2>1 DEF SendsSeen
  <2>4. msgq' \in [Thread -> Seq(Message(calls'))] /\ VarTypes'
    BY <1>1, <2>1, ListsKeepTypes DEF Types, VarTypes
  <2>5. QED
    BY <1>1, <1>2, <2>1, <2>2, <2>3, <2>4, SimpleStep
<1>5. CASE sendlist[t] # <<>>
  <2> DEFINE m == Head(sendlist[t])
             g == HandleFrame(m)
             fs == <<g, Top(t)>>
  <2>1. /\ sendlist' = [sendlist EXCEPT ![t] = Tail(@)] /\ Call(t, g)
        /\ UNCHANGED has_sends
    BY <1>5 DEF ReceivePop
  <2>2. m \in Message(calls)
    BY <1>3, <1>5
  <2> HIDE DEF m
  <2>3. g \in Frame(calls) /\ g.sent = m /\ ~Sends(g) /\ ~Locking(g)
    <3>1. g \in Frame(calls)
      BY <1>1, <2>2, NewFrames
    <3>2. QED
      BY <3>1 DEF HandleFrame, Sends, Locking
  <2>4. Replace(t, fs)
    BY <2>1 DEF Call
  <2> HIDE DEF g
  <2>5. fs \in Seq(Frame(calls)) /\ DOMAIN fs = {1, 2} /\ fs[1] = g /\ fs[2] = Top(t)
    BY <1>1, <2>3, Tuples
  <2> HIDE DEF fs
  <2>6. Stepped(t, fs)
    BY <1>1, <1>2, <2>4, <2>5 DEF Stepped
  <2>7. Pops(t)
    BY <1>5, <2>1 DEF Pops
  <2>8. Changes(t, fs)
    <3>1. \A k \in DOMAIN fs : ~Sends(fs[k])
      BY <1>2, <2>3, <2>5
    <3>2. \A k \in DOMAIN fs : Answers(fs[k]) => k = 1 /\ fs[k].sent = Head(sendlist[t])
      BY <1>2, <2>3, <2>5 DEF m
    <3>3. QED
      BY <1>2, <2>6, <2>7, <3>1, <3>2 DEF Changes
  <2>9. Numbers' /\ Answered'
    BY <1>1, <2>7, <2>8, MessagePopped DEF IInv
  <2>10. Locks'
    BY <1>1, <1>2, <2>3, <2>5, <2>6, LocksUnchanged DEF IInv
  <2>11. StackType' /\ ReadyType' /\ msgq' \in [Thread -> Seq(Message(calls'))]
    BY <1>1, <2>6, Stacks, ListsKeepTypes DEF Types
  <2>12. sendlist' \in [Thread -> Seq(Message(calls'))]
    BY <1>1, <1>3, <1>5, <2>1
  <2>13. SendsSeen'
    BY <1>3, <1>5, <2>1 DEF SendsSeen
  <2>14. VarTypes'
    BY <1>1, <2>1 DEF Types, VarTypes
  <2>15. QED
    BY <2>9, <2>10, <2>11, <2>12, <2>13, <2>14 DEF IInv, Types, ListsType
<1>6. QED
  BY <1>4, <1>5

LEMMA HandledStep ==
  ASSUME IInv, NEW t \in Thread, Handled(t)
  PROVE  IInv'
<1>1. /\ Types /\ stack[t] # <<>> /\ calls \in Nat /\ Top(t).op = "handle"
      /\ Top(t) \in Frame(calls)
      /\ UNCHANGED <<msgq, sendlist, has_sends, wakeup, fStop, active, manager,
                     queues, calls>>
  BY TopFrame, CallsNat DEF IInv, Types, Handled
<1>2. ~Locking(Top(t)) /\ ~Sends(Top(t))
  BY <1>1 DEF Locking, Sends
<1>3. SendsSeen' /\ msgq' \in [Thread -> Seq(Message(calls'))]
  BY <1>1, ListsKeepTypes DEF IInv, SendsSeen
<1>4. CASE Top(t).sent = None
  <2>1. UNCHANGED <<ready, crit>> /\ Return(t)
    BY <1>4 DEF Handled
  <2>2. VarTypes'
    BY <1>1, <2>1 DEF Types, VarTypes
  <2>3. Keeps(t, <<>>) /\ DOMAIN <<>> = {}
    BY <1>1, <1>2, <2>1, Returns
  <2>4. QED
    BY <1>1, <1>2, <1>3, <2>1, <2>2, <2>3, SimpleStep
<1>5. CASE Top(t).sent # None
  <2> DEFINE g == TellFrame({Top(t).sent.from}, t)
             fs == <<g>>
  <2>1. /\ ready' = ready \cup {Top(t).sent.id} /\ Replace(t, <<g>>)
        /\ crit[t] = None /\ crit' = [crit EXCEPT ![t] = t]
    BY <1>5 DEF Handled
  <2>2. Answers(Top(t))
    BY <1>1, <1>5 DEF Answers
  <2>3. Top(t).sent.id \in 1..calls /\ Top(t).sent.from \in Thread
    BY <1>1, <1>5, FrameKinds DEF HandleFrames, Message
  <2>4. g \in Frame(calls) /\ g.op = "tell" /\ g.of = t /\ ~Answers(g) /\ ~Sends(g)
    <3>1. g \in Frame(calls)
      BY <1>1, <2>3, NewFrames
    <3>2. QED
      BY <3>1 DEF TellFrame, Answers, Sends
  <2> HIDE DEF g
  <2>5. Keeps(t, fs) /\ Stepped(t, fs) /\ DOMAIN fs = {1} /\ fs[1] = g
    BY <1>1, <1>2, <2>1, <2>4, ReplacesTop
  <2> HIDE DEF fs
  <2>6. Numbers' /\ Answered'
    BY <1>1, <2>1, <2>2, <2>4, <2>5, MessageAnswered DEF IInv
  <2>7. Locks'
    BY <1>1, <1>2, <2>1, <2>4, <2>5, SenderTold DEF IInv
  <2>8. StackType' /\ sendlist' \in [Thread -> Seq(Message(calls'))]
    BY <1>1, <2>5, Stacks, ListsKeepTypes DEF Types
  <2>9. ReadyType'
    BY <1>1, <2>1, <2>3 DEF Types, ReadyType
  <2>10. VarTypes'
    BY <1>1, <2>1 DEF Types, VarTypes
  <2>11. QED
    BY <1>3, <2>6, <2>7, <2>8, <2>9, <2>10 DEF IInv, Types, ListsType
<1>6. QED
  BY <1>4, <1>5

LEMMA TellStep ==
  ASSUME IInv, NEW t \in Thread, Tell(t)
  PROVE  IInv'
<1>1. PICK u \in Thread : Tells(t, u) /\ crit' = [crit EXCEPT ![u] = None]
  BY DEF Tell
<1>2. /\ Types /\ Locks /\ stack[t] # <<>> /\ calls \in Nat
      /\ Top(t).op \in {"tell", "clear"} /\ Top(t).of = u
      /\ Top(t) \in Frame(calls) /\ WakeUp(Top(t).to)
      /\ UNCHANGED <<msgq, sendlist, has_sends, fStop, active, manager, queues,
                     ready, calls>>
  BY <1>1, TopFrame, CallsNat DEF IInv, Types, Tell, Tells
<1>3. ~Sends(Top(t)) /\ \A x \in Thread : ~Adds(t, x) /\ (Tells(t, x) <=> x = u)
  BY <1>2 DEF Sends, Adds, Calls, Tells
<1>4. crit \in [Thread -> Thread \cup {None}] /\ None \notin Thread
  BY <1>2, ThreadsAssumption DEF Types, VarTypes
<1>5. VarTypes'
  BY <1>1, <1>2, WokenUp DEF Types, VarTypes
<1>6. SendsSeen' /\ ListsType' /\ ReadyType'
  BY <1>2, ListsKeepTypes DEF IInv, SendsSeen, ListsType
<1>7. ASSUME NEW fs, Keeps(t, fs), Stepped(t, fs), Locks' PROVE IInv'
  <2>1. Numbers' /\ Answered'
    BY <1>2, <1>7, ListsUnchanged DEF IInv
  <2>2. StackType'
    BY <1>2, <1>7, Stacks DEF Types
  <2>3. QED
    BY <1>5, <1>6, <1>7, <2>1, <2>2 DEF IInv, Types
<1>8. CASE Top(t).op = "tell"
  <2> DEFINE fs == <<>>
  <2>1. Keeps(t, fs) /\ Stepped(t, fs) /\ DOMAIN fs = {}
    BY <1>2, <1>3, <1>8, Returns DEF Tell
  <2> HIDE DEF fs
  <2>2. /\ \A x \in Thread : ~Adds(t, x)' /\ ~Tells(t, x)'
        /\ ~(stack'[t] # <<>> /\ Top(t)'.op = "clear")
    BY <1>2, <2>1, LockHolders DEF Locks
  <2>3. \A x \in Thread : crit'[x] = IF Tells(t, x) THEN None ELSE crit[x]
    BY <1>1, <1>3, <1>4
  <2>4. Below' /\ Held' /\ Adding' /\ Telling' /\ Known'
    BY <1>2, <1>3, <2>1, <2>2, <2>3, QueueTold
  <2>5. Managing' /\ Clearing'
    BY <1>2, <1>8, <2>1, <2>2, ManagerUnchanged
  <2>6. Locks'
    BY <2>4, <2>5 DEF Locks
  <2>7. QED
    BY <1>7, <2>1, <2>6
<1>9. CASE Top(t).op = "clear"
  <2> DEFINE g == [Top(t) EXCEPT !.to = {}, !.of = None]
             fs == <<g>>
  <2>1. Replace(t, <<g>>)
    BY <1>9 DEF Tell
  <2>2. g \in Frame(calls) /\ g.op = "clear" /\ g.left = Top(t).left /\ g.of = None
    BY <1>2, <1>9, ToldFrame
  <2> HIDE DEF g
  <2>3. ~Answers(g) /\ ~Sends(g)
    BY <2>2 DEF Answers, Sends
  <2>4. Keeps(t, fs) /\ Stepped(t, fs) /\ DOMAIN fs = {1} /\ fs[1] = g
    BY <1>2, <1>3, <2>1, <2>2, <2>3, ReplacesTop
  <2> HIDE DEF fs
  <2>5. manager = t /\ Top(t).left \subseteq queues
    BY <1>2, <1>9 DEF Locks, Clearing
  <2>6. \A x \in Thread : crit'[x] = IF Tells(t, x) THEN None ELSE crit[x]
    BY <1>1, <1>3, <1>4
  <2>7. Locks'
    BY <1>2, <1>3, <1>4, <2>2, <2>4, <2>5, <2>6, ManagerLocked
  <2>8. QED
    BY <1>7, <2>4, <2>7
<1>10. QED
  BY <1>2, <1>8, <1>9

LEMMA GetQueueStep ==
  ASSUME IInv, NEW t \in Thread, GetQueue(t)
  PROVE  IInv'
<1> DEFINE g == GetFrame("stop")
<1>1. /\ Types /\ stack[t] # <<>> /\ calls \in Nat /\ Top(t).op = "get"
      /\ UNCHANGED <<sendlist, has_sends, wakeup, fStop, active, crit, manager,
                     queues, ready, calls>>
  BY CallsNat DEF IInv, At, GetQueue
<1>2. SendsSeen' /\ VarTypes'
  BY <1>1 DEF IInv, SendsSeen, Types, VarTypes
<1>3. ~Locking(Top(t)) /\ ~Sends(Top(t))
  BY <1>1 DEF Locking, Sends
<1>4. CASE msgq[t] = <<>>
  <2>1. Replace(t, <<g>>) /\ UNCHANGED msgq
    BY <1>4 DEF GetQueue
  <2>2. g \in Frame(calls) /\ ~Answers(g) /\ ~Sends(g) /\ ~Locking(g)
    <3>1. g \in Frame(calls)
      BY <1>1, NewFrames
    <3>2. QED
      BY <3>1 DEF GetFrame, Answers, Sends, Locking
  <2> HIDE DEF g
  <2>3. Keeps(t, <<g>>) /\ <<g>>[1] = g
    BY <1>1, <1>3, <2>1, <2>2, ReplacesTop
  <2>4. msgq' \in [Thread -> Seq(Message(calls'))]
    BY <1>1, <2>1, ListsKeepTypes
  <2>5. QED
    BY <1>1, <1>2, <1>3, <2>2, <2>3, <2>4, SimpleStep
<1>5. CASE msgq[t] # <<>>
  <2>1. /\ msgq' = [msgq EXCEPT ![t] = Tail(@)]
        /\ Replace(t, <<HandleFrame(None)>> \o GetLoop)
    BY <1>5 DEF GetQueue
  <2>2. PICK fs : Keeps(t, fs) /\ 1 \in DOMAIN fs /\ ~Locking(fs[1])
    BY <1>1, <1>3, <2>1, PostedHandled
  <2>3. msgq' \in [Thread -> Seq(Message(calls'))]
    BY <1>1, <1>5, <2>1 DEF Types, ListsType
  <2>4. QED
    BY <1>1, <1>2, <1>3, <2>2, <2>3, SimpleStep
<1>6. QED
  BY <1>4, <1>5

LEMMA GetStopStep ==
  ASSUME IInv, NEW t \in Thread, GetStop(t)
  PROVE  IInv'
<1> DEFINE g == GetFrame("wait")
<1>1. /\ Types /\ stack[t] # <<>> /\ calls \in Nat /\ Top(t).op = "get"
      /\ UNCHANGED <<msgq, sendlist, has_sends, wakeup, fStop, active, crit,
                     manager, queues, ready, calls>>
  BY CallsNat DEF IInv, At, GetStop
<1>2. SendsSeen' /\ msgq' \in [Thread -> Seq(Message(calls'))] /\ VarTypes'
  BY <1>1, ListsKeepTypes DEF IInv, SendsSeen, Types, VarTypes
<1>3. ~Locking(Top(t)) /\ ~Sends(Top(t))
  BY <1>1 DEF Locking, Sends
<1>4. CASE ~fStop[t]
  <2>1. Replace(t, <<g>>)
    BY <1>4 DEF GetStop
  <2>2. g \in Frame(calls) /\ ~Answers(g) /\ ~Sends(g) /\ ~Locking(g)
    <3>1. g \in Frame(calls)
      BY <1>1, NewFrames
    <3>2. QED
      BY <3>1 DEF GetFrame, Answers, Sends, Locking
  <2> HIDE DEF g
  <2>3. Keeps(t, <<g>>) /\ <<g>>[1] = g
    BY <1>1, <1>3, <2>1, <2>2, ReplacesTop
  <2>4. QED
    BY <1>1, <1>2, <1>3, <2>2, <2>3, SimpleStep
<1>5. CASE fStop[t]
  <2>1. Return(t)
    BY <1>5 DEF GetStop
  <2>2. Keeps(t, <<>>) /\ DOMAIN <<>> = {}
    BY <1>1, <1>3, <2>1, Returns
  <2>3. QED
    BY <1>1, <1>2, <1>3, <2>2, SimpleStep
<1>6. QED
  BY <1>4, <1>5

LEMMA GetWaitStep ==
  ASSUME IInv, NEW t \in Thread, GetWait(t)
  PROVE  IInv'
<1> DEFINE g == GetFrame("queue")
           fs == <<ReceiveFrame("check"), g>>
<1>1. /\ Types /\ stack[t] # <<>> /\ calls \in Nat /\ Top(t).op = "get"
      /\ wakeup' = [wakeup EXCEPT ![t] = FALSE]
      /\ Replace(t, <<ReceiveFrame("check"), g>>)
      /\ UNCHANGED <<msgq, sendlist, has_sends, fStop, active, crit, manager,
                     queues, ready, calls>>
  BY CallsNat DEF IInv, At, GetWait, GetLoop
<1>2. SendsSeen' /\ msgq' \in [Thread -> Seq(Message(calls'))] /\ VarTypes'
  BY <1>1, ListsKeepTypes DEF IInv, SendsSeen, Types, VarTypes
<1>3. ~Locking(Top(t)) /\ ~Sends(Top(t))
  BY <1>1 DEF Locking, Sends
<1>4. g \in Frame(calls) /\ ~Answers(g) /\ ~Sends(g) /\ Waiting(g)
  <2>1. g \in Frame(calls)
    BY <1>1, NewFrames
  <2>2. QED
    BY <2>1 DEF GetFrame, Answers, Sends, Waiting
<1> HIDE DEF g
<1>5. Keeps(t, fs) /\ 1 \in DOMAIN fs /\ ~Locking(fs[1])
  BY <1>1, <1>3, <1>4, LoopTurns
<1> HIDE DEF fs
<1>6. QED
  BY <1>1, <1>2, <1>3, <1>5, SimpleStep

LEMMA ClearBeginStep ==
  ASSUME IInv, NEW t \in Thread, NEW h \in Handler, ClearBegin(t, h)
  PROVE  IInv'
<1> DEFINE g == ClearFrame(h, queues)
           fs == <<g, Top(t)>>
<1>1. /\ Types /\ Runs(t) /\ calls' = calls + 1 /\ calls < MaxCalls
      /\ manager = None /\ manager' = t /\ Call(t, g) /\ calls' \in Nat
      /\ UNCHANGED <<msgq, sendlist, has_sends, wakeup, fStop, active, crit,
                     queues, ready>>
  BY CallsNat DEF IInv, ClearBegin
<1>2. /\ g \in Frame(calls') /\ ~Answers(g) /\ ~Sends(g) /\ g.op = "clear"
      /\ g.left = queues /\ g.of = None
  <2>1. g \in Frame(calls')
    BY <1>1, NewFrames DEF Types, VarTypes
  <2>2. QED
    BY <2>1 DEF ClearFrame, Answers, Sends
<1> HIDE DEF g
<1>3. Keeps(t, fs) /\ Stepped(t, fs) /\ DOMAIN fs = {1, 2} /\ fs[1] = g /\ ~Locking(Top(t))
  BY <1>1, <1>2, CallsMade
<1> HIDE DEF fs
<1>4. Numbers' /\ Answered'
  BY <1>1, <1>3, ListsUnchanged DEF IInv
<1>5. Locks'
  <2>1. \A u \in Thread : ~Adds(t, u) /\ ~Tells(t, u)
    BY <1>3 DEF Adds, Calls, Tells, Locking
  <2>2. \A u \in Thread : u # g.of
    BY <1>2, ThreadsAssumption
  <2>3. QED
    BY <1>1, <1>2, <1>3, <2>1, <2>2, ManagerLocked DEF IInv
<1>6. StackType' /\ ListsType' /\ ReadyType'
  BY <1>1, <1>3, Stacks, ListsKeepTypes DEF Types, ListsType
<1>7. VarTypes' /\ SendsSeen'
  BY <1>1, ThreadsAssumption DEF IInv, Types, VarTypes, SendsSeen
<1>8. QED
  BY <1>4, <1>5, <1>6, <1>7 DEF IInv, Types

LEMMA ClearQueueStep ==
  ASSUME IInv, NEW t \in Thread, NEW q \in Thread, ClearQueue(t, q)
  PROVE  IInv'
<1> DEFINE h == Top(t).h
           gone == {m \in ToSet(sendlist[q]) : Matches(m, h)}
           ts == {m.from : m \in gone}
           g == [Top(t) EXCEPT !.left = @ \ {q}, !.to = ts, !.of = q]
           fs == <<g>>
<1>1. /\ Types /\ stack[t] # <<>> /\ Top(t) \in Frame(calls) /\ calls \in Nat
      /\ Clears(t) /\ Top(t).op = "clear" /\ Replace(t, <<g>>)
      /\ crit[q] = None /\ crit' = [crit EXCEPT ![q] = t]
      /\ ready' = ready \cup {m.id : m \in gone}
      /\ sendlist' = [sendlist EXCEPT ![q] = Others(@, h)]
      /\ msgq' = [msgq EXCEPT ![q] = Others(@, h)]
      /\ UNCHANGED <<has_sends, wakeup, fStop, active, manager, queues, calls>>
  BY TopFrame, CallsNat DEF IInv, Types, Clears, ClearQueue
<1>2. \A m \in gone : m.id \in 1..calls /\ m.from \in Thread
  <2>1. ToSet(sendlist[q]) = {sendlist[q][j] : j \in DOMAIN sendlist[q]}
    BY DEF ToSet
  <2>2. sendlist[q] \in Seq(Message(calls))
    BY <1>1 DEF Types, ListsType
  <2>3. \A m \in gone : m \in Message(calls)
    BY <2>1, <2>2
  <2>4. QED
    BY <2>3 DEF Message
<1>3. /\ g \in Frame(calls) /\ g.op = "clear" /\ g.left = Top(t).left \ {q}
      /\ g.of = q
  <2>1. ts \in SUBSET Thread
    BY <1>2
  <2> HIDE DEF ts
  <2>2. Top(t) \in ClearFrames
    BY <1>1, FrameKinds
  <2>3. g \in ClearFrames /\ g.left = Top(t).left \ {q} /\ g.of = q
    BY <2>1, <2>2 DEF ClearFrames
  <2>4. QED
    BY <2>3 DEF ClearFrames, Frame
<1> HIDE DEF g
<1> HIDE DEF g
<1>4. /\ ~Answers(g) /\ ~Sends(g) /\ ~Sends(Top(t))
      /\ \A u \in Thread : ~Adds(t, u) /\ ~Tells(t, u)
  BY <1>1, <1>3, ThreadsAssumption DEF Answers, Sends, Adds, Calls, Tells, Clears
<1>5. Keeps(t, fs) /\ Stepped(t, fs) /\ DOMAIN fs = {1} /\ fs[1] = g
  BY <1>1, <1>3, <1>4, ReplacesTop
<1> HIDE DEF fs
<1>6. Numbers' /\ Answered'
  BY <1>1, <1>5, QueueCleared DEF IInv
<1>7. /\ sendlist \in [Thread -> Seq(Message(calls))] /\ msgq \in [Thread -> Seq(Message(calls))]
      /\ \A v \in Thread : sendlist[v] # <<>> => has_sends[v]
      /\ crit \in [Thread -> Thread \cup {None}]
  BY DEF IInv, Types, VarTypes, ListsType, SendsSeen
<1>8. ListsType'
  <2>1. Others(sendlist[q], h) \in Seq(Message(calls)) /\ Others(msgq[q], h) \in Seq(Message(calls))
    BY <1>7, OthersKept
  <2>2. QED
    BY <1>1, <1>7, <2>1 DEF ListsType
<1>9. SendsSeen'
  <2>1. ASSUME Others(sendlist[q], h) # <<>> PROVE has_sends[q]
    <3>1. Others(sendlist[q], h) \in Seq(Message(calls))
      BY <1>7, OthersKept
    <3>2. \E g2 \in [1..Len(Others(sendlist[q], h)) -> 1..Len(sendlist[q])] : TRUE
      BY <1>7, OthersKept
    <3>3. 1 \in 1..Len(Others(sendlist[q], h))
      BY <2>1, <3>1
    <3>4. 1..Len(sendlist[q]) # {}
      BY <3>2, <3>3
    <3>5. sendlist[q] # <<>>
      BY <3>4
    <3>6. QED
      BY <1>7, <3>5
  <2>2. QED
    BY <1>1, <1>7, <2>1 DEF SendsSeen
<1>10. ReadyType'
  <2> HIDE DEF gone
  <2>1. QED
    BY <1>1, <1>2 DEF Types, ReadyType
<1>11. Locks'
  <2>1. manager = t /\ g.left \subseteq queues
    BY <1>1, <1>3 DEF IInv, Locks, Clearing
  <2>2. \A u \in Thread : crit'[u] = IF u = q THEN t ELSE crit[u]
    BY <1>1, <1>7
  <2>3. QED
    BY <1>1, <1>3, <1>4, <1>5, <2>1, <2>2, ManagerLocked DEF IInv
<1>12. VarTypes' /\ StackType'
  BY <1>1, <1>5, Stacks DEF Types, VarTypes
<1>13. QED
  BY <1>6, <1>8, <1>9, <1>10, <1>11, <1>12 DEF IInv, Types

LEMMA ClearEndStep ==
  ASSUME IInv, NEW t \in Thread, ClearEnd(t)
  PROVE  IInv'
<1>1. /\ Types /\ Clears(t) /\ stack[t] # <<>> /\ Top(t).op = "clear"
      /\ manager' = None /\ Return(t)
      /\ UNCHANGED <<msgq, sendlist, has_sends, wakeup, fStop, active, crit,
                     queues, ready, calls>>
  BY DEF IInv, ClearEnd, Clears
<1>2. Keeps(t, <<>>) /\ Stepped(t, <<>>) /\ DOMAIN <<>> = {}
  BY <1>1, Returns DEF Sends
<1>3. Numbers' /\ Answered'
  BY <1>1, <1>2, ListsUnchanged DEF IInv
<1>4. Locks'
  BY <1>1, <1>2, ManagerUnlocked DEF IInv
<1>5. StackType' /\ ListsType' /\ ReadyType'
  BY <1>1, <1>2, Stacks, ListsKeepTypes DEF Types, ListsType
<1>6. VarTypes' /\ SendsSeen'
  BY <1>1 DEF IInv, Types, VarTypes, SendsSeen
<1>7. QED
  BY <1>3, <1>4, <1>5, <1>6 DEF IInv, Types

LEMMA StopStep ==
  ASSUME IInv, NEW t \in Thread, NEW u \in Thread, Stop(t, u)
  PROVE  IInv'
<1> DEFINE g == JoinFrame(u)
           fs == <<g, Top(t)>>
<1>1. /\ Types /\ Runs(t) /\ calls' = calls + 1 /\ calls < MaxCalls /\ calls' \in Nat
      /\ fStop' = [fStop EXCEPT ![u] = TRUE] /\ WakeUp({u}) /\ Call(t, g)
      /\ UNCHANGED <<msgq, sendlist, has_sends, active, crit, manager, queues, ready>>
  BY CallsNat DEF IInv, Stop
<1>2. g \in Frame(calls') /\ ~Answers(g) /\ ~Sends(g) /\ ~Locking(g)
  <2>1. g \in Frame(calls')
    BY <1>1, NewFrames
  <2>2. QED
    BY <2>1 DEF JoinFrame, Answers, Sends, Locking
<1> HIDE DEF g
<1>3. Keeps(t, fs) /\ DOMAIN fs = {1, 2} /\ fs[1] = g /\ ~Locking(Top(t))
  BY <1>1, <1>2, CallsMade
<1> HIDE DEF fs
<1>4. VarTypes'
  BY <1>1, WokenUp, ThreadsAssumption DEF Types, VarTypes
<1>5. SendsSeen' /\ msgq' \in [Thread -> Seq(Message(calls'))]
  BY <1>1, ListsKeepTypes DEF IInv, SendsSeen
<1>6. QED
  BY <1>1, <1>2, <1>3, <1>4, <1>5, SimpleStep

LEMMA JoinStep ==
  ASSUME IInv, NEW t \in Thread, Join(t)
  PROVE  IInv'
<1>1. /\ Types /\ stack[t] # <<>> /\ Top(t).op = "join" /\ Return(t)
      /\ UNCHANGED <<msgq, sendlist, has_sends, wakeup, fStop, active, crit,
                     manager, queues, ready, calls>>
  BY DEF IInv, Join
<1>2. ~Locking(Top(t)) /\ ~Sends(Top(t))
  BY <1>1 DEF Locking, Sends
<1>3. Keeps(t, <<>>) /\ DOMAIN <<>> = {}
  BY <1>1, <1>2, Returns
<1>4. SendsSeen' /\ msgq' \in [Thread -> Seq(Message(calls'))] /\ VarTypes'
  BY <1>1, ListsKeepTypes DEF IInv, SendsSeen, Types, VarTypes
<1>5. QED
  BY <1>1, <1>2, <1>3, <1>4, SimpleStep

-----------------------------------------------------------------------------
(* The theorems *)

LEMMA InitIInv ==
  ASSUME Init
  PROVE  IInv
<1>1. calls = 0 /\ calls \in Nat
  BY DEF Init
<1>2. ASSUME NEW t \in Thread
      PROVE  /\ stack[t] \in Seq(Frame(calls)) /\ stack[t] # <<>>
             /\ \A k \in DOMAIN stack[t] :
                  /\ Waiting(stack[t][k]) /\ ~Locking(stack[t][k])
                  /\ ~Sends(stack[t][k]) /\ ~Answers(stack[t][k])
  <2> DEFINE a == AppFrame
             b == HandleFrame(None)
             c == ReceiveFrame("check")
             d == GetFrame("queue")
             Fine(f) == /\ f \in Frame(calls) /\ Waiting(f) /\ ~Locking(f)
                        /\ ~Sends(f) /\ ~Answers(f)
  <2>1. a \in Frame(calls) /\ b \in Frame(calls) /\ c \in Frame(calls) /\ d \in Frame(calls)
    BY <1>1, NewFrames
  <2>2. Fine(a)
    BY <2>1 DEF AppFrame, Waiting, Locking, Sends, Answers
  <2>3. Fine(b)
    BY <2>1 DEF HandleFrame, Waiting, Locking, Sends, Answers
  <2>4. Fine(c)
    BY <2>1 DEF ReceiveFrame, Waiting, Locking, Sends, Answers
  <2>5. Fine(d)
    BY <2>1 DEF GetFrame, Waiting, Locking, Sends, Answers
  <2>6. \/ stack[t] = <<a>>
        \/ stack[t] = <<b>> \o <<c, d>>
        \/ stack[t] = <<c, d>>
    BY DEF Init, GetLoop
  <2> HIDE DEF a, b, c, d
  <2>7. CASE stack[t] = <<a>>
    BY <2>1, <2>2, <2>7, Tuples
  <2>8. CASE stack[t] = <<b>> \o <<c, d>>
    <3>1. stack[t] = <<b, c, d>>
      BY <2>1, <2>8, Tuples
    <3>2. /\ <<b, c, d>> \in Seq(Frame(calls)) /\ DOMAIN <<b, c, d>> = {1, 2, 3}
          /\ <<b, c, d>>[1] = b /\ <<b, c, d>>[2] = c /\ <<b, c, d>>[3] = d
      BY <2>1, Tuples
    <3>3. QED
      BY <2>3, <2>4, <2>5, <3>1, <3>2
  <2>9. CASE stack[t] = <<c, d>>
    <3>1. /\ <<c, d>> \in Seq(Frame(calls)) /\ DOMAIN <<c, d>> = {1, 2}
          /\ <<c, d>>[1] = c /\ <<c, d>>[2] = d
      BY <2>1, Tuples
    <3>2. QED
      BY <2>4, <2>5, <2>9, <3>1
  <2>10. QED
    BY <2>6, <2>7, <2>8, <2>9
<1>3. StackType
  <2>1. stack = [t \in Thread |-> stack[t]]
    BY DEF Init
  <2>2. QED
    BY <1>2, <2>1 DEF StackType
<1>4. VarTypes
  BY ThreadsAssumption DEF Init, VarTypes
<1>5. ListsType /\ ReadyType
  BY DEF Init, ListsType, ReadyType
<1>6. SendsSeen
  BY DEF Init, SendsSeen
<1>7. ASSUME NEW t \in Thread PROVE stack[t] # <<>> /\ ~Locking(Top(t))
  <2>1. 1 \in DOMAIN stack[t] /\ Top(t) = stack[t][1]
    BY <1>2, <1>3, TopFrame
  <2>2. QED
    BY <1>2, <2>1
<1>8. Below
  BY <1>2 DEF Below
<1>9. Held /\ Managing
  BY ThreadsAssumption DEF Init, Held, Managing
<1>10. Adding /\ Telling
  BY <1>7 DEF Adding, Adds, Calls, Telling, Tells, Locking
<1>11. Known
  BY DEF Init, Known
<1>12. Clearing
  BY <1>7 DEF Clearing, Locking
<1>13. SendsUnique /\ AnswersUnique
  BY <1>2 DEF SendsUnique, AnswersUnique
<1>14. \A t \in Thread : DOMAIN sendlist[t] = {}
  BY DEF Init
<1>15. ListedUnique /\ ListedUnanswered /\ ListedWaiting
  BY <1>14 DEF ListedUnique, ListedUnanswered, ListedWaiting
<1>16. HandledWaiting
  BY <1>2 DEF HandledWaiting
<1>17. EarlyNew
  BY <1>2 DEF EarlyNew, Early, Sends
<1>18. QED
  BY <1>3, <1>4, <1>5, <1>6, <1>8, <1>9, <1>10, <1>11, <1>12, <1>13, <1>15, <1>16,
     <1>17 DEF IInv, Types, Locks, Numbers, Answered

LEMMA StepIInv ==
  ASSUME IInv, [Next]_vars
  PROVE  IInv'
<1>1. ASSUME NEW t \in Thread, Runtime(t) PROVE IInv'
  BY <1>1, EnterStep, AddStep, SendWakeStep, SendLoopStep, SendWaitStep,
     ReceiveCheckStep, ReceivePopStep, GetQueueStep, GetStopStep, GetWaitStep,
     ClearQueueStep, TellStep, ClearEndStep, JoinStep, Zenon DEF Runtime
<1>2. ASSUME NEW t \in Thread, User(t) PROVE IInv'
  <2>1. \A u \in Worker : u \in Thread
    BY DEF Worker
  <2>2. QED
    BY <1>2, <2>1, PostStep, SendStep, ClearBeginStep, StopStep DEF User
<1>3. CASE UNCHANGED vars
  <2>1. Types'
    BY <1>3 DEF vars, IInv, Types, VarTypes, StackType, ListsType, ReadyType
  <2>2. SendsSeen' /\ Locks'
    BY <1>3 DEF vars, IInv, SendsSeen, Locks, Below, Held, Managing, Adding,
                Telling, Known, Clearing, Adds, Calls, Tells, Top
  <2>3. Numbers' /\ Answered'
    <3>1. /\ stack' = stack /\ sendlist' = sendlist /\ ready' = ready
          /\ Numbers /\ Answered
      BY <1>3 DEF vars, IInv
    <3>2. Numbers'
      BY <3>1 DEF Numbers, SendsUnique, AnswersUnique, ListedUnique,
                  ListedUnanswered
    <3>3. \A t, i : Sending(t, i)' <=> Sending(t, i)
      BY <3>1 DEF Sending
    <3>4. ListedWaiting'
      BY <3>1, <3>3, ListedWaitingNext DEF Answered, ListedWaiting
    <3>5. HandledWaiting'
      BY <3>1, <3>3, HandledWaitingNext DEF Answered, HandledWaiting
    <3>6. EarlyNew'
      BY <3>1 DEF Answered, EarlyNew, IsNew
    <3>7. QED
      BY <3>2, <3>4, <3>5, <3>6 DEF Answered
  <2>4. QED
    BY <2>1, <2>2, <2>3 DEF IInv
<1>4. QED
  BY <1>1, <1>2, <1>3, HandledStep DEF Next

LEMMA Invariance ==
  Spec => []IInv
<1>1. Init => IInv
  BY InitIInv
<1>2. IInv /\ [Next]_vars => IInv'
  BY StepIInv
<1>3. QED
  BY <1>1, <1>2, PTL DEF Spec

LEMMA Listed ==
  ASSUME Types, NEW t \in Thread
  PROVE  /\ ToSet(sendlist[t]) = {sendlist[t][i] : i \in DOMAIN sendlist[t]}
         /\ ToSet(sendlist[t]) \subseteq Message(calls)
         /\ ToSet(msgq[t]) \subseteq Message(calls)
<1>1. /\ ToSet(sendlist[t]) = {sendlist[t][i] : i \in DOMAIN sendlist[t]}
      /\ ToSet(msgq[t]) = {msgq[t][i] : i \in DOMAIN msgq[t]}
  BY DEF ToSet
<1>2. sendlist[t] \in Seq(Message(calls)) /\ msgq[t] \in Seq(Message(calls))
  BY DEF Types, ListsType
<1>3. QED
  BY <1>1, <1>2

LEMMA InvFollows ==
  ASSUME IInv
  PROVE  Inv /\ NoDanglingReady
<1>1. TypeOK
  <2>1. calls \in 0..MaxCalls /\ ready \subseteq 1..calls
    BY DEF IInv, Types, VarTypes, ReadyType
  <2>2. ready \subseteq 1..MaxCalls
    BY <2>1, ThreadsAssumption
  <2>3. \A t \in Thread : \A m \in ToSet(msgq[t]) \cup ToSet(sendlist[t]) :
          m \in [id : 1..calls, h : Handler, from : Thread]
    BY Listed DEF IInv, Message
  <2>4. \A t \in Thread : /\ crit[t] # None => Adds(crit[t], t) \/ Tells(crit[t], t)
                          /\ manager = t => stack[t] # <<>> /\ Top(t).op = "clear"
    BY DEF IInv, Locks, Held, Managing
  <2>5. VarTypes
    BY DEF IInv, Types
  <2>6. QED
    BY <2>2, <2>3, <2>4, <2>5, Zenon DEF TypeOK, VarTypes
<1>2. SendsSeen
  BY DEF IInv
<1>3. NoLockCycle
  <2> SUFFICES ASSUME NEW t \in Thread, NEW u \in Thread,
                      stack[t] # <<>>, Top(t).op = "clear", Calls(u), Top(u).at = "add"
               PROVE  Top(u).to \notin Top(t).left
    BY DEF NoLockCycle
  <2>1. Top(u) \in Frame(calls) /\ Top(u).op \in {"post", "send"} /\ calls \in Nat
    BY TopFrame, CallsNat DEF IInv, Types, Calls
  <2>2. Top(u).to \in Thread
    BY <2>1, FrameKinds DEF PostFrames, SendFrames
  <2>3. Top(u).to \notin queues
    BY <2>2 DEF IInv, Locks, Adding, Adds
  <2>4. Top(t).left \subseteq queues
    BY DEF IInv, Locks, Clearing
  <2>5. QED
    BY <2>3, <2>4
<1>4. NoDanglingReady
  <2> SUFFICES ASSUME NEW u \in Thread, NEW m \in Unanswered(u)
               PROVE  Sending(m.from, m.id) /\ m.id \notin ready
    BY DEF NoDanglingReady
  <2>1. CASE m \in ToSet(sendlist[u])
    <3>1. PICK i \in DOMAIN sendlist[u] : m = sendlist[u][i]
      BY <2>1, Listed DEF IInv
    <3>2. QED
      BY <3>1 DEF IInv, Answered, ListedWaiting
  <2>2. CASE m \notin ToSet(sendlist[u])
    <3>1. PICK k \in DOMAIN stack[u] :
            stack[u][k].op = "handle" /\ stack[u][k].sent # None /\ m = stack[u][k].sent
      BY <2>2 DEF Unanswered
    <3>2. QED
      BY <3>1 DEF IInv, Answered, HandledWaiting, Answers
  <2>3. QED
    BY <2>1, <2>2
<1>5. QED
  BY <1>1, <1>2, <1>3, <1>4 DEF Inv

\* For any number of threads, handlers and calls: a lock is held by the call that
\* took it, ReceiveSends never overlooks a message that has been listed, though it
\* looks at has_sends_ without a lock, and the locks of queues and of the manager
\* are never waited for in a cycle.
THEOREM ThreadsCorrect == Spec => []Inv
<1>1. IInv => Inv
  BY InvFollows
<1>2. QED
  BY <1>1, Invariance, PTL

\* For any number of threads, handlers and calls, and however the calls nest: Send
\* does not return while its message is listed or handled, so that whoever sets
\* `ready', the receiver or Clear, sets a variable that exists, and sets it once.
THEOREM ReadyNeverDangles == Spec => []NoDanglingReady
<1>1. IInv => NoDanglingReady
  BY InvFollows
<1>2. QED
  BY <1>1, Invariance, PTL
=============================================================================
