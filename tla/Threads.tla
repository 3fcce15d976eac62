------------------------------ MODULE Threads ------------------------------
(***************************************************************************)
(* Threads with message queues (src/base/messagequeue.cc and thread.cc).   *)
(* A worker runs ProcessMessages.  Any code, of a handler or of the        *)
(* application, may Post a message to a thread, or Send one and wait until *)
(* it has been handled; while it waits it handles what others send, so     *)
(* that calls nest, on a stack per thread.  A lock is modelled where it is *)
(* held for more than one step: the crit_ of a queue while it becomes      *)
(* active and while senders are told of their answers, and that of         *)
(* MessageQueueManager while it clears the queues.  Delayed messages and   *)
(* Peek are left out.                                                      *)
(***************************************************************************)
EXTENDS Naturals, Sequences, FiniteSets, SequencesExt

CONSTANTS
  Thread,     \* all threads
  App,        \* those that run the application, not ProcessMessages
  Busy,       \* the others that are, at the start, handling a first message
  Handler,    \* message handlers
  SendPairs,  \* who may Send to whom
  MaxCalls,   \* bound on the calls of Post, Send, Clear and Stop
  None

ASSUME ThreadsAssumption ==
  /\ App \subseteq Thread /\ Busy \subseteq Thread \ App /\ None \notin Thread
  /\ SendPairs \subseteq Thread \X Thread
  /\ MaxCalls \in Nat

VARIABLES
  stack,      \* per thread, its calls, the innermost first
  msgq,       \* msgq_: the posted messages
  sendlist,   \* sendlist_: the sent ones
  has_sends,  \* has_sends_
  wakeup,     \* the signal of the socket server, which Wait consumes
  fStop,      \* fStop_
  active,     \* active_
  crit,       \* who holds crit_ for more than a step
  manager,    \* who holds the crit_ of MessageQueueManager
  queues,     \* message_queues_
  ready,      \* the sends whose `ready' is set
  calls       \* number of calls so far, which numbers the messages

vars == <<stack, msgq, sendlist, has_sends, wakeup, fStop, active, crit,
          manager, queues, ready, calls>>

Worker == Thread \ App

-----------------------------------------------------------------------------
\* Frames.  The code of the application and of handlers may call anything;
\* `sent' is the message that a handler answers, None if it was posted.
AppFrame == [op |-> "app"]
GetFrame(at) == [op |-> "get", at |-> at]
ReceiveFrame(at) == [op |-> "receive", at |-> at]
\* One turn of the loop of Get: sent messages first, then the queue.
GetLoop == <<ReceiveFrame("check"), GetFrame("queue")>>
HandleFrame(m) == [op |-> "handle", sent |-> m]
PostFrame(u, h, i, at) == [op |-> "post", to |-> u, h |-> h, id |-> i, at |-> at]
SendFrame(u, h, i, at, w) ==
  [op |-> "send", to |-> u, h |-> h, id |-> i, at |-> at, waited |-> w]
JoinFrame(u) == [op |-> "join", of |-> u]
\* Either of these is about to wake up the threads `to', with the lock of `of'.
TellFrame(ts, q) == [op |-> "tell", to |-> ts, of |-> q]
ClearFrame(h, left) ==
  [op |-> "clear", h |-> h, left |-> left, to |-> {}, of |-> None]

Top(t) == Head(stack[t])
At(t, op, at) == stack[t] # <<>> /\ Top(t).op = op /\ Top(t).at = at
Runs(t) == stack[t] # <<>> /\ Top(t).op \in {"app", "handle"}

\* The stack of t becomes fs on top of the calls below the innermost one.
Replace(t, fs) == stack' = [stack EXCEPT ![t] = fs \o Tail(@)]
Call(t, f) == Replace(t, <<f, Top(t)>>)
Return(t) == Replace(t, <<>>)

\* PhysicalSocketServer::WakeUp of several threads.  Signals do not add up.
WakeUp(ts) == wakeup' = [t \in Thread |-> wakeup[t] \/ t \in ts]

Init ==
  /\ stack = [t \in Thread |->
                IF t \in App THEN <<AppFrame>>
                ELSE IF t \in Busy THEN <<HandleFrame(None)>> \o GetLoop
                ELSE GetLoop]
  /\ msgq = [t \in Thread |-> <<>>] /\ sendlist = [t \in Thread |-> <<>>]
  /\ has_sends = [t \in Thread |-> FALSE]
  /\ wakeup = [t \in Thread |-> FALSE]
  /\ fStop = [t \in Thread |-> FALSE] /\ active = [t \in Thread |-> FALSE]
  /\ crit = [t \in Thread |-> None] /\ manager = None /\ queues = {}
  /\ ready = {} /\ calls = 0

-----------------------------------------------------------------------------
\* Post and Send begin alike: a queue that is stopped takes nothing.
Begin(t, f) ==
  /\ Runs(t) /\ calls < MaxCalls
  /\ ~fStop[f.to]
  /\ calls' = calls + 1
  /\ Call(t, f)
  /\ UNCHANGED <<msgq, sendlist, has_sends, wakeup, fStop, active, crit,
                 manager, queues, ready>>

Post(t, u, h) == Begin(t, PostFrame(u, h, calls + 1, "enter"))

Send(t, u, h) ==
  /\ <<t, u>> \in SendPairs
  /\ Begin(t, SendFrame(u, h, calls + 1, "enter", FALSE))

\* Mutant: nobody is woken up.
EnqueueSilently(t) ==
  LET f == Top(t)
      m == [id |-> f.id, h |-> f.h, from |-> t]
  IN IF f.op = "post"
       THEN /\ msgq' = [msgq EXCEPT ![f.to] = Append(@, m)]
            /\ Return(t)
            /\ UNCHANGED <<wakeup, sendlist, has_sends>>
       ELSE /\ sendlist' = [sendlist EXCEPT ![f.to] = Append(@, m)]
            /\ has_sends' = [has_sends EXCEPT ![f.to] = TRUE]
            /\ Replace(t, <<[f EXCEPT !.at = "wake"]>>)
            /\ UNCHANGED <<msgq, wakeup>>

\* The rest of the critical section: a message goes to the end of its list.
Enqueue(t) ==
  LET f == Top(t)
      m == [id |-> f.id, h |-> f.h, from |-> t]
  IN IF f.op = "post"
       THEN /\ msgq' = [msgq EXCEPT ![f.to] = Append(@, m)]
            /\ WakeUp({f.to})
            /\ Return(t)
            /\ UNCHANGED <<sendlist, has_sends>>
       ELSE /\ sendlist' = [sendlist EXCEPT ![f.to] = Append(@, m)]
            /\ has_sends' = [has_sends EXCEPT ![f.to] = TRUE]
            /\ Replace(t, <<[f EXCEPT !.at = "wake"]>>)
            /\ UNCHANGED <<msgq, wakeup>>

Calls(t) == stack[t] # <<>> /\ Top(t).op \in {"post", "send"}

\* The critical section up to EnsureActive, which tells the manager of a queue
\* that has never had a message.
Enter(t) ==
  /\ Calls(t) /\ Top(t).at = "enter"
  /\ LET u == Top(t).to IN
       /\ crit[u] = None
       /\ IF active[u]
            THEN Enqueue(t) /\ UNCHANGED <<active, crit>>
            ELSE /\ active' = [active EXCEPT ![u] = TRUE]
                 /\ crit' = [crit EXCEPT ![u] = t]
                 /\ Replace(t, <<[Top(t) EXCEPT !.at = "add"]>>)
                 /\ UNCHANGED <<msgq, sendlist, has_sends, wakeup>>
  /\ UNCHANGED <<fStop, manager, queues, ready, calls>>

\* MessageQueueManager::Add.
Add(t) ==
  /\ Calls(t) /\ Top(t).at = "add"
  /\ manager = None
  /\ queues' = queues \cup {Top(t).to}
  /\ crit' = [crit EXCEPT ![Top(t).to] = None]
  /\ Enqueue(t)
  /\ UNCHANGED <<fStop, active, manager, ready, calls>>

\* Send wakes the receiver up after it has left the critical section.
SendWake(t) ==
  /\ At(t, "send", "wake")
  /\ WakeUp({Top(t).to})
  /\ Replace(t, <<[Top(t) EXCEPT !.at = "loop"]>>)
  /\ UNCHANGED <<msgq, sendlist, has_sends, fStop, active, crit, manager,
                 queues, ready, calls>>

\* Mutant: a thread that waits for its answer does not answer others.
SendLoopDeaf(t) ==
  /\ At(t, "send", "loop")
  /\ IF Top(t).id \in ready
       THEN /\ Return(t)
            /\ WakeUp(IF Top(t).waited THEN {t} ELSE {})
       ELSE /\ Replace(t, <<[Top(t) EXCEPT !.at = "wait"]>>)
            /\ UNCHANGED wakeup
  /\ UNCHANGED <<msgq, sendlist, has_sends, fStop, active, crit, manager,
                 queues, ready, calls>>

\* The loop of Send: until the answer is there, messages of other threads are
\* received.  In the end the thread signals to itself what its waiting may
\* have consumed.
SendLoop(t) ==
  /\ At(t, "send", "loop")
  /\ IF Top(t).id \in ready
       THEN /\ Return(t)
            /\ WakeUp(IF Top(t).waited THEN {t} ELSE {})
       ELSE /\ Replace(t, <<ReceiveFrame("check"),
                            [Top(t) EXCEPT !.at = "wait"]>>)
            /\ UNCHANGED wakeup
  /\ UNCHANGED <<msgq, sendlist, has_sends, fStop, active, crit, manager,
                 queues, ready, calls>>

SendWait(t) ==
  /\ At(t, "send", "wait")
  /\ wakeup[t] /\ wakeup' = [wakeup EXCEPT ![t] = FALSE]
  /\ Replace(t, <<[Top(t) EXCEPT !.at = "loop", !.waited = TRUE]>>)
  /\ UNCHANGED <<msgq, sendlist, has_sends, fStop, active, crit, manager,
                 queues, ready, calls>>

-----------------------------------------------------------------------------
\* ReceiveSends: a look at has_sends_ without a lock,
ReceiveCheck(t) ==
  /\ At(t, "receive", "check")
  /\ IF has_sends[t] THEN Replace(t, <<ReceiveFrame("pop")>>) ELSE Return(t)
  /\ UNCHANGED <<msgq, sendlist, has_sends, wakeup, fStop, active, crit,
                 manager, queues, ready, calls>>

\* Mutant: has_sends_ is cleared for each message that is received.
ReceivePopClears(t) ==
  /\ At(t, "receive", "pop")
  /\ crit[t] = None
  /\ has_sends' = [has_sends EXCEPT ![t] = FALSE]
  /\ IF sendlist[t] = <<>>
       THEN Return(t) /\ UNCHANGED sendlist
       ELSE /\ sendlist' = [sendlist EXCEPT ![t] = Tail(@)]
            /\ Call(t, HandleFrame(Head(sendlist[t])))
  /\ UNCHANGED <<msgq, wakeup, fStop, active, crit, manager, queues, ready,
                 calls>>

\* Mutant: the sender is told before the message is handled.
ReceivePopReadyFirst(t) ==
  /\ At(t, "receive", "pop")
  /\ crit[t] = None
  /\ IF sendlist[t] = <<>>
       THEN /\ has_sends' = [has_sends EXCEPT ![t] = FALSE]
            /\ Return(t) /\ UNCHANGED <<sendlist, ready>>
       ELSE /\ sendlist' = [sendlist EXCEPT ![t] = Tail(@)]
            /\ ready' = ready \cup {Head(sendlist[t]).id}
            /\ Call(t, HandleFrame(Head(sendlist[t])))
            /\ UNCHANGED has_sends
  /\ UNCHANGED <<msgq, wakeup, fStop, active, crit, manager, queues, calls>>

\* then message after message, outside the critical section.
ReceivePop(t) ==
  /\ At(t, "receive", "pop")
  /\ crit[t] = None
  /\ IF sendlist[t] = <<>>
       THEN /\ has_sends' = [has_sends EXCEPT ![t] = FALSE]
            /\ Return(t) /\ UNCHANGED sendlist
       ELSE /\ sendlist' = [sendlist EXCEPT ![t] = Tail(@)]
            /\ Call(t, HandleFrame(Head(sendlist[t])))
            /\ UNCHANGED has_sends
  /\ UNCHANGED <<msgq, wakeup, fStop, active, crit, manager, queues, ready,
                 calls>>

\* OnMessage returns.  The answer of a sent message is there as soon as `ready'
\* is set, and the sender is told afterwards.
Handled(t) ==
  /\ stack[t] # <<>> /\ Top(t).op = "handle"
  /\ IF Top(t).sent = None
       THEN Return(t) /\ UNCHANGED <<ready, crit>>
       ELSE /\ crit[t] = None /\ crit' = [crit EXCEPT ![t] = t]
            /\ ready' = ready \cup {Top(t).sent.id}
            /\ Replace(t, <<TellFrame({Top(t).sent.from}, t)>>)
  /\ UNCHANGED <<msgq, sendlist, has_sends, wakeup, fStop, active, manager,
                 queues, calls>>

Tells(t, u) ==
  stack[t] # <<>> /\ Top(t).op \in {"tell", "clear"} /\ Top(t).of = u

\* Those who wait for an answer that is there are woken up in the same critical
\* section; Clear goes on.
Tell(t) ==
  /\ \E u \in Thread : Tells(t, u) /\ crit' = [crit EXCEPT ![u] = None]
  /\ WakeUp(Top(t).to)
  /\ IF Top(t).op = "tell"
       THEN Return(t)
       ELSE Replace(t, <<[Top(t) EXCEPT !.to = {}, !.of = None]>>)
  /\ UNCHANGED <<msgq, sendlist, has_sends, fStop, active, manager, queues,
                 ready, calls>>

\* Get: a message of the queue,
GetQueue(t) ==
  /\ At(t, "get", "queue")
  /\ crit[t] = None
  /\ IF msgq[t] = <<>>
       THEN Replace(t, <<GetFrame("stop")>>) /\ UNCHANGED msgq
       ELSE /\ msgq' = [msgq EXCEPT ![t] = Tail(@)]
            /\ Replace(t, <<HandleFrame(None)>> \o GetLoop)
  /\ UNCHANGED <<sendlist, has_sends, wakeup, fStop, active, crit, manager,
                 queues, ready, calls>>

\* and when there is none, fStop_; ProcessMessages and the thread end with it.
GetStop(t) ==
  /\ At(t, "get", "stop")
  /\ IF fStop[t] THEN Return(t) ELSE Replace(t, <<GetFrame("wait")>>)
  /\ UNCHANGED <<msgq, sendlist, has_sends, wakeup, fStop, active, crit,
                 manager, queues, ready, calls>>

GetWait(t) ==
  /\ At(t, "get", "wait")
  /\ wakeup[t] /\ wakeup' = [wakeup EXCEPT ![t] = FALSE]
  /\ Replace(t, GetLoop)
  /\ UNCHANGED <<msgq, sendlist, has_sends, fStop, active, crit, manager,
                 queues, ready, calls>>

-----------------------------------------------------------------------------
\* MessageQueueManager::Clear, called when a handler goes away: the manager is
\* locked,
ClearBegin(t, h) ==
  /\ Runs(t) /\ calls < MaxCalls
  /\ manager = None /\ manager' = t
  /\ calls' = calls + 1
  /\ Call(t, ClearFrame(h, queues))
  /\ UNCHANGED <<msgq, sendlist, has_sends, wakeup, fStop, active, crit,
                 queues, ready>>

\* Thread::Clear of queue q: the messages for h are removed, and those who wait
\* for an answer have it, and are told.
Matches(m, h) == m.h = h
\* What is left of s when the first i messages have been looked at.
Kept(s, h) ==
  LET kept[i \in 0..Len(s)] ==
        IF i = 0 THEN <<>>
        ELSE IF Matches(s[i], h) THEN kept[i - 1] ELSE Append(kept[i - 1], s[i])
  IN kept
Others(s, h) == Kept(s, h)[Len(s)]

Clears(t) == stack[t] # <<>> /\ Top(t).op = "clear" /\ Top(t).of = None

ClearQueue(t, q) ==
  /\ Clears(t) /\ q \in Top(t).left
  /\ crit[q] = None /\ crit' = [crit EXCEPT ![q] = t]
  /\ LET h == Top(t).h
         released == {m \in ToSet(sendlist[q]) : Matches(m, h)}
     IN /\ ready' = ready \cup {m.id : m \in released}
        /\ sendlist' = [sendlist EXCEPT ![q] = Others(@, h)]
        /\ msgq' = [msgq EXCEPT ![q] = Others(@, h)]
        /\ Replace(t, <<[Top(t) EXCEPT !.left = @ \ {q},
                            !.to = {m.from : m \in released}, !.of = q]>>)
  /\ UNCHANGED <<has_sends, wakeup, fStop, active, manager, queues, calls>>

ClearEnd(t) ==
  /\ Clears(t) /\ Top(t).left = {}
  /\ manager' = None
  /\ Return(t)
  /\ UNCHANGED <<msgq, sendlist, has_sends, wakeup, fStop, active, crit, queues,
                 ready, calls>>

\* Stop: Quit and Join, by the owner of a worker, when no thread is in a call of
\* it (it will be deleted, and they would use it after that).
InUse(u) ==
  \E t \in Thread : \E i \in DOMAIN stack[t] :
    stack[t][i].op \in {"post", "send"} /\ stack[t][i].to = u

Stop(t, u) ==
  /\ t \in App /\ u \in Worker
  /\ Runs(t) /\ calls < MaxCalls
  /\ ~fStop[u] /\ ~InUse(u)
  /\ calls' = calls + 1
  /\ fStop' = [fStop EXCEPT ![u] = TRUE]
  /\ WakeUp({u})
  /\ Call(t, JoinFrame(u))
  /\ UNCHANGED <<msgq, sendlist, has_sends, active, crit, manager, queues, ready>>

Join(t) ==
  /\ stack[t] # <<>> /\ Top(t).op = "join"
  /\ stack[Top(t).of] = <<>>
  /\ Return(t)
  /\ UNCHANGED <<msgq, sendlist, has_sends, wakeup, fStop, active, crit, manager,
                 queues, ready, calls>>

-----------------------------------------------------------------------------
\* What the code of src/base does by itself.
Runtime(t) ==
  \/ Enter(t) \/ Add(t) \/ SendWake(t) \/ SendLoop(t) \/ SendWait(t)
  \/ ReceiveCheck(t) \/ ReceivePop(t)
  \/ GetQueue(t) \/ GetStop(t) \/ GetWait(t)
  \/ \E q \in Thread : ClearQueue(t, q)
  \/ Tell(t) \/ ClearEnd(t) \/ Join(t)

\* What the code on top of it may do.
User(t) ==
  \/ \E u \in Worker, h \in Handler : Post(t, u, h)
  \/ \E u \in Thread \ {t}, h \in Handler : Send(t, u, h)
  \/ \E h \in Handler : ClearBegin(t, h)
  \/ \E u \in Worker : Stop(t, u)

Next == \E t \in Thread : Runtime(t) \/ Handled(t) \/ User(t)

Spec == Init /\ [][Next]_vars

\* The operating system runs every thread, and handlers return.
FairSpec == Spec /\ \A t \in Thread : WF_vars(Runtime(t) \/ Handled(t))

-----------------------------------------------------------------------------
Adds(t, u) == Calls(t) /\ Top(t).at = "add" /\ Top(t).to = u

\* The values of the variables.  A lock is held by the call that took it.
TypeOK ==
  /\ has_sends \in [Thread -> BOOLEAN] /\ wakeup \in [Thread -> BOOLEAN]
  /\ fStop \in [Thread -> BOOLEAN] /\ active \in [Thread -> BOOLEAN]
  /\ crit \in [Thread -> Thread \cup {None}]
  /\ manager \in Thread \cup {None} /\ queues \subseteq Thread
  /\ calls \in 0..MaxCalls /\ ready \subseteq 1..MaxCalls
  /\ \A t \in Thread :
       /\ crit[t] # None => Adds(crit[t], t) \/ Tells(crit[t], t)
       /\ manager = t => stack[t] # <<>> /\ Top(t).op = "clear"
  /\ \A t \in Thread : \A m \in ToSet(msgq[t]) \cup ToSet(sendlist[t]) :
       m \in [id : 1..calls, h : Handler, from : Thread]

Sending(t, i) ==
  \E k \in DOMAIN stack[t] : stack[t][k].op = "send" /\ stack[t][k].id = i

\* The messages sent to u that are not answered yet.
Unanswered(u) ==
  ToSet(sendlist[u]) \cup
  {stack[u][k].sent : k \in {k \in DOMAIN stack[u] :
      stack[u][k].op = "handle" /\ stack[u][k].sent # None}}

\* Send hands out the address of `ready', a variable of its own: it never returns
\* while its message is still listed or being handled, whoever clears the queue
\* and however the calls nest.
NoDanglingReady ==
  \A u \in Thread : \A m \in Unanswered(u) :
    Sending(m.from, m.id) /\ m.id \notin ready

\* ReceiveSends looks at has_sends_ without a lock; nested calls of it clear
\* has_sends_ behind the back of the outer ones.  A message is never listed
\* while has_sends_ is false.
SendsSeen == \A t \in Thread : sendlist[t] # <<>> => has_sends[t]

\* Post holds the lock of a queue and takes the manager's; Clear holds the
\* manager's and takes those of the queues.  They never wait for each other: a
\* queue that is being added is not one that is being cleared.
NoLockCycle ==
  \A t, u \in Thread :
    /\ stack[t] # <<>> /\ Top(t).op = "clear"
    /\ Calls(u) /\ Top(u).at = "add"
    => Top(u).to \notin Top(t).left

\* The types, no send that ReceiveSends would overlook, and no cycle of locks.
Inv == TypeOK /\ SendsSeen /\ NoLockCycle

\* Every call returns: with sends that cross, sends made while a sent message is
\* handled, signals consumed by the wrong one of several nested loops, handlers
\* that are cleared, and whatever a worker was doing when it was told to stop.
\* (As calls are bounded, none of them is under way in the end.)
CallsReturn ==
  []<>(\A t \in Thread : \A k \in DOMAIN stack[t] :
         stack[t][k].op \in {"app", "get", "receive", "handle"})

\* A posted message does not stay in the queue of a thread that runs, though the
\* signal for it may have been consumed by a Send of that thread.
PostDelivered == []<>(\A t \in Worker : msgq[t] = <<>> \/ fStop[t])
=============================================================================
