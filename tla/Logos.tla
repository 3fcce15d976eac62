------------------------------- MODULE Logos -------------------------------
(***************************************************************************)
(* logos (src/cmds/logos.c), which copies the output of a program to the   *)
(* kernel log, line by line, and limits it with token buckets.  A line     *)
(* that does not fit into the buffer is split; a message for which a       *)
(* bucket has no room is dropped, and then nothing is added to the buckets *)
(* until a backoff has passed.  Signals ask for a refill and switch the    *)
(* limit off and on; a fatal one executes logos anew.                      *)
(***************************************************************************)
EXTENDS Integers, Sequences, SequencesExt, FiniteSetsExt

CONSTANTS
  Bucket,      \* the indices of buckets, from 1
  Mandatory,   \* those without room in which a message is dropped
  max_bytes,   \* per bucket
  fill_rate,   \* per bucket, the bytes per second
  Second,      \* ticks of the clock in a second
  Backoff,     \* initial value of `backoff', in ticks
  MaxBackoff,  \* and its maximum
  MAX_LINE_LENGTH,
  Expansion,   \* fix_buf makes of one byte at most so many
  Overhead,    \* bytes of the header and the newline
  Warning,     \* length of overlong_warning
  Long,        \* bound: time since the buckets were filled, in ticks
  MaxDebt,     \* bound: bytes that a bucket lacks in unlimited mode
  Watched      \* the bucket whose messages `owed' counts

ASSUME LogosAssumption ==
  /\ Bucket = 1..Cardinality(Bucket) /\ Mandatory \subseteq Bucket
  /\ max_bytes \in [Bucket -> Nat] /\ fill_rate \in [Bucket -> Nat \ {0}]
  /\ Second \in Nat \ {0}
  /\ Backoff \in Nat \ {0} /\ MaxBackoff \in Nat
  /\ MaxBackoff >= Second /\ MaxBackoff >= Backoff
  /\ MAX_LINE_LENGTH \in Nat \ {0} /\ Expansion \in Nat \ {0}
  /\ Overhead \in Nat \ {0} /\ Warning \in Nat /\ MaxDebt \in Nat
  /\ Watched \in Mandatory
  \* After so long a time everything is full.
  /\ Long \in Nat /\ Long > MaxBackoff
  /\ \A b \in Bucket : Long * fill_rate[b] >= Second * (max_bytes[b] + MaxDebt)

VARIABLES
  pc,         \* "loop", "read", "lines", "warn", "fill", "filling", "room",
              \* "done"
  back,       \* where a call of flush returns to
  total,      \* the bytes of the message that is being flushed
  used,       \* bytes in the buffer, of a line that is not complete
  rest,       \* what has been read and not yet split: TRUE is a newline
  overlong,   \* a part of this line has been flushed
  available,  \* per bucket
  skipped,    \* the buckets whose num_skipped is not 0
  skipping, backoff,
  unset,      \* last_add_time is 0
  elapsed,    \* time since last_add_time, but for `unset'
  unlimited,  \* unlimited_mode
  want,       \* want_unlimited_mode
  owed        \* history: what a leaking bucket holds that gets the messages
              \* let through since the last refill, times Second

text == <<used, rest, overlong>>
limiter == <<available, skipped, skipping, backoff, elapsed, owed>>
vars == <<pc, back, total, text, limiter, unset, unlimited, want>>

Half == [b \in Bucket |-> max_bytes[b] \div 2]

\* init_buckets, and the file disable-log-limits.
Init ==
  /\ pc = "loop" /\ back = "loop" /\ total = 0
  /\ used = 0 /\ rest = <<>> /\ overlong = FALSE
  /\ available = Half /\ skipped = {} /\ skipping = FALSE /\ backoff = Backoff
  /\ unset = TRUE /\ elapsed = 0
  /\ unlimited = FALSE /\ want \in BOOLEAN
  /\ owed = 0

-----------------------------------------------------------------------------
\* flush of n bytes of text.  fix_buf drops carriage returns and expands other
\* control characters; if there is no memory for it the message is lost.
Flush(n, to) ==
  \/ /\ \E k \in 0..(Expansion * n) : total' = Overhead + k
     /\ pc' = "fill" /\ back' = to
  \/ n > 0 /\ pc' = to /\ UNCHANGED <<back, total>>

\* Mutant: switching the limit on does not refill the buckets.
LoopKeepsBuckets ==
  /\ pc = "loop"
  /\ unlimited' = want /\ UNCHANGED unset
  /\ IF used = MAX_LINE_LENGTH
       THEN /\ Flush(used, "read")
            /\ overlong' = TRUE /\ used' = 0
       ELSE pc' = "read" /\ UNCHANGED <<back, total, overlong, used>>
  /\ UNCHANGED <<rest, limiter, want>>

\* The beginning of the main loop: the mode is switched, a full buffer flushed.
Loop ==
  /\ pc = "loop"
  /\ unlimited' = want /\ unset' = (unset \/ unlimited # want)
  /\ IF used = MAX_LINE_LENGTH
       THEN /\ Flush(used, "read")
            /\ overlong' = TRUE /\ used' = 0
       ELSE pc' = "read" /\ UNCHANGED <<back, total, overlong, used>>
  /\ UNCHANGED <<rest, limiter, want>>

\* read returns as much as fits, or less.
Read ==
  /\ pc = "read"
  /\ \E s \in SeqOf(BOOLEAN, MAX_LINE_LENGTH - used) : s # <<>> /\ rest' = s
  /\ pc' = "lines"
  /\ UNCHANGED <<back, total, used, overlong, limiter, unset, unlimited,
                 want>>

\* read is interrupted by a signal.
Interrupted ==
  /\ pc = "read"
  /\ pc' = "loop"
  /\ UNCHANGED <<back, total, text, limiter, unset, unlimited, want>>

\* The program has ended, or there is an error, after which the buffer is flushed
\* even if it is empty.
EndOfFile ==
  /\ pc = "read"
  /\ \/ Flush(used, "done")
     \/ used = 0 /\ pc' = "done" /\ UNCHANGED <<back, total>>
  /\ used' = 0
  /\ UNCHANGED <<rest, overlong, limiter, unset, unlimited, want>>

\* The lines that are complete are flushed one by one, the rest stays in the
\* buffer.
Lines ==
  /\ pc = "lines"
  /\ IF \E i \in DOMAIN rest : rest[i]
       THEN LET p == Min({i \in DOMAIN rest : rest[i]})
            IN /\ Flush(used + p - 1, IF overlong THEN "warn" ELSE "lines")
               /\ rest' = SubSeq(rest, p + 1, Len(rest))
               /\ used' = 0
       ELSE /\ used' = used + Len(rest) /\ rest' = <<>>
            /\ pc' = "loop"
            /\ UNCHANGED <<back, total>>
  /\ UNCHANGED <<overlong, limiter, unset, unlimited, want>>

\* After the end of a line that was split.
Warn ==
  /\ pc = "warn"
  /\ overlong' = FALSE
  /\ Flush(Warning, "lines")
  /\ UNCHANGED <<used, rest, limiter, unset, unlimited, want>>

-----------------------------------------------------------------------------
\* maybe_fill_buckets: the buckets start half full,
Refill ==
  /\ pc = "fill" /\ unset
  /\ unset' = FALSE /\ elapsed' = 0
  /\ available' = Half /\ owed' = 0
  /\ pc' = "room"
  /\ UNCHANGED <<back, total, text, skipped, skipping, backoff, unlimited, want>>

\* or the time since the last filling is computed,
Fill ==
  /\ pc = "fill" /\ ~unset
  /\ pc' = "filling"
  /\ UNCHANGED <<back, total, text, limiter, unset, unlimited, want>>

Filled(tdiff) ==
  [b \in Bucket |-> Min({max_bytes[b],
                       available[b] + (tdiff * fill_rate[b]) \div Second})]

\* Mutant: the time is not noted.
AddToBucketsAgain(tdiff) ==
  IF tdiff >= IF skipping THEN backoff ELSE Second
    THEN available' = Filled(tdiff) /\ unset' = FALSE /\ UNCHANGED elapsed
    ELSE UNCHANGED <<available, unset, elapsed>>

\* Mutant: the time is noted even if nothing was added.
AddToBucketsAlways(tdiff) ==
  IF tdiff >= IF skipping THEN backoff ELSE Second
    THEN /\ available' = Filled(tdiff)
         /\ unset' = FALSE /\ elapsed' = 0
    ELSE elapsed' = 0 /\ UNCHANGED <<available, unset>>

\* and the buckets are filled if it is long enough.  This forgets a signal that
\* has arrived in the meantime.
AddToBuckets(tdiff) ==
  IF tdiff >= IF skipping THEN backoff ELSE Second
    THEN /\ available' = Filled(tdiff)
         /\ unset' = FALSE /\ elapsed' = 0
    ELSE UNCHANGED <<available, unset, elapsed>>

\* The signal may have arrived between the test of last_add_time and its use: then
\* the difference is the time of the clock.
Add ==
  /\ pc = "filling"
  /\ \/ AddToBuckets(elapsed) /\ UNCHANGED owed
     \/ unset /\ AddToBuckets(Long) /\ owed' = 0
  /\ pc' = "room"
  /\ UNCHANGED <<back, total, text, skipped, skipping, backoff, unlimited, want>>

HasRoom == {b \in Bucket : available[b] >= total \/ unlimited}

\* The message is let through: it is in the log.
Passes == Mandatory \subseteq HasRoom

\* all_buckets_have_room, and the message is written if so.  A bucket that has
\* room is charged even if another one has none.  The notices of the beginning
\* and the end of a gap are not limited, and not modelled.
Room ==
  /\ pc = "room"
  /\ unlimited => \A b \in Bucket : available[b] - total >= -MaxDebt
  /\ LET lacking == Bucket \ HasRoom
     IN /\ available' = [b \in Bucket |->
                           IF b \in HasRoom THEN available[b] - total
                           ELSE IF b \in skipped THEN available[b] ELSE 0]
        /\ skipped' = lacking
        /\ skipping' = (lacking # {})
        /\ backoff' = IF ~skipping /\ lacking # {} /\ Min(lacking) \notin skipped
                        THEN Min({2 * backoff, MaxBackoff}) ELSE backoff
        /\ owed' = IF Passes /\ ~unlimited THEN owed + Second * total ELSE owed
  /\ pc' = back
  /\ UNCHANGED <<back, total, text, elapsed, unset, unlimited, want>>

-----------------------------------------------------------------------------
\* The handlers of SIGHUP, SIGUSR1 and SIGUSR2.
refill_ratelimiter ==
  /\ pc # "done"
  /\ unset' = TRUE
  /\ UNCHANGED <<pc, back, total, text, limiter, unlimited, want>>

SwitchRatelimit ==
  /\ pc # "done"
  /\ want' = ~want
  /\ UNCHANGED <<pc, back, total, text, limiter, unset, unlimited>>

\* rejuvinate_process: logos is executed anew, and what it has read is lost.  Or
\* its binary is not found,
GiveUp ==
  /\ pc # "done"
  /\ pc' = "done"
  /\ UNCHANGED <<back, total, text, limiter, unset, unlimited, want>>

\* or it starts from the beginning.
rejuvinate_process ==
  /\ pc # "done"
  /\ pc' = "loop" /\ back' = "loop" /\ total' = 0
  /\ used' = 0 /\ rest' = <<>> /\ overlong' = FALSE
  /\ available' = Half /\ skipped' = {} /\ skipping' = FALSE /\ backoff' = Backoff
  /\ unset' = TRUE /\ elapsed' = 0
  /\ unlimited' = FALSE /\ want' \in BOOLEAN
  /\ owed' = 0

\* Time passes (between reading the clock and noting the time, too little).
Tick ==
  /\ pc \notin {"filling", "done"}
  /\ elapsed' = Min({elapsed + 1, Long})
  /\ owed' = Max({owed - fill_rate[Watched], 0})
  /\ UNCHANGED <<pc, back, total, text, available, skipped, skipping, backoff,
                 unset, unlimited, want>>

Main ==
  \/ Loop \/ Interrupted \/ EndOfFile \/ Lines \/ Warn
  \/ Refill \/ Fill \/ Add \/ Room

Next ==
  \/ Main \/ Read \/ Tick
  \/ refill_ratelimiter \/ SwitchRatelimit \/ rejuvinate_process \/ GiveUp

Spec == Init /\ [][Next]_vars

\* The process runs and time passes.
FairSpec ==
  /\ Spec
  /\ WF_vars(Loop) /\ WF_vars(Lines) /\ WF_vars(Warn)
  /\ WF_vars(Refill \/ Fill \/ Add \/ Room)
  /\ SF_vars(Tick)

-----------------------------------------------------------------------------
MaxMessage == Overhead + Expansion * Max({MAX_LINE_LENGTH, Warning})

\* The type invariant: a bucket holds at most its limit, and the backoff stays
\* between its initial value and its maximum.
TypeOK ==
  /\ pc \in {"loop", "read", "lines", "warn", "fill", "filling", "room", "done"}
  /\ back \in {"loop", "read", "lines", "warn", "done"}
  /\ total \in 0..MaxMessage /\ used \in 0..MAX_LINE_LENGTH
  /\ rest \in SeqOf(BOOLEAN, MAX_LINE_LENGTH)
  /\ \A b \in Bucket : available[b] \in (-MaxDebt)..max_bytes[b]
  /\ skipped \subseteq Bucket /\ backoff \in Backoff..MaxBackoff
  /\ elapsed \in 0..Long
  /\ {overlong, skipping, unset, unlimited, want} \subseteq BOOLEAN

\* The buffer does not overflow, and there is room in it when read is called:
\* reading no bytes would look like the end of the file.
RoomToRead ==
  /\ used + Len(rest) <= MAX_LINE_LENGTH
  /\ pc = "read" => used < MAX_LINE_LENGTH

\* The buckets go below zero in unlimited mode.  When the limit is back they have
\* been refilled before anything is charged to them.
NoDebt ==
  pc = "room" /\ ~unlimited => \A b \in Bucket : available[b] >= 0

\* The types, room for every read, and no debt left by the unlimited mode.
Inv == TypeOK /\ RoomToRead /\ NoDebt

\* The limit is kept: in any stretch of time without a refill, however the
\* messages and the fillings of the buckets fall, no more bytes are let through
\* than a full bucket, what runs in meanwhile, and what a late filling
\* (maybe_fill_buckets only looks at the clock when a message comes) adds to
\* that: at most another full bucket, and at most what runs in during one
\* backoff, and one message that was charged long after the clock was read.
RateBounded ==
  owed <= Second * max_bytes[Watched]
            + Min({Second * max_bytes[Watched],
                   fill_rate[Watched] * MaxBackoff + Second * MaxMessage})

\* A message is lost for want of memory.
Loses ==
  \/ pc = "loop" /\ used = MAX_LINE_LENGTH /\ pc' = "read"
  \/ pc = "lines" /\ pc' \in {"lines", "warn"}
  \/ pc = "warn" /\ pc' = "lines"

\* Every message fits into a half full bucket, and into what a bucket gets at the
\* end of a backoff, which has doubled at least once.
Ample ==
  \A b \in Mandatory :
    /\ Half[b] >= MaxMessage
    /\ Min({2 * Backoff, MaxBackoff}) * fill_rate[b] >= Second * MaxMessage

\* Messages get through again and again if the buckets are large enough for them,
\* though those that have room are charged for the messages that others drop, and
\* the backoff never shrinks; unless there is no memory for the messages, or logos
\* is executed anew for ever.
GetsThrough ==
  /\ Ample
  /\ []<><<Read>>_vars /\ <>[][~rejuvinate_process /\ ~Loses]_vars
    => []<><<Room /\ Passes>>_vars
=============================================================================
