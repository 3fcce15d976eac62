---------------------------- MODULE LogosProofs ----------------------------
(***************************************************************************)
(* Proofs about Logos for any number of buckets, any limits, rates and     *)
(* backoffs, and any length of the buffer.                                 *)
(***************************************************************************)
EXTENDS Logos, TLAPS, SequenceTheorems, WellFoundedInduction

\* The type of `available', which TypeOK only bounds.
BucketsType == available \in [Bucket -> Int]

\* A full buffer is flushed, and empty when read is called after that.
FlushedBeforeRead ==
  pc \in {"fill", "filling", "room"} /\ back = "read" => used = 0

\* What the limiter has counted is not valid: it does not limit, or its buckets
\* will be refilled before they are used.
Stale == unlimited \/ (unset /\ pc \notin {"filling", "room"})

NoDebtNow == Stale \/ \A b \in Bucket : available[b] >= 0

(***************************************************************************)
(* What is owed, what the bucket still holds, and what will run into it    *)
(* for the time since the last filling are together bounded, in two ways.  *)
(* The exception is a message that is charged long after the last filling: *)
(* then nothing was owed before, as it has run off.                        *)
(***************************************************************************)
Full == Second * max_bytes[Watched]
Held == Second * available[Watched]
Due == fill_rate[Watched] * elapsed
OneMessage == Second * MaxMessage
LateBound == fill_rate[Watched] * MaxBackoff + OneMessage

TwiceFull(o, held, due) == o + held + due <= Full + Full \/ o + held <= Full
OneBackoff(o, held, due, at) ==
  \/ o + held + due <= Full + LateBound
  \/ o <= OneMessage /\ (at = "room" => o = 0)

RateInv ==
  /\ owed \in Nat /\ owed <= Full + Full /\ owed <= Full + LateBound
  /\ Stale \/ (TwiceFull(owed, Held, Due) /\ OneBackoff(owed, Held, Due, pc))

IInv ==
  /\ TypeOK /\ RoomToRead
  /\ BucketsType /\ FlushedBeforeRead /\ NoDebtNow /\ RateInv

-----------------------------------------------------------------------------
(* Operators of the libraries *)

\* Min of a nonempty set of natural numbers is one of them, and no other is less.
LEMMA MinNat ==
  ASSUME NEW S \in SUBSET Nat, S # {}
  PROVE  Min(S) \in S /\ \A y \in S : Min(S) <= y
<1>1. PICK x \in S : \A y \in S : ~(<<y, x>> \in OpToRel(<, Nat))
  BY NatLessThanWellFounded, WFMin
<1>2. ASSUME NEW y \in S, y < x PROVE FALSE
  <2>1. <<y, x>> \in OpToRel(<, Nat)
    BY <1>2, Zenon DEF OpToRel
  <2>2. QED
    BY <1>1, <2>1, Zenon
<1>3. \E m \in S : \A y \in S : m <= y
  BY <1>2
<1>4. QED
  BY <1>3, Zenon DEF Min

\* Min and Max of two integers.
LEMMA MinMaxPair ==
  ASSUME NEW a \in Int, NEW b \in Int
  PROVE  /\ Min({a, b}) = IF a <= b THEN a ELSE b
         /\ Max({a, b}) = IF a >= b THEN a ELSE b
<1>1. Min({a, b}) = IF a <= b THEN a ELSE b
  <2>1. CASE a <= b
    BY <2>1 DEF Min
  <2>2. CASE ~(a <= b)
    BY <2>2 DEF Min
  <2>3. QED
    BY <2>1, <2>2
<1>2. Max({a, b}) = IF a >= b THEN a ELSE b
  <2>1. CASE a >= b
    BY <2>1 DEF Max
  <2>2. CASE ~(a >= b)
    BY <2>2 DEF Max
  <2>3. QED
    BY <2>1, <2>2
<1>3. QED
  BY <1>1, <1>2

\* SeqOf gives the sequences of at most n elements.
LEMMA SeqOfIsSeq ==
  ASSUME NEW S, NEW n \in Nat, NEW s
  PROVE  s \in SeqOf(S, n) <=> s \in Seq(S) /\ Len(s) <= n
<1>1. ASSUME s \in SeqOf(S, n) PROVE s \in Seq(S) /\ Len(s) <= n
  <2>1. PICK m \in 0..n : s \in [1..m -> S]
    BY <1>1 DEF SeqOf
  <2>2. QED
    BY <2>1
<1>2. ASSUME s \in Seq(S), Len(s) <= n PROVE s \in SeqOf(S, n)
  <2>1. s \in [1..Len(s) -> S] /\ Len(s) \in 0..n
    BY <1>2
  <2>2. QED
    BY <2>1 DEF SeqOf
<1>3. QED
  BY <1>1, <1>2

\* Products keep the order, and what is added to a bucket in whole bytes is no
\* more than what runs in.
LEMMA Products ==
  ASSUME NEW a \in Int, NEW b \in Int, NEW k \in Nat, a <= b
  PROVE  k * a <= k * b /\ k * a \in Int /\ k * b \in Int
OBVIOUS

LEMMA WholeBytes ==
  ASSUME NEW x \in Nat, NEW s \in Nat \ {0}
  PROVE  x \div s \in Nat /\ s * (x \div s) <= x
OBVIOUS

\* The longest message, and the two halves of the bound of RateBounded.
LEMMA Constants ==
  /\ MaxMessage \in Nat /\ Overhead <= MaxMessage
  /\ \A n \in 0..MAX_LINE_LENGTH \cup 0..Warning :
       Expansion * n \in Nat /\ Expansion * n + Overhead <= MaxMessage
  /\ Second \in Nat /\ fill_rate[Watched] \in Nat /\ max_bytes[Watched] \in Nat
  /\ Full \in Nat /\ LateBound \in Nat /\ OneMessage \in Nat
  /\ fill_rate[Watched] * MaxBackoff \in Nat
  /\ OneMessage <= LateBound
<1> USE LogosAssumption
<1>1. Max({MAX_LINE_LENGTH, Warning}) =
        IF MAX_LINE_LENGTH >= Warning THEN MAX_LINE_LENGTH ELSE Warning
  <2>1. MAX_LINE_LENGTH \in Int /\ Warning \in Int
    OBVIOUS
  <2>2. QED
    BY <2>1, MinMaxPair, Zenon
<1>2. /\ MaxMessage \in Nat /\ Overhead <= MaxMessage
      /\ \A n \in 0..MAX_LINE_LENGTH \cup 0..Warning :
           Expansion * n \in Nat /\ Expansion * n + Overhead <= MaxMessage
  <2> DEFINE m == Max({MAX_LINE_LENGTH, Warning})
  <2>1. m \in Nat /\ MAX_LINE_LENGTH <= m /\ Warning <= m
    BY <1>1
  <2>2. MaxMessage = Overhead + Expansion * m
    BY DEF MaxMessage
  <2> HIDE DEF m
  <2>3. Expansion * m \in Nat /\ Overhead \in Nat
    BY <2>1
  <2>4. ASSUME NEW n \in 0..MAX_LINE_LENGTH \cup 0..Warning
        PROVE  Expansion * n \in Nat /\ Expansion * n <= Expansion * m
    <3>1. PICK d \in Nat : m = n + d
      <4>1. m - n \in Nat /\ m = n + (m - n)
        BY <2>1
      <4>2. QED
        BY <4>1
    <3>2. \A k, e, f \in Nat :
            k * (e + f) = k * e + k * f /\ k * e \in Nat /\ k * f \in Nat
      OBVIOUS
    <3>3. Expansion \in Nat /\ n \in Nat
      BY <2>1
    <3>4. /\ Expansion * (n + d) = Expansion * n + Expansion * d
          /\ Expansion * n \in Nat /\ Expansion * d \in Nat
      <4>1. PICK k \in Nat : k = Expansion
        BY <3>3
      <4>2. PICK e \in Nat : e = n
        BY <3>3
      <4>3. k * (e + d) = k * e + k * d /\ k * e \in Nat /\ k * d \in Nat
        BY <3>2
      <4>4. QED
        BY <4>1, <4>2, <4>3
    <3>5. QED
      BY <3>1, <3>4
  <2>5. \A a, b \in Nat : a + b \in Nat /\ a <= a + b
    OBVIOUS
  <2>6. \A a, b, c \in Nat : a <= b => a + c <= c + b
    OBVIOUS
  <2>7. MaxMessage \in Nat /\ Overhead <= MaxMessage
    BY <2>2, <2>3, <2>5, Zenon
  <2>8. ASSUME NEW n \in 0..MAX_LINE_LENGTH \cup 0..Warning
        PROVE  Expansion * n \in Nat /\ Expansion * n + Overhead <= MaxMessage
    BY <2>2, <2>3, <2>4, <2>6, Zenon
  <2>9. QED
    BY <2>7, <2>8, Zenon
<1>3. /\ Second \in Nat /\ Watched \in Bucket
      /\ fill_rate[Watched] \in Nat /\ max_bytes[Watched] \in Nat
  OBVIOUS
<1>4. /\ Full \in Nat /\ OneMessage \in Nat
      /\ fill_rate[Watched] * MaxBackoff \in Nat
  BY <1>2, <1>3 DEF Full, OneMessage
<1>5. QED
  BY <1>2, <1>3, <1>4 DEF LateBound

-----------------------------------------------------------------------------
\* The buckets start half full.
LEMMA HalfType ==
  /\ Half \in [Bucket -> Int]
  /\ \A b \in Bucket : Half[b] \in 0..max_bytes[b]
<1>1. ASSUME NEW b \in Bucket PROVE max_bytes[b] \div 2 \in 0..max_bytes[b]
  BY LogosAssumption, SMTT(30)
<1>2. QED
  BY <1>1, LogosAssumption DEF Half

\* Nothing is owed when the buckets are at most full.
LEMMA NothingOwed ==
  ASSUME BucketsType, available[Watched] <= max_bytes[Watched], owed = 0
  PROVE  TwiceFull(owed, Held, Due) /\ OneBackoff(owed, Held, Due, pc)
<1>1. Held <= Full /\ Held \in Int
  BY Products, Constants, LogosAssumption DEF BucketsType, Held, Full
<1>2. QED
  BY <1>1, Constants DEF TwiceFull, OneBackoff

LEMMA InitIInv == Init => IInv
<1> SUFFICES ASSUME Init PROVE IInv
  OBVIOUS
<1> USE LogosAssumption DEF Init
<1>1. BucketsType /\ \A b \in Bucket : available[b] \in 0..max_bytes[b]
  BY HalfType DEF BucketsType
<1>2. rest \in SeqOf(BOOLEAN, MAX_LINE_LENGTH)
  <2>1. rest \in Seq(BOOLEAN) /\ Len(rest) <= MAX_LINE_LENGTH
        /\ MAX_LINE_LENGTH \in Nat
    OBVIOUS
  <2>2. QED
    BY <2>1, SeqOfIsSeq, Zenon
<1>3. TypeOK
  <2>1. /\ total \in 0..MaxMessage /\ used \in 0..MAX_LINE_LENGTH
        /\ backoff \in Backoff..MaxBackoff /\ elapsed \in 0..Long
        /\ \A b \in Bucket : available[b] \in (-MaxDebt)..max_bytes[b]
    BY <1>1, Constants DEF BucketsType
  <2>2. QED
    BY <1>2, <2>1 DEF TypeOK
<1>4. RoomToRead /\ FlushedBeforeRead /\ NoDebtNow
  BY <1>1 DEF RoomToRead, FlushedBeforeRead, NoDebtNow
<1>5. RateInv
  BY <1>1, NothingOwed, Constants DEF RateInv
<1>6. QED
  BY <1>1, <1>3, <1>4, <1>5 DEF IInv

-----------------------------------------------------------------------------
(* Types and the buffer *)

Shape == TypeOK /\ BucketsType /\ RoomToRead /\ FlushedBeforeRead

\* A message of n bytes of text has the type of `total'.
LEMMA FlushType ==
  ASSUME NEW n \in 0..MAX_LINE_LENGTH \cup 0..Warning, NEW to, Flush(n, to),
         total \in 0..MaxMessage
  PROVE  /\ total' \in 0..MaxMessage
         /\ (pc' = "fill" /\ back' = to) \/ (pc' = to /\ back' = back)
<1>1. /\ Expansion * n \in Nat /\ Expansion * n + Overhead <= MaxMessage
      /\ Overhead \in Nat /\ MaxMessage \in Nat
  BY LogosAssumption, Constants
<1>2. QED
  BY <1>1 DEF Flush

\* Filling keeps the limits, and takes nothing away.
LEMMA FilledType ==
  ASSUME TypeOK, BucketsType, NEW d \in Nat
  PROVE  /\ Filled(d) \in [Bucket -> Int]
         /\ \A b \in Bucket :
              /\ Filled(d)[b] \in (-MaxDebt)..max_bytes[b]
              /\ available[b] >= 0 => Filled(d)[b] >= 0
              /\ Filled(d)[b] <= available[b] + (d * fill_rate[b]) \div Second
<1> SUFFICES ASSUME NEW b \in Bucket
             PROVE  LET x == available[b] + (d * fill_rate[b]) \div Second
                    IN  /\ Min({max_bytes[b], x}) \in (-MaxDebt)..max_bytes[b]
                        /\ Min({max_bytes[b], x}) \in Int
                        /\ available[b] >= 0 => Min({max_bytes[b], x}) >= 0
                        /\ Min({max_bytes[b], x}) <= x
  BY DEF Filled
<1> DEFINE x == available[b] + (d * fill_rate[b]) \div Second
<1>1. /\ available[b] \in Int /\ available[b] <= max_bytes[b]
      /\ available[b] >= -MaxDebt /\ MaxDebt \in Nat
      /\ max_bytes[b] \in Nat /\ fill_rate[b] \in Nat /\ Second \in Nat \ {0}
  BY LogosAssumption DEF TypeOK, BucketsType
<1>2. d * fill_rate[b] \in Nat
  BY <1>1
<1>3. (d * fill_rate[b]) \div Second \in Nat
  BY <1>1, <1>2, WholeBytes
<1>4. x \in Int /\ x >= available[b]
  BY <1>1, <1>3
<1> HIDE DEF x
<1>5. Min({max_bytes[b], x}) = IF max_bytes[b] <= x THEN max_bytes[b] ELSE x
  <2>1. max_bytes[b] \in Int
    BY <1>1
  <2>2. QED
    BY <1>4, <2>1, MinMaxPair, Zenon
<1>6. /\ Min({max_bytes[b], x}) \in (-MaxDebt)..max_bytes[b]
      /\ Min({max_bytes[b], x}) \in Int
      /\ available[b] >= 0 => Min({max_bytes[b], x}) >= 0
      /\ Min({max_bytes[b], x}) <= x
  BY <1>1, <1>4, <1>5
<1>7. QED
  BY <1>6 DEF x

LEMMA ShapeStep == Shape /\ [Next]_vars => Shape'
<1> SUFFICES ASSUME Shape, [Next]_vars PROVE Shape'
  OBVIOUS
<1> USE DEF Shape
<1>r. /\ rest \in Seq(BOOLEAN) /\ Len(rest) <= MAX_LINE_LENGTH
      /\ Len(rest) \in Nat /\ used \in Nat
      /\ MAX_LINE_LENGTH \in Nat \ {0} /\ Overhead \in Nat /\ Warning \in Nat
  <2>1. MAX_LINE_LENGTH \in Nat \ {0} /\ Overhead \in Nat /\ Warning \in Nat
    BY LogosAssumption
  <2>2. rest \in SeqOf(BOOLEAN, MAX_LINE_LENGTH)
    BY DEF TypeOK
  <2>3. rest \in Seq(BOOLEAN) /\ Len(rest) <= MAX_LINE_LENGTH
    BY <2>1, <2>2, SeqOfIsSeq
  <2>4. QED
    BY <2>1, <2>3 DEF TypeOK
<1>1. CASE Loop
  <2>1. CASE used = MAX_LINE_LENGTH
    <3>1. /\ total' \in 0..MaxMessage
          /\ (pc' = "fill" /\ back' = "read") \/ (pc' = "read" /\ back' = back)
      <4>1. Flush(used, "read")
        BY <1>1, <2>1 DEF Loop
      <4>2. used \in 0..MAX_LINE_LENGTH
        BY <1>r, <2>1
      <4>3. QED
        BY <4>1, <4>2, FlushType DEF TypeOK
    <3>2. used' = 0 /\ overlong' = TRUE /\ rest' = rest
      BY <1>1, <2>1 DEF Loop
    <3>3. QED
      BY <1>1, <1>r, <3>1, <3>2 DEF Loop, limiter, TypeOK, BucketsType,
         RoomToRead, FlushedBeforeRead
  <2>2. CASE used # MAX_LINE_LENGTH
    BY <1>1, <1>r, <2>2 DEF Loop, limiter, TypeOK, BucketsType, RoomToRead,
       FlushedBeforeRead
  <2>3. QED
    BY <2>1, <2>2
<1>2. CASE Read
  <2>1. PICK s \in SeqOf(BOOLEAN, MAX_LINE_LENGTH - used) : s # <<>> /\ rest' = s
    BY <1>2 DEF Read
  <2>2. MAX_LINE_LENGTH - used \in Nat
    BY <1>r DEF TypeOK
  <2>3. s \in Seq(BOOLEAN) /\ Len(s) <= MAX_LINE_LENGTH - used
    BY <2>1, <2>2, SeqOfIsSeq
  <2>4. used + Len(s) <= MAX_LINE_LENGTH /\ Len(s) <= MAX_LINE_LENGTH
    BY <1>r, <2>3
  <2>5. s \in SeqOf(BOOLEAN, MAX_LINE_LENGTH)
    BY <1>r, <2>3, <2>4, SeqOfIsSeq
  <2>6. QED
    BY <1>2, <2>1, <2>4, <2>5 DEF Read, limiter, TypeOK, BucketsType, RoomToRead,
       FlushedBeforeRead
<1>3. CASE Interrupted
  BY <1>3 DEF Interrupted, text, limiter, TypeOK, BucketsType, RoomToRead,
     FlushedBeforeRead
<1>4. CASE EndOfFile
  <2>1. /\ total' \in 0..MaxMessage /\ pc' \in {"fill", "done"}
        /\ back' \in {"loop", "read", "lines", "warn", "done"}
    <3>1. CASE Flush(used, "done")
      <4>1. used \in 0..MAX_LINE_LENGTH
        BY <1>r DEF RoomToRead
      <4>2. QED
        BY <3>1, <4>1, FlushType DEF TypeOK
    <3>2. CASE used = 0 /\ pc' = "done" /\ UNCHANGED <<back, total>>
      BY <3>2 DEF TypeOK
    <3>3. QED
      BY <1>4, <3>1, <3>2 DEF EndOfFile
  <2>2. QED
    BY <1>4, <1>r, <2>1 DEF EndOfFile, limiter, TypeOK, BucketsType, RoomToRead,
       FlushedBeforeRead
<1>5. CASE Lines
  <2>1. CASE \E i \in DOMAIN rest : rest[i]
    <3> DEFINE p == Min({i \in DOMAIN rest : rest[i]})
    <3>1. p \in 1..Len(rest)
      <4>1. {i \in DOMAIN rest : rest[i]} \in SUBSET Nat
        BY <1>r
      <4>2. p \in {i \in DOMAIN rest : rest[i]}
        BY <2>1, <4>1, MinNat
      <4>3. QED
        BY <1>r, <4>2
    <3>2. /\ Flush(used + p - 1, IF overlong THEN "warn" ELSE "lines")
          /\ rest' = SubSeq(rest, p + 1, Len(rest)) /\ used' = 0
      BY <1>5, <2>1 DEF Lines
    <3> HIDE DEF p
    <3>3. /\ total' \in 0..MaxMessage
          /\ \/ pc' = "fill" /\ back' \in {"warn", "lines"}
             \/ pc' \in {"warn", "lines"} /\ back' = back
      <4>1. used + p - 1 \in 0..MAX_LINE_LENGTH
        BY <1>r, <3>1 DEF RoomToRead
      <4>2. QED
        BY <3>2, <4>1, FlushType DEF TypeOK
    <3>4. /\ rest' \in Seq(BOOLEAN) /\ Len(rest') <= MAX_LINE_LENGTH
          /\ Len(rest') \in Nat
      BY <1>r, <3>1, <3>2
    <3>5. rest' \in SeqOf(BOOLEAN, MAX_LINE_LENGTH)
      BY <1>r, <3>4, SeqOfIsSeq
    <3>6. UNCHANGED <<overlong, limiter, unset, unlimited, want>>
      BY <1>5 DEF Lines
    <3>7. QED
      BY <1>r, <3>2, <3>3, <3>4, <3>5, <3>6 DEF limiter, TypeOK, BucketsType,
         RoomToRead, FlushedBeforeRead
  <2>2. CASE ~ \E i \in DOMAIN rest : rest[i]
    <3>1. used' = used + Len(rest) /\ rest' = <<>> /\ pc' = "loop"
      BY <1>5, <2>2 DEF Lines
    <3>2. rest' \in SeqOf(BOOLEAN, MAX_LINE_LENGTH)
      <4>1. <<>> \in Seq(BOOLEAN) /\ Len(<<>>) <= MAX_LINE_LENGTH
        BY <1>r
      <4>2. QED
        BY <1>r, <3>1, <4>1, SeqOfIsSeq
    <3>3. UNCHANGED <<back, total, overlong, limiter, unset, unlimited, want>>
      BY <1>5, <2>2 DEF Lines
    <3>4. QED
      BY <1>r, <3>1, <3>2, <3>3 DEF limiter, TypeOK, BucketsType, RoomToRead,
         FlushedBeforeRead
  <2>3. QED
    BY <2>1, <2>2
<1>6. CASE Warn
  <2>1. /\ total' \in 0..MaxMessage
        /\ (pc' = "fill" /\ back' = "lines") \/ (pc' = "lines" /\ back' = back)
    <3>1. Flush(Warning, "lines") /\ Warning \in 0..Warning
      BY <1>6, <1>r DEF Warn
    <3>2. QED
      BY <3>1, FlushType DEF TypeOK
  <2>2. QED
    BY <1>6, <1>r, <2>1 DEF Warn, limiter, TypeOK, BucketsType, RoomToRead,
       FlushedBeforeRead
<1>7. CASE Refill
  <2>1. available' \in [Bucket -> Int]
        /\ \A b \in Bucket : available'[b] \in (-MaxDebt)..max_bytes[b]
    BY <1>7, HalfType, LogosAssumption DEF Refill
  <2>2. elapsed' \in 0..Long /\ unset' = FALSE /\ pc' = "room"
    BY <1>7, LogosAssumption DEF Refill
  <2>3. UNCHANGED <<back, total, text, skipped, skipping, backoff, unlimited, want>>
    BY <1>7 DEF Refill
  <2>4. QED
    BY <1>7, <2>1, <2>2, <2>3 DEF Refill, text, TypeOK, BucketsType, RoomToRead,
       FlushedBeforeRead
<1>8. CASE Fill
  BY <1>8 DEF Fill, text, limiter, TypeOK, BucketsType, RoomToRead,
     FlushedBeforeRead
<1>9. CASE Add
  <2>1. elapsed \in Nat /\ Long \in Nat
    BY LogosAssumption DEF TypeOK
  <2>2. PICK d \in {elapsed, Long} : AddToBuckets(d)
    BY <1>9 DEF Add
  <2>3. /\ available' \in [Bucket -> Int]
        /\ \A b \in Bucket : available'[b] \in (-MaxDebt)..max_bytes[b]
        /\ elapsed' \in 0..Long /\ unset' \in BOOLEAN
    <3>1. CASE available' = Filled(d) /\ unset' = FALSE /\ elapsed' = 0
      <4>1. d \in Nat
        BY <2>1, <2>2
      <4>2. /\ Filled(d) \in [Bucket -> Int]
            /\ \A b \in Bucket : Filled(d)[b] \in (-MaxDebt)..max_bytes[b]
        BY <4>1, FilledType, Zenon
      <4>3. elapsed' \in 0..Long
        BY <2>1, <3>1
      <4>4. QED
        BY <3>1, <4>2, <4>3
    <3>2. CASE UNCHANGED <<available, unset, elapsed>>
      BY <3>2 DEF TypeOK, BucketsType
    <3>3. QED
      BY <2>2, <3>1, <3>2 DEF AddToBuckets
  <2>4. QED
    BY <1>9, <2>3 DEF Add, text, TypeOK, BucketsType, RoomToRead,
       FlushedBeforeRead
<1>10. CASE Room
  <2>1. /\ available' \in [Bucket -> Int]
        /\ \A b \in Bucket : available'[b] \in (-MaxDebt)..max_bytes[b]
    <3> SUFFICES ASSUME NEW b \in Bucket
                 PROVE  available'[b] \in (-MaxDebt)..max_bytes[b]
      BY <1>10 DEF Room, TypeOK, BucketsType
    <3>1. /\ available[b] \in Int /\ available[b] \in (-MaxDebt)..max_bytes[b]
          /\ MaxDebt \in Nat /\ max_bytes[b] \in Nat /\ total \in Nat
      BY LogosAssumption, Constants DEF TypeOK, BucketsType
    <3>2. CASE b \in HasRoom
      <4>1. available'[b] = available[b] - total
        BY <1>10, <3>2 DEF Room
      <4>2. available[b] - total >= -MaxDebt
        BY <1>10, <3>1, <3>2 DEF Room, HasRoom
      <4>3. QED
        BY <3>1, <4>1, <4>2
    <3>3. CASE b \notin HasRoom
      BY <1>10, <3>1, <3>3 DEF Room
    <3>4. QED
      BY <3>2, <3>3
  <2>2. skipped' \subseteq Bucket /\ skipping' \in BOOLEAN
    BY <1>10 DEF Room
  <2>3. backoff' \in Backoff..MaxBackoff
    <3>1. Min({2 * backoff, MaxBackoff})
            = IF 2 * backoff <= MaxBackoff THEN 2 * backoff ELSE MaxBackoff
      <4>1. 2 * backoff \in Int /\ MaxBackoff \in Int
        BY LogosAssumption DEF TypeOK
      <4>2. QED
        BY <4>1, MinMaxPair, Zenon
    <3>2. backoff' \in {backoff, Min({2 * backoff, MaxBackoff})}
      BY <1>10 DEF Room
    <3>3. QED
      BY <3>1, <3>2, LogosAssumption, SMTT(30) DEF TypeOK
  <2>4. pc' = back /\ UNCHANGED <<back, total, text, elapsed, unset, unlimited, want>>
    BY <1>10 DEF Room
  <2>5. TypeOK' /\ BucketsType'
    BY <2>1, <2>2, <2>3, <2>4 DEF text, TypeOK, BucketsType
  <2>6. RoomToRead' /\ FlushedBeforeRead'
    BY <1>10, <1>r, <2>4 DEF Room, text, TypeOK, RoomToRead, FlushedBeforeRead
  <2>7. QED
    BY <2>5, <2>6
<1>11. CASE Tick
  <2>1. elapsed' \in 0..Long
    <3>1. elapsed + 1 \in Int /\ Long \in Int /\ Long \in Nat /\ elapsed \in 0..Long
      BY LogosAssumption DEF TypeOK
    <3>2. Min({elapsed + 1, Long}) = IF elapsed + 1 <= Long THEN elapsed + 1 ELSE Long
      BY <3>1, MinMaxPair, Zenon
    <3>3. QED
      BY <1>11, <3>1, <3>2 DEF Tick
  <2>2. QED
    BY <1>11, <2>1 DEF Tick, text, TypeOK, BucketsType, RoomToRead,
       FlushedBeforeRead
<1>12. CASE refill_ratelimiter
  BY <1>12 DEF refill_ratelimiter, text, limiter, TypeOK, BucketsType, RoomToRead,
     FlushedBeforeRead
<1>13. CASE SwitchRatelimit
  BY <1>13 DEF SwitchRatelimit, text, limiter, TypeOK, BucketsType, RoomToRead,
     FlushedBeforeRead
<1>14. CASE rejuvinate_process
  <2>1. available' \in [Bucket -> Int]
        /\ \A b \in Bucket : available'[b] \in (-MaxDebt)..max_bytes[b]
    BY <1>14, HalfType, LogosAssumption DEF rejuvinate_process
  <2>2. rest' \in SeqOf(BOOLEAN, MAX_LINE_LENGTH) /\ Len(rest') = 0
    <3>1. <<>> \in Seq(BOOLEAN) /\ Len(<<>>) = 0 /\ 0 <= MAX_LINE_LENGTH
      BY <1>r
    <3>2. QED
      BY <1>14, <1>r, <3>1, SeqOfIsSeq DEF rejuvinate_process
  <2>3. /\ pc' = "loop" /\ back' = "loop" /\ total' \in 0..MaxMessage
        /\ used' = 0 /\ backoff' \in Backoff..MaxBackoff /\ elapsed' \in 0..Long
        /\ skipped' = {} /\ overlong' = FALSE /\ skipping' = FALSE
        /\ unset' = TRUE /\ unlimited' = FALSE /\ want' \in BOOLEAN
    BY <1>14, LogosAssumption, Constants DEF rejuvinate_process
  <2>4. TypeOK' /\ BucketsType'
    <3>1. {overlong', skipping', unset', unlimited', want'} \subseteq BOOLEAN
      BY <2>3
    <3>2. used' \in 0..MAX_LINE_LENGTH /\ skipped' \subseteq Bucket
      BY <1>r, <2>3
    <3>3. QED
      BY <2>1, <2>2, <2>3, <3>1, <3>2 DEF TypeOK, BucketsType
  <2>5. RoomToRead' /\ FlushedBeforeRead'
    BY <1>r, <2>2, <2>3 DEF RoomToRead, FlushedBeforeRead
  <2>6. QED
    BY <2>4, <2>5
<1>15. CASE GiveUp
  BY <1>15 DEF GiveUp, text, limiter, TypeOK, BucketsType, RoomToRead,
     FlushedBeforeRead
<1>16. CASE UNCHANGED vars
  BY <1>16 DEF vars, text, limiter, TypeOK, BucketsType, RoomToRead,
     FlushedBeforeRead
<1>17. QED
  BY <1>1, <1>2, <1>3, <1>4, <1>5, <1>6, <1>7, <1>8, <1>9, <1>10, <1>11, <1>12,
     <1>13, <1>14, <1>15, <1>16 DEF Next, Main

-----------------------------------------------------------------------------
(* The limiter *)

LEMMA Distributes ==
  ASSUME NEW a \in Int, NEW b \in Int, NEW k \in Int
  PROVE  k * (a + b) = k * a + k * b /\ k * (a - b) = k * a - k * b
         /\ k * a \in Int /\ k * b \in Int
OBVIOUS

\* In whole bytes, no bucket holds more than its limit.
LEMMA HeldBounds ==
  ASSUME Shape
  PROVE  /\ available[Watched] \in Int /\ available[Watched] <= max_bytes[Watched]
         /\ Held \in Int /\ Held <= Full /\ Due \in Nat
         /\ available[Watched] >= 0 => Held >= 0
         /\ elapsed <= MaxBackoff => Due <= fill_rate[Watched] * MaxBackoff
<1>1. /\ available[Watched] \in Int /\ available[Watched] <= max_bytes[Watched]
      /\ elapsed \in Nat /\ MaxBackoff \in Nat
  BY LogosAssumption DEF Shape, TypeOK, BucketsType
<1>2. Held \in Int /\ Held <= Full
  <2>1. PICK a \in Int, b \in Int, k \in Nat :
          /\ a = available[Watched] /\ b = max_bytes[Watched] /\ k = Second
          /\ a <= b
    BY <1>1, Constants
  <2>2. k * a <= k * b /\ k * a \in Int
    BY <2>1, Products, Zenon
  <2>3. QED
    BY <2>1, <2>2, Zenon DEF Held, Full
<1>3. Due \in Nat
  BY <1>1, Constants DEF Due
<1>4. available[Watched] >= 0 => Held >= 0
  BY <1>1, Constants DEF Held
<1>5. ASSUME elapsed <= MaxBackoff PROVE Due <= fill_rate[Watched] * MaxBackoff
  <2>1. PICK a \in Int, b \in Int, k \in Nat :
          /\ a = elapsed /\ b = MaxBackoff /\ k = fill_rate[Watched] /\ a <= b
    BY <1>1, <1>5, Constants
  <2>2. k * a <= k * b
    BY <2>1, Products, Zenon
  <2>3. QED
    BY <2>1, <2>2, Zenon DEF Due
<1>6. QED
  BY <1>1, <1>2, <1>3, <1>4, <1>5

\* RateInv of the next state, with a name for every number in it.
LEMMA RateInvNext ==
  ASSUME NEW o \in Nat, NEW held \in Int, NEW due \in Nat,
         owed' = o, Held' = held, Due' = due,
         o <= Full + Full, o <= Full + LateBound,
         Stale' \/ (TwiceFull(o, held, due) /\ OneBackoff(o, held, due, pc'))
  PROVE  RateInv'
BY Zenon DEF RateInv, TwiceFull, OneBackoff

LEMMA HeldNext ==
  ASSUME Shape'
  PROVE  \E held \in Int, due \in Nat :
           /\ Held' = held /\ Due' = due /\ held <= Full
           /\ available'[Watched] >= 0 => held >= 0
<1>1. (Shape => /\ Held \in Int /\ Held <= Full /\ Due \in Nat
                /\ available[Watched] >= 0 => Held >= 0)'
  BY HeldBounds, PTL
<1>2. Full' = Full
  BY DEF Full
<1>3. QED
  BY <1>1, <1>2, Zenon

\* A step that does not touch the limiter and does not make it valid.
LEMMA Quiet ==
  ASSUME NoDebtNow, RateInv, UNCHANGED limiter,
         Stale => Stale', pc' = "room" => pc = "room"
  PROVE  NoDebtNow' /\ RateInv'
<1>1. UNCHANGED <<available, elapsed, owed, Held, Due>>
  BY DEF limiter, Held, Due
<1>2. NoDebtNow'
  BY <1>1 DEF NoDebtNow
<1>3. RateInv'
  BY <1>1 DEF RateInv, TwiceFull, OneBackoff
<1>4. QED
  BY <1>2, <1>3

\* The limiter starts anew: nothing is owed.
LEMMA Anew ==
  ASSUME Shape', owed' = 0, \A b \in Bucket : available'[b] >= 0
  PROVE  NoDebtNow' /\ RateInv'
<1>1. PICK held \in Int, due \in Nat : Held' = held /\ Due' = due /\ held <= Full
  BY HeldNext
<1>2. NoDebtNow'
  BY DEF NoDebtNow
<1>3. TwiceFull(0, held, due) /\ OneBackoff(0, held, due, pc')
  BY <1>1, Constants DEF TwiceFull, OneBackoff
<1>4. QED
  BY <1>1, <1>2, <1>3, Constants, RateInvNext

\* Time passes: r runs off, and r more is due.
LEMMA TickSum ==
  ASSUME NEW o \in Nat, NEW h \in Int, NEW d \in Nat, NEW r \in Nat,
         NEW d2 \in Nat, NEW at, d2 <= d + r, h <= Full, NEW o2 \in Nat,
         o2 = IF o >= r THEN o - r ELSE 0
  PROVE  /\ TwiceFull(o, h, d) => TwiceFull(o2, h, d2)
         /\ OneBackoff(o, h, d, at) => OneBackoff(o2, h, d2, at)
<1>1. Full \in Nat /\ LateBound \in Nat /\ OneMessage \in Nat
  BY Constants
<1>2. CASE o >= r
  BY <1>1, <1>2 DEF TwiceFull, OneBackoff
<1>3. CASE ~(o >= r)
  BY <1>1, <1>3 DEF TwiceFull, OneBackoff
<1>4. QED
  BY <1>2, <1>3

\* A message is charged to the bucket, and if it is let through, is owed.
LEMMA RoomSum ==
  ASSUME NEW o \in Nat, NEW h \in Int, NEW d \in Nat, NEW o2 \in Nat,
         NEW h2 \in Nat, NEW at,
         TwiceFull(o, h, d), OneBackoff(o, h, d, "room"), h <= Full, at # "room",
         \/ o2 = o /\ h2 <= h
         \/ o2 + h2 = o + h /\ o2 <= o + OneMessage
  PROVE  /\ TwiceFull(o2, h2, d) /\ OneBackoff(o2, h2, d, at)
         /\ o2 <= Full + Full /\ o2 <= Full + LateBound
<1>1. /\ Full \in Nat /\ LateBound \in Nat /\ OneMessage \in Nat
      /\ OneMessage <= LateBound
  BY Constants
<1>2. TwiceFull(o2, h2, d) /\ o2 <= Full + Full
  BY <1>1 DEF TwiceFull
<1>3. OneBackoff(o2, h2, d, at) /\ o2 <= Full + LateBound
  BY <1>1 DEF OneBackoff
<1>4. QED
  BY <1>2, <1>3

\* Filling adds no more than what is due.
LEMMA FillRate ==
  ASSUME Shape, available' = Filled(elapsed), elapsed' = 0
  PROVE  Held' <= Held + Due /\ Due' = 0
<1> DEFINE a == available[Watched]
           r == fill_rate[Watched]
           q == (elapsed * r) \div Second
           f == Filled(elapsed)[Watched]
<1>1. /\ a \in Int /\ elapsed \in Nat /\ r \in Nat /\ Second \in Nat \ {0}
      /\ Watched \in Bucket
  BY HeldBounds, Constants, LogosAssumption DEF Shape, TypeOK
<1>2. elapsed * r \in Nat /\ r * elapsed = elapsed * r
  BY <1>1
<1>3. q \in Nat /\ Second * q <= elapsed * r
  BY <1>1, <1>2, WholeBytes
<1>4. f \in Int /\ f <= a + q
  BY <1>1, FilledType DEF Shape
<1> HIDE DEF a, r, q, f
<1>5. Second * f <= Second * (a + q)
  BY <1>1, <1>3, <1>4, Products
<1>6. Second * (a + q) = Second * a + Second * q /\ Second * a \in Int
      /\ Second * q \in Int /\ Second * f \in Int
  BY <1>1, <1>3, <1>4, Distributes
<1>7. Second * f <= Second * a + r * elapsed
  BY <1>2, <1>3, <1>5, <1>6
<1>8. Held' = Second * f /\ Held = Second * a /\ Due = r * elapsed
  BY DEF Held, Due, a, r, f
<1>9. Due' = 0
  BY <1>1 DEF Due, r
<1>10. QED
  BY <1>7, <1>8, <1>9, Zenon

LEMMA LimiterStep ==
  Shape /\ NoDebtNow /\ RateInv /\ Shape' /\ [Next]_vars => NoDebtNow' /\ RateInv'
<1> SUFFICES ASSUME Shape, NoDebtNow, RateInv, Shape', [Next]_vars
             PROVE  NoDebtNow' /\ RateInv'
  OBVIOUS
<1>t. /\ Watched \in Bucket /\ total \in Nat /\ total <= MaxMessage
      /\ owed \in Nat /\ elapsed \in Nat /\ owed <= Full + Full
      /\ owed <= Full + LateBound
      /\ unlimited \in BOOLEAN /\ unset \in BOOLEAN
      /\ \A b \in Bucket : available[b] \in Int
  BY LogosAssumption, Constants DEF Shape, TypeOK, RateInv, BucketsType
<1>c. OneMessage \in Nat
  BY Constants
<1>f. PICK held \in Int, due \in Nat :
        /\ Held' = held /\ Due' = due /\ held <= Full
        /\ available'[Watched] >= 0 => held >= 0
  BY HeldNext
<1>1. CASE Loop
  <2>1. UNCHANGED limiter /\ pc' \in {"fill", "read"}
    BY <1>1 DEF Loop, Flush
  <2>2. Stale => Stale'
    BY <1>1, <2>1 DEF Loop, Stale
  <2>3. QED
    BY <2>1, <2>2, Quiet
<1>2. CASE Read \/ Interrupted \/ EndOfFile \/ Lines \/ Warn \/ GiveUp
  <2>1. UNCHANGED <<limiter, unset, unlimited>> /\ pc' \notin {"filling", "room"}
    BY <1>2 DEF Read, Interrupted, EndOfFile, Lines, Warn, GiveUp, Flush
  <2>2. Stale => Stale'
    BY <2>1 DEF Stale
  <2>3. QED
    BY <2>1, <2>2, Quiet
<1>3. CASE Refill
  <2>1. owed' = 0 /\ \A b \in Bucket : available'[b] >= 0
    BY <1>3, HalfType, LogosAssumption DEF Refill
  <2>2. QED
    BY <2>1, Anew
<1>4. CASE Fill
  <2>1. UNCHANGED limiter /\ pc' = "filling" /\ unlimited' = unlimited /\ ~unset
    BY <1>4 DEF Fill
  <2>2. Stale => Stale'
    BY <2>1 DEF Stale
  <2>3. QED
    BY <2>1, <2>2, Quiet
<1>5. CASE Add
  <2>1. /\ pc = "filling" /\ pc' = "room" /\ unlimited' = unlimited
        /\ Stale = unlimited /\ Stale' = unlimited
    BY <1>5, <1>t DEF Add, Stale
  <2>2. NoDebtNow'
    <3> SUFFICES ASSUME ~unlimited, NEW b \in Bucket PROVE available'[b] >= 0
      BY <2>1 DEF NoDebtNow
    <3>1. available[b] >= 0
      BY <2>1 DEF NoDebtNow
    <3>2. PICK d \in {elapsed, Long} : AddToBuckets(d)
      BY <1>5 DEF Add
    <3>3. d \in Nat
      BY <1>t, <3>2, LogosAssumption
    <3>4. Filled(d)[b] >= 0
      BY <3>1, <3>3, FilledType DEF Shape
    <3>5. available' \in {available, Filled(d)}
      BY <3>2 DEF AddToBuckets
    <3>6. QED
      BY <3>1, <3>4, <3>5
  <2>3. CASE owed' = 0
    <3>1. TwiceFull(0, held, due) /\ OneBackoff(0, held, due, pc')
      BY <1>f, Constants DEF TwiceFull, OneBackoff
    <3>2. QED
      BY <1>f, <2>2, <2>3, <3>1, Constants, RateInvNext
  <2>4. CASE UNCHANGED owed /\ AddToBuckets(elapsed)
    <3>1. CASE unlimited
      BY <1>f, <1>t, <2>1, <2>2, <2>4, <3>1, RateInvNext
    <3>2. CASE ~unlimited
      <4>1. TwiceFull(owed, Held, Due) /\ OneBackoff(owed, Held, Due, pc)
        BY <2>1, <3>2 DEF RateInv
      <4>2. /\ Held \in Int /\ Held <= Full /\ Due \in Nat /\ Held >= 0
            /\ elapsed <= MaxBackoff => Due <= fill_rate[Watched] * MaxBackoff
        BY <1>t, <2>1, <3>2, HeldBounds DEF NoDebtNow
      <4>3. CASE available' = Filled(elapsed) /\ elapsed' = 0
        <5>1. held <= Held + Due /\ due = 0
          BY <1>f, <4>3, FillRate, Zenon
        <5>2. TwiceFull(owed, held, due)
          BY <1>f, <1>t, <4>1, <4>2, <5>1, Constants DEF TwiceFull
        <5>3. OneBackoff(owed, held, due, pc')
          BY <1>f, <1>t, <4>1, <4>2, <5>1, Constants DEF OneBackoff
        <5>4. QED
          BY <1>f, <1>t, <2>2, <2>4, <5>2, <5>3, RateInvNext
      <4>4. CASE UNCHANGED <<available, elapsed>> /\ elapsed <= MaxBackoff
        <5>1. held = Held /\ due = Due
          BY <1>f, <4>4 DEF Held, Due
        <5>2. TwiceFull(owed, held, due)
          BY <4>1, <5>1
        <5>3. OneBackoff(owed, held, due, pc')
          <6>1. owed <= OneMessage => owed + Held + Due <= Full + LateBound
            BY <1>t, <4>2, <4>4, Constants DEF LateBound
          <6>2. QED
            BY <4>1, <5>1, <6>1 DEF OneBackoff
        <5>4. QED
          BY <1>f, <1>t, <2>2, <2>4, <5>2, <5>3, RateInvNext
      <4>5. QED
        <5>1. (IF skipping THEN backoff ELSE Second) <= MaxBackoff
          BY LogosAssumption DEF Shape, TypeOK
        <5>2. (IF skipping THEN backoff ELSE Second) \in Nat
          BY LogosAssumption DEF Shape, TypeOK
        <5>3. elapsed >= (IF skipping THEN backoff ELSE Second)
              \/ elapsed <= MaxBackoff
          BY <1>t, <5>1, <5>2, LogosAssumption
        <5>4. QED
          BY <2>4, <4>3, <4>4, <5>3 DEF AddToBuckets
    <3>3. QED
      BY <3>1, <3>2
  <2>5. QED
    BY <1>5, <2>3, <2>4 DEF Add
<1>6. CASE Room
  <2>1. /\ pc = "room" /\ unlimited' = unlimited /\ elapsed' = elapsed
        /\ Stale = unlimited /\ pc' # "room"
        /\ unlimited => Stale'
    BY <1>6, <1>t DEF Room, Stale, Shape, TypeOK
  <2>2. CASE unlimited
    <3>1. Stale' /\ owed' = owed
      BY <1>6, <2>1, <2>2 DEF Room
    <3>2. NoDebtNow'
      BY <3>1 DEF NoDebtNow
    <3>3. QED
      BY <1>f, <1>t, <3>1, <3>2, RateInvNext
  <2>3. CASE ~unlimited
    <3>1. /\ \A b \in Bucket : available[b] >= 0
          /\ TwiceFull(owed, Held, Due) /\ OneBackoff(owed, Held, Due, pc)
      BY <2>1, <2>3 DEF NoDebtNow, RateInv
    <3>2. \A b \in Bucket : available'[b] >= 0 /\ available'[b] <= available[b]
      BY <1>6, <1>t, <2>3, <3>1 DEF Room, HasRoom
    <3>3. NoDebtNow'
      BY <3>2 DEF NoDebtNow
    <3>4. held >= 0 /\ Held \in Int /\ Due \in Nat /\ due = Due
      BY <1>f, <1>t, <2>1, <3>2, HeldBounds DEF Due
    <3>5. /\ owed' \in Nat
          /\ \/ owed' = owed /\ held <= Held
             \/ owed' + held = owed + Held /\ owed' <= owed + OneMessage
      <4>1. /\ available[Watched] \in Int /\ available'[Watched] \in Int
            /\ Second \in Nat
        BY <1>t, Constants DEF Shape, BucketsType
      <4>2. held = Second * available'[Watched] /\ Held = Second * available[Watched]
        BY <1>f DEF Held
      <4>3. CASE Passes
        <5>1. Watched \in HasRoom
          BY <4>3, LogosAssumption DEF Passes
        <5>2. available'[Watched] = available[Watched] - total
              /\ owed' = owed + Second * total
          BY <1>6, <1>t, <2>3, <4>3, <5>1 DEF Room
        <5>3. Second * (available[Watched] - total)
                = Second * available[Watched] - Second * total
              /\ Second * total \in Int
          BY <1>t, <4>1, Distributes
        <5>4. Second * total <= OneMessage /\ Second * total \in Nat
          BY <1>t, <4>1, Constants, Products DEF OneMessage
        <5>5. PICK x \in Nat : x = Second * total
          BY <5>4
        <5>6. held = Held - x /\ x <= OneMessage /\ owed' = owed + x
          BY <4>2, <5>2, <5>3, <5>4, <5>5
        <5>7. QED
          BY <1>t, <1>c, <3>4, <5>6
      <4>4. CASE ~Passes
        <5>1. owed' = owed
          BY <1>6, <4>4 DEF Room
        <5>2. Second * available'[Watched] <= Second * available[Watched]
          BY <1>t, <3>2, <4>1, Products
        <5>3. QED
          BY <1>t, <4>2, <5>1, <5>2
      <4>5. QED
        BY <4>3, <4>4
    <3>6. held \in Nat /\ Held <= Full
      BY <3>4, HeldBounds
    <3>7. /\ TwiceFull(owed', held, due) /\ OneBackoff(owed', held, due, pc')
          /\ owed' <= Full + Full /\ owed' <= Full + LateBound
      <4>1. TwiceFull(owed, Held, due) /\ OneBackoff(owed, Held, due, "room")
        BY <2>1, <3>1, <3>4, Zenon
      <4>2. PICK o \in Nat, o2 \in Nat, h \in Int :
              /\ o = owed /\ o2 = owed' /\ h = Held
              /\ TwiceFull(o, h, due) /\ OneBackoff(o, h, due, "room") /\ h <= Full
              /\ \/ o2 = o /\ held <= h
                 \/ o2 + held = o + h /\ o2 <= o + OneMessage
        BY <1>t, <3>4, <3>5, <3>6, <4>1, Zenon
      <4>3. /\ TwiceFull(o2, held, due) /\ OneBackoff(o2, held, due, pc')
            /\ o2 <= Full + Full /\ o2 <= Full + LateBound
        <5>1. /\ TwiceFull(o, h, due) /\ OneBackoff(o, h, due, "room") /\ h <= Full
              /\ \/ o2 = o /\ held <= h
                 \/ o2 + held = o + h /\ o2 <= o + OneMessage
          BY <4>2, Zenon
        <5>2. held \in Nat
          BY <3>6, Zenon
        <5>3. pc' # "room"
          BY <2>1, Zenon
        <5>4. QED
          BY <5>1, <5>2, <5>3, RoomSum
      <4>4. QED
        BY <4>2, <4>3, Zenon
    <3>8. QED
      BY <1>f, <3>3, <3>5, <3>7, RateInvNext
  <2>4. QED
    BY <2>2, <2>3
<1>7. CASE Tick
  <2>1. /\ UNCHANGED <<available, pc, unset, unlimited>>
        /\ owed' = Max({owed - fill_rate[Watched], 0})
        /\ elapsed' = Min({elapsed + 1, Long})
    BY <1>7 DEF Tick
  <2>2. fill_rate[Watched] \in Nat
    BY Constants
  <2>3. owed' = IF owed >= fill_rate[Watched] THEN owed - fill_rate[Watched] ELSE 0
    <3>1. owed - fill_rate[Watched] \in Int /\ 0 \in Int
      BY <1>t, <2>2
    <3>2. Max({owed - fill_rate[Watched], 0})
            = IF owed - fill_rate[Watched] >= 0 THEN owed - fill_rate[Watched] ELSE 0
      BY <3>1, MinMaxPair, Zenon
    <3>3. QED
      BY <1>t, <2>1, <2>2, <3>2
  <2>4. elapsed' \in Nat /\ elapsed' <= elapsed + 1
    <3>1. elapsed + 1 \in Int /\ Long \in Int
      BY <1>t, LogosAssumption
    <3>2. Min({elapsed + 1, Long}) = IF elapsed + 1 <= Long THEN elapsed + 1 ELSE Long
      BY <3>1, MinMaxPair, Zenon
    <3>3. QED
      BY <1>t, <2>1, <3>2, LogosAssumption
  <2>5. held = Held /\ due <= Due + fill_rate[Watched]
    <3>1. fill_rate[Watched] * elapsed' <= fill_rate[Watched] * (elapsed + 1)
      BY <1>t, <2>2, <2>4, Products
    <3>2. fill_rate[Watched] * (elapsed + 1)
            = fill_rate[Watched] * elapsed + fill_rate[Watched]
      BY <1>t, <2>2, SMTT(30)
    <3>3. held = Held /\ due = fill_rate[Watched] * elapsed'
      BY <1>f, <2>1 DEF Held, Due
    <3>4. QED
      BY <3>1, <3>2, <3>3 DEF Due
  <2>6. Stale' = Stale
    BY <2>1 DEF Stale
  <2>7. NoDebtNow'
    BY <2>1, <2>6 DEF NoDebtNow
  <2>8. Held \in Int /\ Due \in Nat
    BY HeldBounds
  <2>9. owed' \in Nat /\ owed' <= owed
    BY <1>t, <2>2, <2>3
  <2>10. /\ TwiceFull(owed, Held, Due) => TwiceFull(owed', held, due)
         /\ OneBackoff(owed, Held, Due, pc) => OneBackoff(owed', held, due, pc)
    <3>1. PICK o \in Nat, o2 \in Nat, d \in Nat, r \in Nat :
            /\ o = owed /\ o2 = owed' /\ d = Due /\ r = fill_rate[Watched]
            /\ o2 = IF o >= r THEN o - r ELSE 0
            /\ due <= d + r /\ held <= Full /\ held = Held
      BY <1>f, <1>t, <2>2, <2>3, <2>5, <2>8, <2>9, Zenon
    <3>2. o2 = (IF o >= r THEN o - r ELSE 0) /\ due <= d + r /\ held <= Full
      BY <3>1, Zenon
    <3>3. /\ TwiceFull(o, held, d) => TwiceFull(o2, held, due)
          /\ OneBackoff(o, held, d, pc) => OneBackoff(o2, held, due, pc)
      BY <3>2, TickSum
    <3>4. QED
      BY <3>1, <3>3, Zenon
  <2>11. pc' = pc
    BY <2>1
  <2>12. owed' <= Full + Full /\ owed' <= Full + LateBound
    BY <1>t, <2>9, Constants
  <2>13. QED
    BY <1>f, <2>6, <2>7, <2>9, <2>10, <2>11, <2>12, RateInvNext DEF RateInv
<1>8. CASE refill_ratelimiter \/ SwitchRatelimit \/ UNCHANGED vars
  <2>1. /\ UNCHANGED <<limiter, pc, unlimited>>
        /\ unset => unset'
    BY <1>8, <1>t DEF refill_ratelimiter, SwitchRatelimit, vars
  <2>2. Stale => Stale'
    BY <2>1 DEF Stale
  <2>3. QED
    BY <2>1, <2>2, Quiet
<1>9. CASE rejuvinate_process
  <2>1. owed' = 0 /\ \A b \in Bucket : available'[b] >= 0
    BY <1>9, HalfType, LogosAssumption DEF rejuvinate_process
  <2>2. QED
    BY <2>1, Anew
<1>10. QED
  BY <1>1, <1>2, <1>3, <1>4, <1>5, <1>6, <1>7, <1>8, <1>9 DEF Next, Main

-----------------------------------------------------------------------------
LEMMA StepIInv == IInv /\ [Next]_vars => IInv'
<1> SUFFICES ASSUME IInv, [Next]_vars PROVE IInv'
  OBVIOUS
<1>1. Shape'
  BY ShapeStep DEF IInv, Shape
<1>2. NoDebtNow' /\ RateInv'
  BY <1>1, LimiterStep DEF IInv, Shape
<1>3. QED
  BY <1>1, <1>2 DEF IInv, Shape

LEMMA SpecIInv == Spec => []IInv
<1>1. Init => IInv
  BY InitIInv
<1>2. IInv /\ [Next]_vars => IInv'
  BY StepIInv
<1>3. QED
  BY <1>1, <1>2, PTL DEF Spec

\* The invariant of logos: the buffer never overflows and there is always room to
\* read into it, a bucket never holds more than its limit, and no debt of the
\* unlimited mode is left when a message is limited again
\* (maybe_fill_buckets, all_buckets_have_room and the main loop).
THEOREM LimiterCorrect == Spec => []Inv
<1>1. IInv => Inv
  BY DEF IInv, Inv, NoDebtNow, NoDebt, Stale
<1>2. QED
  BY <1>1, SpecIInv, PTL

\* The limit of the rate, for every bucket that may drop messages, whatever the
\* limits, the rates, the backoffs and the length of messages.
THEOREM RateIsBounded == Spec => []RateBounded
<1>1. IInv => RateBounded
  <2> SUFFICES ASSUME IInv PROVE RateBounded
    OBVIOUS
  <2>1. Full \in Int /\ LateBound \in Int
    BY Constants
  <2>2. Min({Full, LateBound}) = IF Full <= LateBound THEN Full ELSE LateBound
    BY <2>1, MinMaxPair, Zenon
  <2>3. owed <= Full + Min({Full, LateBound})
    BY <2>1, <2>2 DEF IInv, RateInv
  <2>4. QED
    BY <2>3, Zenon DEF RateBounded, Full, LateBound, OneMessage
<1>2. QED
  BY <1>1, SpecIInv, PTL
=============================================================================
