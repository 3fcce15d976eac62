--------------------------- MODULE IsopingProofs ---------------------------
(***************************************************************************)
(* Proofs about Isoping for any rates, any bounds and any number of        *)
(* packets on their way.                                                   *)
(***************************************************************************)
EXTENDS Isoping, TLAPS, FiniteSetTheorems, SequenceTheorems,
        WellFoundedInduction

\* The packet that the client would send now.
Tx == TxPacket(client)

-----------------------------------------------------------------------------
(* The invariant *)

\* What TypeOK does not say: a server that does not run has nothing, epochs do
\* not come back, the numbers begin with 1, and a handshake of the server has a
\* cookie and no number.
Numbered ==
  /\ secret.prev_epoch < secret.epoch
  /\ ~running => session = None /\ freed = None
  /\ \A i \in DOMAIN net[Server] : net[Server][i].id >= 1
  /\ \A i \in DOMAIN net[Client] :
       IF net[Client][i].type = "ack" THEN net[Client][i].id >= 1
       ELSE net[Client][i].epoch >= 1

\* A client without a cookie has not echoed one, and so no server has or had a
\* session of it.
NoCookieYet ==
  client.state \in {"NEW_SESSION", "HANDSHAKE_REQUESTED"} =>
    /\ session = None /\ freed = None /\ client.epoch = 0
    /\ \A i \in DOMAIN net[Server] :
         net[Server][i].type = "handshake" /\ net[Server][i].epoch = 0
    /\ \A i \in DOMAIN net[Client] : net[Client][i].type = "handshake"

(***************************************************************************)
(* The rates.  A packet goes from the server to the client, which takes    *)
(* over what it says and sends it back: `pc' are the packets to the        *)
(* client, `tx' is the one that it would send, `ps' are those to the       *)
(* server, whose secrets are `s' and whose rate is `r'.  A handshake is    *)
(* valid if its cookie was made with the current or the previous secret.   *)
(***************************************************************************)
Fits(p, e, k) == /\ p.type = "handshake" /\ e # 0
                 /\ p.epoch = e /\ p.cookie = Cookie(k, p.usec)
Current(p, s) == Fits(p, s.epoch, s.secret)
Valid(p, s) == Current(p, s) \/ Fits(p, s.prev_epoch, s.prev_secret)

\* What comes after a valid handshake has its rate, and is valid if it is a
\* handshake itself.
Follows(p, q, s) ==
  Valid(p, s) => /\ q.usec = p.usec
                 /\ q.type = "handshake" => Valid(q, s)
                 /\ q.type = "handshake" /\ Current(p, s) => Current(q, s)
InOrder(ps, tx, pc, s) ==
  /\ \A i, j \in DOMAIN ps : i < j => Follows(ps[i], ps[j], s)
  /\ \A i \in DOMAIN ps : Follows(ps[i], tx, s)
  /\ \A i \in DOMAIN ps, j \in DOMAIN pc :
       pc[j].type = "handshake" => Follows(ps[i], pc[j], s)
  /\ \A j \in DOMAIN pc : pc[j].type = "handshake" => Follows(tx, pc[j], s)
  /\ \A i, j \in DOMAIN pc :
       i < j /\ pc[j].type = "handshake" => Follows(pc[i], pc[j], s)

\* Packets that the server may answer with a cookie, and the rates of those that
\* it gets before the client has taken another cookie.
Asking(p) == p.type = "ack" \/ p.epoch = 0
Asked(y, ps, tx, pc) ==
  \/ \E i \in DOMAIN ps : Asking(ps[i]) /\ y = ps[i].usec
  \/ Asking(tx) /\ y = tx.usec
  \/ (\E j \in DOMAIN pc : pc[j].type = "ack") /\ y = tx.usec
\* The rates of the cookies that the server accepts.
Offered(v, ps, tx, pc, s) ==
  \/ \E i \in DOMAIN ps : Valid(ps[i], s) /\ v = ps[i].usec
  \/ Valid(tx, s) /\ v = tx.usec
  \/ \E j \in DOMAIN pc : Valid(pc[j], s) /\ v = pc[j].usec
Slower(y, r) == IF y >= r THEN y ELSE r
Agreed(ps, tx, pc, s, r) ==
  /\ \A y, z : Asked(y, ps, tx, pc) /\ Asked(z, ps, tx, pc) => y = z
  /\ \A v, w : Offered(v, ps, tx, pc, s) /\ Offered(w, ps, tx, pc, s) => v = w
  /\ \A y, v : Asked(y, ps, tx, pc) /\ Offered(v, ps, tx, pc, s)
                 => v = Slower(y, r)
  /\ \A v : Offered(v, ps, tx, pc, s) => v >= r

\* What comes before an ack has the rate of the client: when the ack was sent,
\* the server had a session.
BeforeAcks(ps, tx, pc) ==
  \A j \in DOMAIN pc : pc[j].type = "ack" =>
    /\ \A i \in DOMAIN ps : ps[i].usec = tx.usec
    /\ \A i \in DOMAIN pc :
         i < j /\ pc[i].type = "handshake" => pc[i].usec = tx.usec

Paced(ps, tx, pc, s, r) ==
  InOrder(ps, tx, pc, s) /\ Agreed(ps, tx, pc, s, r) /\ BeforeAcks(ps, tx, pc)

\* While the server has a session, or the memory of one, there is one rate.
Uniform(ps, tx, pc, r) ==
  /\ tx.usec >= r
  /\ \A i \in DOMAIN ps : ps[i].usec = tx.usec
  /\ \A i \in DOMAIN pc : pc[i].type = "handshake" => pc[i].usec = tx.usec

RateInv ==
  client.state # "exited" =>
    /\ Paced(net[Server], Tx, net[Client], secret, rate)
    /\ session # None \/ freed # None
         => Uniform(net[Server], Tx, net[Client], rate)
    /\ session # None => session.usec = client.usec

(***************************************************************************)
(* The losses.  Numbers on their way grow by at most one from each packet  *)
(* to the next, `next' being the number of the next one, as only the first *)
(* packet can be lost; and the receiver s cannot find more losses in them  *)
(* than happened, less those that it has found.                            *)
(***************************************************************************)
Steady(q, next) ==
  /\ \A i, j \in DOMAIN q : i < j /\ q[i].id >= 1 => q[j].id <= q[i].id + (j - i)
  /\ \A i \in DOMAIN q : q[i].id >= 1 => next <= q[i].id + (Len(q) + 1 - i)
Ahead(q, next, expected, slack) ==
  expected # 0 =>
    /\ \A i \in DOMAIN q : q[i].id <= expected + slack + (i - 1)
    /\ next <= expected + slack + Len(q)

NextToClient == IF session = None THEN 1 ELSE session.next_tx_id
ClientLoss ==
  strays = 0 =>
    /\ client.num_lost <= losses[Client]
    /\ client.state # "exited" =>
         /\ Steady(net[Client], NextToClient)
         /\ Ahead(net[Client], NextToClient, client.next_rx_id,
                  losses[Client] - client.num_lost)
ServerLoss ==
  /\ Steady(net[Server], client.next_tx_id)
  /\ session # None => session.next_rx_id # 0
  /\ ~rejected /\ session # None =>
       /\ session.num_lost <= losses[Server]
       /\ Ahead(net[Server], client.next_tx_id, session.next_rx_id,
                losses[Server] - session.num_lost)

IInv ==
  /\ TypeOK /\ SessionScheduled /\ Numbered /\ NoCookieYet
  /\ RateInv /\ ClientLoss /\ ServerLoss

-----------------------------------------------------------------------------
(* Operators of the libraries *)

\* Min and Max of two integers.
LEMMA MinMaxPair ==
  ASSUME NEW a \in Int, NEW b \in Int
  PROVE  /\ Min({a, b}) = IF a <= b THEN a ELSE b
         /\ Max({a, b}) = IF a >= b THEN a ELSE b
<1>1. CASE a <= b
  <2>1. Min({a, b}) = a
    BY <1>1 DEF Min
  <2>2. Max({a, b}) = b
    BY <1>1 DEF Max
  <2>3. QED
    BY <1>1, <2>1, <2>2
<1>2. CASE ~(a <= b)
  <2>1. Min({a, b}) = b
    BY <1>2 DEF Min
  <2>2. Max({a, b}) = a
    BY <1>2 DEF Max
  <2>3. QED
    BY <1>2, <2>1, <2>2
<1>3. QED
  BY <1>1, <1>2

\* The constants, and the fields of packets.
LEMMA Constants ==
  /\ MaxId \in Nat \ {0} /\ MaxInFlight \in Nat \ {0} /\ MaxEchoes \in Nat \ {0}
  /\ Rates \subseteq Usecs /\ ClientRate \in Usecs
  /\ \A u \in Usecs : u \in Nat \ {0}
<1>1. {MaxId, MaxInFlight, MaxEchoes} \subseteq Nat \ {0}
  BY IsopingAssumption
<1>2. QED
  BY <1>1, IsopingAssumption DEF Usecs

LEMMA PacketFields ==
  ASSUME NEW q \in Seq(Packets), NEW i \in DOMAIN q
  PROVE  /\ q[i] \in Packets /\ q[i].id \in 0..MaxId /\ q[i].id \in Nat
         /\ q[i].usec \in Usecs /\ q[i].usec \in Nat /\ q[i].epoch \in Nat
         /\ q[i].type \in {"handshake", "ack"} /\ q[i].cookie \in Cookies
         /\ Len(q) \in Nat /\ i \in 1..Len(q)
<1>1. q[i] \in Packets /\ Len(q) \in Nat /\ i \in 1..Len(q)
  OBVIOUS
<1>2. /\ q[i].id \in 0..MaxId /\ q[i].usec \in Usecs /\ q[i].epoch \in Nat
      /\ q[i].type \in {"handshake", "ack"} /\ q[i].cookie \in Cookies
  BY <1>1 DEF Packets
<1>3. q[i].id \in Nat /\ q[i].usec \in Nat
  BY <1>2, Constants
<1>4. QED
  BY <1>1, <1>2, <1>3

\* The number after i.
LEMMA AfterIs ==
  ASSUME NEW i \in 0..MaxId
  PROVE  After(i) = (IF i < MaxId THEN i + 1 ELSE MaxId) /\ After(i) \in 1..MaxId
<1>1. MaxId \in Nat \ {0}
  BY Constants
<1>2. Min({i + 1, MaxId}) = IF i + 1 <= MaxId THEN i + 1 ELSE MaxId
  BY <1>1, MinMaxPair
<1>3. QED
  BY <1>1, <1>2 DEF After

\* The elements of Tail and of Append.
LEMMA Tails ==
  ASSUME NEW P, NEW q \in Seq(P), q # << >>
  PROVE  /\ Tail(q) \in Seq(P) /\ Head(q) = q[1] /\ Head(q) \in P
         /\ Len(q) \in Nat \ {0} /\ Len(Tail(q)) = Len(q) - 1
         /\ DOMAIN q = 1..Len(q) /\ DOMAIN Tail(q) = 1..(Len(q) - 1)
         /\ 1 \in DOMAIN q
         /\ \A i \in DOMAIN Tail(q) : Tail(q)[i] = q[i + 1] /\ i + 1 \in DOMAIN q
OBVIOUS

LEMMA Appends ==
  ASSUME NEW P, NEW q \in Seq(P), NEW p \in P
  PROVE  /\ Append(q, p) \in Seq(P) /\ Len(q) \in Nat
         /\ Len(Append(q, p)) = Len(q) + 1
         /\ DOMAIN q = 1..Len(q) /\ DOMAIN Append(q, p) = 1..(Len(q) + 1)
         /\ Append(q, p)[Len(q) + 1] = p
         /\ \A i \in DOMAIN q : Append(q, p)[i] = q[i]
OBVIOUS

-----------------------------------------------------------------------------
(* The numbers on their way *)

\* The first packet is taken away, or one is added at the end.
LEMMA SteadyTail ==
  ASSUME NEW q \in Seq(Packets), q # << >>, NEW next \in Nat, Steady(q, next)
  PROVE  Steady(Tail(q), next)
<1>1. ASSUME NEW i \in DOMAIN Tail(q), NEW j \in DOMAIN Tail(q), i < j,
             Tail(q)[i].id >= 1
      PROVE  Tail(q)[j].id <= Tail(q)[i].id + (j - i)
  <2>1. /\ i + 1 \in DOMAIN q /\ j + 1 \in DOMAIN q /\ i + 1 < j + 1
        /\ q[i + 1].id >= 1
    BY <1>1, Tails
  <2>2. q[j + 1].id <= q[i + 1].id + ((j + 1) - (i + 1))
    BY <2>1 DEF Steady
  <2>3. QED
    BY <1>1, <2>2, Tails
<1>2. ASSUME NEW i \in DOMAIN Tail(q), Tail(q)[i].id >= 1
      PROVE  next <= Tail(q)[i].id + (Len(Tail(q)) + 1 - i)
  <2>1. next <= q[i + 1].id + (Len(q) + 1 - (i + 1))
    BY <1>2, Tails DEF Steady
  <2>2. QED
    BY <1>2, <2>1, Tails
<1>3. QED
  BY <1>1, <1>2 DEF Steady

LEMMA SteadyAppend ==
  ASSUME NEW q \in Seq(Packets), NEW p \in Packets, NEW next \in Nat,
         Steady(q, next), NEW after \in Nat,
         p.id = 0 \/ p.id = next, after <= next + 1, p.id = 0 => after <= next
  PROVE  Steady(Append(q, p), after)
<1> DEFINE a == Append(q, p)
<1>1. \A i \in DOMAIN q : q[i].id \in Int
  BY PacketFields
<1>2. ASSUME NEW i \in DOMAIN a, NEW j \in DOMAIN a, i < j, a[i].id >= 1
      PROVE  a[j].id <= a[i].id + (j - i)
  <2>1. i \in DOMAIN q /\ a[i] = q[i] /\ q[i].id \in Int
    BY <1>1, <1>2, Appends
  <2>2. CASE j \in DOMAIN q
    BY <1>2, <2>1, <2>2, Appends DEF Steady
  <2>3. CASE j \notin DOMAIN q
    <3>1. j = Len(q) + 1 /\ a[j] = p
      BY <2>3, Appends
    <3>2. next <= q[i].id + (Len(q) + 1 - i)
      BY <1>2, <2>1 DEF Steady
    <3>3. QED
      BY <1>2, <2>1, <3>1, <3>2, Appends
  <2>4. QED
    BY <2>2, <2>3
<1>3. ASSUME NEW i \in DOMAIN a, a[i].id >= 1
      PROVE  after <= a[i].id + (Len(a) + 1 - i)
  <2>1. CASE i \in DOMAIN q
    <3>1. a[i] = q[i] /\ q[i].id \in Int
      BY <1>1, <2>1, Appends
    <3>2. next <= q[i].id + (Len(q) + 1 - i)
      BY <1>3, <2>1, <3>1 DEF Steady
    <3>3. QED
      BY <2>1, <3>1, <3>2, Appends, SMTT(30)
  <2>2. CASE i \notin DOMAIN q
    <3>1. i = Len(q) + 1 /\ a[i] = p
      BY <2>2, Appends
    <3>2. QED
      BY <1>3, <3>1, Appends
  <2>3. QED
    BY <2>1, <2>2
<1>4. QED
  BY <1>2, <1>3 DEF Steady

\* The numbers begin anew.
LEMMA SteadyOne ==
  ASSUME NEW q \in Seq(Packets), NEW next \in Nat, Steady(q, next)
  PROVE  Steady(q, 1)
<1>1. ASSUME NEW i \in DOMAIN q, q[i].id >= 1
      PROVE  1 <= q[i].id + (Len(q) + 1 - i)
  <2>1. q[i].id \in Int /\ i \in 1..Len(q) /\ Len(q) \in Nat
    BY PacketFields
  <2>2. QED
    BY <1>1, <2>1
<1>2. QED
  BY <1>1 DEF Steady

\* A packet is added, lost, or taken by handle_ack_packet.
LEMMA AheadAppend ==
  ASSUME NEW q \in Seq(Packets), NEW p \in Packets, NEW next \in Nat,
         NEW expected \in Nat, NEW slack \in Nat,
         Ahead(q, next, expected, slack), NEW after \in Nat,
         p.id = 0 \/ p.id = next, after <= next + 1
  PROVE  Ahead(Append(q, p), after, expected, slack)
<1> DEFINE a == Append(q, p)
<1> SUFFICES ASSUME expected # 0
             PROVE  /\ \A i \in DOMAIN a : a[i].id <= expected + slack + (i - 1)
                    /\ after <= expected + slack + Len(a)
  BY DEF Ahead
<1>1. next <= expected + slack + Len(q)
  BY DEF Ahead
<1>2. ASSUME NEW i \in DOMAIN a
      PROVE  a[i].id <= expected + slack + (i - 1)
  <2>1. CASE i \in DOMAIN q
    BY <2>1, Appends DEF Ahead
  <2>2. CASE i \notin DOMAIN q
    <3>1. i = Len(q) + 1 /\ a[i] = p
      BY <2>2, Appends
    <3>2. QED
      BY <1>1, <3>1, Appends
  <2>3. QED
    BY <2>1, <2>2
<1>3. QED
  BY <1>1, <1>2, Appends

LEMMA AheadLost ==
  ASSUME NEW q \in Seq(Packets), q # << >>, NEW next \in Nat,
         NEW expected \in Nat, NEW slack \in Nat,
         Ahead(q, next, expected, slack)
  PROVE  Ahead(Tail(q), next, expected, slack + 1)
<1> SUFFICES ASSUME expected # 0
             PROVE  /\ \A i \in DOMAIN Tail(q) :
                         Tail(q)[i].id <= expected + (slack + 1) + (i - 1)
                    /\ next <= expected + (slack + 1) + Len(Tail(q))
  BY DEF Ahead
<1>1. next <= expected + slack + Len(q)
  BY DEF Ahead
<1>2. ASSUME NEW i \in DOMAIN Tail(q)
      PROVE  Tail(q)[i].id <= expected + (slack + 1) + (i - 1)
  <2>1. q[i + 1].id <= expected + slack + ((i + 1) - 1)
    BY Tails DEF Ahead
  <2>2. QED
    BY <2>1, Tails
<1>3. QED
  BY <1>1, <1>2, Tails

LEMMA AheadOne ==
  ASSUME NEW q \in Seq(Packets), NEW next \in Nat,
         NEW expected \in Nat, NEW slack \in Nat,
         Ahead(q, next, expected, slack)
  PROVE  Ahead(q, 1, expected, slack)
<1>1. Len(q) \in Nat
  OBVIOUS
<1>2. QED
  BY <1>1 DEF Ahead

\* What handle_ack_packet computes for the packet id when rx is expected.
First(rx, id) == IF rx = 0 THEN id ELSE rx
Found(rx, id) == IF id > First(rx, id) THEN id - First(rx, id) ELSE 0
Then(rx, id) == IF id < First(rx, id) THEN First(rx, id)
                ELSE IF id < MaxId THEN id + 1 ELSE MaxId

LEMMA HandledIs ==
  ASSUME NEW s, NEW id \in 1..MaxId,
         s.next_rx_id \in 0..MaxId, s.num_lost \in Nat
  PROVE  /\ Max({id - NextExpected(s, id), 0}) = Found(s.next_rx_id, id)
         /\ Max({After(id), NextExpected(s, id)}) = Then(s.next_rx_id, id)
         /\ Found(s.next_rx_id, id) \in Nat
         /\ Then(s.next_rx_id, id) \in 1..MaxId
<1>1. MaxId \in Nat \ {0}
  BY Constants
<1>2. PICK e \in 1..MaxId : e = NextExpected(s, id) /\ e = First(s.next_rx_id, id)
  BY <1>1 DEF NextExpected, First
<1>3. PICK n \in 1..MaxId :
        n = After(id) /\ n = IF id < MaxId THEN id + 1 ELSE MaxId
  BY <1>1, AfterIs
<1>4. /\ id - e \in Int /\ 0 \in Int /\ n \in Int /\ e \in Int
  BY <1>1
<1>5. /\ Max({id - e, 0}) = IF id - e >= 0 THEN id - e ELSE 0
      /\ Max({n, e}) = IF n >= e THEN n ELSE e
  BY <1>4, MinMaxPair, Zenon
<1>6. /\ Max({id - e, 0}) = IF id > e THEN id - e ELSE 0
      /\ Max({n, e}) = IF id < e THEN e ELSE n
      /\ Max({id - e, 0}) \in Nat /\ Max({n, e}) \in 1..MaxId
  BY <1>1, <1>3, <1>5
<1>7. /\ Found(s.next_rx_id, id) = IF id > e THEN id - e ELSE 0
      /\ Then(s.next_rx_id, id) = IF id < e THEN e ELSE n
  BY <1>2, <1>3 DEF Found, Then
<1>8. /\ Found(s.next_rx_id, id) = Max({id - e, 0})
      /\ Then(s.next_rx_id, id) = Max({n, e})
  BY <1>6, <1>7
<1>9. QED
  BY <1>2, <1>3, <1>6, <1>8

\* The packet with the number x comes d packets after the one with the number
\* id, which is handled now.
LEMMA HandledBound ==
  ASSUME NEW x \in 0..MaxId, NEW d \in Nat \ {0}, NEW id \in 1..MaxId,
         NEW rx \in 0..MaxId, NEW slack \in Nat,
         x <= id + d, x <= First(rx, id) + slack + d, id <= First(rx, id) + slack
  PROVE  x <= Then(rx, id) + (slack - Found(rx, id)) + (d - 1)
<1>1. MaxId \in Nat \ {0}
  BY Constants
<1>2. PICK e \in 1..MaxId : e = First(rx, id)
  BY <1>1 DEF First
<1>3. CASE id >= e /\ id < MaxId
  BY <1>1, <1>2, <1>3 DEF Then, Found
<1>4. CASE id >= e /\ ~(id < MaxId)
  BY <1>1, <1>2, <1>4 DEF Then, Found
<1>5. CASE ~(id >= e)
  BY <1>1, <1>2, <1>5 DEF Then, Found
<1>6. QED
  BY <1>3, <1>4, <1>5

LEMMA AheadAfter ==
  ASSUME NEW q \in Seq(Packets), q # << >>, NEW id \in 1..MaxId, id = Head(q).id,
         NEW next \in 1..MaxId, Steady(q, next),
         NEW rx \in 0..MaxId, NEW slack \in Nat, Ahead(q, next, rx, slack)
  PROVE  /\ Found(rx, id) <= slack
         /\ Ahead(Tail(q), next, Then(rx, id), slack - Found(rx, id))
<1> MaxId \in Nat \ {0}
  BY Constants
<1>1. 1 \in DOMAIN q /\ Head(q) = q[1]
  BY Tails
<1>2. id = q[1].id /\ q[1].id >= 1
  BY <1>1
<1>3. id <= First(rx, id) + slack
  <2>1. CASE rx = 0
    BY <2>1 DEF First
  <2>2. CASE rx # 0
    <3>1. q[1].id <= rx + slack + (1 - 1)
      BY <1>1, <2>2 DEF Ahead
    <3>2. QED
      BY <1>1, <1>2, <2>2, <3>1 DEF First
  <2>3. QED
    BY <2>1, <2>2
<1>4. Found(rx, id) <= slack
  BY <1>3 DEF Found, First
<1>5. ASSUME NEW i \in DOMAIN Tail(q)
      PROVE  Tail(q)[i].id <= Then(rx, id) + (slack - Found(rx, id)) + (i - 1)
  <2>1. /\ i + 1 \in DOMAIN q /\ 1 < i + 1 /\ i \in Nat \ {0}
        /\ Tail(q)[i] = q[i + 1]
    BY Tails
  <2>2. PICK x \in 0..MaxId : x = q[i + 1].id
    BY <2>1, PacketFields
  <2>3. x <= id + i
    <3>1. q[i + 1].id <= q[1].id + ((i + 1) - 1)
      BY <1>1, <1>2, <2>1 DEF Steady
    <3>2. QED
      BY <1>1, <1>2, <2>1, <2>2, <3>1
  <2>4. x <= First(rx, id) + slack + i
    <3>1. CASE rx = 0
      <4>1. First(rx, id) = id
        BY <3>1 DEF First
      <4>2. QED
        BY <2>1, <2>3, <4>1, SMTT(30)
    <3>2. CASE rx # 0
      <4>1. q[i + 1].id <= rx + slack + ((i + 1) - 1)
        BY <2>1, <3>2 DEF Ahead
      <4>2. QED
        BY <2>1, <2>2, <3>2, <4>1 DEF First
    <3>3. QED
      BY <3>1, <3>2
  <2>5. x <= Then(rx, id) + (slack - Found(rx, id)) + (i - 1)
    BY <1>3, <2>1, <2>3, <2>4, HandledBound
  <2>6. QED
    BY <2>1, <2>2, <2>5
<1>6. next <= Then(rx, id) + (slack - Found(rx, id)) + Len(Tail(q))
  <2>1. PICK d \in Nat \ {0} : d = Len(q) /\ Len(Tail(q)) = d - 1
    BY Tails
  <2>2. next <= id + d
    <3>1. next <= q[1].id + (Len(q) + 1 - 1)
      BY <1>1, <1>2 DEF Steady
    <3>2. QED
      BY <1>1, <1>2, <2>1, <3>1
  <2>3. next <= First(rx, id) + slack + d
    <3>1. CASE rx = 0
      BY <2>1, <2>2, <3>1 DEF First
    <3>2. CASE rx # 0
      BY <2>1, <3>2 DEF Ahead, First
    <3>3. QED
      BY <3>1, <3>2
  <2>4. next \in 0..MaxId
    OBVIOUS
  <2>5. next <= Then(rx, id) + (slack - Found(rx, id)) + (d - 1)
    BY <1>3, <2>2, <2>3, <2>4, HandledBound
  <2>6. QED
    BY <2>1, <2>5
<1>7. QED
  BY <1>4, <1>5, <1>6 DEF Ahead

LEMMA AheadHandled ==
  ASSUME NEW q \in Seq(Packets), q # << >>, NEW id \in 1..MaxId, id = Head(q).id,
         NEW next \in 1..MaxId, Steady(q, next),
         NEW s, s.next_rx_id \in 0..MaxId, s.num_lost \in Nat,
         NEW lost \in Nat, s.num_lost <= lost,
         Ahead(q, next, s.next_rx_id, lost - s.num_lost),
         NEW t, t.num_lost = s.num_lost + Max({id - NextExpected(s, id), 0}),
         t.next_rx_id = Max({After(id), NextExpected(s, id)})
  PROVE  /\ t.num_lost <= lost
         /\ Ahead(Tail(q), next, t.next_rx_id, lost - t.num_lost)
<1>1. PICK rx \in 0..MaxId, m \in Nat : rx = s.next_rx_id /\ m = s.num_lost
  OBVIOUS
<1>2. /\ t.num_lost = m + Found(rx, id) /\ t.next_rx_id = Then(rx, id)
      /\ Found(rx, id) \in Nat
  BY <1>1, HandledIs
<1>3. PICK slack \in Nat : slack = lost - m
  BY <1>1
<1>4. Ahead(q, next, rx, slack)
  BY <1>1, <1>3
<1>5. /\ Found(rx, id) <= slack
      /\ Ahead(Tail(q), next, Then(rx, id), slack - Found(rx, id))
  BY <1>4, AheadAfter
<1>6. t.num_lost <= lost /\ lost - t.num_lost = slack - Found(rx, id)
  BY <1>2, <1>3, <1>5
<1>7. QED
  BY <1>2, <1>5, <1>6

-----------------------------------------------------------------------------
(* The rates on their way *)

\* All that Paced and Uniform look at.
Alike(p, q) == /\ p.type = q.type /\ p.usec = q.usec
               /\ p.epoch = q.epoch /\ p.cookie = q.cookie

LEMMA AlikePackets ==
  ASSUME NEW p, NEW q, Alike(p, q), NEW s
  PROVE  /\ Valid(p, s) <=> Valid(q, s)
         /\ Asking(p) <=> Asking(q)
         /\ \A x : Follows(x, p, s) <=> Follows(x, q, s)
         /\ \A x : Follows(p, x, s) <=> Follows(q, x, s)
BY DEF Alike, Valid, Current, Fits, Asking, Follows

LEMMA FollowsItself ==
  ASSUME NEW p, NEW s
  PROVE  Follows(p, p, s)
BY DEF Follows

\* The order, when the client sends a packet.
LEMMA SentInOrder ==
  ASSUME NEW ps \in Seq(Packets), NEW tx \in Packets, NEW pc \in Seq(Packets),
         NEW s, InOrder(ps, tx, pc, s)
  PROVE  InOrder(Append(ps, tx), tx, pc, s)
<1> DEFINE a == Append(ps, tx)
<1>1. \A i \in DOMAIN a : (i \in DOMAIN ps /\ a[i] = ps[i]) \/ a[i] = tx
  BY Appends
<1>2. ASSUME NEW i \in DOMAIN a, NEW j \in DOMAIN a, i < j
      PROVE  Follows(a[i], a[j], s)
  <2>1. i \in DOMAIN ps /\ a[i] = ps[i]
    BY <1>2, Appends
  <2>2. QED
    BY <1>1, <1>2, <2>1, Zenon DEF InOrder
<1>3. ASSUME NEW i \in DOMAIN a
      PROVE  Follows(a[i], tx, s)
  BY <1>1, FollowsItself, Zenon DEF InOrder
<1>4. ASSUME NEW i \in DOMAIN a, NEW j \in DOMAIN pc, pc[j].type = "handshake"
      PROVE  Follows(a[i], pc[j], s)
  BY <1>1, <1>4, Zenon DEF InOrder
<1>5. QED
  BY <1>2, <1>3, <1>4, Zenon DEF InOrder

\* When the first packet disappears.
LEMMA ServedInOrder ==
  ASSUME NEW ps \in Seq(Packets), ps # << >>, NEW tx, NEW pc,
         NEW s, InOrder(ps, tx, pc, s)
  PROVE  InOrder(Tail(ps), tx, pc, s)
<1> DEFINE t == Tail(ps)
<1>1. \A i \in DOMAIN t : i + 1 \in DOMAIN ps /\ t[i] = ps[i + 1]
  BY Tails
<1>2. ASSUME NEW i \in DOMAIN t, NEW j \in DOMAIN t, i < j
      PROVE  Follows(t[i], t[j], s)
  <2>1. i + 1 < j + 1
    BY <1>2, Tails
  <2>2. QED
    BY <1>1, <2>1, Zenon DEF InOrder
<1>3. QED
  BY <1>1, <1>2, Zenon DEF InOrder
LEMMA DroppedInOrder ==
  ASSUME NEW pc \in Seq(Packets), pc # << >>, NEW tx, NEW ps,
         NEW s, InOrder(ps, tx, pc, s)
  PROVE  InOrder(ps, tx, Tail(pc), s)
<1> DEFINE t == Tail(pc)
<1>1. \A i \in DOMAIN t : i + 1 \in DOMAIN pc /\ t[i] = pc[i + 1]
  BY Tails
<1>2. ASSUME NEW i \in DOMAIN t, NEW j \in DOMAIN t, i < j,
             t[j].type = "handshake"
      PROVE  Follows(t[i], t[j], s)
  <2>1. i + 1 < j + 1
    BY <1>2, Tails
  <2>2. QED
    BY <1>1, <1>2, <2>1, Zenon DEF InOrder
<1>3. ASSUME NEW j \in DOMAIN t, t[j].type = "handshake"
      PROVE  Follows(tx, t[j], s)
  BY <1>1, <1>3, Zenon DEF InOrder
<1>4. ASSUME NEW i \in DOMAIN ps, NEW j \in DOMAIN t, t[j].type = "handshake"
      PROVE  Follows(ps[i], t[j], s)
  BY <1>1, <1>4, Zenon DEF InOrder
<1>5. QED
  BY <1>2, <1>3, <1>4, Zenon DEF InOrder

\* When the client takes the cookie of the first packet.
LEMMA TakenInOrder ==
  ASSUME NEW pc \in Seq(Packets), pc # << >>, NEW tx, NEW ps,
         NEW s, InOrder(ps, tx, pc, s),
         Head(pc).type = "handshake", NEW ty, Alike(ty, Head(pc))
  PROVE  InOrder(ps, ty, Tail(pc), s)
<1> DEFINE t == Tail(pc)
<1>1. /\ 1 \in DOMAIN pc /\ Head(pc) = pc[1]
      /\ \A i \in DOMAIN t : i + 1 \in DOMAIN pc /\ t[i] = pc[i + 1] /\ 1 < i + 1
  BY Tails
<1>2. InOrder(ps, tx, t, s)
  BY DroppedInOrder
<1> Alike(ty, pc[1])
  BY <1>1
<1> /\ \A x : Follows(x, ty, s) <=> Follows(x, pc[1], s)
    /\ \A x : Follows(ty, x, s) <=> Follows(pc[1], x, s)
  BY AlikePackets
<1>3. ASSUME NEW i \in DOMAIN ps
      PROVE  Follows(ps[i], ty, s)
  <2>1. Follows(ps[i], pc[1], s)
    BY <1>1, Zenon DEF InOrder
  <2>2. QED
    BY <2>1
<1>4. ASSUME NEW j \in DOMAIN t, t[j].type = "handshake"
      PROVE  Follows(ty, t[j], s)
  <2>1. Follows(pc[1], t[j], s)
    BY <1>1, <1>4, Zenon DEF InOrder
  <2>2. QED
    BY <2>1
<1>5. QED
  BY <1>2, <1>3, <1>4, Zenon DEF InOrder

\* When the client is established.
LEMMA EstablishedInOrder ==
  ASSUME NEW pc, NEW tx, NEW ps, NEW s, InOrder(ps, tx, pc, s),
         NEW ty, ty.type = "ack", ty.usec = tx.usec
  PROVE  InOrder(ps, ty, pc, s)
<1>1. \A p : Follows(p, tx, s) => Follows(p, ty, s)
  BY DEF Follows
<1>2. \A p : Follows(ty, p, s)
  BY DEF Follows, Valid, Current, Fits
<1>3. QED
  BY <1>1, <1>2, Zenon DEF InOrder

\* When the server sends a packet.
LEMMA AnsweredInOrder ==
  ASSUME NEW ps, NEW tx, NEW pc \in Seq(Packets), NEW s, InOrder(ps, tx, pc, s),
         NEW h \in Packets,
         h.type = "handshake" =>
           /\ \A i \in DOMAIN ps : Follows(ps[i], h, s)
           /\ Follows(tx, h, s)
           /\ \A j \in DOMAIN pc : Follows(pc[j], h, s)
  PROVE  InOrder(ps, tx, Append(pc, h), s)
<1> DEFINE a == Append(pc, h)
<1>1. \A i \in DOMAIN a : (i \in DOMAIN pc /\ a[i] = pc[i]) \/ a[i] = h
  BY Appends
<1>2. ASSUME NEW i \in DOMAIN a, NEW j \in DOMAIN a, i < j,
             a[j].type = "handshake"
      PROVE  Follows(a[i], a[j], s)
  <2>1. i \in DOMAIN pc /\ a[i] = pc[i]
    BY <1>2, Appends
  <2>2. QED
    BY <1>1, <1>2, <2>1, Zenon DEF InOrder
<1>3. ASSUME NEW j \in DOMAIN a, a[j].type = "handshake"
      PROVE  Follows(tx, a[j], s)
  BY <1>1, <1>3, Zenon DEF InOrder
<1>4. ASSUME NEW i \in DOMAIN ps, NEW j \in DOMAIN a, a[j].type = "handshake"
      PROVE  Follows(ps[i], a[j], s)
  BY <1>1, <1>4, Zenon DEF InOrder
<1>5. QED
  BY <1>2, <1>3, <1>4, Zenon DEF InOrder

\* The agreement, when no rate is asked for or offered that was not before, and
\* when a rate is offered that answers one that was asked for.
LEMMA AgreedOnLess ==
  ASSUME NEW ps, NEW tx, NEW pc, NEW s, NEW r, Agreed(ps, tx, pc, s, r),
         NEW ps2, NEW tx2, NEW pc2, NEW s2,
         \A y : Asked(y, ps2, tx2, pc2) => Asked(y, ps, tx, pc),
         \A v : Offered(v, ps2, tx2, pc2, s2) => Offered(v, ps, tx, pc, s)
  PROVE  Agreed(ps2, tx2, pc2, s2, r)
BY Zenon DEF Agreed

LEMMA AgreedOnMore ==
  ASSUME NEW ps, NEW tx, NEW pc, NEW s, NEW r \in Nat, Agreed(ps, tx, pc, s, r),
         NEW ps2, NEW tx2, NEW pc2, NEW x \in Nat, Asked(x, ps, tx, pc),
         \A y : Asked(y, ps2, tx2, pc2) => Asked(y, ps, tx, pc),
         \A v : Offered(v, ps2, tx2, pc2, s)
                  => Offered(v, ps, tx, pc, s) \/ v = Slower(x, r)
  PROVE  Agreed(ps2, tx2, pc2, s, r)
<1>1. \A v : Offered(v, ps2, tx2, pc2, s) => v = Slower(x, r)
  BY Zenon DEF Agreed
<1>2. \A y : Asked(y, ps2, tx2, pc2) => y = x
  BY Zenon DEF Agreed
<1>3. Slower(x, r) >= r
  BY DEF Slower
<1>4. QED
  BY <1>1, <1>2, <1>3, Zenon DEF Agreed

LEMMA SentAgreed ==
  ASSUME NEW ps \in Seq(Packets), NEW tx \in Packets, NEW pc, NEW s, NEW r,
         Agreed(ps, tx, pc, s, r)
  PROVE  Agreed(Append(ps, tx), tx, pc, s, r)
<1> DEFINE a == Append(ps, tx)
<1>1. \A i \in DOMAIN a : (i \in DOMAIN ps /\ a[i] = ps[i]) \/ a[i] = tx
  BY Appends
<1>2. \A y : Asked(y, a, tx, pc) => Asked(y, ps, tx, pc)
  BY <1>1, Zenon DEF Asked
<1>3. \A v : Offered(v, a, tx, pc, s) => Offered(v, ps, tx, pc, s)
  BY <1>1, Zenon DEF Offered
<1>4. QED
  BY <1>2, <1>3, AgreedOnLess, Zenon

LEMMA ServedAgreed ==
  ASSUME NEW ps \in Seq(Packets), ps # << >>, NEW tx, NEW pc, NEW s, NEW r,
         Agreed(ps, tx, pc, s, r)
  PROVE  Agreed(Tail(ps), tx, pc, s, r)
<1> DEFINE t == Tail(ps)
<1>1. \A i \in DOMAIN t : i + 1 \in DOMAIN ps /\ t[i] = ps[i + 1]
  BY Tails
<1>2. \A y : Asked(y, t, tx, pc) => Asked(y, ps, tx, pc)
  BY <1>1, Zenon DEF Asked
<1>3. \A v : Offered(v, t, tx, pc, s) => Offered(v, ps, tx, pc, s)
  BY <1>1, Zenon DEF Offered
<1>4. QED
  BY <1>2, <1>3, AgreedOnLess, Zenon

LEMMA DroppedAgreed ==
  ASSUME NEW ps, NEW tx, NEW pc \in Seq(Packets), pc # << >>, NEW s, NEW r,
         Agreed(ps, tx, pc, s, r)
  PROVE  Agreed(ps, tx, Tail(pc), s, r)
<1> DEFINE t == Tail(pc)
<1>1. \A i \in DOMAIN t : i + 1 \in DOMAIN pc /\ t[i] = pc[i + 1]
  BY Tails
<1>2. \A y : Asked(y, ps, tx, t) => Asked(y, ps, tx, pc)
  BY <1>1, Zenon DEF Asked
<1>3. \A v : Offered(v, ps, tx, t, s) => Offered(v, ps, tx, pc, s)
  BY <1>1, Zenon DEF Offered
<1>4. QED
  BY <1>2, <1>3, AgreedOnLess, Zenon

LEMMA TakenAgreed ==
  ASSUME NEW ps, NEW tx, NEW pc \in Seq(Packets), pc # << >>, NEW s, NEW r,
         Agreed(ps, tx, pc, s, r), BeforeAcks(ps, tx, pc),
         Head(pc).type = "handshake", Head(pc).epoch # 0,
         NEW ty, Alike(ty, Head(pc))
  PROVE  Agreed(ps, ty, Tail(pc), s, r)
<1> DEFINE t == Tail(pc)
<1>1. /\ 1 \in DOMAIN pc /\ Head(pc) = pc[1]
      /\ \A i \in DOMAIN t : i + 1 \in DOMAIN pc /\ t[i] = pc[i + 1] /\ 1 < i + 1
  BY Tails
<1>2. /\ pc[1].type = "handshake" /\ ty.type = "handshake"
      /\ ty.epoch # 0 /\ ty.usec = pc[1].usec
  BY <1>1 DEF Alike
<1>3. Valid(ty, s) => Valid(pc[1], s)
  BY <1>1, AlikePackets
<1>4. ASSUME NEW y, Asked(y, ps, ty, t) PROVE Asked(y, ps, tx, pc)
  <2>1. CASE \E i \in DOMAIN ps : Asking(ps[i]) /\ y = ps[i].usec
    BY <2>1, Zenon DEF Asked
  <2>2. CASE (\E j \in DOMAIN t : t[j].type = "ack") /\ y = ty.usec
    <3>1. PICK j \in DOMAIN pc : pc[j].type = "ack" /\ 1 < j
      BY <1>1, <2>2, Zenon
    <3>2. pc[1].usec = tx.usec
      BY <1>1, <1>2, <3>1, Zenon DEF BeforeAcks
    <3>3. QED
      BY <1>2, <2>2, <3>1, <3>2, Zenon DEF Asked
  <2>3. ~Asking(ty)
    BY <1>2 DEF Asking
  <2>4. QED
    BY <1>4, <2>1, <2>2, <2>3, Zenon DEF Asked
<1>5. ASSUME NEW v, Offered(v, ps, ty, t, s) PROVE Offered(v, ps, tx, pc, s)
  BY <1>1, <1>2, <1>3, <1>5, Zenon DEF Offered
<1>6. QED
  BY <1>4, <1>5, AgreedOnLess, Zenon

LEMMA EstablishedAgreed ==
  ASSUME NEW ps, NEW tx, NEW pc \in Seq(Packets), pc # << >>, NEW s, NEW r,
         Agreed(ps, tx, pc, s, r), Head(pc).type = "ack",
         NEW ty, ty.type = "ack", ty.usec = tx.usec
  PROVE  Agreed(ps, ty, Tail(pc), s, r)
<1> DEFINE t == Tail(pc)
<1>1. /\ 1 \in DOMAIN pc /\ pc[1].type = "ack"
      /\ \A i \in DOMAIN t : i + 1 \in DOMAIN pc /\ t[i] = pc[i + 1]
  BY Tails
<1>2. ASSUME NEW y, Asked(y, ps, ty, t) PROVE Asked(y, ps, tx, pc)
  BY <1>1, <1>2, Zenon DEF Asked
<1>3. ~Valid(ty, s)
  BY DEF Valid, Current, Fits
<1>4. ASSUME NEW v, Offered(v, ps, ty, t, s) PROVE Offered(v, ps, tx, pc, s)
  BY <1>1, <1>3, <1>4, Zenon DEF Offered
<1>5. QED
  BY <1>2, <1>4, AgreedOnLess, Zenon

\* The first packet x is answered with the handshake h.
LEMMA RepliedAgreed ==
  ASSUME NEW ps \in Seq(Packets), ps # << >>, NEW tx, NEW pc \in Seq(Packets),
         NEW s, NEW r \in Nat, Agreed(ps, tx, pc, s, r),
         NEW x, x = Head(ps), Asking(x), NEW h \in Packets,
         h.type = "handshake", h.usec = Slower(x.usec, r)
  PROVE  Agreed(Tail(ps), tx, Append(pc, h), s, r)
<1> DEFINE t == Tail(ps)
           a == Append(pc, h)
<1>1. /\ 1 \in DOMAIN ps /\ x = ps[1]
      /\ \A i \in DOMAIN t : i + 1 \in DOMAIN ps /\ t[i] = ps[i + 1]
      /\ \A i \in DOMAIN a : (i \in DOMAIN pc /\ a[i] = pc[i]) \/ a[i] = h
  BY Tails, Appends
<1>2. x.usec \in Nat /\ Asked(x.usec, ps, tx, pc)
  BY <1>1, PacketFields DEF Asked
<1>3. h.type # "ack"
  OBVIOUS
<1>4. \A y : Asked(y, t, tx, a) => Asked(y, ps, tx, pc)
  BY <1>1, <1>3, Zenon DEF Asked
<1>5. \A v : Offered(v, t, tx, a, s)
               => Offered(v, ps, tx, pc, s) \/ v = Slower(x.usec, r)
  BY <1>1, Zenon DEF Offered
<1>6. QED
  BY <1>2, <1>4, <1>5, AgreedOnMore, Zenon

\* All of it, for each kind of step.
LEMMA PacedAlike ==
  ASSUME NEW ps, NEW tx, NEW pc, NEW s, NEW r, Paced(ps, tx, pc, s, r),
         NEW ty, Alike(tx, ty)
  PROVE  /\ Paced(ps, ty, pc, s, r)
         /\ Uniform(ps, tx, pc, r) => Uniform(ps, ty, pc, r)
<1>1. /\ Valid(tx, s) <=> Valid(ty, s)
      /\ Asking(tx) <=> Asking(ty)
      /\ \A x : Follows(x, tx, s) <=> Follows(x, ty, s)
      /\ \A x : Follows(tx, x, s) <=> Follows(ty, x, s)
      /\ tx.usec = ty.usec
  BY AlikePackets DEF Alike
<1>2. InOrder(ps, ty, pc, s)
  BY <1>1, Zenon DEF Paced, InOrder
<1>3. \A y : Asked(y, ps, ty, pc) => Asked(y, ps, tx, pc)
  BY <1>1, Zenon DEF Asked
<1>4. \A v : Offered(v, ps, ty, pc, s) => Offered(v, ps, tx, pc, s)
  BY <1>1, Zenon DEF Offered
<1>5. Agreed(ps, ty, pc, s, r)
  BY <1>3, <1>4, AgreedOnLess, Zenon DEF Paced
<1>6. BeforeAcks(ps, ty, pc)
  BY <1>1, Zenon DEF Paced, BeforeAcks
<1>7. Uniform(ps, tx, pc, r) => Uniform(ps, ty, pc, r)
  BY <1>1, Zenon DEF Uniform
<1>8. QED
  BY <1>2, <1>5, <1>6, <1>7, Zenon DEF Paced

LEMMA PacedSent ==
  ASSUME NEW ps \in Seq(Packets), NEW tx \in Packets, NEW pc \in Seq(Packets),
         NEW s, NEW r, Paced(ps, tx, pc, s, r), NEW ty, Alike(tx, ty)
  PROVE  /\ Paced(Append(ps, tx), ty, pc, s, r)
         /\ Uniform(ps, tx, pc, r) => Uniform(Append(ps, tx), ty, pc, r)
<1> DEFINE a == Append(ps, tx)
<1>1. \A i \in DOMAIN a : (i \in DOMAIN ps /\ a[i] = ps[i]) \/ a[i] = tx
  BY Appends
<1>2. InOrder(a, tx, pc, s) /\ Agreed(a, tx, pc, s, r)
  BY SentInOrder, SentAgreed DEF Paced
<1>3. BeforeAcks(a, tx, pc)
  BY <1>1, Zenon DEF Paced, BeforeAcks
<1>4. Uniform(ps, tx, pc, r) => Uniform(a, tx, pc, r)
  BY <1>1, Zenon DEF Uniform
<1>5. Paced(a, tx, pc, s, r)
  BY <1>2, <1>3, Zenon DEF Paced
<1>6. QED
  BY <1>4, <1>5, PacedAlike, Zenon

LEMMA PacedServed ==
  ASSUME NEW ps \in Seq(Packets), ps # << >>, NEW tx, NEW pc,
         NEW s, NEW r, Paced(ps, tx, pc, s, r)
  PROVE  /\ Paced(Tail(ps), tx, pc, s, r)
         /\ Uniform(ps, tx, pc, r) => Uniform(Tail(ps), tx, pc, r)
<1> DEFINE t == Tail(ps)
<1>1. \A i \in DOMAIN t : i + 1 \in DOMAIN ps /\ t[i] = ps[i + 1]
  BY Tails
<1>2. InOrder(t, tx, pc, s) /\ Agreed(t, tx, pc, s, r)
  BY ServedInOrder, ServedAgreed DEF Paced
<1>3. BeforeAcks(t, tx, pc)
  BY <1>1, Zenon DEF Paced, BeforeAcks
<1>4. Uniform(ps, tx, pc, r) => Uniform(t, tx, pc, r)
  BY <1>1, Zenon DEF Uniform
<1>5. QED
  BY <1>2, <1>3, <1>4, Zenon DEF Paced

\* What comes before an ack, when the first packet to the client disappears.
LEMMA DroppedBeforeAcks ==
  ASSUME NEW ps, NEW tx, NEW pc \in Seq(Packets), pc # << >>,
         BeforeAcks(ps, tx, pc)
  PROVE  BeforeAcks(ps, tx, Tail(pc))
<1> DEFINE t == Tail(pc)
<1>1. \A i \in DOMAIN t : i + 1 \in DOMAIN pc /\ t[i] = pc[i + 1]
  BY Tails
<1>2. \A i, j \in DOMAIN t : i < j => i + 1 < j + 1
  BY Tails
<1>3. QED
  BY <1>1, <1>2, SMTT(30) DEF BeforeAcks

LEMMA PacedDropped ==
  ASSUME NEW ps, NEW tx, NEW pc \in Seq(Packets), pc # << >>,
         NEW s, NEW r, Paced(ps, tx, pc, s, r)
  PROVE  /\ Paced(ps, tx, Tail(pc), s, r)
         /\ Uniform(ps, tx, pc, r) => Uniform(ps, tx, Tail(pc), r)
<1> DEFINE t == Tail(pc)
<1>1. \A i \in DOMAIN t : i + 1 \in DOMAIN pc /\ t[i] = pc[i + 1]
  BY Tails
<1>2. InOrder(ps, tx, t, s) /\ Agreed(ps, tx, t, s, r) /\ BeforeAcks(ps, tx, t)
  BY DroppedInOrder, DroppedAgreed, DroppedBeforeAcks DEF Paced
<1>3. Uniform(ps, tx, pc, r) => Uniform(ps, tx, t, r)
  BY <1>1, Zenon DEF Uniform
<1>4. QED
  BY <1>2, <1>3, Zenon DEF Paced

LEMMA PacedTaken ==
  ASSUME NEW ps, NEW tx, NEW pc \in Seq(Packets), pc # << >>,
         NEW s, NEW r, Paced(ps, tx, pc, s, r),
         Head(pc).type = "handshake", Head(pc).epoch # 0,
         NEW ty, Alike(ty, Head(pc))
  PROVE  /\ Paced(ps, ty, Tail(pc), s, r)
         /\ Uniform(ps, tx, pc, r) => Uniform(ps, ty, Tail(pc), r) /\ ty.usec = tx.usec
<1> DEFINE t == Tail(pc)
<1>1. /\ \A i \in DOMAIN t : i + 1 \in DOMAIN pc /\ t[i] = pc[i + 1] /\ 1 < i + 1
      /\ 1 \in DOMAIN pc /\ pc[1].type = "handshake" /\ ty.usec = pc[1].usec
  BY Tails DEF Alike
<1>2. InOrder(ps, ty, t, s) /\ Agreed(ps, ty, t, s, r)
  BY TakenInOrder, TakenAgreed DEF Paced
<1>3. BeforeAcks(ps, ty, t)
  <2>1. BeforeAcks(ps, tx, t)
    BY DroppedBeforeAcks DEF Paced
  <2>2. ASSUME NEW j \in DOMAIN t, t[j].type = "ack" PROVE tx.usec = ty.usec
    BY <1>1, <2>2, Zenon DEF Paced, BeforeAcks
  <2>3. QED
    BY <2>1, <2>2, Zenon DEF BeforeAcks
<1>4. ASSUME Uniform(ps, tx, pc, r)
      PROVE  Uniform(ps, ty, t, r) /\ ty.usec = tx.usec
  <2>1. tx.usec = ty.usec
    BY <1>1, <1>4, Zenon DEF Uniform
  <2>2. QED
    BY <1>1, <1>4, <2>1, Zenon DEF Uniform
<1>5. QED
  BY <1>2, <1>3, <1>4, Zenon DEF Paced

LEMMA PacedEstablished ==
  ASSUME NEW ps, NEW tx, NEW pc \in Seq(Packets), pc # << >>,
         NEW s, NEW r, Paced(ps, tx, pc, s, r), Head(pc).type = "ack",
         NEW ty, ty.type = "ack", ty.usec = tx.usec
  PROVE  /\ Paced(ps, ty, Tail(pc), s, r)
         /\ Uniform(ps, tx, pc, r) => Uniform(ps, ty, Tail(pc), r)
<1> DEFINE t == Tail(pc)
<1>1. Paced(ps, tx, t, s, r)
  BY PacedDropped
<1>2. Uniform(ps, tx, pc, r) => Uniform(ps, tx, t, r)
  BY PacedDropped
<1>3. InOrder(ps, ty, t, s)
  BY <1>1, EstablishedInOrder, Zenon DEF Paced
<1>4. Agreed(ps, ty, t, s, r)
  BY EstablishedAgreed DEF Paced
<1>5. BeforeAcks(ps, ty, t)
  BY <1>1, Zenon DEF Paced, BeforeAcks
<1>6. Uniform(ps, tx, t, r) => Uniform(ps, ty, t, r)
  BY Zenon DEF Uniform
<1>7. QED
  BY <1>2, <1>3, <1>4, <1>5, <1>6, Zenon DEF Paced

LEMMA PacedReplied ==
  ASSUME NEW ps \in Seq(Packets), ps # << >>, NEW tx, NEW pc \in Seq(Packets),
         NEW s, NEW r \in Nat, Paced(ps, tx, pc, s, r),
         NEW x, x = Head(ps), Asking(x), NEW h \in Packets,
         h.type = "handshake", h.usec = Slower(x.usec, r), Current(h, s)
  PROVE  /\ Paced(Tail(ps), tx, Append(pc, h), s, r)
         /\ Uniform(ps, tx, pc, r) => Uniform(Tail(ps), tx, Append(pc, h), r)
<1> DEFINE t == Tail(ps)
           a == Append(pc, h)
<1>1. /\ 1 \in DOMAIN ps /\ x = ps[1]
      /\ \A i \in DOMAIN t : i + 1 \in DOMAIN ps /\ t[i] = ps[i + 1]
      /\ \A i \in DOMAIN a : (i \in DOMAIN pc /\ a[i] = pc[i]) \/ a[i] = h
  BY Tails, Appends
<1>2. Asked(x.usec, ps, tx, pc)
  BY <1>1, Zenon DEF Asked
<1>3. \A v : Offered(v, ps, tx, pc, s) => v = h.usec
  BY <1>2, Zenon DEF Paced, Agreed
<1>4. \A p : Valid(p, s) /\ p.usec = h.usec => Follows(p, h, s)
  BY DEF Follows, Valid
<1>5. \A p : ~Valid(p, s) => Follows(p, h, s)
  BY DEF Follows
<1>6. InOrder(ps, tx, a, s)
  <2>1. \A i \in DOMAIN ps : Follows(ps[i], h, s)
    BY <1>3, <1>4, <1>5, Zenon DEF Offered
  <2>2. Follows(tx, h, s)
    BY <1>3, <1>4, <1>5, Zenon DEF Offered
  <2>3. \A j \in DOMAIN pc : Follows(pc[j], h, s)
    BY <1>3, <1>4, <1>5, Zenon DEF Offered
  <2>4. QED
    BY <2>1, <2>2, <2>3, AnsweredInOrder, Zenon DEF Paced
<1>7. InOrder(t, tx, a, s)
  BY <1>6, ServedInOrder, Zenon
<1>8. Agreed(t, tx, a, s, r)
  BY RepliedAgreed DEF Paced
<1>9. BeforeAcks(t, tx, a)
  <2> SUFFICES ASSUME NEW j \in DOMAIN a, a[j].type = "ack"
               PROVE  /\ \A i \in DOMAIN t : t[i].usec = tx.usec
                      /\ \A i \in DOMAIN a : i < j /\ a[i].type = "handshake"
                                               => a[i].usec = tx.usec
    BY Zenon DEF BeforeAcks
  <2>1. j \in DOMAIN pc /\ pc[j].type = "ack"
    BY <1>1
  <2>2. \A i \in DOMAIN a : i < j => i \in DOMAIN pc /\ a[i] = pc[i]
    BY <2>1, Appends
  <2>3. QED
    BY <1>1, <2>1, <2>2, SMTT(30) DEF Paced, BeforeAcks
<1>10. ASSUME Uniform(ps, tx, pc, r) PROVE Uniform(t, tx, a, r)
  <2>1. h.usec = tx.usec
    <3>1. x.usec = tx.usec /\ tx.usec >= r
      BY <1>1, <1>10, Zenon DEF Uniform
    <3>2. QED
      BY <3>1 DEF Slower
  <2>2. QED
    BY <1>1, <1>10, <2>1, Zenon DEF Uniform
<1>11. QED
  BY <1>7, <1>8, <1>9, <1>10, Zenon DEF Paced

LEMMA PacedAcked ==
  ASSUME NEW ps, NEW tx, NEW pc \in Seq(Packets), NEW s, NEW r \in Nat,
         Paced(ps, tx, pc, s, r), Uniform(ps, tx, pc, r),
         NEW p \in Packets, p.type = "ack"
  PROVE  Paced(ps, tx, Append(pc, p), s, r) /\ Uniform(ps, tx, Append(pc, p), r)
<1> DEFINE a == Append(pc, p)
<1>1. \A i \in DOMAIN a : (i \in DOMAIN pc /\ a[i] = pc[i]) \/ a[i] = p
  BY Appends
<1>2. p.type # "handshake"
  OBVIOUS
<1>3. InOrder(ps, tx, a, s)
  BY <1>2, AnsweredInOrder, Zenon DEF Paced
<1>4. Uniform(ps, tx, a, r)
  BY <1>1, <1>2, Zenon DEF Uniform
<1>5. \A y : Asked(y, ps, tx, a) => y = tx.usec
  BY <1>4, Zenon DEF Uniform, Asked
<1>6. \A q : Valid(q, s) => q.type = "handshake"
  BY DEF Valid, Current, Fits
<1>7. \A v : Offered(v, ps, tx, a, s) => v = tx.usec
  BY <1>4, <1>6, Zenon DEF Uniform, Offered
<1>8. tx.usec >= r /\ Slower(tx.usec, r) = tx.usec
  BY DEF Uniform, Slower
<1>9. Agreed(ps, tx, a, s, r)
  BY <1>5, <1>7, <1>8, Zenon DEF Agreed
<1>10. BeforeAcks(ps, tx, a)
  BY <1>4, Zenon DEF Uniform, BeforeAcks
<1>11. QED
  BY <1>3, <1>4, <1>9, <1>10, Zenon DEF Paced

\* The server accepts the first packet: what comes after it has its rate.
LEMMA UniformEchoed ==
  ASSUME NEW ps \in Seq(Packets), ps # << >>, NEW tx, NEW pc,
         NEW s, NEW r, Paced(ps, tx, pc, s, r), Valid(Head(ps), s)
  PROVE  tx.usec = Head(ps).usec /\ Uniform(Tail(ps), tx, pc, r)
<1> DEFINE t == Tail(ps)
<1>1. /\ 1 \in DOMAIN ps /\ Head(ps) = ps[1]
      /\ \A i \in DOMAIN t : i + 1 \in DOMAIN ps /\ t[i] = ps[i + 1] /\ 1 < i + 1
  BY Tails
<1>2. Valid(ps[1], s)
  BY <1>1
<1>3. \A p : Follows(ps[1], p, s) => p.usec = ps[1].usec
  BY <1>2, Zenon DEF Follows
<1>4. tx.usec = ps[1].usec
  BY <1>1, <1>3, Zenon DEF Paced, InOrder
<1>5. \A i \in DOMAIN t : t[i].usec = ps[1].usec
  BY <1>1, <1>3, Zenon DEF Paced, InOrder
<1>6. \A j \in DOMAIN pc : pc[j].type = "handshake" => pc[j].usec = ps[1].usec
  BY <1>1, <1>3, Zenon DEF Paced, InOrder
<1>7. ps[1].usec >= r
  BY <1>1, <1>2, Zenon DEF Paced, Agreed, Offered
<1>8. QED
  BY <1>1, <1>4, <1>5, <1>6, <1>7, Zenon DEF Uniform

\* The server changes its secret, or is started with another one, of which
\* nothing was made.
Unused(k, ps, tx, pc) ==
  /\ tx.cookie.secret # k
  /\ \A i \in DOMAIN ps : ps[i].cookie.secret # k
  /\ \A i \in DOMAIN pc : pc[i].cookie.secret # k

LEMMA UnusedNotValid ==
  ASSUME NEW p, NEW k, p.cookie.secret # k, NEW e
  PROVE  ~Fits(p, e, k)
BY DEF Fits, Cookie

LEMMA PacedRotated ==
  ASSUME NEW ps, NEW tx, NEW pc, NEW s, NEW r, Paced(ps, tx, pc, s, r),
         NEW z, z.prev_epoch = s.epoch, z.prev_secret = s.secret,
         Unused(z.secret, ps, tx, pc)
  PROVE  Paced(ps, tx, pc, z, r)
<1>1. ASSUME NEW p, p.cookie.secret # z.secret
      PROVE  ~Current(p, z) /\ (Valid(p, z) <=> Current(p, s))
  BY <1>1, UnusedNotValid DEF Valid, Current
<1>2. ASSUME NEW p, NEW q, p.cookie.secret # z.secret, q.cookie.secret # z.secret,
             Follows(p, q, s)
      PROVE  Follows(p, q, z)
  <2>1. Current(p, s) => Valid(p, s)
    BY DEF Valid
  <2>2. QED
    BY <1>1, <1>2, <2>1, Zenon DEF Follows
<1>3. InOrder(ps, tx, pc, z)
  BY <1>2, Zenon DEF Paced, InOrder, Unused
<1>4. ASSUME NEW p, p.cookie.secret # z.secret, Valid(p, z) PROVE Valid(p, s)
  BY <1>1, <1>4 DEF Valid
<1>5. \A v : Offered(v, ps, tx, pc, z) => Offered(v, ps, tx, pc, s)
  BY <1>4, Zenon DEF Offered, Unused
<1>6. Agreed(ps, tx, pc, z, r)
  BY <1>5, AgreedOnLess, Zenon DEF Paced
<1>7. QED
  BY <1>3, <1>6, Zenon DEF Paced

LEMMA PacedStarted ==
  ASSUME NEW ps, NEW tx, NEW pc, NEW s, NEW r, Paced(ps, tx, pc, s, r),
         NEW z, z.prev_epoch = 0, Unused(z.secret, ps, tx, pc), NEW u
  PROVE  Paced(ps, tx, pc, z, u)
<1>1. ASSUME NEW p, p.cookie.secret # z.secret PROVE ~Valid(p, z)
  BY <1>1, UnusedNotValid DEF Valid, Current, Fits
<1>2. InOrder(ps, tx, pc, z)
  BY <1>1, Zenon DEF InOrder, Unused, Follows
<1>3. \A v : ~Offered(v, ps, tx, pc, z)
  BY <1>1, Zenon DEF Offered, Unused
<1>4. Agreed(ps, tx, pc, z, u)
  BY <1>3, Zenon DEF Paced, Agreed
<1>5. QED
  BY <1>2, <1>4, Zenon DEF Paced

-----------------------------------------------------------------------------
(* Secrets and records *)

\* A set of the elements of a sequence is finite.
LEMMA SentFinite ==
  ASSUME NEW q \in Seq(Packets)
  PROVE  IsFiniteSet({q[i].cookie.secret : i \in DOMAIN q})
<1> DEFINE T == {q[i].cookie.secret : i \in DOMAIN q}
           f == [i \in 1..Len(q) |-> q[i].cookie.secret]
<1>1. Len(q) \in Nat /\ DOMAIN q = 1..Len(q)
  OBVIOUS
<1>2. IsFiniteSet(1..Len(q))
  BY <1>1, FS_Interval
<1>3. f \in Surjection(1..Len(q), T)
  BY <1>1 DEF Surjection
<1>4. QED
  BY <1>2, <1>3, FS_Surjection

\* Fresh is positive and no secret that is known.
LEMMA FreshUnused ==
  ASSUME TypeOK
  PROVE  Fresh \in Nat \ {0} /\ Unused(Fresh, net[Server], Tx, net[Client])
<1> DEFINE sent(r) == {net[r][i].cookie.secret : i \in DOMAIN net[r]}
           used == {secret.secret, secret.prev_secret, client.cookie.secret}
                     \cup sent(Client) \cup sent(Server)
           n == Cardinality(used)
           free == (1..n + 1) \ used
<1>1. net[Client] \in Seq(Packets) /\ net[Server] \in Seq(Packets)
  BY DEF TypeOK
<1>2. IsFiniteSet(used)
  <2>1. IsFiniteSet(sent(Client)) /\ IsFiniteSet(sent(Server))
    BY <1>1, SentFinite
  <2>2. IsFiniteSet({secret.secret}) /\ IsFiniteSet({secret.prev_secret})
        /\ IsFiniteSet({client.cookie.secret})
    BY FS_Singleton
  <2>3. used = {secret.secret} \cup {secret.prev_secret}
                 \cup {client.cookie.secret} \cup sent(Client) \cup sent(Server)
    OBVIOUS
  <2> HIDE DEF sent, used
  <2>4. QED
    BY <2>1, <2>2, <2>3, FS_Union
<1>3. n \in Nat
  BY <1>2, FS_CardinalityType
<1>4. free # {}
  <2> SUFFICES ASSUME 1..n + 1 \subseteq used PROVE FALSE
    OBVIOUS
  <2> HIDE DEF used
  <2>1. Cardinality(1..n + 1) <= n
    BY <1>2, FS_Subset
  <2>2. Cardinality(1..n + 1) = n + 1
    <3>1. 1 \in Int /\ n + 1 \in Int /\ ~(1 > n + 1)
      BY <1>3
    <3>2. Cardinality(1..n + 1) = (n + 1) - 1 + 1
      BY <3>1, FS_Interval
    <3>3. QED
      BY <1>3, <3>2
  <2>3. QED
    BY <1>3, <2>1, <2>2
<1>5. free \in SUBSET Nat
  OBVIOUS
<1>6. Fresh = Min(free)
  BY DEF Fresh
<1>7. Min(free) \in free
  <2> HIDE DEF free
  <2>1. PICK x \in free : \A y \in free : ~(<<y, x>> \in OpToRel(<, Nat))
    BY <1>4, <1>5, NatLessThanWellFounded, WFMin
  <2>2. ASSUME NEW y \in free, y < x PROVE FALSE
    <3>1. <<y, x>> \in OpToRel(<, Nat)
      BY <1>5, <2>2, Zenon DEF OpToRel
    <3>2. QED
      BY <2>1, <3>1, Zenon
  <2>3. \E m \in free : \A y \in free : m <= y
    BY <1>5, <2>2
  <2>4. QED
    BY <2>3, Zenon DEF Min
<1>8. Fresh \notin used /\ Fresh \in Nat \ {0}
  <2> HIDE DEF used
  <2>1. PICK k \in free : k = Fresh
    BY <1>6, <1>7, Zenon
  <2>2. k \notin used /\ k \in Nat \ {0}
    BY <1>3
  <2>3. QED
    BY <2>1, <2>2, Zenon
<1>9. Tx.cookie.secret # Fresh
  <2>1. Tx.cookie = client.cookie \/ Tx.cookie = NoCookie
    BY DEF Tx, TxPacket, Ack, Handshake
  <2>2. NoCookie.secret = 0
    BY DEF NoCookie, Cookie
  <2>3. QED
    BY <1>8, <2>1, <2>2
<1>10. QED
  BY <1>8, <1>9 DEF Unused

\* What the client would send.
LEMMA TxFields ==
  ASSUME NEW c \in ClientSessions
  PROVE  /\ TxPacket(c) \in Packets
         /\ TxPacket(c).id = c.next_tx_id /\ TxPacket(c).usec = c.usec
         /\ TxPacket(c).type = IF c.state = "ESTABLISHED" THEN "ack" ELSE "handshake"
         /\ c.state # "ESTABLISHED" =>
              TxPacket(c).epoch = c.epoch /\ TxPacket(c).cookie = c.cookie
         /\ c.state = "ESTABLISHED" =>
              TxPacket(c).epoch = 0 /\ TxPacket(c).cookie = NoCookie
<1>1. MaxId \in Nat \ {0}
  BY Constants
<1>2. c.next_tx_id \in 1..MaxId /\ c.usec \in Usecs /\ c.epoch \in Nat
      /\ c.cookie \in Cookies
  BY DEF ClientSessions
<1>3. c.next_tx_id \in 0..MaxId /\ NoCookie \in Cookies
  BY <1>1, <1>2 DEF NoCookie, Cookie, Cookies
<1>4. CASE c.state = "ESTABLISHED"
  BY <1>2, <1>3, <1>4 DEF TxPacket, Ack, Packets
<1>5. CASE c.state # "ESTABLISHED"
  BY <1>2, <1>3, <1>5 DEF TxPacket, Handshake, Packets
<1>6. QED
  BY <1>4, <1>5

\* handle_ack_packet at the client and at the server.
LEMMA ClientHandled ==
  ASSUME NEW c \in ClientSessions, NEW id \in 1..MaxId
  PROVE  LET t == handle_ack_packet(c, id)
         IN  /\ t \in ClientSessions
             /\ t.num_lost = c.num_lost + Max({id - NextExpected(c, id), 0})
             /\ t.next_rx_id = Max({After(id), NextExpected(c, id)})
             /\ t.state = c.state /\ t.epoch = c.epoch /\ t.cookie = c.cookie
             /\ t.usec = c.usec /\ t.next_tx_id = c.next_tx_id
<1>1. c.next_rx_id \in 0..MaxId /\ c.num_lost \in Nat /\ MaxId \in Nat \ {0}
  BY Constants DEF ClientSessions
<1>2. PICK lost \in Nat, rx \in 0..MaxId :
        /\ lost = c.num_lost + Max({id - NextExpected(c, id), 0})
        /\ rx = Max({After(id), NextExpected(c, id)})
  <2>1. /\ Max({id - NextExpected(c, id), 0}) \in Nat
        /\ Max({After(id), NextExpected(c, id)}) \in 1..MaxId
    BY <1>1, HandledIs
  <2>2. QED
    BY <1>1, <2>1
<1>3. handle_ack_packet(c, id) = [c EXCEPT !.num_lost = lost, !.next_rx_id = rx]
  BY <1>2 DEF handle_ack_packet
<1>4. QED
  BY <1>2, <1>3 DEF ClientSessions

LEMMA ServerHandled ==
  ASSUME NEW s \in ServerSessions, NEW p, p.id \in 1..MaxId
  PROVE  LET t == Received(s, p)
         IN  /\ t \in ServerSessions
             /\ t.num_lost = s.num_lost + Max({p.id - NextExpected(s, p.id), 0})
             /\ t.next_rx_id = Max({After(p.id), NextExpected(s, p.id)})
             /\ t.next_rx_id # 0
             /\ t.usec = s.usec /\ t.next_tx_id = s.next_tx_id
<1>1. s.next_rx_id \in 0..MaxId /\ s.num_lost \in Nat /\ MaxId \in Nat \ {0}
  BY Constants DEF ServerSessions
<1>2. PICK lost \in Nat, rx \in 1..MaxId :
        /\ lost = s.num_lost + Max({p.id - NextExpected(s, p.id), 0})
        /\ rx = Max({After(p.id), NextExpected(s, p.id)})
  <2>1. /\ Max({p.id - NextExpected(s, p.id), 0}) \in Nat
        /\ Max({After(p.id), NextExpected(s, p.id)}) \in 1..MaxId
    BY <1>1, HandledIs
  <2>2. QED
    BY <1>1, <2>1
<1>3. Received(s, p) =
        [[s EXCEPT !.num_lost = lost, !.next_rx_id = rx] EXCEPT !.silent = FALSE]
  BY <1>2 DEF Received, handle_ack_packet
<1>4. rx \in 0..MaxId /\ rx # 0
  BY <1>1, <1>2
<1>5. QED
  BY <1>2, <1>3, <1>4 DEF ServerSessions

\* A session is not None.
LEMMA SessionsAre ==
  /\ None \notin ServerSessions
  /\ \A u \in Usecs :
       /\ ServerSession(u) \in ServerSessions
       /\ ServerSession(u).usec = u /\ ServerSession(u).next_tx_id = 1
       /\ ServerSession(u).next_rx_id = 0 /\ ServerSession(u).num_lost = 0
  /\ ClientSession \in ClientSessions
  /\ \A s \in ServerSessions :
       /\ s.next_tx_id \in 1..MaxId /\ s.usec \in Usecs /\ s.num_lost \in Nat
       /\ s.next_rx_id \in 0..MaxId
       /\ [s EXCEPT !.next_tx_id = After(@)] \in ServerSessions
       /\ [s EXCEPT !.next_tx_id = After(@)].usec = s.usec
       /\ [s EXCEPT !.silent = TRUE] \in ServerSessions
       /\ [s EXCEPT !.silent = TRUE].usec = s.usec
<1>1. MaxId \in Nat \ {0}
  BY Constants
<1>2. None \notin ServerSessions
  <2>1. DOMAIN None = {"none"}
    BY DEF None
  <2>2. \A s \in ServerSessions : "usec" \in DOMAIN s
    BY DEF ServerSessions
  <2>3. QED
    BY <2>1, <2>2
<1>3. ASSUME NEW u \in Usecs
      PROVE  /\ ServerSession(u) \in ServerSessions
             /\ ServerSession(u).usec = u /\ ServerSession(u).next_tx_id = 1
             /\ ServerSession(u).next_rx_id = 0 /\ ServerSession(u).num_lost = 0
  BY <1>1 DEF ServerSession, ServerSessions
<1>4. ClientSession \in ClientSessions
  BY <1>1, Constants DEF ClientSession, ClientSessions, States, NoCookie, Cookie,
                         Cookies
<1>5. ASSUME NEW s \in ServerSessions
      PROVE  /\ s.next_tx_id \in 1..MaxId /\ s.usec \in Usecs /\ s.num_lost \in Nat
             /\ s.next_rx_id \in 0..MaxId
             /\ [s EXCEPT !.next_tx_id = After(@)] \in ServerSessions
             /\ [s EXCEPT !.next_tx_id = After(@)].usec = s.usec
             /\ [s EXCEPT !.silent = TRUE] \in ServerSessions
             /\ [s EXCEPT !.silent = TRUE].usec = s.usec
  <2>1. s.next_tx_id \in 1..MaxId
    BY DEF ServerSessions
  <2>2. After(s.next_tx_id) \in 1..MaxId
    BY <1>1, <2>1, AfterIs
  <2>3. QED
    BY <2>2 DEF ServerSessions
<1>6. QED
  BY <1>2, <1>3, <1>4, <1>5

-----------------------------------------------------------------------------
(* The steps *)

\* The two directions of the network.
LEMMA Nets ==
  ASSUME TypeOK
  PROVE  /\ net[Client] \in Seq(Packets) /\ net[Server] \in Seq(Packets)
         /\ DOMAIN net = {Client, Server} /\ Client # Server
         /\ Len(net[Client]) <= MaxInFlight /\ Len(net[Server]) <= MaxInFlight
         /\ client \in ClientSessions /\ client.usec \in Usecs
         /\ client.next_tx_id \in 1..MaxId /\ client.next_tx_id \in Nat
         /\ client.next_rx_id \in 0..MaxId /\ client.next_rx_id \in Nat
         /\ client.num_lost \in Nat /\ losses[Client] \in Nat
         /\ losses[Server] \in Nat
         /\ rate \in Nat /\ Tx \in Packets
<1>1. client \in ClientSessions /\ rate \in Rates /\ Client # Server
      /\ net \in [{Client, Server} -> Seq(Packets)]
      /\ losses \in [{Client, Server} -> Nat]
      /\ \A r \in {Client, Server} : Len(net[r]) <= MaxInFlight
  BY DEF TypeOK, Client, Server
<1>2. rate \in Nat
  BY <1>1, Constants
<1>3. Tx \in Packets
  BY <1>1, TxFields DEF Tx
<1>4. /\ client.next_tx_id \in 1..MaxId /\ client.next_rx_id \in 0..MaxId
      /\ client.num_lost \in Nat /\ client.usec \in Usecs
  BY <1>1 DEF ClientSessions
<1>5. client.next_tx_id \in Nat /\ client.next_rx_id \in Nat
  BY <1>4, Constants
<1>6. QED
  BY <1>1, <1>2, <1>3, <1>4, <1>5

LEMMA NetAfter ==
  ASSUME TypeOK, NEW r \in {Client, Server}, NEW q \in Seq(Packets),
         Len(q) <= MaxInFlight, net' = [net EXCEPT ![r] = q]
  PROVE  /\ net'[r] = q /\ \A o \in {Client, Server} : o # r => net'[o] = net[o]
         /\ net' \in [{Client, Server} -> Seq(Packets)]
         /\ \A o \in {Client, Server} : Len(net'[o]) <= MaxInFlight
<1>1. net \in [{Client, Server} -> Seq(Packets)] /\ Client # Server
      /\ \A o \in {Client, Server} : Len(net[o]) <= MaxInFlight
  BY DEF TypeOK, Client, Server
<1>2. QED
  BY <1>1

LEMMA NetsAfter ==
  ASSUME TypeOK, NEW ps \in Seq(Packets), NEW pc \in Seq(Packets),
         Len(ps) <= MaxInFlight, Len(pc) <= MaxInFlight,
         net' = [net EXCEPT ![Client] = pc, ![Server] = ps]
  PROVE  /\ net'[Client] = pc /\ net'[Server] = ps
         /\ net' \in [{Client, Server} -> Seq(Packets)]
         /\ \A r \in {Client, Server} : Len(net'[r]) <= MaxInFlight
<1>1. net \in [{Client, Server} -> Seq(Packets)] /\ Client # Server
  BY DEF TypeOK, Client, Server
<1>2. QED
  BY <1>1

\* The losses, when the other side has sent nothing and the receiver nothing
\* received.
LEMMA ClientLossKept ==
  ASSUME TypeOK, ClientLoss, net'[Client] = net[Client],
         client'.num_lost = client.num_lost,
         client'.next_rx_id = client.next_rx_id,
         client'.state # "exited" => client.state # "exited",
         losses'[Client] = losses[Client], strays' = strays,
         NextToClient' = NextToClient
  PROVE  ClientLoss'
BY Zenon DEF ClientLoss

LEMMA ServerLossKept ==
  ASSUME TypeOK, ServerLoss, net'[Server] = net[Server],
         client'.next_tx_id = client.next_tx_id,
         losses'[Server] = losses[Server],
         session' # None => /\ session # None
                            /\ session'.next_rx_id = session.next_rx_id
                            /\ session'.num_lost = session.num_lost,
         ~rejected' => ~rejected
  PROVE  ServerLoss'
BY Zenon DEF ServerLoss

\* The numbers of the server's session.
LEMMA SessionFields ==
  ASSUME TypeOK, session # None
  PROVE  /\ session \in ServerSessions
         /\ session.next_tx_id \in 1..MaxId /\ session.next_tx_id \in Nat
         /\ session.next_rx_id \in 0..MaxId /\ session.next_rx_id \in Nat
         /\ session.num_lost \in Nat
         /\ session.usec \in Usecs /\ session.usec \in Nat
<1>1. session \in ServerSessions
  BY DEF TypeOK
<1>2. /\ session.next_tx_id \in 1..MaxId /\ session.next_rx_id \in 0..MaxId
      /\ session.num_lost \in Nat /\ session.usec \in Usecs
  BY <1>1 DEF ServerSessions
<1>3. /\ session.next_tx_id \in Nat /\ session.next_rx_id \in Nat
      /\ session.usec \in Nat
  BY <1>2, Constants
<1>4. QED
  BY <1>1, <1>2, <1>3

LEMMA ClientSendStep ==
  ASSUME IInv, ClientSend
  PROVE  IInv'
<1> USE DEF IInv
<1>1. /\ net[Client] \in Seq(Packets) /\ net[Server] \in Seq(Packets)
      /\ Tx \in Packets /\ Tx.id = client.next_tx_id
      /\ client \in ClientSessions /\ client.next_tx_id \in 1..MaxId
      /\ client.next_tx_id \in Nat
  BY Nets, TxFields DEF Tx
<1>2. PICK n \in 1..MaxId :
        /\ client'.next_tx_id = n /\ n <= client.next_tx_id + 1 /\ n \in Nat
        /\ client' \in ClientSessions
        /\ client'.usec = client.usec /\ client'.epoch = client.epoch
        /\ client'.cookie = client.cookie
        /\ client'.next_rx_id = client.next_rx_id
        /\ client'.num_lost = client.num_lost
        /\ client'.state # "exited"
        /\ client'.state = "ESTABLISHED" <=> client.state = "ESTABLISHED"
        /\ client'.state \in {"NEW_SESSION", "HANDSHAKE_REQUESTED"}
             => client.state \in {"NEW_SESSION", "HANDSHAKE_REQUESTED"}
  <2>1. MaxId \in Nat \ {0}
    BY Constants
  <2>2. CASE client.state \in {"COOKIE_GENERATED", "ESTABLISHED"}
    <3>1. PICK n \in 1..MaxId : n = After(client.next_tx_id)
                                /\ n <= client.next_tx_id + 1 /\ n \in Nat
      BY <1>1, <2>1, AfterIs
    <3>2. client' = [client EXCEPT !.next_tx_id = n]
      BY <2>2, <3>1 DEF ClientSend
    <3>3. QED
      BY <1>1, <2>1, <2>2, <3>1, <3>2 DEF ClientSessions
  <2>3. CASE client.state \notin {"COOKIE_GENERATED", "ESTABLISHED"}
    <3>1. client' = [client EXCEPT !.state = "HANDSHAKE_REQUESTED"]
      BY <2>3 DEF ClientSend
    <3>2. client.state \in {"NEW_SESSION", "HANDSHAKE_REQUESTED"}
      BY <1>1, <2>3 DEF ClientSend, ClientSessions, States
    <3>3. QED
      BY <1>1, <2>1, <2>3, <3>1, <3>2 DEF ClientSessions, States
  <2>4. QED
    BY <2>2, <2>3
<1>3. Alike(Tx, Tx')
  <2>1. PICK d \in ClientSessions : d = client'
    BY <1>2
  <2>2. Alike(TxPacket(client), TxPacket(d))
    BY <1>1, <1>2, <2>1, TxFields DEF Alike
  <2>3. QED
    BY <2>1, <2>2 DEF Tx
<1> DEFINE a == Append(net[Server], Tx)
<1>4. /\ a \in Seq(Packets) /\ Len(a) = Len(net[Server]) + 1
      /\ \A i \in DOMAIN a : a[i] = Tx \/ (i \in DOMAIN net[Server]
                                           /\ a[i] = net[Server][i])
  BY <1>1, Appends
<1>5. /\ net'[Client] = net[Client] /\ net'[Server] = a
      /\ net' \in [{Client, Server} -> Seq(Packets)]
      /\ \A r \in {Client, Server} : Len(net'[r]) <= MaxInFlight
  <2>1. Len(a) <= MaxInFlight /\ Len(net[Client]) <= MaxInFlight
    BY <1>1, <1>4, Nets, Constants DEF ClientSend
  <2>2. net' = [net EXCEPT ![Client] = net[Client], ![Server] = a]
    BY Nets DEF ClientSend, Tx, TypeOK
  <2>3. QED
    BY <1>1, <1>4, <2>1, <2>2, NetsAfter
<1> HIDE DEF a
<1>6. /\ UNCHANGED <<running, rate, secret, session, entries, freed, dangling>>
      /\ UNCHANGED <<refused, losses, faults, rejected, strays>>
  BY DEF ClientSend, server, history
<1>7. TypeOK' /\ SessionScheduled'
  BY <1>2, <1>5, <1>6 DEF TypeOK, SessionScheduled
<1>8. Numbered'
  <2>1. \A i \in DOMAIN a : a[i].id >= 1
    BY <1>1, <1>4 DEF Numbered
  <2>2. QED
    BY <1>5, <1>6, <2>1 DEF Numbered
<1>9. NoCookieYet'
  <2> SUFFICES ASSUME client'.state \in {"NEW_SESSION", "HANDSHAKE_REQUESTED"}
               PROVE  /\ session' = None /\ freed' = None /\ client'.epoch = 0
                      /\ \A i \in DOMAIN a : a[i].type = "handshake" /\ a[i].epoch = 0
                      /\ \A i \in DOMAIN net[Client] :
                           net[Client][i].type = "handshake"
    BY <1>5 DEF NoCookieYet
  <2>1. client.state \in {"NEW_SESSION", "HANDSHAKE_REQUESTED"} /\ client.epoch = 0
    BY <1>2 DEF NoCookieYet
  <2>2. Tx.type = "handshake" /\ Tx.epoch = 0
    BY <1>1, <2>1, TxFields DEF Tx
  <2>3. QED
    BY <1>2, <1>4, <1>6, <2>1, <2>2 DEF NoCookieYet
<1>10. RateInv'
  <2>1. client.state # "exited"
    BY DEF ClientSend
  <2>2. /\ Paced(a, Tx', net[Client], secret, rate)
        /\ Uniform(net[Server], Tx, net[Client], rate)
             => Uniform(a, Tx', net[Client], rate)
    BY <1>1, <1>3, <2>1, PacedSent DEF RateInv, a
  <2>3. QED
    BY <1>2, <1>5, <1>6, <2>1, <2>2 DEF RateInv
<1>11. ClientLoss'
  <2>1. NextToClient' = NextToClient
    BY <1>6 DEF NextToClient
  <2>2. client.state # "exited"
    BY DEF ClientSend
  <2>3. QED
    BY <1>2, <1>5, <1>6, <2>1, <2>2, ClientLossKept
<1>12. ServerLoss'
  <2>1. Steady(a, n)
    BY <1>1, <1>2, SteadyAppend DEF ServerLoss, a
  <2>2. ASSUME ~rejected, session # None
        PROVE  Ahead(a, n, session.next_rx_id, losses[Server] - session.num_lost)
    <3>2. PICK rx \in Nat, m \in Nat : rx = session.next_rx_id /\ m = session.num_lost
      BY <2>2, SessionFields
    <3>3. PICK slack \in Nat : slack = losses[Server] - session.num_lost
      BY <2>2, <3>2, Nets DEF ServerLoss
    <3>4. Ahead(net[Server], client.next_tx_id, rx, slack)
      BY <2>2, <3>2, <3>3 DEF ServerLoss
    <3>5. Ahead(a, n, rx, slack)
      BY <1>1, <1>2, <3>4, AheadAppend DEF a
    <3>6. QED
      BY <3>2, <3>3, <3>5
  <2>3. QED
    BY <1>2, <1>5, <1>6, <2>1, <2>2 DEF ServerLoss
<1>13. QED
  BY <1>7, <1>8, <1>9, <1>10, <1>11, <1>12

LEMMA ClientRefusedStep ==
  ASSUME IInv, ClientRefused
  PROVE  IInv'
<1> USE DEF IInv
<1>1. /\ UNCHANGED <<running, rate, secret, session, entries, freed, dangling>>
      /\ UNCHANGED <<net, refused, losses, faults, rejected, strays>>
      /\ client' = [client EXCEPT !.state = "exited"]
  BY DEF ClientRefused, server, history
<1>2. /\ client' \in ClientSessions /\ client'.state = "exited"
      /\ client'.next_tx_id = client.next_tx_id
      /\ client'.next_rx_id = client.next_rx_id
      /\ client'.num_lost = client.num_lost
  BY <1>1, Nets DEF ClientSessions, States
<1>3. TypeOK' /\ SessionScheduled'
  BY <1>1, <1>2 DEF TypeOK, SessionScheduled
<1>4. Numbered'
  BY <1>1 DEF Numbered
<1>5. NoCookieYet' /\ RateInv'
  BY <1>2 DEF NoCookieYet, RateInv
<1>6. ClientLoss'
  <2>1. NextToClient' = NextToClient
    BY <1>1 DEF NextToClient
  <2>2. QED
    BY <1>1, <1>2, <2>1, ClientLossKept
<1>7. ServerLoss'
  BY <1>1, <1>2, ServerLossKept
<1>8. QED
  BY <1>3, <1>4, <1>5, <1>6, <1>7

LEMMA ClientReceiveStep ==
  ASSUME IInv, ClientReceive
  PROVE  IInv'
<1> USE DEF IInv
<1> DEFINE q == net[Client]
           t == Tail(net[Client])
           p == Head(net[Client])
<1>1. /\ q \in Seq(Packets) /\ net[Server] \in Seq(Packets) /\ q # << >>
      /\ Len(q) <= MaxInFlight /\ Len(net[Server]) <= MaxInFlight
      /\ client \in ClientSessions /\ client.state # "exited"
  BY Nets DEF ClientReceive
<1>2. /\ t \in Seq(Packets) /\ Len(t) <= MaxInFlight /\ 1 \in DOMAIN q /\ p = q[1]
      /\ \A i \in DOMAIN t : i + 1 \in DOMAIN q /\ t[i] = q[i + 1]
  <2>1. Len(t) = Len(q) - 1 /\ Len(q) \in Nat
    BY <1>1, Tails
  <2>2. Len(t) <= MaxInFlight
    BY <1>1, <2>1, Constants
  <2>3. QED
    BY <1>1, <2>2, Tails
<1>3. /\ p \in Packets /\ p.usec \in Usecs /\ p.epoch \in Nat /\ p.cookie \in Cookies
      /\ p.type \in {"handshake", "ack"}
      /\ p.type = "ack" => p.id \in 1..MaxId
      /\ p.type = "handshake" => p.epoch # 0
  BY <1>1, <1>2, PacketFields, Constants DEF Numbered
<1>4. /\ net'[Client] = t /\ net'[Server] = net[Server]
      /\ net' \in [{Client, Server} -> Seq(Packets)]
      /\ \A r \in {Client, Server} : Len(net'[r]) <= MaxInFlight
  <2>1. net' = [net EXCEPT ![Client] = t] /\ Client # Server
    BY Nets DEF ClientReceive
  <2>2. QED
    BY <1>2, <2>1, NetAfter
<1>5. /\ UNCHANGED <<running, rate, secret, session, entries, freed, dangling>>
      /\ UNCHANGED <<refused, losses, faults, rejected, strays>>
      /\ client' = IF p.type = "handshake" THEN TakeCookie(client, p)
                   ELSE StoreAck(handle_ack_packet(Establish(client), p.id))
  BY DEF ClientReceive, server, history
<1> HIDE DEF q, t, p
<1>6. Numbered'
  BY <1>2, <1>4, <1>5 DEF Numbered, q
<1>7. NextToClient' = NextToClient /\ NextToClient \in 1..MaxId /\ NextToClient \in Nat
  BY <1>5, SessionFields, Constants DEF NextToClient
<1>8. strays = 0 => Steady(t, NextToClient) /\ client.num_lost <= losses[Client]
  <2>1. strays = 0 => Steady(q, NextToClient) /\ client.num_lost <= losses[Client]
    BY <1>1 DEF ClientLoss, q
  <2>2. QED
    BY <1>1, <1>7, <2>1, SteadyTail DEF t, q
<1>9. CASE p.type = "handshake"
  <2>1. /\ client' \in ClientSessions /\ client'.state = "COOKIE_GENERATED"
        /\ client'.next_tx_id = 1 /\ client'.next_rx_id = 0
        /\ client'.epoch = p.epoch /\ client'.cookie = p.cookie
        /\ client'.usec = p.usec /\ client'.num_lost = client.num_lost
    <3>1. /\ "COOKIE_GENERATED" \in States /\ 1 \in 1..MaxId /\ 0 \in 0..MaxId
          /\ client' = TakeCookie(client, p)
      BY <1>5, <1>9, Constants DEF States
    <3>2. QED
      BY <1>1, <1>3, <3>1 DEF TakeCookie, ClientSessions
  <2>2. TypeOK' /\ SessionScheduled'
    BY <1>4, <1>5, <2>1 DEF TypeOK, SessionScheduled
  <2>3. NoCookieYet'
    BY <2>1 DEF NoCookieYet
  <2>4. RateInv'
    <3>1. Alike(Tx', p)
      <4>1. PICK d \in ClientSessions : d = client'
        BY <2>1
      <4>2. Alike(TxPacket(d), p)
        BY <1>9, <2>1, <4>1, TxFields DEF Alike
      <4>3. QED
        BY <4>1, <4>2 DEF Tx
    <3>2. /\ Paced(net[Server], Tx', t, secret, rate)
          /\ Uniform(net[Server], Tx, q, rate)
               => Uniform(net[Server], Tx', t, rate) /\ Tx'.usec = Tx.usec
      BY <1>1, <1>3, <1>9, <3>1, PacedTaken DEF RateInv, p, q, t
    <3>3. Tx.usec = client.usec /\ Tx'.usec = client'.usec
      <4>1. PICK d \in ClientSessions : d = client'
        BY <2>1
      <4>2. TxPacket(client).usec = client.usec /\ TxPacket(d).usec = d.usec
        BY <1>1, TxFields
      <4>3. QED
        BY <4>1, <4>2 DEF Tx
    <3>4. QED
      BY <1>1, <1>4, <1>5, <3>2, <3>3 DEF RateInv, q
  <2>5. ClientLoss'
    BY <1>4, <1>5, <1>7, <1>8, <2>1 DEF ClientLoss, Ahead
  <2>6. ServerLoss'
    <3>1. Steady(net[Server], 1)
      BY <1>1, SteadyOne, Nets DEF ServerLoss
    <3>2. ASSUME ~rejected, session # None
          PROVE  Ahead(net[Server], 1, session.next_rx_id,
                       losses[Server] - session.num_lost)
      <4>1. PICK rx \in Nat, m \in Nat :
              rx = session.next_rx_id /\ m = session.num_lost
        BY <3>2, SessionFields
      <4>2. PICK slack \in Nat : slack = losses[Server] - session.num_lost
        BY <3>2, <4>1, Nets DEF ServerLoss
      <4>3. Ahead(net[Server], client.next_tx_id, rx, slack)
        BY <3>2, <4>1, <4>2 DEF ServerLoss
      <4>4. Ahead(net[Server], 1, rx, slack)
        BY <1>1, <4>3, AheadOne, Nets
      <4>5. QED
        BY <4>1, <4>2, <4>4
    <3>3. QED
      BY <1>4, <1>5, <2>1, <3>1, <3>2 DEF ServerLoss
  <2>7. QED
    BY <1>6, <2>2, <2>3, <2>4, <2>5, <2>6
<1>10. CASE p.type = "ack"
  <2>1. client.state \in {"COOKIE_GENERATED", "ESTABLISHED"}
    <3>1. client.state \notin {"NEW_SESSION", "HANDSHAKE_REQUESTED"}
      BY <1>2, <1>10 DEF NoCookieYet, q
    <3>2. QED
      BY <1>1, <3>1 DEF ClientSessions, States
  <2>2. PICK c \in ClientSessions :
          /\ c = Establish(client) /\ c.state = "ESTABLISHED"
          /\ c.next_tx_id = client.next_tx_id /\ c.usec = client.usec
          /\ c.next_rx_id = client.next_rx_id /\ c.num_lost = client.num_lost
    <3>1. NoCookie \in Cookies
      BY DEF NoCookie, Cookie, Cookies
    <3>2. QED
      <4>1. CASE client.state = "ESTABLISHED"
        <5>1. Establish(client) = client
          BY <4>1 DEF Establish
        <5>2. QED
          BY <1>1, <4>1, <5>1
      <4>2. CASE client.state = "COOKIE_GENERATED"
        <5>1. PICK c : c = [client EXCEPT !.state = "ESTABLISHED", !.epoch = 0,
                                          !.cookie = NoCookie]
          OBVIOUS
        <5>2. /\ c \in ClientSessions /\ c.state = "ESTABLISHED"
              /\ c.next_tx_id = client.next_tx_id /\ c.usec = client.usec
              /\ c.next_rx_id = client.next_rx_id /\ c.num_lost = client.num_lost
          BY <1>1, <3>1, <5>1 DEF ClientSessions, States
        <5>3. QED
          BY <4>2, <5>1, <5>2 DEF Establish
      <4>3. QED
        BY <2>1, <4>1, <4>2
  <2>3. PICK id \in 1..MaxId : id = p.id
    BY <1>3, <1>10
  <2>4. client' = handle_ack_packet(c, id)
    <3>1. /\ client' = StoreAck(handle_ack_packet(c, id))
          /\ handle_ack_packet(c, id).state = "ESTABLISHED"
      BY <1>5, <1>10, <2>2, <2>3, ClientHandled
    <3>2. QED
      BY <3>1 DEF StoreAck
  <2>5. /\ client' \in ClientSessions /\ client'.state = "ESTABLISHED"
        /\ client'.next_tx_id = client.next_tx_id /\ client'.usec = client.usec
        /\ client'.num_lost = c.num_lost + Max({id - NextExpected(c, id), 0})
        /\ client'.next_rx_id = Max({After(id), NextExpected(c, id)})
    BY <2>2, <2>3, <2>4, ClientHandled
  <2>6. TypeOK' /\ SessionScheduled'
    BY <1>4, <1>5, <2>5 DEF TypeOK, SessionScheduled
  <2>7. NoCookieYet'
    BY <2>5 DEF NoCookieYet
  <2>8. RateInv'
    <3>1. Tx'.type = "ack" /\ Tx'.usec = Tx.usec
      <4>1. PICK d \in ClientSessions : d = client'
        BY <2>5
      <4>2. TxPacket(d).type = "ack" /\ TxPacket(d).usec = TxPacket(client).usec
        BY <1>1, <2>5, <4>1, TxFields
      <4>3. QED
        BY <4>1, <4>2 DEF Tx
    <3>2. /\ Paced(net[Server], Tx', t, secret, rate)
          /\ Uniform(net[Server], Tx, q, rate)
               => Uniform(net[Server], Tx', t, rate)
      BY <1>1, <1>10, <3>1, PacedEstablished DEF RateInv, p, q, t
    <3>3. QED
      BY <1>1, <1>4, <1>5, <2>5, <3>2 DEF RateInv, q
  <2>9. ClientLoss'
    <3> SUFFICES ASSUME strays = 0
                 PROVE  /\ client'.num_lost <= losses[Client]
                        /\ Steady(t, NextToClient)
                        /\ Ahead(t, NextToClient, client'.next_rx_id,
                                 losses[Client] - client'.num_lost)
      BY <1>4, <1>5, <1>7 DEF ClientLoss
    <3>1. /\ Steady(q, NextToClient)
          /\ Ahead(q, NextToClient, c.next_rx_id, losses[Client] - c.num_lost)
          /\ c.num_lost <= losses[Client]
      BY <1>1, <2>2 DEF ClientLoss, q
    <3>2. /\ c.next_rx_id \in 0..MaxId /\ c.num_lost \in Nat
          /\ losses[Client] \in Nat /\ NextToClient \in 1..MaxId /\ id = Head(q).id
      BY <1>7, <2>2, <2>3, Nets DEF p, q
    <3>3. PICK next \in 1..MaxId, lost \in Nat, d \in ClientSessions :
            next = NextToClient /\ lost = losses[Client] /\ d = client'
      BY <2>5, <3>2
    <3>4. d.num_lost <= lost /\ Ahead(Tail(q), next, d.next_rx_id, lost - d.num_lost)
      BY <1>1, <2>5, <3>1, <3>2, <3>3, AheadHandled
    <3>5. QED
      BY <1>8, <3>3, <3>4 DEF t, q
  <2>10. ServerLoss'
    BY <1>4, <1>5, <2>5, ServerLossKept
  <2>11. QED
    BY <1>6, <2>6, <2>7, <2>8, <2>9, <2>10
<1>11. QED
  BY <1>3, <1>9, <1>10

\* The server, or the way to it, takes the first packet.
LEMMA ServedNet ==
  ASSUME TypeOK, net[Server] # << >>, net' = [net EXCEPT ![Server] = Tail(@)]
  PROVE  /\ net'[Server] = Tail(net[Server]) /\ net'[Client] = net[Client]
         /\ net' \in [{Client, Server} -> Seq(Packets)]
         /\ \A r \in {Client, Server} : Len(net'[r]) <= MaxInFlight
<1>1. /\ Tail(net[Server]) \in Seq(Packets) /\ Client # Server
      /\ Len(Tail(net[Server])) <= MaxInFlight
  <2>1. /\ net[Server] \in Seq(Packets) /\ Len(net[Server]) <= MaxInFlight
        /\ Client # Server
    BY Nets
  <2>2. /\ Tail(net[Server]) \in Seq(Packets) /\ Len(net[Server]) \in Nat
        /\ Len(Tail(net[Server])) = Len(net[Server]) - 1
    BY <2>1, Tails
  <2>3. QED
    BY <2>1, <2>2, Constants
<1>2. QED
  BY <1>1, NetAfter

\* The server sends a packet.
LEMMA SentNet ==
  ASSUME TypeOK, NEW h \in Packets, Send(h), h.type = "handshake" => net[Server] # << >>
  PROVE  /\ net'[Server] = IF h.type = "handshake" THEN Tail(net[Server])
                           ELSE net[Server]
         /\ net'[Client] = Append(net[Client], h)
         /\ net' \in [{Client, Server} -> Seq(Packets)]
         /\ \A r \in {Client, Server} : Len(net'[r]) <= MaxInFlight
<1> DEFINE ps == IF h.type = "handshake" THEN Tail(net[Server]) ELSE net[Server]
           a == Append(net[Client], h)
<1>1. /\ net[Server] \in Seq(Packets) /\ Len(net[Server]) <= MaxInFlight
      /\ net[Client] \in Seq(Packets) /\ Client # Server
      /\ net \in [{Client, Server} -> Seq(Packets)] /\ MaxInFlight \in Nat
  BY Nets, Constants DEF TypeOK
<1>2. ps \in Seq(Packets) /\ Len(ps) <= MaxInFlight
  <2>1. CASE h.type = "handshake"
    <3>1. /\ Tail(net[Server]) \in Seq(Packets) /\ Len(net[Server]) \in Nat
          /\ Len(Tail(net[Server])) = Len(net[Server]) - 1
      BY <1>1, <2>1, Tails
    <3>2. QED
      BY <1>1, <2>1, <3>1
  <2>2. CASE h.type # "handshake"
    BY <1>1, <2>2
  <2>3. QED
    BY <2>1, <2>2
<1>3. a \in Seq(Packets) /\ Len(a) <= MaxInFlight
  <2>1. Len(net[Client]) < MaxInFlight
    BY DEF Send
  <2>2. a \in Seq(Packets) /\ Len(a) = Len(net[Client]) + 1 /\ Len(net[Client]) \in Nat
    BY <1>1, Appends
  <2>3. QED
    BY <1>1, <2>1, <2>2
<1>4. net' = [net EXCEPT ![Client] = a, ![Server] = ps]
  BY <1>1 DEF Send
<1> HIDE DEF ps, a
<1>5. /\ net'[Client] = a /\ net'[Server] = ps
      /\ net' \in [{Client, Server} -> Seq(Packets)]
      /\ \A r \in {Client, Server} : Len(net'[r]) <= MaxInFlight
  BY <1>2, <1>3, <1>4, NetsAfter
<1>6. QED
  BY <1>5 DEF ps, a

\* The reply to a packet p.
LEMMA ReplyFields ==
  ASSUME TypeOK, NEW p, p.usec \in Usecs
  PROVE  /\ Reply(p) \in Packets /\ Reply(p).type = "handshake" /\ Reply(p).id = 0
         /\ Reply(p).usec = Slower(p.usec, rate) /\ Reply(p).epoch # 0
         /\ Reply(p).epoch \in Nat /\ Current(Reply(p), secret)
<1>1. /\ rate \in Usecs /\ rate \in Int /\ p.usec \in Int /\ 0 \in 0..MaxId
      /\ rate \in Nat /\ p.usec \in Nat
  BY Constants DEF TypeOK
<1>2. Max({p.usec, rate}) = Slower(p.usec, rate)
  BY <1>1, MinMaxPair DEF Slower
<1>3. PICK u \in Usecs : u = Slower(p.usec, rate) /\ u \in Nat
  BY <1>1 DEF Slower
<1>4. Reply(p) = Handshake(0, u, secret.epoch, Cookie(secret.secret, u))
  BY <1>2, <1>3 DEF Reply
<1>5. secret.epoch \in Nat \ {0} /\ secret.secret \in Nat
  BY DEF TypeOK
<1>6. Cookie(secret.secret, u) \in Cookies
  BY <1>3, <1>5 DEF Cookie, Cookies
<1>7. QED
  BY <1>1, <1>3, <1>4, <1>5, <1>6 DEF Handshake, Packets, Current, Fits

\* The losses at the client, when the server sends it a packet.
LEMMA ClientLossSent ==
  ASSUME TypeOK, ClientLoss, NEW h \in Packets, NEW after \in Nat,
         net'[Client] = Append(net[Client], h), NextToClient' = after,
         h.id = 0 \/ h.id = NextToClient, after <= NextToClient + 1,
         h.id = 0 => after <= NextToClient,
         client' = client, losses' = losses, strays' = strays
  PROVE  ClientLoss'
<1> SUFFICES ASSUME strays = 0
             PROVE  /\ client.num_lost <= losses[Client]
                    /\ client.state # "exited" =>
                         /\ Steady(Append(net[Client], h), after)
                         /\ Ahead(Append(net[Client], h), after, client.next_rx_id,
                                  losses[Client] - client.num_lost)
  BY DEF ClientLoss
<1>1. NextToClient \in Nat
  BY SessionFields DEF NextToClient
<1>2. PICK next \in Nat : next = NextToClient
  BY <1>1
<1>3. /\ net[Client] \in Seq(Packets) /\ client.num_lost \in Nat
      /\ client.next_rx_id \in Nat /\ losses[Client] \in Nat
      /\ client.num_lost <= losses[Client]
  BY Nets DEF ClientLoss
<1>4. PICK slack \in Nat : slack = losses[Client] - client.num_lost
  BY <1>3
<1>5. ASSUME client.state # "exited"
      PROVE  /\ Steady(Append(net[Client], h), after)
             /\ Ahead(Append(net[Client], h), after, client.next_rx_id, slack)
  <2>1. /\ Steady(net[Client], next)
        /\ Ahead(net[Client], next, client.next_rx_id, slack)
    BY <1>2, <1>4, <1>5 DEF ClientLoss
  <2>2. Steady(Append(net[Client], h), after)
    BY <1>2, <1>3, <2>1, SteadyAppend
  <2>3. Ahead(Append(net[Client], h), after, client.next_rx_id, slack)
    BY <1>2, <1>3, <2>1, AheadAppend
  <2>4. QED
    BY <2>2, <2>3
<1>6. QED
  BY <1>3, <1>4, <1>5

\* The losses at the server, when it takes a packet and does not count it.
LEMMA ServerLossSkipped ==
  ASSUME TypeOK, ServerLoss, net[Server] # << >>,
         net'[Server] = Tail(net[Server]), client' = client,
         session' = None \/ (session' = session /\ rejected')
  PROVE  ServerLoss'
<1>1. Steady(Tail(net[Server]), client.next_tx_id)
  BY Nets, SteadyTail DEF ServerLoss
<1>2. QED
  BY <1>1 DEF ServerLoss

\* And when it counts it.
LEMMA ServerLossCounted ==
  ASSUME TypeOK, ServerLoss, Numbered, net[Server] # << >>,
         net'[Server] = Tail(net[Server]), client' = client,
         NEW s \in ServerSessions, s = session \/ (s.next_rx_id = 0 /\ s.num_lost = 0),
         session' = Received(s, Head(net[Server])),
         rejected' = rejected, losses' = losses
  PROVE  ServerLoss'
<1> DEFINE q == net[Server]
<1>1. q \in Seq(Packets) /\ client.next_tx_id \in 1..MaxId /\ losses[Server] \in Nat
      /\ client.next_tx_id \in Nat
  BY Nets
<1>2. PICK id \in 1..MaxId : id = Head(q).id
  BY <1>1, Tails, PacketFields DEF Numbered
<1>3. s.next_rx_id \in 0..MaxId /\ s.num_lost \in Nat
  BY DEF ServerSessions
<1>4. PICK t : /\ t = Received(s, Head(q)) /\ t.next_rx_id # 0
               /\ t.num_lost = s.num_lost + Max({id - NextExpected(s, id), 0})
               /\ t.next_rx_id = Max({After(id), NextExpected(s, id)})
  BY <1>2, ServerHandled
<1>5. Steady(q, client.next_tx_id) /\ Steady(Tail(q), client.next_tx_id)
  BY <1>1, SteadyTail DEF ServerLoss
<1>6. ASSUME ~rejected
      PROVE  /\ t.num_lost <= losses[Server]
             /\ Ahead(Tail(q), client.next_tx_id, t.next_rx_id,
                      losses[Server] - t.num_lost)
  <2>1. /\ s.num_lost <= losses[Server]
        /\ Ahead(q, client.next_tx_id, s.next_rx_id, losses[Server] - s.num_lost)
    <3>1. CASE s = session
      <4>1. session # None
        BY <3>1, SessionsAre
      <4>2. QED
        BY <1>6, <3>1, <4>1 DEF ServerLoss
    <3>2. CASE s.next_rx_id = 0 /\ s.num_lost = 0
      BY <1>1, <3>2 DEF Ahead
    <3>3. QED
      BY <3>1, <3>2
  <2>2. QED
    BY <1>1, <1>2, <1>3, <1>4, <1>5, <2>1, AheadHandled
<1>7. QED
  BY <1>4, <1>5, <1>6 DEF ServerLoss

\* Numbered and NoCookieYet, when the server takes or sends a packet.
Starting == client.state \in {"NEW_SESSION", "HANDSHAKE_REQUESTED"}

LEMMA ServerPackets ==
  ASSUME TypeOK, Numbered, NoCookieYet, running', secret' = secret,
         client' = client,
         \/ net'[Server] = net[Server]
         \/ net[Server] # << >> /\ net'[Server] = Tail(net[Server]),
         \/ net'[Client] = net[Client]
         \/ \E h \in Packets :
              /\ net'[Client] = Append(net[Client], h)
              /\ IF h.type = "ack" THEN h.id >= 1 ELSE h.epoch >= 1
              /\ Starting => h.type = "handshake",
         Starting => session' = None /\ freed' = None
  PROVE  Numbered' /\ NoCookieYet'
<1> DEFINE ps == net'[Server]
           pc == net'[Client]
<1>1. net[Server] \in Seq(Packets) /\ net[Client] \in Seq(Packets)
  BY Nets
<1>2. \A i \in DOMAIN ps : \E j \in DOMAIN net[Server] : ps[i] = net[Server][j]
  <2>1. CASE ps = net[Server]
    BY <2>1
  <2>2. CASE net[Server] # << >> /\ ps = Tail(net[Server])
    <3>1. \A i \in DOMAIN ps : i + 1 \in DOMAIN net[Server] /\ ps[i] = net[Server][i + 1]
      BY <1>1, <2>2, Tails
    <3>2. QED
      BY <3>1
  <2>3. QED
    BY <2>1, <2>2
<1>3. \A i \in DOMAIN ps : /\ ps[i].id >= 1
                           /\ Starting => ps[i].type = "handshake" /\ ps[i].epoch = 0
  BY <1>2, Zenon DEF Numbered, NoCookieYet, Starting
<1>4. \A i \in DOMAIN pc :
        /\ IF pc[i].type = "ack" THEN pc[i].id >= 1 ELSE pc[i].epoch >= 1
        /\ Starting => pc[i].type = "handshake"
  <2>1. CASE pc = net[Client]
    BY <2>1, Zenon DEF Numbered, NoCookieYet, Starting
  <2>2. CASE \E h \in Packets :
               /\ pc = Append(net[Client], h)
               /\ IF h.type = "ack" THEN h.id >= 1 ELSE h.epoch >= 1
               /\ Starting => h.type = "handshake"
    <3>1. PICK h \in Packets :
            /\ pc = Append(net[Client], h)
            /\ IF h.type = "ack" THEN h.id >= 1 ELSE h.epoch >= 1
            /\ Starting => h.type = "handshake"
      BY <2>2
    <3>2. \A i \in DOMAIN pc : (i \in DOMAIN net[Client] /\ pc[i] = net[Client][i])
                               \/ pc[i] = h
      BY <1>1, <3>1, Appends
    <3>3. QED
      BY <3>1, <3>2, Zenon DEF Numbered, NoCookieYet, Starting
  <2>3. QED
    BY <2>1, <2>2
<1> HIDE DEF ps, pc
<1>5. Numbered'
  BY <1>3, <1>4, Zenon DEF Numbered, ps, pc
<1>6. NoCookieYet'
  BY <1>3, <1>4, Zenon DEF NoCookieYet, Starting, ps, pc
<1>7. QED
  BY <1>5, <1>6

\* What ServerReceive does not change.
ReceiveFrame ==
  UNCHANGED <<client, running, rate, secret, refused, losses, faults, strays>>

LEMMA ReceiveObsoleteStep ==
  ASSUME IInv, running, net[Server] # << >>, ReceiveObsolete(Head(net[Server])),
         ReceiveFrame
  PROVE  IInv'
<1> USE DEF IInv, ReceiveFrame
<1>1. /\ net' = [net EXCEPT ![Server] = Tail(@)]
      /\ UNCHANGED <<session, entries, freed, dangling>>
      /\ rejected' \in BOOLEAN
      /\ session # None => rejected'
  BY Zenon DEF ReceiveObsolete, TypeOK
<1>2. /\ net'[Server] = Tail(net[Server]) /\ net'[Client] = net[Client]
      /\ net' \in [{Client, Server} -> Seq(Packets)]
      /\ \A r \in {Client, Server} : Len(net'[r]) <= MaxInFlight
  BY <1>1, ServedNet
<1>3. TypeOK' /\ SessionScheduled'
  BY <1>1, <1>2 DEF TypeOK, SessionScheduled
<1>4. Numbered' /\ NoCookieYet'
  <2>1. Starting => session' = None /\ freed' = None
    BY <1>1 DEF Starting, NoCookieYet
  <2>2. QED
    BY <1>2, <2>1, ServerPackets
<1>5. RateInv'
  <2>1. Tx' = Tx
    BY DEF Tx
  <2>2. client.state # "exited" =>
          /\ Paced(Tail(net[Server]), Tx, net[Client], secret, rate)
          /\ Uniform(net[Server], Tx, net[Client], rate)
               => Uniform(Tail(net[Server]), Tx, net[Client], rate)
    BY Nets, PacedServed DEF RateInv
  <2>3. QED
    BY <1>1, <1>2, <2>1, <2>2 DEF RateInv
<1>6. ClientLoss'
  <2>1. NextToClient' = NextToClient
    BY <1>1 DEF NextToClient
  <2>2. QED
    BY <1>2, <2>1, ClientLossKept
<1>7. ServerLoss'
  BY <1>1, <1>2, ServerLossSkipped
<1>8. QED
  BY <1>3, <1>4, <1>5, <1>6, <1>7

\* The server replies to the first packet with a handshake: it has no session
\* then, and what it has freed is not more than it had.
LEMMA RepliedStep ==
  ASSUME IInv, running, net[Server] # << >>, Asking(Head(net[Server])),
         ReceiveFrame, rejected' = rejected, Send(Reply(Head(net[Server]))),
         session' = None, entries' = 0, dangling' \in Nat,
         freed' \in ServerSessions \cup {None}, freed' = None <=> dangling' = 0,
         freed' # None => session # None \/ freed # None
  PROVE  IInv'
<1> USE DEF IInv, ReceiveFrame
<1>1. PICK p \in Packets : /\ p = Head(net[Server]) /\ p.usec \in Usecs
                           /\ net[Server] \in Seq(Packets)
  BY Nets, Tails, ZenonT(30) DEF Packets
<1>2. PICK h \in Packets :
        /\ h = Reply(p) /\ h.type = "handshake" /\ h.id = 0
        /\ h.usec = Slower(p.usec, rate) /\ h.epoch # 0 /\ h.epoch \in Nat
        /\ Current(h, secret)
  BY <1>1, ReplyFields
<1>3. /\ net'[Server] = Tail(net[Server]) /\ net'[Client] = Append(net[Client], h)
      /\ net' \in [{Client, Server} -> Seq(Packets)]
      /\ \A r \in {Client, Server} : Len(net'[r]) <= MaxInFlight
  BY <1>1, <1>2, SentNet
<1>4. TypeOK' /\ SessionScheduled'
  BY <1>3 DEF TypeOK, SessionScheduled
<1>5. Numbered' /\ NoCookieYet'
  <2>1. Starting => session' = None /\ freed' = None
    BY DEF Starting, NoCookieYet
  <2>2. h.epoch >= 1 /\ h.type # "ack"
    BY <1>2
  <2>3. QED
    BY <1>2, <1>3, <2>1, <2>2, ServerPackets
<1>6. RateInv'
  <2>1. Tx' = Tx
    BY DEF Tx
  <2>2. client.state # "exited" =>
          /\ Paced(Tail(net[Server]), Tx, Append(net[Client], h), secret, rate)
          /\ Uniform(net[Server], Tx, net[Client], rate)
               => Uniform(Tail(net[Server]), Tx, Append(net[Client], h), rate)
    BY <1>1, <1>2, Nets, PacedReplied DEF RateInv
  <2>3. QED
    BY <1>3, <2>1, <2>2 DEF RateInv
<1>7. ClientLoss'
  <2>1. NextToClient' = 1 /\ NextToClient \in Nat /\ 1 <= NextToClient
    BY SessionFields DEF NextToClient
  <2>2. QED
    BY <1>2, <1>3, <2>1, ClientLossSent
<1>8. ServerLoss'
  BY <1>3, ServerLossSkipped
<1>9. QED
  BY <1>4, <1>5, <1>6, <1>7, <1>8

LEMMA ReceiveNewStep ==
  ASSUME IInv, running, net[Server] # << >>, ReceiveNew(Head(net[Server])),
         ReceiveFrame, rejected' = rejected
  PROVE  IInv'
<1>1. Asking(Head(net[Server])) /\ Send(Reply(Head(net[Server])))
  BY DEF ReceiveNew, Asking
<1>2. /\ session' = None /\ entries' = 0 /\ dangling' = dangling + entries
      /\ freed' = IF entries > 0 THEN session ELSE freed
  BY DEF ReceiveNew, Erase
<1>3. /\ session \in ServerSessions \cup {None} /\ freed \in ServerSessions \cup {None}
      /\ entries \in Nat /\ dangling \in Nat /\ (freed = None <=> dangling = 0)
      /\ session # None <=> entries > 0
  BY DEF IInv, TypeOK, SessionScheduled
<1>4. /\ dangling' \in Nat /\ freed' \in ServerSessions \cup {None}
      /\ freed' = None <=> dangling' = 0
      /\ freed' # None => session # None \/ freed # None
  BY <1>2, <1>3
<1>5. QED
  BY <1>1, <1>2, <1>4, RepliedStep

LEMMA ReceiveUnknownStep ==
  ASSUME IInv, running, net[Server] # << >>, ReceiveUnknown(Head(net[Server])),
         ReceiveFrame, rejected' = rejected
  PROVE  IInv'
<1>1. Asking(Head(net[Server])) /\ Send(Reply(Head(net[Server])))
  BY DEF ReceiveUnknown, Asking
<1>2. session = None /\ UNCHANGED <<session, entries, freed, dangling>>
  BY DEF ReceiveUnknown
<1>3. /\ freed \in ServerSessions \cup {None}
      /\ entries \in Nat /\ dangling \in Nat /\ (freed = None <=> dangling = 0)
      /\ session # None <=> entries > 0
  BY DEF IInv, TypeOK, SessionScheduled
<1>4. /\ session' = None /\ entries' = 0
      /\ dangling' \in Nat /\ freed' \in ServerSessions \cup {None}
      /\ freed' = None <=> dangling' = 0
      /\ freed' # None => session # None \/ freed # None
  BY <1>2, <1>3
<1>5. QED
  BY <1>1, <1>4, RepliedStep

\* The server counts the first packet in its session s.
LEMMA CountedStep ==
  ASSUME IInv, running, net[Server] # << >>, ReceiveFrame, rejected' = rejected,
         ~Starting, net' = [net EXCEPT ![Server] = Tail(@)],
         NEW s \in ServerSessions, session' = Received(s, Head(net[Server])),
         \/ s = session
         \/ /\ session = None /\ Valid(Head(net[Server]), secret)
            /\ s = ServerSession(Head(net[Server]).usec),
         entries' \in Nat, entries' > 0, dangling' \in Nat,
         freed' \in ServerSessions \cup {None}, freed' = None <=> dangling' = 0,
         freed' # None => freed # None
  PROVE  IInv'
<1> USE DEF IInv, ReceiveFrame
<1>1. PICK p \in Packets : /\ p = Head(net[Server]) /\ p.usec \in Usecs
                           /\ net[Server] \in Seq(Packets) /\ p.id \in 1..MaxId
  <2>1. net[Server] \in Seq(Packets)
    BY Nets
  <2>2. 1 \in DOMAIN net[Server] /\ Head(net[Server]) = net[Server][1]
    BY <2>1, Tails
  <2>3. QED
    BY <2>1, <2>2, PacketFields, Constants DEF Numbered
<1>2. /\ net'[Server] = Tail(net[Server]) /\ net'[Client] = net[Client]
      /\ net' \in [{Client, Server} -> Seq(Packets)]
      /\ \A r \in {Client, Server} : Len(net'[r]) <= MaxInFlight
  BY ServedNet
<1>3. /\ session' \in ServerSessions /\ session'.usec = s.usec
      /\ session'.next_tx_id = s.next_tx_id /\ session' # None
  <2>1. PICK t \in ServerSessions :
          /\ t = Received(s, p) /\ t.usec = s.usec /\ t.next_tx_id = s.next_tx_id
    BY <1>1, ServerHandled
  <2>2. session' = t
    BY <1>1, <2>1
  <2>3. QED
    BY <2>1, <2>2, SessionsAre
<1>4. TypeOK' /\ SessionScheduled'
  BY <1>2, <1>3 DEF TypeOK, SessionScheduled
<1>5. Numbered' /\ NoCookieYet'
  BY <1>2, ServerPackets
<1>6. RateInv'
  <2> SUFFICES ASSUME client.state # "exited"
               PROVE  /\ Paced(Tail(net[Server]), Tx, net[Client], secret, rate)
                      /\ Uniform(Tail(net[Server]), Tx, net[Client], rate)
                      /\ s.usec = client.usec
    <3>1. Tx' = Tx
      BY DEF Tx
    <3>2. QED
      BY <1>2, <1>3, <3>1 DEF RateInv
  <2>1. /\ Paced(net[Server], Tx, net[Client], secret, rate)
        /\ Paced(Tail(net[Server]), Tx, net[Client], secret, rate)
        /\ Uniform(net[Server], Tx, net[Client], rate)
             => Uniform(Tail(net[Server]), Tx, net[Client], rate)
    BY <1>1, PacedServed DEF RateInv
  <2>2. CASE s = session
    <3>1. session # None
      BY <2>2, SessionsAre
    <3>2. QED
      BY <2>1, <2>2, <3>1 DEF RateInv
  <2>3. CASE Valid(p, secret) /\ s = ServerSession(p.usec)
    <3>1. Tx.usec = p.usec /\ Uniform(Tail(net[Server]), Tx, net[Client], rate)
      BY <1>1, <2>1, <2>3, UniformEchoed
    <3>2. Tx.usec = client.usec
      BY Nets, TxFields DEF Tx
    <3>3. QED
      BY <1>1, <2>1, <2>3, <3>1, <3>2, SessionsAre
  <2>4. QED
    BY <1>1, <2>2, <2>3
<1>7. ClientLoss'
  <2>1. NextToClient' = NextToClient
    <3>1. CASE s = session
      <4>1. session # None
        BY <3>1, SessionsAre
      <4>2. QED
        BY <1>3, <3>1, <4>1 DEF NextToClient
    <3>2. CASE session = None /\ s = ServerSession(p.usec)
      BY <1>1, <1>3, <3>2, SessionsAre DEF NextToClient
    <3>3. QED
      BY <1>1, <3>1, <3>2
  <2>2. QED
    BY <1>2, <2>1, ClientLossKept
<1>8. ServerLoss'
  <2>1. s = session \/ (s.next_rx_id = 0 /\ s.num_lost = 0)
    BY <1>1, SessionsAre
  <2>2. QED
    BY <1>2, <2>1, ServerLossCounted
<1>9. QED
  BY <1>4, <1>5, <1>6, <1>7, <1>8

LEMMA ReceiveEchoStep ==
  ASSUME IInv, running, net[Server] # << >>, ReceiveEcho(Head(net[Server])),
         ReceiveFrame, rejected' = rejected
  PROVE  IInv'
<1>1. PICK p \in Packets : /\ p = Head(net[Server]) /\ p.usec \in Usecs
                           /\ net[Server] \in Seq(Packets)
                           /\ 1 \in DOMAIN net[Server] /\ p = net[Server][1]
  <2>1. net[Server] \in Seq(Packets)
    BY Nets DEF IInv
  <2>2. 1 \in DOMAIN net[Server] /\ Head(net[Server]) = net[Server][1]
    BY <2>1, Tails
  <2>3. QED
    BY <2>1, <2>2, PacketFields
<1>2. /\ p.type = "handshake" /\ p.epoch # 0 /\ ValidateCookie(p)
      /\ NewSession(p.usec)
      /\ session' = Received(IF session = None THEN ServerSession(p.usec)
                             ELSE session, p)
      /\ net' = [net EXCEPT ![Server] = Tail(@)]
  BY <1>1 DEF ReceiveEcho
<1>3. Valid(p, secret)
  BY <1>2 DEF ValidateCookie, Valid, Current, Fits
<1>4. ~Starting
  BY <1>1, <1>2 DEF IInv, NoCookieYet, Starting
<1>5. /\ session \in ServerSessions \cup {None} /\ freed \in ServerSessions \cup {None}
      /\ entries \in Nat /\ dangling \in Nat /\ (freed = None <=> dangling = 0)
  BY DEF IInv, TypeOK
<1>6. PICK reused \in {0, dangling} :
        /\ entries' = entries + 1 + reused /\ dangling' = dangling - reused
        /\ freed' = IF dangling' = 0 THEN None ELSE freed
  BY <1>2 DEF NewSession
<1>7. /\ entries' \in Nat /\ entries' > 0 /\ dangling' \in Nat
      /\ freed' \in ServerSessions \cup {None} /\ (freed' = None <=> dangling' = 0)
      /\ (freed' # None => freed # None)
  BY <1>5, <1>6
<1>8. PICK s \in ServerSessions :
        /\ s = IF session = None THEN ServerSession(p.usec) ELSE session
        /\ session' = Received(s, p)
  BY <1>1, <1>2, <1>5, SessionsAre
<1>9. QED
  BY <1>1, <1>2, <1>3, <1>4, <1>7, <1>8, CountedStep

LEMMA ReceiveAckStep ==
  ASSUME IInv, running, net[Server] # << >>, ReceiveAck(Head(net[Server])),
         ReceiveFrame, rejected' = rejected
  PROVE  IInv'
<1>1. /\ session # None /\ net' = [net EXCEPT ![Server] = Tail(@)]
      /\ session' = Received(session, Head(net[Server]))
      /\ UNCHANGED <<entries, freed, dangling>>
  BY DEF ReceiveAck
<1>2. ~Starting
  BY <1>1 DEF IInv, NoCookieYet, Starting
<1>3. /\ session \in ServerSessions /\ freed \in ServerSessions \cup {None}
      /\ entries \in Nat /\ dangling \in Nat /\ (freed = None <=> dangling = 0)
      /\ entries > 0
  BY <1>1 DEF IInv, TypeOK, SessionScheduled
<1>4. QED
  BY <1>1, <1>2, <1>3, CountedStep

LEMMA ServerReceiveStep ==
  ASSUME IInv, ServerReceive
  PROVE  IInv'
<1>1. running /\ net[Server] # << >> /\ ReceiveFrame
  BY DEF ServerReceive, ReceiveFrame
<1>2. \/ ReceiveObsolete(Head(net[Server]))
      \/ /\ \/ ReceiveNew(Head(net[Server])) \/ ReceiveEcho(Head(net[Server]))
            \/ ReceiveUnknown(Head(net[Server])) \/ ReceiveAck(Head(net[Server]))
         /\ rejected' = rejected
  BY DEF ServerReceive
<1>3. QED
  BY <1>1, <1>2, ReceiveObsoleteStep, ReceiveNewStep, ReceiveEchoStep,
     ReceiveUnknownStep, ReceiveAckStep

\* The server sends an ack for a session s that it has or had.
LEMMA AckSentStep ==
  ASSUME IInv, running' = running, running,
         UNCHANGED <<client, rate, secret, refused, losses, faults, rejected>>,
         NEW s \in ServerSessions, session # None \/ freed # None,
         Send(Ack(s.next_tx_id, s.usec)),
         session' \in ServerSessions \cup {None},
         session' # None => /\ session # None /\ session'.usec = session.usec
                            /\ session'.next_rx_id = session.next_rx_id
                            /\ session'.num_lost = session.num_lost,
         entries' \in Nat, session' # None <=> entries' > 0, dangling' \in Nat,
         freed' \in ServerSessions \cup {None}, freed' = None <=> dangling' = 0,
         strays' \in 0..MaxStrays,
         \/ strays' # 0
         \/ /\ strays' = strays /\ s = session /\ NextToClient' \in Nat
            /\ NextToClient' <= s.next_tx_id + 1
  PROVE  IInv'
<1> USE DEF IInv
<1>1. s.next_tx_id \in 1..MaxId /\ s.usec \in Usecs /\ MaxId \in Nat
  BY SessionsAre, Constants
<1>2. PICK h \in Packets :
        /\ h = Ack(s.next_tx_id, s.usec) /\ h.type = "ack" /\ h.id = s.next_tx_id
  <2>1. s.next_tx_id \in 0..MaxId /\ NoCookie \in Cookies
    BY <1>1 DEF NoCookie, Cookie, Cookies
  <2>2. QED
    BY <1>1, <2>1 DEF Ack, Packets
<1>3. /\ net'[Server] = net[Server] /\ net'[Client] = Append(net[Client], h)
      /\ net' \in [{Client, Server} -> Seq(Packets)]
      /\ \A r \in {Client, Server} : Len(net'[r]) <= MaxInFlight
  BY <1>2, SentNet
<1>4. TypeOK' /\ SessionScheduled'
  BY <1>3 DEF TypeOK, SessionScheduled
<1>5. Numbered' /\ NoCookieYet'
  <2>1. ~Starting
    BY DEF NoCookieYet, Starting
  <2>2. h.id >= 1
    BY <1>1, <1>2
  <2>3. QED
    BY <1>2, <1>3, <2>1, <2>2, ServerPackets
<1>6. RateInv'
  <2>1. Tx' = Tx
    BY DEF Tx
  <2>2. client.state # "exited" =>
          /\ Paced(net[Server], Tx, Append(net[Client], h), secret, rate)
          /\ Uniform(net[Server], Tx, Append(net[Client], h), rate)
    BY <1>2, Nets, PacedAcked DEF RateInv
  <2>3. QED
    BY <1>3, <2>1, <2>2 DEF RateInv
<1>7. ClientLoss'
  <2>1. CASE strays' # 0
    BY <2>1 DEF ClientLoss
  <2>2. CASE /\ strays' = strays /\ s = session /\ NextToClient' \in Nat
             /\ NextToClient' <= s.next_tx_id + 1
    <3>1. session # None
      BY <2>2, SessionsAre
    <3>2. NextToClient = s.next_tx_id
      BY <2>2, <3>1 DEF NextToClient
    <3>3. PICK after \in Nat : after = NextToClient'
      BY <2>2
    <3>4. h.id = NextToClient /\ after <= NextToClient + 1 /\ h.id # 0
      BY <1>1, <1>2, <2>2, <3>2, <3>3
    <3>5. QED
      BY <1>3, <2>2, <3>3, <3>4, ClientLossSent
  <2>3. QED
    BY <2>1, <2>2
<1>8. ServerLoss'
  BY <1>3, ServerLossKept
<1>9. QED
  BY <1>4, <1>5, <1>6, <1>7, <1>8

LEMMA ServerSendStep ==
  ASSUME IInv, ServerSend
  PROVE  IInv'
<1>1. /\ running /\ entries > 0 /\ Send(Ack(session.next_tx_id, session.usec))
      /\ UNCHANGED <<client, running, rate, secret, refused>>
      /\ UNCHANGED <<losses, faults, rejected, strays>>
  BY DEF ServerSend, history
<1>2. /\ session # None /\ session \in ServerSessions
      /\ freed \in ServerSessions \cup {None} /\ strays \in 0..MaxStrays
      /\ entries \in Nat /\ dangling \in Nat /\ (freed = None <=> dangling = 0)
      /\ session.next_tx_id \in 1..MaxId /\ session.next_tx_id \in Nat
      /\ session.next_tx_id >= 1
  BY <1>1, SessionFields DEF IInv, TypeOK, SessionScheduled
<1>3. CASE session.silent
  <2>1. /\ session' = None /\ entries' = 0 /\ dangling' = dangling + (entries - 1)
        /\ freed' = IF entries - 1 > 0 THEN session ELSE freed
    BY <1>3 DEF ServerSend, Erase
  <2>2. /\ session' \in ServerSessions \cup {None} /\ entries' \in Nat
        /\ (session' # None <=> entries' > 0) /\ dangling' \in Nat
        /\ freed' \in ServerSessions \cup {None} /\ (freed' = None <=> dangling' = 0)
    BY <1>1, <1>2, <2>1
  <2>3. NextToClient' = 1
    BY <2>1 DEF NextToClient
  <2>4. NextToClient' \in Nat /\ NextToClient' <= session.next_tx_id + 1
    BY <1>2, <2>3
  <2>5. QED
    BY <1>1, <1>2, <2>1, <2>2, <2>4, AckSentStep
<1>4. CASE ~session.silent
  <2>1. /\ session' = [session EXCEPT !.next_tx_id = After(@)]
        /\ UNCHANGED <<entries, freed, dangling>>
    BY <1>4 DEF ServerSend
  <2>2. PICK n \in 1..MaxId : n = After(session.next_tx_id)
                              /\ n <= session.next_tx_id + 1 /\ n \in Nat
    BY <1>2, AfterIs, Constants
  <2>3. /\ session' \in ServerSessions /\ session'.usec = session.usec
        /\ session'.next_rx_id = session.next_rx_id
        /\ session'.num_lost = session.num_lost /\ session'.next_tx_id = n
    BY <1>2, <2>1, <2>2 DEF ServerSessions
  <2>4. session' # None /\ NextToClient' = n
    BY <2>3, SessionsAre DEF NextToClient
  <2>5. NextToClient' \in Nat /\ NextToClient' <= session.next_tx_id + 1
    BY <2>2, <2>4
  <2>6. QED
    BY <1>1, <1>2, <2>1, <2>3, <2>4, <2>5, AckSentStep
<1>5. QED
  BY <1>3, <1>4

LEMMA FaultCounted ==
  ASSUME TypeOK, Fault
  PROVE  faults' \in 0..MaxFaults
<1>1. faults \in 0..MaxFaults /\ faults < MaxFaults /\ faults' = faults + 1
  BY DEF TypeOK, Fault
<1>2. QED
  BY <1>1, IsopingAssumption

\* The server's process ends.
LEMMA DeadStep ==
  ASSUME IInv, Dead, UNCHANGED <<client, net, refused, losses, rejected, strays>>,
         faults' \in 0..MaxFaults
  PROVE  IInv'
<1> USE DEF IInv
<1>1. /\ running' = FALSE /\ session' = None /\ entries' = 0
      /\ freed' = None /\ dangling' = 0 /\ rate' = rate /\ secret' = secret
  BY DEF Dead
<1>2. TypeOK' /\ SessionScheduled'
  <2>1. running' \in BOOLEAN
    BY <1>1, Zenon
  <2>2. entries' \in Nat /\ dangling' \in Nat /\ ~(entries' > 0)
    <3>1. 0 \in Nat /\ ~(0 > 0)
      OBVIOUS
    <3>2. QED
      BY <1>1, <3>1, Zenon
  <2>3. QED
    BY <1>1, <2>1, <2>2 DEF TypeOK, SessionScheduled
<1>3. Numbered' /\ NoCookieYet'
  BY <1>1 DEF Numbered, NoCookieYet
<1>4. RateInv'
  <2>1. Tx' = Tx
    BY DEF Tx
  <2>2. QED
    BY <1>1, <2>1 DEF RateInv
<1>5. ClientLoss'
  <2>1. NextToClient' = 1
    BY <1>1 DEF NextToClient
  <2>2. PICK next \in Nat : next = NextToClient
    BY SessionFields DEF NextToClient
  <2>3. /\ net[Client] \in Seq(Packets) /\ client.num_lost \in Nat
        /\ client.next_rx_id \in Nat /\ losses[Client] \in Nat
    BY Nets
  <2>4. ASSUME strays = 0, client.state # "exited"
        PROVE  /\ Steady(net[Client], 1)
               /\ Ahead(net[Client], 1, client.next_rx_id,
                        losses[Client] - client.num_lost)
    <3>1. PICK slack \in Nat : slack = losses[Client] - client.num_lost
      BY <2>3, <2>4 DEF ClientLoss
    <3>2. /\ Steady(net[Client], next)
          /\ Ahead(net[Client], next, client.next_rx_id, slack)
      BY <2>2, <2>4, <3>1 DEF ClientLoss
    <3>3. QED
      BY <2>3, <3>1, <3>2, SteadyOne, AheadOne
  <2>5. QED
    BY <2>1, <2>4 DEF ClientLoss
<1>6. ServerLoss'
  BY <1>1, ServerLossKept
<1>7. QED
  BY <1>2, <1>3, <1>4, <1>5, <1>6

LEMMA DieStep ==
  ASSUME IInv, Die
  PROVE  IInv'
<1>1. Dead /\ UNCHANGED <<client, net, refused, losses, rejected, strays>>
  BY DEF Die
<1>2. faults' \in 0..MaxFaults
  BY FaultCounted DEF IInv, Die
<1>3. QED
  BY <1>1, <1>2, DeadStep

LEMMA DanglingSendStep ==
  ASSUME IInv, DanglingSend
  PROVE  IInv'
<1>1. /\ running /\ dangling > 0
      /\ UNCHANGED <<client, refused, losses, faults, rejected>>
  BY DEF DanglingSend
<1>2. /\ session \in ServerSessions \cup {None} /\ strays \in 0..MaxStrays
      /\ entries \in Nat /\ dangling \in Nat /\ faults \in 0..MaxFaults
      /\ session # None <=> entries > 0
  BY DEF IInv, TypeOK, SessionScheduled
<1>3. freed # None /\ freed \in ServerSessions
  BY <1>1 DEF IInv, TypeOK
<1>4. CASE Dead /\ UNCHANGED <<net, strays>>
  BY <1>1, <1>2, <1>4, DeadStep
<1>5. CASE /\ Send(Ack(freed.next_tx_id, freed.usec))
           /\ strays < MaxStrays /\ strays' = strays + 1
           /\ UNCHANGED <<running, rate, secret>>
           /\ IF freed.silent
              THEN /\ session' = None /\ entries' = 0
                   /\ dangling' = dangling - 1 + entries
                   /\ freed' = IF entries > 0 THEN session
                               ELSE IF dangling' = 0 THEN None
                               ELSE [freed EXCEPT !.next_tx_id = After(@)]
              ELSE /\ freed' = [freed EXCEPT !.next_tx_id = After(@)]
                   /\ UNCHANGED <<session, entries, dangling>>
  <2>1. strays' \in 0..MaxStrays /\ strays' # 0
    BY <1>2, <1>5, IsopingAssumption
  <2>2. PICK f \in ServerSessions : /\ f = [freed EXCEPT !.next_tx_id = After(@)]
                                    /\ f # None
    BY <1>3, SessionsAre
  <2>3. CASE freed.silent
    <3>1. /\ session' = None /\ entries' = 0 /\ dangling' = dangling - 1 + entries
          /\ freed' = IF entries > 0 THEN session
                      ELSE IF dangling' = 0 THEN None ELSE f
      BY <1>5, <2>2, <2>3
    <3>2. /\ entries' \in Nat /\ (session' # None <=> entries' > 0)
          /\ dangling' \in Nat /\ freed' \in ServerSessions \cup {None}
          /\ (freed' = None <=> dangling' = 0)
      BY <1>1, <1>2, <2>2, <3>1
    <3>3. QED
      BY <1>1, <1>3, <1>5, <2>1, <3>1, <3>2, AckSentStep
  <2>4. CASE ~freed.silent
    <3>1. freed' = f /\ UNCHANGED <<session, entries, dangling>>
      BY <1>5, <2>2, <2>4
    <3>2. /\ entries' \in Nat /\ (session' # None <=> entries' > 0)
          /\ dangling' \in Nat /\ freed' \in ServerSessions \cup {None}
          /\ (freed' = None <=> dangling' = 0)
          /\ session' \in ServerSessions \cup {None} /\ session' = session
      BY <1>1, <1>2, <2>2, <3>1
    <3>3. QED
      BY <1>1, <1>3, <1>5, <2>1, <3>2, AckSentStep
  <2>5. QED
    BY <2>3, <2>4
<1>6. QED
  BY <1>4, <1>5 DEF DanglingSend

LEMMA RotateStep ==
  ASSUME IInv, Rotate
  PROVE  IInv'
<1> USE DEF IInv
<1>1. /\ UNCHANGED <<client, running, rate, session, entries, freed, dangling>>
      /\ UNCHANGED <<net, refused, losses, rejected, strays>>
      /\ secret' = [epoch |-> secret.epoch + 1, secret |-> Fresh,
                    prev_epoch |-> secret.epoch, prev_secret |-> secret.secret]
  BY DEF Rotate
<1>2. faults' \in 0..MaxFaults
  BY FaultCounted DEF Rotate
<1>3. PICK k \in Nat \ {0} : k = Fresh /\ Unused(k, net[Server], Tx, net[Client])
  BY FreshUnused
<1>4. secret.epoch \in Nat \ {0} /\ secret.secret \in Nat \ {0}
  BY DEF TypeOK
<1>5. /\ secret' \in [epoch : Nat \ {0}, secret : Nat \ {0},
                      prev_epoch : Nat, prev_secret : Nat]
      /\ secret'.prev_epoch < secret'.epoch /\ secret'.secret = k
      /\ secret'.prev_epoch = secret.epoch /\ secret'.prev_secret = secret.secret
  <2>1. PICK e \in Nat \ {0} : e = secret.epoch + 1 /\ secret.epoch < e
    BY <1>4
  <2>2. QED
    BY <1>1, <1>3, <1>4, <2>1
<1>6. TypeOK' /\ SessionScheduled'
  BY <1>1, <1>2, <1>5 DEF TypeOK, SessionScheduled
<1>7. Numbered' /\ NoCookieYet'
  BY <1>1, <1>5 DEF Numbered, NoCookieYet
<1>8. RateInv'
  <2>1. Tx' = Tx
    BY <1>1 DEF Tx
  <2>2. client.state # "exited" =>
          Paced(net[Server], Tx, net[Client], secret', rate)
    BY <1>3, <1>5, PacedRotated DEF RateInv
  <2>3. QED
    BY <1>1, <2>1, <2>2 DEF RateInv
<1>9. ClientLoss' /\ ServerLoss'
  <2>1. NextToClient' = NextToClient
    BY <1>1 DEF NextToClient
  <2>2. QED
    BY <1>1, <2>1, ClientLossKept, ServerLossKept
<1>10. QED
  BY <1>6, <1>7, <1>8, <1>9

LEMMA StartStep ==
  ASSUME IInv, Start
  PROVE  IInv'
<1> USE DEF IInv
<1>1. /\ UNCHANGED <<client, session, entries, freed, dangling, net, refused>>
      /\ UNCHANGED <<losses, faults, rejected, strays>>
      /\ ~running /\ running' = TRUE /\ rate' \in Rates
      /\ secret' = [epoch |-> secret.epoch, secret |-> Fresh,
                    prev_epoch |-> 0, prev_secret |-> 0]
  BY DEF Start, history
<1>2. session = None /\ freed = None /\ running' \in BOOLEAN
  BY <1>1 DEF Numbered
<1>3. PICK k \in Nat \ {0} : k = Fresh /\ Unused(k, net[Server], Tx, net[Client])
  BY FreshUnused
<1>4. secret.epoch \in Nat \ {0}
  BY DEF TypeOK
<1>5. /\ secret' \in [epoch : Nat \ {0}, secret : Nat \ {0},
                      prev_epoch : Nat, prev_secret : Nat]
      /\ secret'.prev_epoch < secret'.epoch /\ secret'.secret = k
      /\ secret'.prev_epoch = 0
  BY <1>1, <1>3, <1>4
<1>6. TypeOK' /\ SessionScheduled'
  BY <1>1, <1>2, <1>5 DEF TypeOK, SessionScheduled
<1>7. Numbered' /\ NoCookieYet'
  BY <1>1, <1>2, <1>5 DEF Numbered, NoCookieYet
<1>8. RateInv'
  <2>1. Tx' = Tx
    BY <1>1 DEF Tx
  <2>2. client.state # "exited" =>
          Paced(net[Server], Tx, net[Client], secret', rate')
    BY <1>3, <1>5, PacedStarted DEF RateInv
  <2>3. QED
    BY <1>1, <1>2, <2>1, <2>2 DEF RateInv
<1>9. ClientLoss' /\ ServerLoss'
  <2>1. NextToClient' = NextToClient
    BY <1>1 DEF NextToClient
  <2>2. QED
    BY <1>1, <2>1, ClientLossKept, ServerLossKept
<1>10. QED
  BY <1>6, <1>7, <1>8, <1>9

LEMMA SilenceStep ==
  ASSUME IInv, Silence
  PROVE  IInv'
<1> USE DEF IInv
<1>1. /\ UNCHANGED <<client, running, rate, secret, entries, dangling>>
      /\ UNCHANGED <<net, refused, losses, rejected, strays>>
      /\ \/ session # None /\ session' = [session EXCEPT !.silent = TRUE]
         \/ session' = session
      /\ freed' = IF freed = None THEN None ELSE [freed EXCEPT !.silent = TRUE]
  BY DEF Silence
<1>2. faults' \in 0..MaxFaults
  BY FaultCounted DEF Silence
<1>3. /\ freed' \in ServerSessions \cup {None} /\ (freed' = None <=> freed = None)
  <2>1. freed \in ServerSessions \cup {None}
    BY DEF TypeOK
  <2>2. CASE freed = None
    BY <1>1, <2>2
  <2>3. CASE freed # None
    BY <1>1, <2>1, <2>3, SessionsAre
  <2>4. QED
    BY <2>2, <2>3
<1>4. /\ session' \in ServerSessions \cup {None} /\ (session' = None <=> session = None)
      /\ session # None => /\ session'.usec = session.usec
                           /\ session'.next_tx_id = session.next_tx_id
                           /\ session'.next_rx_id = session.next_rx_id
                           /\ session'.num_lost = session.num_lost
  <2>1. CASE session' = session
    BY <2>1 DEF TypeOK
  <2>2. CASE session # None /\ session' = [session EXCEPT !.silent = TRUE]
    <3>1. session \in ServerSessions
      BY <2>2, SessionFields
    <3>2. /\ session' \in ServerSessions /\ session'.usec = session.usec
          /\ session'.next_tx_id = session.next_tx_id
          /\ session'.next_rx_id = session.next_rx_id
          /\ session'.num_lost = session.num_lost
      BY <2>2, <3>1 DEF ServerSessions
    <3>3. QED
      BY <2>2, <3>2, SessionsAre
  <2>3. QED
    BY <1>1, <2>1, <2>2
<1>5. TypeOK' /\ SessionScheduled'
  BY <1>1, <1>2, <1>3, <1>4 DEF TypeOK, SessionScheduled
<1>6. Numbered' /\ NoCookieYet'
  BY <1>1, <1>3, <1>4 DEF Numbered, NoCookieYet
<1>7. RateInv'
  <2>1. Tx' = Tx
    BY <1>1 DEF Tx
  <2>2. QED
    BY <1>1, <1>3, <1>4, <2>1 DEF RateInv
<1>8. ClientLoss' /\ ServerLoss'
  <2>1. NextToClient' = NextToClient
    BY <1>4 DEF NextToClient
  <2>2. ClientLoss'
    BY <1>1, <2>1, ClientLossKept
  <2>3. QED
    BY <1>1, <1>4, <2>2, ServerLossKept
<1>9. QED
  BY <1>5, <1>6, <1>7, <1>8

\* The first packet of one direction disappears.
LEMMA DroppedNet ==
  ASSUME TypeOK, NEW r \in {Client, Server}, net[r] # << >>,
         net' = [net EXCEPT ![r] = Tail(@)]
  PROVE  /\ net'[r] = Tail(net[r])
         /\ \A o \in {Client, Server} : o # r => net'[o] = net[o]
         /\ net' \in [{Client, Server} -> Seq(Packets)]
         /\ \A o \in {Client, Server} : Len(net'[o]) <= MaxInFlight
         /\ \A o \in {Client, Server} : \A i \in DOMAIN net'[o] :
              \E j \in DOMAIN net[o] : net'[o][i] = net[o][j]
<1>1. net[r] \in Seq(Packets) /\ Len(net[r]) <= MaxInFlight
  BY Nets
<1>2. /\ Tail(net[r]) \in Seq(Packets) /\ Len(Tail(net[r])) = Len(net[r]) - 1
      /\ Len(net[r]) \in Nat
      /\ \A i \in DOMAIN Tail(net[r]) :
           Tail(net[r])[i] = net[r][i + 1] /\ i + 1 \in DOMAIN net[r]
  BY <1>1, Tails
<1>3. Len(Tail(net[r])) <= MaxInFlight
  BY <1>1, <1>2, Constants
<1>4. /\ net'[r] = Tail(net[r])
      /\ \A o \in {Client, Server} : o # r => net'[o] = net[o]
      /\ net' \in [{Client, Server} -> Seq(Packets)]
      /\ \A o \in {Client, Server} : Len(net'[o]) <= MaxInFlight
  BY <1>2, <1>3, NetAfter
<1>5. ASSUME NEW o \in {Client, Server}, NEW i \in DOMAIN net'[o]
      PROVE  \E j \in DOMAIN net[o] : net'[o][i] = net[o][j]
  <2>1. CASE o = r
    BY <1>2, <1>4, <2>1
  <2>2. CASE o # r
    BY <1>4, <2>2
  <2>3. QED
    BY <2>1, <2>2
<1>6. QED
  BY <1>4, <1>5

\* What holds of every packet, and the rates, then hold of the others.
LEMMA DroppedKeeps ==
  ASSUME IInv, NEW r \in {Client, Server}, net[r] # << >>,
         net' = [net EXCEPT ![r] = Tail(@)],
         UNCHANGED <<client, running, rate, secret, session, entries, freed, dangling>>
  PROVE  Numbered' /\ NoCookieYet' /\ RateInv'
<1> USE DEF IInv
<1>1. \A o \in {Client, Server} : \A i \in DOMAIN net'[o] :
        \E j \in DOMAIN net[o] : net'[o][i] = net[o][j]
  BY DroppedNet
<1>2. \A i \in DOMAIN net'[Server] :
        \E j \in DOMAIN net[Server] : net'[Server][i] = net[Server][j]
  BY <1>1
<1>3. \A i \in DOMAIN net'[Client] :
        \E j \in DOMAIN net[Client] : net'[Client][i] = net[Client][j]
  BY <1>1
<1>4. Numbered' /\ NoCookieYet'
  <2>1. /\ client' = client /\ running' = running /\ secret' = secret
        /\ session' = session /\ freed' = freed /\ Numbered /\ NoCookieYet
    OBVIOUS
  <2>2. \A i \in DOMAIN net'[Server] :
          /\ net'[Server][i].id >= 1
          /\ Starting => /\ net'[Server][i].type = "handshake"
                         /\ net'[Server][i].epoch = 0
    BY <1>2, <2>1, SMTT(30) DEF Numbered, NoCookieYet, Starting
  <2>3. \A i \in DOMAIN net'[Client] :
          /\ IF net'[Client][i].type = "ack" THEN net'[Client][i].id >= 1
             ELSE net'[Client][i].epoch >= 1
          /\ Starting => net'[Client][i].type = "handshake"
    BY <1>3, <2>1, SMTT(30) DEF Numbered, NoCookieYet, Starting
  <2>4. Numbered'
    <3>1. /\ secret'.prev_epoch < secret'.epoch
          /\ ~running' => session' = None /\ freed' = None
      BY <2>1 DEF Numbered
    <3>2. QED
      BY <2>2, <2>3, <3>1, Zenon DEF Numbered
  <2>5. NoCookieYet'
    BY <2>1, <2>2, <2>3, Zenon DEF NoCookieYet, Starting
  <2>6. QED
    BY <2>4, <2>5
<1>5. RateInv'
  <2>1. Tx' = Tx
    BY DEF Tx
  <2>2. net[Client] \in Seq(Packets) /\ net[Server] \in Seq(Packets)
        /\ Client # Server
    BY Nets
  <2>3. client.state # "exited" =>
          /\ Paced(net'[Server], Tx, net'[Client], secret, rate)
          /\ Uniform(net[Server], Tx, net[Client], rate)
               => Uniform(net'[Server], Tx, net'[Client], rate)
    <3>1. CASE r = Client
      <4>1. net'[Client] = Tail(net[Client]) /\ net'[Server] = net[Server]
        BY <2>2, <3>1, DroppedNet
      <4>2. QED
        BY <2>2, <3>1, <4>1, PacedDropped DEF RateInv
    <3>2. CASE r = Server
      <4>1. net'[Server] = Tail(net[Server]) /\ net'[Client] = net[Client]
        BY <2>2, <3>2, DroppedNet
      <4>2. QED
        BY <2>2, <3>2, <4>1, PacedServed DEF RateInv
    <3>3. QED
      BY <3>1, <3>2
  <2>4. QED
    BY <2>1, <2>3 DEF RateInv
<1>6. QED
  BY <1>4, <1>5

LEMMA LoseStep ==
  ASSUME IInv, NEW r \in {Client, Server}, Lose(r)
  PROVE  IInv'
<1> USE DEF IInv
<1>1. /\ UNCHANGED <<client, running, rate, secret, session, entries, freed, dangling>>
      /\ UNCHANGED <<refused, rejected, strays>>
      /\ net[r] # << >> /\ net' = [net EXCEPT ![r] = Tail(@)]
      /\ losses' = [losses EXCEPT ![r] = @ + 1]
  BY DEF Lose, server
<1>2. faults' \in 0..MaxFaults
  BY FaultCounted DEF Lose
<1>3. /\ losses \in [{Client, Server} -> Nat] /\ Client # Server
      /\ net[Client] \in Seq(Packets) /\ net[Server] \in Seq(Packets)
  BY Nets DEF TypeOK
<1>4. /\ losses' \in [{Client, Server} -> Nat] /\ losses'[r] = losses[r] + 1
      /\ \A o \in {Client, Server} : o # r => losses'[o] = losses[o]
  BY <1>1, <1>3
<1>5. /\ net'[r] = Tail(net[r])
      /\ \A o \in {Client, Server} : o # r => net'[o] = net[o]
      /\ net' \in [{Client, Server} -> Seq(Packets)]
      /\ \A o \in {Client, Server} : Len(net'[o]) <= MaxInFlight
  BY <1>1, DroppedNet
<1>6. TypeOK' /\ SessionScheduled'
  BY <1>1, <1>2, <1>4, <1>5 DEF TypeOK, SessionScheduled
<1>7. Numbered' /\ NoCookieYet' /\ RateInv'
  BY <1>1, DroppedKeeps
<1>8. NextToClient' = NextToClient
  BY <1>1 DEF NextToClient
<1>9. CASE r = Client
  <2>1. ServerLoss'
    BY <1>1, <1>3, <1>4, <1>5, <1>9, ServerLossKept
  <2>2. ClientLoss'
    <3>1. PICK next \in Nat : next = NextToClient
      BY SessionFields DEF NextToClient
    <3>2. PICK n \in Nat, m \in Nat, rx \in Nat :
            n = losses[Client] /\ m = client.num_lost /\ rx = client.next_rx_id
      BY Nets
    <3>3. losses'[Client] = n + 1 /\ net'[Client] = Tail(net[Client])
          /\ net[Client] # << >>
      BY <1>1, <1>4, <1>5, <1>9, <3>2
    <3>4. ASSUME strays = 0
          PROVE  /\ m <= n + 1
                 /\ client.state # "exited" =>
                      /\ Steady(Tail(net[Client]), next)
                      /\ Ahead(Tail(net[Client]), next, rx, (n + 1) - m)
      <4>1. m <= n
        BY <3>2, <3>4 DEF ClientLoss
      <4>2. PICK slack \in Nat : slack = n - m /\ slack + 1 = (n + 1) - m
        BY <4>1
      <4>3. ASSUME client.state # "exited"
            PROVE  /\ Steady(Tail(net[Client]), next)
                   /\ Ahead(Tail(net[Client]), next, rx, slack + 1)
        <5>1. Steady(net[Client], next) /\ Ahead(net[Client], next, rx, slack)
          BY <3>1, <3>2, <3>4, <4>2, <4>3 DEF ClientLoss
        <5>2. QED
          BY <1>3, <3>3, <5>1, SteadyTail, AheadLost
      <4>4. QED
        BY <4>1, <4>2, <4>3
    <3>5. QED
      BY <1>1, <1>8, <3>1, <3>2, <3>3, <3>4 DEF ClientLoss
  <2>3. QED
    BY <1>6, <1>7, <2>1, <2>2
<1>10. CASE r = Server
  <2>1. ClientLoss'
    BY <1>1, <1>3, <1>4, <1>5, <1>8, <1>10, ClientLossKept
  <2>2. ServerLoss'
    <3>1. PICK next \in Nat, n \in Nat : next = client.next_tx_id /\ n = losses[Server]
      BY Nets
    <3>2. losses'[Server] = n + 1 /\ net'[Server] = Tail(net[Server])
          /\ net[Server] # << >>
      BY <1>1, <1>4, <1>5, <1>10, <3>1
    <3>3. Steady(Tail(net[Server]), next)
      BY <1>3, <3>1, <3>2, SteadyTail DEF ServerLoss
    <3>4. ASSUME ~rejected, session # None
          PROVE  /\ session.num_lost <= n + 1
                 /\ Ahead(Tail(net[Server]), next, session.next_rx_id,
                          (n + 1) - session.num_lost)
      <4>1. PICK m \in Nat, rx \in Nat : m = session.num_lost /\ rx = session.next_rx_id
        BY <3>4, SessionFields
      <4>2. m <= n
        BY <3>1, <3>4, <4>1 DEF ServerLoss
      <4>3. PICK slack \in Nat : slack = n - m /\ slack + 1 = (n + 1) - m
        BY <4>2
      <4>4. Ahead(net[Server], next, rx, slack)
        BY <3>1, <3>4, <4>1, <4>3 DEF ServerLoss
      <4>5. Ahead(Tail(net[Server]), next, rx, slack + 1)
        BY <1>3, <3>2, <4>4, AheadLost
      <4>6. QED
        BY <4>1, <4>2, <4>3, <4>5
    <3>5. QED
      BY <1>1, <3>1, <3>2, <3>3, <3>4 DEF ServerLoss
  <2>3. QED
    BY <1>6, <1>7, <2>1, <2>2
<1>11. QED
  BY <1>9, <1>10

LEMMA UnreachableStep ==
  ASSUME IInv, Unreachable
  PROVE  IInv'
<1> USE DEF IInv
<1>1. /\ UNCHANGED <<client, running, rate, secret, session, entries, freed, dangling>>
      /\ UNCHANGED <<losses, faults, rejected, strays>>
  BY DEF Unreachable, server, history
<1>2. Client # Server
  BY DEF Client, Server
<1>3. NextToClient' = NextToClient
  BY <1>1 DEF NextToClient
<1>4. CASE /\ ~running /\ net[Server] # << >>
           /\ net' = [net EXCEPT ![Server] = Tail(@)]
           /\ refused' \in {refused, TRUE}
  <2>1. /\ net'[Server] = Tail(net[Server]) /\ net'[Client] = net[Client]
        /\ net' \in [{Client, Server} -> Seq(Packets)]
        /\ \A o \in {Client, Server} : Len(net'[o]) <= MaxInFlight
    BY <1>4, ServedNet
  <2>2. refused' \in BOOLEAN
    BY <1>4, Zenon DEF TypeOK
  <2>3. TypeOK' /\ SessionScheduled'
    BY <1>1, <2>1, <2>2 DEF TypeOK, SessionScheduled
  <2>4. Numbered' /\ NoCookieYet' /\ RateInv'
    BY <1>1, <1>4, DroppedKeeps
  <2>5. ClientLoss'
    BY <1>1, <1>3, <2>1, ClientLossKept
  <2>6. session' = None
    BY <1>1, <1>4 DEF Numbered
  <2>7. ServerLoss'
    BY <1>1, <1>4, <2>1, <2>6, ServerLossSkipped
  <2>8. QED
    BY <2>3, <2>4, <2>5, <2>7
<1>5. CASE /\ client.state = "exited" /\ net[Client] # << >>
           /\ net' = [net EXCEPT ![Client] = Tail(@)]
           /\ UNCHANGED refused
  <2>1. /\ net'[Client] = Tail(net[Client]) /\ net'[Server] = net[Server]
        /\ net' \in [{Client, Server} -> Seq(Packets)]
        /\ \A o \in {Client, Server} : Len(net'[o]) <= MaxInFlight
    BY <1>2, <1>5, DroppedNet
  <2>2. TypeOK' /\ SessionScheduled'
    BY <1>1, <1>5, <2>1 DEF TypeOK, SessionScheduled
  <2>3. Numbered' /\ NoCookieYet' /\ RateInv'
    BY <1>1, <1>5, DroppedKeeps
  <2>4. ClientLoss'
    BY <1>1, <1>5 DEF ClientLoss
  <2>5. ServerLoss'
    BY <1>1, <2>1, ServerLossKept
  <2>6. QED
    BY <2>2, <2>3, <2>4, <2>5
<1>6. QED
  BY <1>4, <1>5 DEF Unreachable

-----------------------------------------------------------------------------
(* The theorems *)

LEMMA InitIInv == Init => IInv
<1> SUFFICES ASSUME Init PROVE IInv
  OBVIOUS
<1>1. /\ client = ClientSession /\ running = TRUE /\ rate \in Rates
      /\ secret = [epoch |-> 1, secret |-> 1, prev_epoch |-> 0, prev_secret |-> 0]
      /\ session = None /\ entries = 0 /\ freed = None /\ dangling = 0
      /\ net = [r \in {Client, Server} |-> << >>] /\ refused = FALSE
      /\ losses = [r \in {Client, Server} |-> 0] /\ faults = 0
      /\ rejected = FALSE /\ strays = 0
  BY DEF Init
<1>2. /\ net[Client] = << >> /\ net[Server] = << >>
      /\ losses[Client] = 0 /\ losses[Server] = 0
  BY <1>1
<1>3. /\ client \in ClientSessions /\ client.state = "NEW_SESSION"
      /\ client.epoch = 0 /\ client.next_rx_id = 0 /\ client.num_lost = 0
  <2>1. client \in ClientSessions
    BY <1>1, SessionsAre
  <2>2. QED
    BY <1>1, <2>1 DEF ClientSession
<1>4. TypeOK
  <2>1. running \in BOOLEAN /\ refused \in BOOLEAN /\ rejected \in BOOLEAN
    BY <1>1, Zenon
  <2>2. /\ secret \in [epoch : Nat \ {0}, secret : Nat \ {0},
                       prev_epoch : Nat, prev_secret : Nat]
        /\ entries \in Nat /\ dangling \in Nat
        /\ faults \in 0..MaxFaults /\ strays \in 0..MaxStrays
        /\ losses \in [{Client, Server} -> Nat]
    BY <1>1, IsopingAssumption
  <2>3. /\ net \in [{Client, Server} -> Seq(Packets)]
        /\ \A r \in {Client, Server} : Len(net[r]) <= MaxInFlight
    BY <1>1, Constants
  <2>4. QED
    BY <1>1, <1>3, <2>1, <2>2, <2>3 DEF TypeOK
<1>5. SessionScheduled
  BY <1>1 DEF SessionScheduled
<1>6. Numbered
  BY <1>1, <1>2 DEF Numbered
<1>7. NoCookieYet
  BY <1>1, <1>2, <1>3 DEF NoCookieYet
<1>8. RateInv
  <2>1. Tx.type = "handshake" /\ Tx.epoch = 0
    BY <1>3, TxFields DEF Tx
  <2>2. ~Valid(Tx, secret)
    BY <1>1, <2>1 DEF Valid, Current, Fits
  <2>3. DOMAIN net[Client] = {} /\ DOMAIN net[Server] = {}
    BY <1>2
  <2>4. InOrder(net[Server], Tx, net[Client], secret)
    BY <2>3, Zenon DEF InOrder
  <2>5. Agreed(net[Server], Tx, net[Client], secret, rate)
    BY <2>2, <2>3, Zenon DEF Agreed, Asked, Offered
  <2>6. BeforeAcks(net[Server], Tx, net[Client])
    BY <2>3, Zenon DEF BeforeAcks
  <2>7. QED
    BY <1>1, <2>4, <2>5, <2>6, Zenon DEF RateInv, Paced
<1>9. ClientLoss
  BY <1>1, <1>2, <1>3 DEF ClientLoss, Steady, Ahead
<1>10. ServerLoss
  BY <1>1, <1>2 DEF ServerLoss, Steady
<1>11. QED
  BY <1>4, <1>5, <1>6, <1>7, <1>8, <1>9, <1>10 DEF IInv

LEMMA StepIInv == IInv /\ [Next]_vars => IInv'
<1> SUFFICES ASSUME IInv, [Next]_vars PROVE IInv'
  OBVIOUS
<1>1. CASE Next
  BY <1>1, ClientSendStep, ClientRefusedStep, ClientReceiveStep, ServerReceiveStep,
     ServerSendStep, DanglingSendStep, RotateStep, SilenceStep, DieStep, StartStep,
     UnreachableStep, LoseStep DEF Next
<1>2. CASE vars' = vars
  <2> USE <1>2 DEF vars, server, history
  <2>1. Tx' = Tx /\ NextToClient' = NextToClient
    BY DEF Tx, NextToClient
  <2>2. TypeOK' /\ SessionScheduled' /\ Numbered' /\ NoCookieYet'
    BY DEF IInv, TypeOK, SessionScheduled, Numbered, NoCookieYet
  <2>3. RateInv' /\ ClientLoss' /\ ServerLoss'
    BY <2>1 DEF IInv, RateInv, ClientLoss, ServerLoss
  <2>4. QED
    BY <2>2, <2>3 DEF IInv
<1>3. QED
  BY <1>1, <1>2

LEMMA AlwaysIInv == Spec => []IInv
BY InitIInv, StepIInv, PTL DEF Spec

\* Every session of the server has an element of next_sends, and no packet with
\* acks comes to a client without a cookie, so that handle_ack_packet never
\* writes acks where prepare_tx_packet expects the cookie.
THEOREM IsopingCorrect == Spec => []Inv
<1>1. IInv => Inv
  <2> SUFFICES ASSUME IInv PROVE Inv
    OBVIOUS
  <2>1. CookieIntact
    BY DEF IInv, NoCookieYet, CookieIntact
  <2>2. QED
    BY <2>1 DEF IInv, Inv
<1>2. QED
  BY <1>1, AlwaysIInv, PTL

\* An established client and the server's session send at the same rate, however
\* often the server was started again with another one, changed its secret or
\* lost packets (handle_server_handshake_packet, Sessions::NewSession).
THEOREM RatesAgree == Spec => []SameRate
<1>1. IInv => SameRate
  BY DEF IInv, RateInv, SameRate
<1>2. QED
  BY <1>1, AlwaysIInv, PTL

\* Neither side counts more packets as lost (num_lost in handle_ack_packet) than
\* the network lost, with the two exceptions that LossNotOverstated names.
THEOREM LossesAreReal == Spec => []LossNotOverstated
<1>1. IInv => LossNotOverstated
  BY DEF IInv, ClientLoss, ServerLoss, LossNotOverstated
<1>2. QED
  BY <1>1, AlwaysIInv, PTL
=============================================================================
