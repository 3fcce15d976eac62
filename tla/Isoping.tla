------------------------------ MODULE Isoping ------------------------------
(***************************************************************************)
(* isoping (src/cmds/isoping.cc), which measures the delay and the loss    *)
(* of packets in each direction between a client and a server.  The client *)
(* asks for a cookie, echoes it until the server sends it a packet, and    *)
(* then both send numbered packets and count the numbers they miss.  The   *)
(* server keeps nothing of a client before it has echoed a cookie, forgets *)
(* a client that is silent, and answers the packet of a client it does not *)
(* know with a new cookie.                                                 *)
(*                                                                         *)
(* There is one client; the network loses and delays packets but keeps     *)
(* their order (a packet makes at most two hops by default).  The server's *)
(* socket is bound to a port, the client's is only connected: a client     *)
(* that is started again is another client, with another address, and is   *)
(* not modelled.  So there is no session when the client asks for a cookie *)
(* (one that got the port of its predecessor, or whose question is         *)
(* overtaken, would have it erased).  Left out are the times of packets,   *)
(* and so the estimate of the clocks, the acknowledgements that carry them *)
(* (but for the memory they take) and the timers: a send may happen at any *)
(* time.                                                                   *)
(***************************************************************************)
EXTENDS Integers, Sequences, SequencesExt, FiniteSetsExt

CONSTANTS
  Rates,         \* the values of 1e6 / packets_per_sec that a server may have
  ClientRate,    \* and the one of the client
  MaxId,         \* bound: numbers of packets from here on are not told apart
  MaxInFlight,   \* bound: packets in the network, in each direction
  MaxEchoes,     \* bound: cookies the client echoes before it hears of one
  MaxFaults,     \* bound: packets the network loses, minutes that pass without
                 \* a packet, changes of the secret and deaths of the server
                 \* (but for undefined behaviour)
  MaxStrays      \* bound: packets of erased sessions

ASSUME IsopingAssumption ==
  /\ Rates \subseteq Nat \ {0} /\ Rates # {} /\ ClientRate \in Nat \ {0}
  /\ {MaxId, MaxInFlight, MaxEchoes} \subseteq Nat \ {0}
  /\ MaxFaults \in Nat /\ MaxStrays \in Nat

Client == "client"
Server == "server"
None == [none |-> TRUE]

VARIABLES
  client,    \* the client's session, or what is left of the process
  running,   \* the server's process is alive
  rate,      \* 1e6 / packets_per_sec of the server
  secret,    \* cookie_epoch and cookie_secret, and the previous ones
  session,   \* the server's session of the client, or None
  entries,   \* the elements of next_sends that refer to `session'
  freed,     \* the last session that was erased, or None
  dangling,  \* the elements of next_sends that refer to `freed'
  net,       \* per receiver, the packets on their way to it
  refused,   \* ECONNREFUSED waits at the client's socket
  losses,    \* history: per receiver, the packets lost on the way to it
  faults,    \* history: how much of MaxFaults happened
  rejected,  \* history: an echo was rejected although there is a session
  strays     \* history: the packets of erased sessions

server == <<running, rate, secret, session, entries, freed, dangling>>
history == <<losses, faults, rejected, strays>>
vars == <<client, server, net, refused, history>>

(***************************************************************************)
(* A cookie is a hash of the secret and the rate (and the address of the   *)
(* client, of which there is one); nothing else yields the same cookie.    *)
(* The epochs count from 1 (0 is a packet without a cookie).               *)
(***************************************************************************)
Cookie(s, usec) == [secret |-> s, usec |-> usec]
NoCookie == Cookie(0, 0)

Handshake(id, usec, epoch, cookie) ==
  [type |-> "handshake", id |-> id, usec |-> usec, epoch |-> epoch,
   cookie |-> cookie]
Ack(id, usec) ==
  [type |-> "ack", id |-> id, usec |-> usec, epoch |-> 0, cookie |-> NoCookie]

Fault == faults < MaxFaults /\ faults' = faults + 1

(***************************************************************************)
(* Session::Session.  Of a session we keep the rate, the numbers of the    *)
(* next packet in each direction, and the packets found to be lost; the    *)
(* client's also has the state of the handshake and the cookie, the        *)
(* server's whether a minute has passed since last_rxtime.                 *)
(***************************************************************************)
ClientSession ==
  [state |-> "NEW_SESSION", epoch |-> 0, cookie |-> NoCookie,
   usec |-> ClientRate, next_tx_id |-> 1, next_rx_id |-> 0, num_lost |-> 0]
ServerSession(usec) ==
  [silent |-> FALSE,
   usec |-> usec, next_tx_id |-> 1, next_rx_id |-> 0, num_lost |-> 0]

Init ==
  /\ client = ClientSession
  /\ running = TRUE /\ rate \in Rates
  /\ secret = [epoch |-> 1, secret |-> 1, prev_epoch |-> 0, prev_secret |-> 0]
  /\ session = None /\ entries = 0 /\ freed = None /\ dangling = 0
  /\ net = [r \in {Client, Server} |-> << >>]
  /\ refused = FALSE
  /\ losses = [r \in {Client, Server} |-> 0]
  /\ faults = 0
  /\ rejected = FALSE /\ strays = 0

-----------------------------------------------------------------------------
(* The numbers of received packets *)

\* The number after i.
After(i) == Min({i + 1, MaxId})

\* handle_ack_packet: a packet after the expected one shows a loss.  A session
\* that expects nothing yet begins with the packet.
NextExpected(s, id) == IF s.next_rx_id = 0 THEN id ELSE s.next_rx_id
\* Mutant: after a gap the packet itself is expected again.
HandleAckOffByOne(s, id) ==
  LET expected == NextExpected(s, id)
  IN  [s EXCEPT !.num_lost = @ + Max({id - expected, 0}),
                !.next_rx_id = IF id = expected THEN After(id)
                               ELSE Max({id, expected})]
handle_ack_packet(s, id) ==
  LET expected == NextExpected(s, id)
  IN  [s EXCEPT !.num_lost = @ + Max({id - expected, 0}),
                !.next_rx_id = Max({After(id), expected})]

-----------------------------------------------------------------------------
(* The client *)

\* prepare_tx_packet and send_packet: anything but an established session
\* sends a handshake.  One without a cookie does not count in the sequence.
Echoes == Cardinality({i \in DOMAIN net[Server] :
                         net[Server][i].type = "handshake"})
          + entries + dangling
TxPacket(c) ==
  IF c.state = "ESTABLISHED"
  THEN Ack(c.next_tx_id, c.usec)
  ELSE Handshake(c.next_tx_id, c.usec, c.epoch, c.cookie)
ClientSend ==
  /\ ~refused /\ client.state # "exited"
  /\ Len(net[Server]) < MaxInFlight
  /\ client.state = "COOKIE_GENERATED" => Echoes < MaxEchoes
  /\ net' = [net EXCEPT ![Server] = Append(@, TxPacket(client))]
  /\ client' = IF client.state \in {"COOKIE_GENERATED", "ESTABLISHED"}
               THEN [client EXCEPT !.next_tx_id = After(@)]
               ELSE [client EXCEPT !.state = "HANDSHAKE_REQUESTED"]
  /\ UNCHANGED <<server, refused, history>>

\* send_packet, read_incoming_packet and main: the process ends.
ClientRefused ==
  /\ refused /\ client.state # "exited"
  /\ client' = [client EXCEPT !.state = "exited"]
  /\ UNCHANGED <<server, net, refused, history>>

\* handle_server_handshake_packet, in whatever state.
TakeCookie(c, p) ==
  [c EXCEPT !.state = "COOKIE_GENERATED", !.next_tx_id = 1, !.next_rx_id = 0,
            !.epoch = p.epoch, !.cookie = p.cookie, !.usec = p.usec]
\* handle_packet: the first packet after the cookie was echoed.  The acks are
\* stored where the cookie was.
Establish(c) ==
  IF c.state = "COOKIE_GENERATED"
  THEN [c EXCEPT !.state = "ESTABLISHED", !.epoch = 0, !.cookie = NoCookie]
  ELSE c
\* handle_ack_packet: the number and the time of a packet are put into the acks
\* of the next packet sent, whatever that is.  In a handshake they would
\* overwrite the version, the cookie_epoch and the cookie; the epoch is then a
\* time to which the server has no secret.
StoreAck(c) ==
  IF c.state = "ESTABLISHED" THEN c ELSE [c EXCEPT !.epoch = secret.epoch + 1]
ClientReceive ==
  /\ client.state # "exited" /\ net[Client] # << >>
  /\ LET p == Head(net[Client])
     IN  client' = IF p.type = "handshake"
                   THEN TakeCookie(client, p)
                   ELSE StoreAck(handle_ack_packet(Establish(client), p.id))
  /\ net' = [net EXCEPT ![Client] = Tail(@)]
  /\ UNCHANGED <<server, refused, history>>

-----------------------------------------------------------------------------
(* The server *)

\* Sessions::ValidateCookie
ValidateCookie(p) ==
  /\ p.epoch \in {secret.epoch, secret.prev_epoch}
  /\ p.cookie = Cookie(IF p.epoch = secret.prev_epoch
                       THEN secret.prev_secret ELSE secret.secret, p.usec)

\* prepare_handshake_reply_packet: the rate is the slower of the two.  The
\* client does not look at the number.
Reply(p) ==
  LET usec == Max({p.usec, rate})
  IN  Handshake(0, usec, secret.epoch, Cookie(secret.secret, usec))

Send(p) == /\ Len(net[Client]) < MaxInFlight
           /\ net' = [net EXCEPT ![Client] = Append(@, p),
                                 ![Server] = IF p.type = "handshake"
                                             THEN Tail(@) ELSE @]

\* session_map.erase.  What `left' elements of next_sends refer to is freed.
Erase(left) ==
  /\ session' = None /\ entries' = 0
  /\ dangling' = dangling + left
  /\ freed' = IF left > 0 THEN session ELSE freed

\* Sessions::NewSession: insert does nothing if there is a session; in any
\* case next_sends gets an element.  The new session may be put where a freed
\* one was, and then what referred to that one refers to it.
NewSession(usec) ==
  \E reused \in IF session = None THEN {0, dangling} ELSE {0} :
    /\ entries' = entries + 1 + reused
    /\ dangling' = dangling - reused
    /\ freed' = IF dangling' = 0 THEN None ELSE freed

Received(s, p) == [handle_ack_packet(s, p.id) EXCEPT !.silent = FALSE]

\* read_incoming_packet and handle_new_client_handshake_packet: a handshake
\* without a cookie.
ReceiveNew(p) ==
  /\ p.type = "handshake" /\ p.epoch = 0
  /\ Erase(entries)
  /\ Send(Reply(p))

\* Mutant: the session gets the server's own rate.
ReceiveEchoOwnRate(p) ==
  /\ p.type = "handshake" /\ p.epoch # 0 /\ ValidateCookie(p)
  /\ NewSession(rate)
  /\ session' = Received(IF session = None THEN ServerSession(rate)
                         ELSE session, p)
  /\ net' = [net EXCEPT ![Server] = Tail(@)]
ReceiveEcho(p) ==
  /\ p.type = "handshake" /\ p.epoch # 0 /\ ValidateCookie(p)
  /\ NewSession(p.usec)
  /\ session' = Received(IF session = None THEN ServerSession(p.usec)
                         ELSE session, p)
  /\ net' = [net EXCEPT ![Server] = Tail(@)]

ReceiveObsolete(p) ==
  /\ p.type = "handshake" /\ p.epoch # 0 /\ ~ValidateCookie(p)
  /\ net' = [net EXCEPT ![Server] = Tail(@)]
  /\ rejected' = (rejected \/ session # None)
  /\ UNCHANGED <<session, entries, freed, dangling>>

\* Mutant: the packet of an unknown client is ignored.
ReceiveUnknownSilently(p) ==
  /\ p.type = "ack" /\ session = None
  /\ net' = [net EXCEPT ![Server] = Tail(@)]
  /\ UNCHANGED <<session, entries, freed, dangling>>
ReceiveUnknown(p) ==
  /\ p.type = "ack" /\ session = None
  /\ Send(Reply(p))
  /\ UNCHANGED <<session, entries, freed, dangling>>

ReceiveAck(p) ==
  /\ p.type = "ack" /\ session # None
  /\ session' = Received(session, p)
  /\ net' = [net EXCEPT ![Server] = Tail(@)]
  /\ UNCHANGED <<entries, freed, dangling>>

ServerReceive ==
  /\ running /\ net[Server] # << >>
  /\ LET p == Head(net[Server])
     IN  \/ ReceiveObsolete(p)
         \/ /\ ReceiveNew(p) \/ ReceiveEcho(p) \/ ReceiveUnknown(p)
               \/ ReceiveAck(p)
            /\ UNCHANGED rejected
  /\ UNCHANGED <<client, running, rate, secret, refused, losses, faults, strays>>

\* send_waiting_packets: the session at the top of next_sends is sent a packet,
\* and forgotten if it is silent.
\* Mutant: what was taken from next_sends is not put back.
ServerSendOnce ==
  /\ running /\ entries > 0
  /\ Send(Ack(session.next_tx_id, session.usec))
  /\ session' = [session EXCEPT !.next_tx_id = After(@)]
  /\ entries' = entries - 1
  /\ UNCHANGED <<client, running, rate, secret, freed, dangling, refused,
                 history>>
ServerSend ==
  /\ running /\ entries > 0
  /\ Send(Ack(session.next_tx_id, session.usec))
  /\ IF session.silent
     THEN Erase(entries - 1)
     ELSE /\ session' = [session EXCEPT !.next_tx_id = After(@)]
          /\ UNCHANGED <<entries, freed, dangling>>
  /\ UNCHANGED <<client, running, rate, secret, refused, history>>

Dead == /\ running' = FALSE
        /\ session' = None /\ entries' = 0 /\ freed' = None /\ dangling' = 0
        /\ UNCHANGED <<rate, secret>>

\* send_waiting_packets with an erased session at the top of next_sends, whose
\* behaviour is undefined.  The process dies, or the memory still holds the
\* session: then a packet is sent, and if the session is silent, the session
\* that has its address now is erased.
DanglingSend ==
  /\ running /\ dangling > 0
  /\ \/ /\ Dead
        /\ UNCHANGED <<net, strays>>
     \/ /\ Send(Ack(freed.next_tx_id, freed.usec))
        /\ IF freed.silent
           THEN /\ session' = None /\ entries' = 0
                /\ dangling' = dangling - 1 + entries
                /\ freed' = IF entries > 0 THEN session
                            ELSE IF dangling' = 0 THEN None
                            ELSE [freed EXCEPT !.next_tx_id = After(@)]
           ELSE /\ freed' = [freed EXCEPT !.next_tx_id = After(@)]
                /\ UNCHANGED <<session, entries, dangling>>
        /\ strays < MaxStrays /\ strays' = strays + 1
        /\ UNCHANGED <<running, rate, secret>>
  /\ UNCHANGED <<client, refused, losses, faults, rejected>>

\* NewRandomCookieSecret: a secret of which there is no cookie.
Fresh ==
  LET sent(r) == {net[r][i].cookie.secret : i \in DOMAIN net[r]}
      used == {secret.secret, secret.prev_secret, client.cookie.secret}
                \cup sent(Client) \cup sent(Server)
  IN  Min((1..Cardinality(used) + 1) \ used)

\* MaybeRotateCookieSecrets, RotateCookieSecrets
Rotate ==
  /\ running /\ Fault
  /\ secret' = [epoch |-> secret.epoch + 1, secret |-> Fresh,
                prev_epoch |-> secret.epoch, prev_secret |-> secret.secret]
  /\ UNCHANGED <<client, running, rate, session, entries, freed, dangling, net,
                 refused, losses, rejected, strays>>

-----------------------------------------------------------------------------
(* The surroundings *)

\* A minute passes.
Silence ==
  /\ running /\ Fault
  /\ \/ /\ session # None
        /\ session' = [session EXCEPT !.silent = TRUE]
     \/ /\ dangling > 0
        /\ UNCHANGED session
  /\ freed' = IF freed = None THEN None ELSE [freed EXCEPT !.silent = TRUE]
  /\ UNCHANGED <<client, running, rate, secret, entries, dangling, net, refused,
                 losses, rejected, strays>>

Die ==
  /\ running /\ Fault
  /\ Dead
  /\ UNCHANGED <<client, net, refused, losses, rejected, strays>>

\* Sessions::Sessions, and the first change of the secret.  The epoch is a time,
\* and not another one after a quick start; a later one would do no more.
Start ==
  /\ ~running
  /\ running' = TRUE /\ rate' \in Rates
  /\ secret' = [epoch |-> secret.epoch, secret |-> Fresh,
                prev_epoch |-> 0, prev_secret |-> 0]
  /\ UNCHANGED <<client, session, entries, freed, dangling, net, refused,
                 history>>

Lose(r) ==
  /\ Fault
  /\ net[r] # << >> /\ net' = [net EXCEPT ![r] = Tail(@)]
  /\ losses' = [losses EXCEPT ![r] = @ + 1]
  /\ UNCHANGED <<client, server, refused, rejected, strays>>

\* A packet for a process that does not run: the client may be told.
Unreachable ==
  /\ \/ /\ ~running /\ net[Server] # << >>
        /\ net' = [net EXCEPT ![Server] = Tail(@)]
        /\ refused' \in {refused, TRUE}
     \/ /\ client.state = "exited" /\ net[Client] # << >>
        /\ net' = [net EXCEPT ![Client] = Tail(@)]
        /\ UNCHANGED refused
  /\ UNCHANGED <<client, server, history>>

Next ==
  \/ ClientSend \/ ClientRefused \/ ClientReceive
  \/ ServerReceive \/ ServerSend \/ DanglingSend \/ Rotate
  \/ Silence \/ Die \/ Start \/ Unreachable
  \/ \E r \in {Client, Server} : Lose(r)

Spec == Init /\ [][Next]_vars

\* The main loops go on, timers expire, the server is started again, and a
\* packet that is not lost arrives.
FairSpec ==
  /\ Spec
  /\ WF_vars(ClientSend)
  /\ WF_vars(ClientRefused) /\ WF_vars(ClientReceive)
  /\ WF_vars(ServerReceive) /\ WF_vars(ServerSend) /\ WF_vars(DanglingSend)
  /\ WF_vars(Start) /\ WF_vars(Unreachable)

-----------------------------------------------------------------------------
(* Properties *)

Usecs == {ClientRate} \cup Rates
States == {"NEW_SESSION", "HANDSHAKE_REQUESTED", "COOKIE_GENERATED",
           "ESTABLISHED", "exited"}
Cookies == [secret : Nat, usec : Nat]
ClientSessions ==
  [state : States, epoch : Nat, cookie : Cookies,
   usec : Usecs, next_tx_id : 1..MaxId, next_rx_id : 0..MaxId, num_lost : Nat]
ServerSessions ==
  [silent : BOOLEAN,
   usec : Usecs, next_tx_id : 1..MaxId, next_rx_id : 0..MaxId, num_lost : Nat]
Packets ==
  [type : {"handshake", "ack"}, id : 0..MaxId, usec : Usecs, epoch : Nat,
   cookie : Cookies]

\* The type invariant of the client, the server and the network.
TypeOK ==
  /\ client \in ClientSessions
  /\ running \in BOOLEAN /\ rate \in Rates /\ refused \in BOOLEAN
  /\ secret \in [epoch : Nat \ {0}, secret : Nat \ {0},
                 prev_epoch : Nat, prev_secret : Nat]
  /\ session \in ServerSessions \cup {None} /\ entries \in Nat
  /\ freed \in ServerSessions \cup {None} /\ dangling \in Nat
  /\ (freed = None) <=> (dangling = 0)
  /\ net \in [{Client, Server} -> Seq(Packets)]
  /\ \A r \in {Client, Server} : Len(net[r]) <= MaxInFlight
  /\ losses \in [{Client, Server} -> Nat]
  /\ faults \in 0..MaxFaults /\ strays \in 0..MaxStrays /\ rejected \in BOOLEAN

\* The server sends to every session it has, so that it also finds out that a
\* client is silent: an element of next_sends refers to it
\* (send_waiting_packets pops the element and pushes it again).
SessionScheduled == session # None <=> entries > 0

\* The acks and the cookie of a packet share their memory
\* (handle_ack_packet writes acks in any state, see StoreAck): no packet with
\* acks comes to a client that has not yet got a cookie, as each client has an
\* address of its own.
CookieIntact ==
  client.state \in {"NEW_SESSION", "HANDSHAKE_REQUESTED"}
    => \A i \in DOMAIN net[Client] : net[Client][i].type = "handshake"

\* The types, every session is scheduled, and no packet overwrites a cookie.
Inv == TypeOK /\ SessionScheduled /\ CookieIntact

\* Both send at the same rate, which the estimates of handle_ack_packet depend
\* on, whatever the server's rate was before it was started again.
SameRate ==
  client.state = "ESTABLISHED" /\ session # None => client.usec = session.usec

\* Neither side finds more packets lost than the network lost, although the
\* numbers begin anew when the client gets another cookie (num_lost in
\* handle_ack_packet), unless an erased session goes on sending or the server
\* changes its secret twice while an echo is on its way.
LossNotOverstated ==
  /\ strays = 0 => client.num_lost <= losses[Client]
  /\ ~rejected /\ session # None => session.num_lost <= losses[Server]

\* The cookie that the client echoes is of no use to the server, which does not
\* say so.
Obsolete ==
  /\ client.state = "COOKIE_GENERATED"
  /\ session = None /\ ~ValidateCookie(TxPacket(client))
Connected == running /\ session # None /\ client.state = "ESTABLISHED"

\* Whatever was lost, forgotten or restarted, the client is connected again and
\* again, unless it was told that there is no server, or has a cookie that the
\* server no longer accepts (handle_new_client_handshake_packet returns without
\* a reply).
Reconnects == []<>(Connected \/ client.state = "exited" \/ Obsolete)
=============================================================================
