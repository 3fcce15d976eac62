------------------------------ MODULE BinWifi ------------------------------
(***************************************************************************)
(* /bin/wifi (src/wifi/wifi.py) as conman uses it, for one radio.  A radio *)
(* runs at most one access point (hostapd), one client (wpa_supplicant).  *)
(*                                                                         *)
(*   ap    the band and the command with which hostapd runs, or NoAP       *)
(*   net   the network for which wpa_supplicant runs, or NoNet             *)
(*   up    wpa_supplicant is associated                                    *)
(*                                                                         *)
(* A command is the set of its outcomes: the radio afterwards, and whether *)
(* the command reports success.                                            *)
(***************************************************************************)
VARIABLE faulty  \* programs may fail to start and to stop, at present

NoNet == "no network"
NoAP == [band |-> "no band", command |-> "no command"]
Off == [ap |-> NoAP, net |-> NoNet, up |-> FALSE]

Success(r) == [radio |-> r, ok |-> TRUE]
Failure(r) == [radio |-> r, ok |-> FALSE]

\* stop_ap_wifi
stopap(r) ==
  {Success([r EXCEPT !.ap = NoAP])}
    \cup (IF faulty /\ r.ap # NoAP THEN {Failure(r)} ELSE {})

\* stop_client_wifi
stopclient(r) ==
  {Success([r EXCEPT !.net = NoNet, !.up = FALSE])}
    \cup (IF faulty /\ r.net # NoNet THEN {Failure(r)} ELSE {})

\* stop_wifi: the access point stays when the client does not stop.
stop(r) ==
  UNION {IF c.ok THEN stopap(c.radio) ELSE {c} : c \in stopclient(r)}

\* set_wifi and _maybe_restart_hostapd: hostapd is stopped before it starts again.
set(r, band, command) ==
  LET ap == [band |-> band, command |-> command]
  IN  {Success([r EXCEPT !.ap = ap])}
        \cup {Failure([r EXCEPT !.ap = old]) :
                old \in IF faulty /\ r.ap # ap THEN {r.ap, NoAP} ELSE {}}

\* set_client_wifi and _set_wpa_supplicant_config.  Nothing happens when
\* wpa_supplicant runs with this configuration, associated or not, unless a
\* restart is forced.  Else hostapd is stopped first, and is started again only
\* if the client associates.
setclient(r, net, force) ==
  IF r.net = net /\ ~force THEN {Success(r)}
  ELSE LET joined == [r EXCEPT !.net = net, !.up = TRUE]
           alone == [joined EXCEPT !.ap = NoAP]
       IN  {Success(joined), Failure(Off)}
             \cup (IF faulty THEN {Failure(r), Success(alone), Failure(alone)} ELSE {})
=============================================================================
