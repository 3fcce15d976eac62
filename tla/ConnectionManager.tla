-------------------------- MODULE ConnectionManager --------------------------
(***************************************************************************)
(* The main loop of conman (src/conman/connection_manager.py) for one      *)
(* radio: the configuration files that cwmpd writes and the inotify events *)
(* that announce them, the WLANConfiguration of each band, the access      *)
(* point and the client that conman runs through /bin/wifi, and the search *)
(* for an open network over which to provision.                            *)
(*                                                                         *)
(* What the other modules describe is abstract here: the routes and        *)
(* connection checks (Interface), the ratchet (Ratchet), the cycler        *)
(* (Cycler).  The steps of run_once that call no other process in between  *)
(* are one action; conman can be killed between any two of them.           *)
(***************************************************************************)
EXTENDS Naturals, Sequences, SequencesExt, BinWifi

CONSTANTS
  Bands,      \* wifi.bands, a sequence
  Command,    \* what a command file can hold
  SsidOf,     \* the SSID in a command file
  Bss,        \* open networks
  Retry,      \* wlan_retry_s, in turns of the main loop
  Patience,   \* the turns in which the ratchet is done or times out
  UpdatePeriod, \* interface_update_period
  Restarts,   \* conman may end and start again
  Faulty,     \* there are runs of conman in which programs fail
  MaxEvents   \* bound: inotify events that wait to be read

Band == Range(Bands)
Ssid == {SsidOf[c] : c \in Command}

NoFile == "no file"
NoBss == "None"

ASSUME ConmanAssumption ==
  /\ Bands \in Seq(Band)
  /\ Retry \in Nat /\ Patience \in Nat /\ MaxEvents \in Nat
  /\ UpdatePeriod \in Nat \ {0} /\ Restarts \in BOOLEAN /\ Faulty \in BOOLEAN
  /\ NoNet \notin Ssid \cup Bss
  /\ Ssid \cap Bss = {}
  /\ {NoFile, NoAP.command} \cap Command = {} /\ NoBss \notin Bss

VARIABLES
  command_file,  \* command_file[b]: what command.<b> holds, or NoFile
  ap_file,       \* ap_file[b]: access_point.<b> exists
  events,        \* the inotify events that conman has not processed
  radio,         \* what runs on the radio
  config,        \* _wlan_configuration, a dict
  recently_reset,
  internet,      \* bridge.internet()
  bridge_acs,    \* bridge.acs()
  wifi_acs,      \* wifi.acs()
  works,         \* the open networks over which the ACS can be reached
  seen,          \* the networks in wifi.cycler
  ratchet,       \* provisioning_ratchet: idle, pending, done or failed
  patience,      \* the turns that a pending ratchet has left
  reached,       \* the network reached the ACS since the ratchet started
  last_attempted, last_successful,
  update_counter, \* _interface_update_counter
  pc,            \* the part of __init__ or run_once that is next
  band,          \* the index in Bands of the band that is next
  failed,        \* provisioning_failed
  running        \* continue_wifi

files == <<command_file, ap_file>>
world == <<internet, bridge_acs, works, faulty>>
provisioning == <<seen, ratchet, patience, reached, last_attempted, last_successful>>
turn == <<update_counter, band, failed, running>>
vars == <<files, events, radio, config, recently_reset, world, wifi_acs,
          provisioning, pc, turn>>

-----------------------------------------------------------------------------
(* WLANConfiguration.  Like the commands of BinWifi, a method is the set of its
   outcomes: the radio and the configuration afterwards, and whether setclient
   has run, after which the wireless interface has no gateway and no ACS. *)

Outcome(r, c, tried) == [radio |-> r, config |-> c, tried |-> tried]

client_up(r, c) == r.up /\ r.net = SsidOf[c.command]

start_client(r, c) ==
  IF c.wait > 0 \/ client_up(r, c) THEN {Outcome(r, c, FALSE)}
  ELSE {LET joined == o.ok /\ client_up(o.radio, c)
        IN  Outcome(o.radio, [c EXCEPT !.wait = IF joined THEN 0 ELSE Retry], TRUE) :
          o \in setclient(r, SsidOf[c.command], recently_reset)}

stop_client(r, c) ==
  IF client_up(r, c) THEN {o.radio : o \in stopclient(r)} ELSE {r}

start_access_point(r, c, b) ==
  IF ~c.access_point \/ c.access_point_up THEN {Outcome(r, c, FALSE)}
  ELSE {Outcome(o.radio, [c EXCEPT !.access_point_up = o.ok], FALSE) :
          o \in UNION {set(s, b, c.command) : s \in stop_client(r, c)}}

stop_access_point(r, c) ==
  IF ~c.access_point_up THEN {Outcome(r, c, FALSE)}
  ELSE {Outcome(o.radio, [c EXCEPT !.access_point_up = ~o.ok], FALSE) :
          o \in stopap(r)}

\* Mutant: an access point is not stopped when the wired connection is lost.
update_access_point_without_stop(r, c, b, online) ==
  IF online /\ c.access_point THEN start_access_point(r, c, b)
  ELSE start_client(r, c)

\* _update_access_point
update_access_point(r, c, b, online) ==
  IF online /\ c.access_point THEN start_access_point(r, c, b)
  ELSE UNION {start_client(s.radio, s.config) : s \in stop_access_point(r, c)}

With(b, c) == [a \in DOMAIN config \cup {b} |-> IF a = b THEN c ELSE config[a]]
Without(b) == [a \in DOMAIN config \ {b} |-> config[a]]

\* The configuration of b, and the radio, become those of the outcome o.
Apply(b, o) ==
  /\ radio' = o.radio
  /\ config' = With(b, o.config)
  /\ wifi_acs' = (wifi_acs /\ ~o.tried /\ (radio.up => o.radio.up))
  /\ recently_reset' = (recently_reset /\ ~o.tried)

connected_to_wlan == \E b \in DOMAIN config : client_up(radio, config[b])
connected_to_open == radio.up /\ radio.net \in Bss

-----------------------------------------------------------------------------
(* The files and their events. *)

NewConfig(b, wanted) ==
  [command |-> command_file[b], access_point |-> wanted,
   access_point_up |-> FALSE, wait |-> 0]

\* Mutant: a configuration that is replaced loses its access point.
update_wlan_configuration_afresh(b, online) ==
  IF b \in DOMAIN config /\ config[b].command = command_file[b]
  THEN UNCHANGED <<radio, config, wifi_acs, recently_reset>>
  ELSE \E o \in update_access_point(radio, NewConfig(b, b \notin DOMAIN config /\ ap_file[b]),
                                    b, online) : Apply(b, o)

\* _update_wlan_configuration
update_wlan_configuration(b, online) ==
  IF b \in DOMAIN config /\ config[b].command = command_file[b]
  THEN UNCHANGED <<radio, config, wifi_acs, recently_reset>>
  ELSE LET wanted == IF b \in DOMAIN config THEN config[b].access_point ELSE ap_file[b]
       IN  \E o \in update_access_point(radio, NewConfig(b, wanted), b, online) :
             Apply(b, o)

\* _remove_wlan_configuration
remove_wlan_configuration(b) ==
  /\ \E r \in stop_client(radio, config[b]) :
       \E o \in stop_access_point(r, config[b]) : radio' = o.radio
  /\ config' = Without(b)
  /\ wifi_acs' = (wifi_acs /\ (radio.up => radio'.up))
  /\ UNCHANGED recently_reset

SetAccessPoint(b, wanted) ==
  /\ config' = [config EXCEPT ![b].access_point = wanted]
  /\ UNCHANGED <<radio, wifi_acs, recently_reset>>

Ignore == UNCHANGED <<radio, config, wifi_acs, recently_reset>>

\* handle_event.  Only the name of the file is in the event: the file is read,
\* and may have changed or gone, when the event is processed.
handle_event ==
  /\ pc = "events" /\ events # <<>>
  /\ LET e == Head(events)
         b == e.band
         here == b \in DOMAIN config
     IN  \/ /\ e.name = "command" /\ ~e.deleted
            /\ IF command_file[b] = NoFile THEN Ignore
               ELSE update_wlan_configuration(b, internet)
         \/ /\ e.name = "command" /\ e.deleted
            /\ IF here THEN remove_wlan_configuration(b) ELSE Ignore
         \/ /\ e.name = "access_point"
            /\ IF here /\ (e.deleted \/ ap_file[b]) THEN SetAccessPoint(b, ~e.deleted)
               ELSE Ignore
         \/ /\ e.name = "interface"
            /\ recently_reset' = TRUE
            /\ UNCHANGED <<radio, config, wifi_acs>>
  /\ events' = Tail(events)
  /\ UNCHANGED <<files, world, provisioning, pc, turn>>

Event(n, b, d) == [name |-> n, band |-> b, deleted |-> d]

\* cwmpd and the drivers: a file is written or deleted.
FileChange ==
  /\ Len(events) < MaxEvents
  /\ \E b \in Band :
       \/ \E c \in Command :
            /\ command_file' = [command_file EXCEPT ![b] = c]
            /\ events' = Append(events, Event("command", b, FALSE))
            /\ UNCHANGED ap_file
       \/ /\ command_file[b] # NoFile
          /\ command_file' = [command_file EXCEPT ![b] = NoFile]
          /\ events' = Append(events, Event("command", b, TRUE))
          /\ UNCHANGED ap_file
       \/ /\ ap_file' = [ap_file EXCEPT ![b] = ~ap_file[b]]
          /\ events' = Append(events, Event("access_point", b, ap_file[b]))
          /\ UNCHANGED command_file
       \/ /\ events' = Append(events, Event("interface", b, FALSE))
          /\ UNCHANGED files
  /\ UNCHANGED <<radio, config, recently_reset, world, wifi_acs, provisioning, pc,
                 turn>>

-----------------------------------------------------------------------------
(* __init__ *)

Init ==
  /\ command_file \in [Band -> Command \cup {NoFile}]
  /\ ap_file \in [Band -> BOOLEAN]
  /\ events = <<>>
  /\ radio = Off
  /\ config = <<>>
  /\ recently_reset = FALSE
  /\ internet \in BOOLEAN /\ bridge_acs = FALSE
  /\ wifi_acs = FALSE
  /\ works = Bss
  /\ faulty \in {FALSE, Faulty}
  /\ seen = {}
  /\ ratchet = "idle" /\ patience = 0 /\ reached = FALSE
  /\ last_attempted = NoBss /\ last_successful = NoBss
  /\ update_counter = 0
  /\ pc = "load" /\ band = 1
  /\ failed = FALSE /\ running = FALSE

Unloaded == {b \in Band \ DOMAIN config : command_file[b] # NoFile}

\* A command file is read at startup.  The bridge is not initialized: internet
\* returns None.
LoadConfig(b) ==
  /\ pc = "load" /\ b \in Unloaded
  /\ update_wlan_configuration(b, FALSE)
  /\ UNCHANGED <<files, events, world, provisioning, pc, turn>>

\* "Make sure no unwanted APs or clients are running": the first band with a
\* configuration decides.
StopUnwanted ==
  /\ pc = "load" /\ Unloaded = {}
  /\ LET here == {i \in DOMAIN Bands : Bands[i] \in DOMAIN config}
     IN  IF here = {} THEN \E o \in stop(radio) : radio' = o.radio
         ELSE LET i == CHOOSE i \in here : \A j \in here : i <= j
              IN  IF config[Bands[i]].access_point /\ internet
                  THEN \E o \in stopclient(radio) : radio' = o.radio
                  ELSE \E o \in stopap(radio) : radio' = o.radio
  /\ pc' = "events"
  /\ UNCHANGED <<files, events, config, recently_reset, world, wifi_acs, provisioning,
                 turn>>

-----------------------------------------------------------------------------
(* run_once, the part for one wireless interface *)

acs == bridge_acs \/ wifi_acs

\* Ratchet.check (module Ratchet): a pending ratchet is done or times out.  For it
\* to be done its third step must have found the ACS over the network.
CheckedRatchet ==
  IF ratchet # "pending" THEN {ratchet}
  ELSE {"failed"} \cup (IF reached THEN {"done"} ELSE {})
         \cup (IF patience > 0 THEN {"pending"} ELSE {})

\* Mutant: a network that fails remains the successful one.
CheckProvisioningKeepsSuccess ==
  /\ pc = "provisioning"
  /\ ratchet' \in CheckedRatchet
  /\ failed' = (ratchet' = "failed")
  /\ pc' = IF connected_to_open /\ ratchet' \in {"idle", "pending"} THEN "sleep" ELSE "bands"
  /\ band' = 1 /\ running' = FALSE
  /\ UNCHANGED <<files, events, radio, config, recently_reset, world, wifi_acs,
                 seen, patience, reached, last_attempted, last_successful, update_counter>>

\* Mutant: provisioning that is completed goes on.
CheckProvisioningNeverCompleted ==
  /\ pc = "provisioning"
  /\ ratchet' \in CheckedRatchet
  /\ failed' = (ratchet' = "failed")
  /\ IF connected_to_open /\ ~failed'
     THEN pc' = "sleep" /\ UNCHANGED last_successful
     ELSE /\ pc' = "bands"
          /\ last_successful' = IF failed' /\ last_attempted = last_successful
                                THEN NoBss ELSE last_successful
  /\ band' = 1 /\ running' = FALSE
  /\ UNCHANGED <<files, events, radio, config, recently_reset, world, wifi_acs,
                 seen, patience, reached, last_attempted, update_counter>>

\* currently_provisioning and provisioning_failed
CheckProvisioning ==
  /\ pc = "provisioning"
  /\ ratchet' \in CheckedRatchet
  /\ failed' = (ratchet' = "failed")
  /\ IF connected_to_open /\ ratchet' \in {"idle", "pending"}
     THEN pc' = "sleep" /\ UNCHANGED last_successful
     ELSE /\ pc' = "bands"
          /\ last_successful' = IF failed' /\ last_attempted = last_successful
                                THEN NoBss ELSE last_successful
  /\ band' = 1 /\ running' = FALSE
  /\ UNCHANGED <<files, events, radio, config, recently_reset, world, wifi_acs,
                 seen, patience, reached, last_attempted, update_counter>>

\* What wifi.acs can find out now.
Reachable == radio.up /\ (radio.net \in Bss => radio.net \in works)

\* All events are processed.  The connection checks of the wireless interface
\* are repeated when their cache is empty.
EventsDone ==
  /\ pc = "events" /\ events = <<>>
  /\ update_counter' = update_counter + 1
  /\ update_counter' # UpdatePeriod
  /\ wifi_acs' \in {wifi_acs, FALSE, Reachable}
  /\ pc' = "provisioning"
  /\ UNCHANGED <<files, events, radio, config, recently_reset, world, provisioning,
                 band, failed, running>>

\* Mutant: the network is not looked at again.
EventsDoneAndUpdateRoutesOnly ==
  /\ pc = "events" /\ events = <<>>
  /\ update_counter + 1 = UpdatePeriod /\ update_counter' = 0
  /\ wifi_acs' \in {FALSE, Reachable}
  /\ pc' = "provisioning"
  /\ UNCHANGED <<files, events, radio, config, recently_reset, world, provisioning,
                 band, failed, running>>

\* The same every interface_update_period turns, when _update_interfaces_and_routes
\* expires the caches and forgets a network that does not reach the ACS any more.
EventsDoneAndUpdate ==
  /\ pc = "events" /\ events = <<>>
  /\ update_counter + 1 = UpdatePeriod /\ update_counter' = 0
  /\ wifi_acs' \in {FALSE, Reachable}
  /\ last_successful' = IF /\ radio.up /\ ~connected_to_wlan
                           /\ last_successful = last_attempted
                           /\ ~wifi_acs'
                        THEN NoBss ELSE last_successful
  /\ pc' = "provisioning"
  /\ UNCHANGED <<files, events, radio, config, recently_reset, world, seen, ratchet,
                 patience, reached, last_attempted, band, failed, running>>

\* The first loop over the bands: the access points.
UpdateBand ==
  /\ pc = "bands" /\ band <= Len(Bands)
  /\ LET b == Bands[band]
     IN  IF b \notin DOMAIN config THEN Ignore /\ UNCHANGED running
         ELSE IF running
         THEN /\ config' = [config EXCEPT ![b].access_point_up = FALSE]
              /\ UNCHANGED <<radio, wifi_acs, recently_reset, running>>
         ELSE \E o \in update_access_point(radio, config[b], b, internet) :
                /\ Apply(b, o)
                /\ running' = o.config.access_point_up
  /\ band' = band + 1
  /\ UNCHANGED <<files, events, world, provisioning, pc, update_counter, failed>>

\* wifi.update, and what follows up to the second loop.  Whether it is time to
\* scan is left open.
Proceed ==
  /\ pc = "bands" /\ band > Len(Bands)
  /\ wifi_acs' = (wifi_acs /\ radio.up)
  /\ pc' = IF running \/ connected_to_wlan THEN "sleep" ELSE "join"
  /\ band' = 1
  /\ IF pc' = "join" /\ (~(bridge_acs \/ wifi_acs') \/ failed) /\ last_successful = NoBss
     THEN \E found \in {seen} \cup SUBSET Bss : seen' = found
     ELSE UNCHANGED seen
  /\ UNCHANGED <<files, events, radio, config, recently_reset, world, ratchet,
                 patience, reached, last_attempted, last_successful, update_counter,
                 failed, running>>

\* The second loop: the client joins the WLAN.
JoinBand ==
  /\ pc = "join" /\ band <= Len(Bands)
  /\ LET b == Bands[band]
     IN  IF b \notin DOMAIN config THEN Ignore
         ELSE \E o \in start_client(radio, config[b]) : Apply(b, o)
  /\ band' = band + 1
  /\ pc' = IF Bands[band] \in DOMAIN config /\ connected_to_wlan' THEN "sleep" ELSE "join"
  /\ UNCHANGED <<files, events, world, provisioning, update_counter, failed, running>>

\* The else branch of that loop, when the ACS answers: the network is one to
\* remember, and the WLAN is tried again at once.
NotJoinedWithACS ==
  /\ pc = "join" /\ band > Len(Bands) /\ acs
  /\ last_successful' = IF ~wifi_acs THEN last_successful
                        ELSE IF failed THEN NoBss ELSE last_attempted
  /\ config' = [b \in DOMAIN config |-> [config[b] EXCEPT !.wait = 0]]
  /\ pc' = IF DOMAIN config # {} \/ ~failed THEN "sleep" ELSE "next"
  /\ UNCHANGED <<files, events, radio, recently_reset, world, wifi_acs, seen, ratchet,
                 patience, reached, last_attempted, turn>>

\* Without the ACS, conman waits or tries another network.
NotJoinedWithoutACS ==
  /\ pc = "join" /\ band > Len(Bands) /\ ~acs
  /\ pc' = IF connected_to_open /\ ~failed THEN "sleep" ELSE "next"
  /\ UNCHANGED <<files, events, radio, config, recently_reset, world, wifi_acs,
                 provisioning, turn>>

\* _try_next_bssid and start_provisioning with the network n.
try_bssid(n) ==
  /\ pc = "next"
  /\ n \in IF last_successful # NoBss THEN {last_successful} ELSE seen
  /\ ratchet' = "pending" /\ patience' = Patience /\ reached' = FALSE
  /\ last_attempted' = n
  /\ \E o \in setclient(radio, n, FALSE) :
       /\ radio' = o.radio
       /\ last_successful' = IF ~o.ok THEN NoBss ELSE last_successful
  /\ wifi_acs' = FALSE
  /\ pc' = "sleep"
  /\ UNCHANGED <<files, events, config, recently_reset, world, seen, turn>>

\* _try_next_bssid when the cycler has no network to offer, or none yet.
RanOutOfBssids ==
  /\ pc = "next" /\ last_successful = NoBss
  /\ pc' = "sleep"
  /\ UNCHANGED <<files, events, radio, config, recently_reset, world, wifi_acs,
                 provisioning, turn>>

\* run_once sleeps, and the next turn begins.
Sleep ==
  /\ pc = "sleep"
  /\ pc' = "events"
  /\ config' = [b \in DOMAIN config |->
                 [config[b] EXCEPT !.wait = IF @ > 0 THEN @ - 1 ELSE 0]]
  /\ patience' = IF patience > 0 THEN patience - 1 ELSE 0
  /\ UNCHANGED <<files, events, radio, recently_reset, world, wifi_acs, seen, ratchet,
                 reached, last_attempted, last_successful, turn>>

-----------------------------------------------------------------------------
(* The world *)

\* The wired connection comes and goes; conman learns of it from its files and
\* its periodic checks, which come before the part for the wireless interface.
BridgeChange ==
  /\ pc = "events"
  /\ \/ internet' = ~internet /\ UNCHANGED bridge_acs
     \/ bridge_acs' = ~bridge_acs /\ UNCHANGED internet
  /\ UNCHANGED <<files, events, radio, config, recently_reset, works, faulty, wifi_acs,
                 provisioning, pc, turn>>

\* wpa_supplicant loses its network or joins it again.
Association ==
  /\ radio.net # NoNet
  /\ radio' = [radio EXCEPT !.up = ~radio.up]
  /\ UNCHANGED <<files, events, config, recently_reset, world, wifi_acs, provisioning,
                 pc, turn>>

\* The ACS answers over the network to which the radio is connected.
ACSAnswers ==
  /\ connected_to_open /\ radio.net \in works
  /\ ratchet = "pending" /\ ~reached /\ reached' = TRUE
  /\ UNCHANGED <<files, events, radio, config, recently_reset, world, wifi_acs, seen,
                 ratchet, patience, last_attempted, last_successful, pc, turn>>

\* A network stops to be of use.
NetworkFails ==
  /\ \E n \in works : works' = works \ {n}
  /\ UNCHANGED <<files, events, radio, config, recently_reset, internet, bridge_acs,
                 faulty, wifi_acs, provisioning, pc, turn>>

\* conman ends and starts again, in a run in which programs fail or in one in which
\* they do not.  What runs on the radio goes on running.
Restart ==
  /\ Restarts
  /\ events' = <<>> /\ config' = <<>> /\ recently_reset' = FALSE
  /\ wifi_acs' = FALSE
  /\ seen' = {} /\ ratchet' = "idle" /\ patience' = 0 /\ reached' = FALSE
  /\ last_attempted' = NoBss /\ last_successful' = NoBss
  /\ update_counter' = 0
  /\ pc' = "load" /\ band' = 1 /\ failed' = FALSE /\ running' = FALSE
  /\ faulty' \in {FALSE, Faulty}
  /\ UNCHANGED <<files, radio, internet, bridge_acs, works>>

Step ==
  \/ \E b \in Band : LoadConfig(b)
  \/ StopUnwanted
  \/ handle_event \/ EventsDone \/ EventsDoneAndUpdate \/ CheckProvisioning
  \/ UpdateBand \/ Proceed \/ JoinBand
  \/ NotJoinedWithACS \/ NotJoinedWithoutACS
  \/ (\E n \in Bss : try_bssid(n)) \/ RanOutOfBssids
  \/ Sleep

Next ==
  Step \/ FileChange \/ BridgeChange \/ Association \/ ACSAnswers \/ NetworkFails \/ Restart

Spec == Init /\ [][Next]_vars

\* The main loop goes on, and comes to the end of the events again and again: the
\* files change when an operator or the ACS says so, far more rarely than conman
\* reads its events.
FairSpec == Spec /\ WF_vars(Step) /\ SF_vars(EventsDone \/ EventsDoneAndUpdate)

-----------------------------------------------------------------------------
(* Properties *)

Radio ==
  [ap : {NoAP} \cup [band : Band, command : Command],
   net : Ssid \cup Bss \cup {NoNet}, up : BOOLEAN]
WLANConfiguration ==
  [command : Command, access_point : BOOLEAN, access_point_up : BOOLEAN,
   wait : 0..Retry]
Inotify ==
  [name : {"command", "access_point", "interface"}, band : Band, deleted : BOOLEAN]

\* The type invariant: of the files and events, the radio, and what conman knows.
TypeOK ==
  /\ command_file \in [Band -> Command \cup {NoFile}] /\ ap_file \in [Band -> BOOLEAN]
  /\ events \in Seq(Inotify) /\ Len(events) <= MaxEvents
  /\ radio \in Radio /\ (radio.up => radio.net # NoNet)
  /\ DOMAIN config \subseteq Band
  /\ \A b \in DOMAIN config : config[b] \in WLANConfiguration
  /\ {recently_reset, internet, bridge_acs, wifi_acs, faulty} \subseteq BOOLEAN
  /\ {reached, failed, running} \subseteq BOOLEAN
  /\ ratchet \in {"idle", "pending", "done", "failed"} /\ patience \in 0..Patience
  /\ {last_attempted, last_successful} \subseteq Bss \cup {NoBss}
  /\ seen \subseteq Bss /\ works \subseteq Bss
  /\ pc \in {"load", "events", "provisioning", "bands", "join", "next", "sleep"}
  /\ band \in 1..(Len(Bands) + 1) /\ update_counter \in 0..(UpdatePeriod - 1)

\* When all events are processed conman's configurations are what the files say,
\* whatever was written, replaced and deleted while events were waiting:
\* handle_event reads a file that may be newer than the event.
ConfigMatchesFiles ==
  pc # "load" /\ events = <<>> =>
    \A b \in Band :
      /\ b \in DOMAIN config <=> command_file[b] # NoFile
      /\ b \in DOMAIN config => /\ config[b].command = command_file[b]
                                /\ config[b].access_point = ap_file[b]

\* The types, and configurations that follow their files.
Inv == TypeOK /\ ConfigMatchesFiles

\* The first loop over the bands is done in this turn of the main loop.
Updated == pc \in {"join", "next"} \/ (pc = "bands" /\ band > Len(Bands))

Wanted == internet /\ \E b \in DOMAIN config : config[b].access_point

\* A radio with one band whose access point is wanted runs it after each turn of
\* the main loop, with the present command ("Make sure access point is running iff
\* it should be", run_once), in every run of conman in which programs start and stop
\* as they are told: although access_point_up is lost with a configuration that is
\* replaced, a client that does not associate takes hostapd down, and earlier runs
\* of conman, in which programs failed, left anything running.  It is not so for two
\* bands, and that none runs when none is wanted is not so for one band either.
WantedAPRuns ==
  Updated /\ Wanted /\ ~faulty =>
    \E b \in DOMAIN config :
      config[b].access_point /\ radio.ap = [band |-> b, command |-> config[b].command]

\* The network over which provisioning has just failed is not the one that conman
\* tries next as last_successful_bss_info, whichever of the four places that
\* assign it ran in this turn (run_once, provisioning_failed).
FailedNetworkDropped ==
  pc = "next" /\ failed => last_successful = NoBss

\* conman does not stay for ever on an open network over which the ACS cannot be
\* reached and remember it as the successful one, even if it was provisioned over
\* this network (_update_interfaces_and_routes).
BadNetworkForgotten ==
  \A n \in Bss :
    []<>(n \in works \/ last_successful # n \/ ~(radio.up /\ radio.net = n))

\* While there is a configuration and no access point conman is on the WLAN or
\* tries to join it again and again, through every attempt to provision over open
\* networks ("Periodically retry rejoining the WLAN", run_once).
WlanRetried ==
  []<>(\/ connected_to_wlan \/ radio.ap # NoAP
       \/ DOMAIN config = {}
       \/ \E b \in DOMAIN config : config[b].wait = Retry)
=============================================================================
