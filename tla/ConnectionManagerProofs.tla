------------------------ MODULE ConnectionManagerProofs ------------------------
(***************************************************************************)
(* Proofs about ConnectionManager for any bands, commands and networks,    *)
(* with commands of /bin/wifi that fail and with restarts of conman.  The  *)
(* theorem about the access point is for a radio with one band.            *)
(***************************************************************************)
EXTENDS ConnectionManager, SequenceTheorems, TLAPS

\* A client that is associated runs for some network.
Sound(r) == r \in Radio /\ (r.up => r.net # NoNet)

\* The outcome o of a method of the WLANConfiguration c: the command and the wish
\* for an access point are those of c.
OutcomeOf(o, c) ==
  /\ Sound(o.radio) /\ o.tried \in BOOLEAN
  /\ o.config \in WLANConfiguration
  /\ o.config.command = c.command /\ o.config.access_point = c.access_point

\* What the methods of a WLANConfiguration change.
WlanTyped ==
  /\ Sound(radio)
  /\ DOMAIN config \subseteq Band
  /\ \A b \in DOMAIN config : config[b] \in WLANConfiguration
  /\ wifi_acs \in BOOLEAN /\ recently_reset \in BOOLEAN

\* The events of the kind n about the band b that wait in es, and the last of them.
Waiting(es, n, b) ==
  {i \in DOMAIN es : es[i].name = n /\ es[i].band = b}
LastWaiting(es, n, b) ==
  {i \in Waiting(es, n, b) : \A j \in Waiting(es, n, b) : j <= i}

\* The last event that waits tells whether the file is there; once none waits the
\* configuration is that of the file.  While conman starts, files that it has not
\* read yet need no event.
CommandFollowed(b) ==
  /\ \A i \in LastWaiting(events, "command", b) :
       events[i].deleted <=> command_file[b] = NoFile
  /\ Waiting(events, "command", b) = {} =>
       /\ b \in DOMAIN config => config[b].command = command_file[b]
       /\ pc # "load" /\ command_file[b] # NoFile => b \in DOMAIN config

AccessPointFollowed(b) ==
  /\ \A i \in LastWaiting(events, "access_point", b) : events[i].deleted <=> ~ap_file[b]
  /\ Waiting(events, "access_point", b) = {} =>
       (b \in DOMAIN config => config[b].access_point = ap_file[b])

FilesFollowed == \A b \in Band : CommandFollowed(b) /\ AccessPointFollowed(b)

\* conman remembers as successful at most the network that it tried last, and
\* from a failure until the turn ends none.
FailureNoted ==
  /\ last_successful \in {NoBss, last_attempted}
  /\ pc \in {"bands", "join", "next"} /\ failed => last_successful = NoBss

IInv == TypeOK /\ FilesFollowed /\ FailureNoted

-----------------------------------------------------------------------------
(* /bin/wifi and the methods of WLANConfiguration *)

\* A command that reports success or failure with a sound radio.
Reported(o) == Sound(o.radio) /\ o.ok \in BOOLEAN

LEMMA Reports ==
  ASSUME NEW r, Sound(r), NEW o, o = Success(r) \/ o = Failure(r)
  PROVE  Reported(o)
<1>1. o.radio = r
  BY DEF Success, Failure
<1>2. Success(r) \in [radio : {r}, ok : BOOLEAN]
  BY DEF Success
<1>3. Failure(r) \in [radio : {r}, ok : BOOLEAN]
  BY DEF Failure
<1>4. o \in [radio : {r}, ok : BOOLEAN]
  BY <1>2, <1>3
<1>5. QED
  BY <1>1, <1>4 DEF Reported

\* stopap leaves a sound radio.
LEMMA StopApSound ==
  ASSUME NEW r, Sound(r), NEW o \in stopap(r)
  PROVE  Reported(o)
<1>1. Sound([r EXCEPT !.ap = NoAP])
  BY DEF Sound, Radio
<1>2. o = Success([r EXCEPT !.ap = NoAP]) \/ o = Failure(r)
  BY DEF stopap
<1>3. QED
  BY <1>1, <1>2, Reports

\* stopclient leaves a sound radio.
LEMMA StopClientSound ==
  ASSUME NEW r, Sound(r), NEW o \in stopclient(r)
  PROVE  Reported(o)
<1>1. Sound([r EXCEPT !.net = NoNet, !.up = FALSE])
  BY DEF Sound, Radio
<1>2. o = Success([r EXCEPT !.net = NoNet, !.up = FALSE]) \/ o = Failure(r)
  BY DEF stopclient
<1>3. QED
  BY <1>1, <1>2, Reports

\* stop leaves a sound radio.
LEMMA StopSound ==
  ASSUME NEW r, Sound(r), NEW o \in stop(r)
  PROVE  Sound(o.radio)
<1>1. PICK c \in stopclient(r) : o \in IF c.ok THEN stopap(c.radio) ELSE {c}
  BY DEF stop
<1>2. QED
  BY <1>1, StopApSound, StopClientSound DEF Reported

\* set leaves a sound radio.
LEMMA SetSound ==
  ASSUME NEW r, Sound(r), NEW b \in Band, NEW c \in Command, NEW o \in set(r, b, c)
  PROVE  Reported(o)
<1> DEFINE new == [band |-> b, command |-> c]
<1>1. PICK a \in {new, r.ap, NoAP} :
        o = Success([r EXCEPT !.ap = a]) \/ o = Failure([r EXCEPT !.ap = a])
  BY DEF set
<1>2. a \in {NoAP} \cup [band : Band, command : Command]
  BY <1>1 DEF Sound, Radio
<1>3. Sound([r EXCEPT !.ap = a])
  BY <1>2 DEF Sound, Radio
<1>4. QED
  BY <1>1, <1>3, Reports

\* setclient leaves a sound radio.
LEMMA SetClientSound ==
  ASSUME NEW r, Sound(r), NEW n \in Ssid \cup Bss, NEW f \in BOOLEAN,
         NEW o \in setclient(r, n, f)
  PROVE  Reported(o)
<1>1. n # NoNet
  BY ConmanAssumption
<1> DEFINE joined == [r EXCEPT !.net = n, !.up = TRUE]
           alone == [joined EXCEPT !.ap = NoAP]
<1>2. Sound(joined) /\ Sound(alone) /\ Sound(Off)
  BY <1>1 DEF Sound, Radio, Off
<1>3. o \in {Success(r), Success(joined), Failure(Off), Failure(r), Success(alone),
             Failure(alone)}
  BY DEF setclient
<1> HIDE DEF joined, alone
<1>4. QED
  BY <1>2, <1>3, Reports

\* An outcome with a sound radio and a configuration like c.
LEMMA Outcomes ==
  ASSUME NEW r, Sound(r), NEW c, NEW d \in WLANConfiguration, NEW t \in BOOLEAN,
         d.command = c.command, d.access_point = c.access_point
  PROVE  OutcomeOf(Outcome(r, d, t), c) /\ Outcome(r, d, t).config = d
<1>1. Outcome(r, d, t).radio = r /\ Outcome(r, d, t).config = d
  BY DEF Outcome
<1>2. Outcome(r, d, t) \in [radio : {r}, config : {d}, tried : BOOLEAN]
  BY DEF Outcome
<1>3. QED
  BY <1>1, <1>2 DEF OutcomeOf

\* start_client changes how long to wait and nothing else of the configuration.
LEMMA StartClientOutcome ==
  ASSUME NEW r, Sound(r), NEW c \in WLANConfiguration, recently_reset \in BOOLEAN,
         NEW o \in start_client(r, c)
  PROVE  OutcomeOf(o, c) /\ o.config.access_point_up = c.access_point_up
<1>1. CASE c.wait > 0 \/ client_up(r, c)
  <2>1. o = Outcome(r, c, FALSE)
    BY <1>1 DEF start_client
  <2>2. FALSE \in BOOLEAN
    OBVIOUS
  <2>3. OutcomeOf(o, c) /\ o.config = c
    BY <2>1, <2>2, Outcomes, ZenonT(30)
  <2>4. QED
    BY <2>3
<1>2. CASE ~(c.wait > 0 \/ client_up(r, c))
  <2>1. PICK x \in setclient(r, SsidOf[c.command], recently_reset) : \E w \in {0, Retry} :
          o = Outcome(x.radio, [c EXCEPT !.wait = w], TRUE)
    BY <1>2 DEF start_client
  <2>2. PICK w \in {0, Retry} : o = Outcome(x.radio, [c EXCEPT !.wait = w], TRUE)
    BY <2>1
  <2>3. Sound(x.radio)
    BY SetClientSound DEF WLANConfiguration, Ssid, Reported
  <2> DEFINE d == [c EXCEPT !.wait = w]
  <2>4. /\ d \in WLANConfiguration
        /\ d.command = c.command
        /\ d.access_point = c.access_point
        /\ d.access_point_up = c.access_point_up
    BY ConmanAssumption DEF WLANConfiguration
  <2>5. o = Outcome(x.radio, d, TRUE)
    BY <2>2
  <2> HIDE DEF d
  <2>6. OutcomeOf(o, c) /\ o.config = d
    BY <2>3, <2>4, <2>5, Outcomes
  <2>7. QED
    BY <2>4, <2>6
<1>3. QED
  BY <1>1, <1>2

\* stop_client leaves a sound radio.
LEMMA StopClientOutcome ==
  ASSUME NEW r, Sound(r), NEW c, NEW s \in stop_client(r, c)
  PROVE  Sound(s)
BY StopClientSound DEF stop_client, Reported

\* start_access_point changes access_point_up and nothing else of the
\* configuration.
LEMMA StartAccessPointOutcome ==
  ASSUME NEW r, Sound(r), NEW c \in WLANConfiguration, NEW b \in Band,
         NEW o \in start_access_point(r, c, b)
  PROVE  OutcomeOf(o, c)
<1>1. CASE ~c.access_point \/ c.access_point_up
  <2>1. o = Outcome(r, c, FALSE)
    BY <1>1 DEF start_access_point
  <2>2. QED
    BY <2>1, Outcomes
<1>2. CASE ~(~c.access_point \/ c.access_point_up)
  <2>1. PICK s \in stop_client(r, c) : \E x \in set(s, b, c.command) :
          o = Outcome(x.radio, [c EXCEPT !.access_point_up = x.ok], FALSE)
    BY <1>2 DEF start_access_point
  <2>2. PICK x \in set(s, b, c.command) :
          o = Outcome(x.radio, [c EXCEPT !.access_point_up = x.ok], FALSE)
    BY <2>1
  <2>3. Reported(x)
    BY StopClientOutcome, SetSound DEF WLANConfiguration
  <2>4. /\ [c EXCEPT !.access_point_up = x.ok] \in WLANConfiguration
        /\ [c EXCEPT !.access_point_up = x.ok].command = c.command
        /\ [c EXCEPT !.access_point_up = x.ok].access_point = c.access_point
    BY <2>3 DEF WLANConfiguration, Reported
  <2>5. QED
    BY <2>2, <2>3, <2>4, Outcomes DEF Reported
<1>3. QED
  BY <1>1, <1>2

\* stop_access_point changes access_point_up and nothing else of the
\* configuration.
LEMMA StopAccessPointOutcome ==
  ASSUME NEW r, Sound(r), NEW c \in WLANConfiguration,
         NEW o \in stop_access_point(r, c)
  PROVE  OutcomeOf(o, c)
<1>1. CASE ~c.access_point_up
  <2>1. o = Outcome(r, c, FALSE)
    BY <1>1 DEF stop_access_point
  <2>2. QED
    BY <2>1, Outcomes
<1>2. CASE c.access_point_up
  <2>1. PICK x \in stopap(r) :
          o = Outcome(x.radio, [c EXCEPT !.access_point_up = ~x.ok], FALSE)
    BY <1>2 DEF stop_access_point
  <2>2. Reported(x) /\ (~x.ok) \in BOOLEAN
    BY StopApSound
  <2>3. /\ [c EXCEPT !.access_point_up = ~x.ok] \in WLANConfiguration
        /\ [c EXCEPT !.access_point_up = ~x.ok].command = c.command
        /\ [c EXCEPT !.access_point_up = ~x.ok].access_point = c.access_point
    BY <2>2 DEF WLANConfiguration, Reported
  <2>4. QED
    BY <2>1, <2>2, <2>3, Outcomes DEF Reported
<1>3. QED
  BY <1>1, <1>2 DEF WLANConfiguration

\* _update_access_point keeps the command and the wish of the configuration.
LEMMA UpdateAccessPointOutcome ==
  ASSUME NEW r, Sound(r), NEW c \in WLANConfiguration, NEW b \in Band, NEW online,
         recently_reset \in BOOLEAN, NEW o \in update_access_point(r, c, b, online)
  PROVE  OutcomeOf(o, c)
<1>1. CASE online /\ c.access_point
  BY <1>1, StartAccessPointOutcome DEF update_access_point
<1>2. CASE ~(online /\ c.access_point)
  <2>1. PICK s \in stop_access_point(r, c) : o \in start_client(s.radio, s.config)
    BY <1>2 DEF update_access_point
  <2>2. OutcomeOf(s, c)
    BY StopAccessPointOutcome
  <2>3. OutcomeOf(o, s.config)
    BY <2>1, <2>2, StartClientOutcome DEF OutcomeOf
  <2>4. QED
    BY <2>2, <2>3 DEF OutcomeOf
<1>3. QED
  BY <1>1, <1>2

-----------------------------------------------------------------------------
(* The configurations *)

\* The wishes of the configurations, which follow the files, stay as they are.
SameWishes ==
  /\ DOMAIN config' = DOMAIN config
  /\ \A b \in DOMAIN config : /\ config'[b].command = config[b].command
                              /\ config'[b].access_point = config[b].access_point

\* An outcome replaces the configuration of one band.
LEMMA ApplyWlan ==
  ASSUME WlanTyped, NEW b \in Band, NEW c, NEW o, OutcomeOf(o, c), Apply(b, o)
  PROVE  /\ WlanTyped'
         /\ DOMAIN config' = DOMAIN config \cup {b}
         /\ config'[b] = o.config
         /\ \A a \in DOMAIN config \ {b} : config'[a] = config[a]
<1>1. /\ DOMAIN config' = DOMAIN config \cup {b}
      /\ config'[b] = o.config
      /\ \A a \in DOMAIN config \ {b} : config'[a] = config[a]
  BY DEF Apply, With
<1>2. wifi_acs' \in BOOLEAN /\ recently_reset' \in BOOLEAN
  BY Zenon DEF Apply
<1>3. radio' = o.radio /\ Sound(o.radio) /\ o.config \in WLANConfiguration
  BY DEF Apply, OutcomeOf
<1>4. Sound(radio)'
  BY <1>3 DEF Sound
<1>5. QED
  BY <1>1, <1>2, <1>3, <1>4 DEF WlanTyped

\* _update_wlan_configuration takes the command of the file, and the wish for an
\* access point from the configuration before or else from its file.
LEMMA UpdateWlan ==
  ASSUME WlanTyped, NEW b \in Band, NEW online, command_file[b] \in Command,
         ap_file[b] \in BOOLEAN, update_wlan_configuration(b, online)
  PROVE  /\ WlanTyped'
         /\ DOMAIN config' = DOMAIN config \cup {b}
         /\ config'[b].command = command_file[b]
         /\ b \in DOMAIN config => config'[b].access_point = config[b].access_point
         /\ b \notin DOMAIN config => config'[b].access_point = ap_file[b]
         /\ \A a \in DOMAIN config \ {b} : config'[a] = config[a]
<1>1. CASE b \in DOMAIN config /\ config[b].command = command_file[b]
  <2>1. UNCHANGED <<radio, config, wifi_acs, recently_reset>>
    BY <1>1 DEF update_wlan_configuration
  <2>2. QED
    BY <1>1, <2>1 DEF WlanTyped, Sound
<1>2. CASE ~(b \in DOMAIN config /\ config[b].command = command_file[b])
  <2> DEFINE wanted == IF b \in DOMAIN config THEN config[b].access_point ELSE ap_file[b]
             c == NewConfig(b, wanted)
  <2>1. PICK o \in update_access_point(radio, c, b, online) : Apply(b, o)
    BY <1>2 DEF update_wlan_configuration
  <2>2. wanted \in BOOLEAN
    BY DEF WlanTyped, WLANConfiguration
  <2>3. /\ c \in WLANConfiguration
        /\ c.command = command_file[b] /\ c.access_point = wanted
    <3> HIDE DEF wanted
    <3>1. FALSE \in BOOLEAN /\ 0 \in 0..Retry
      BY ConmanAssumption
    <3>2. QED
      BY <2>2, <3>1 DEF NewConfig, WLANConfiguration
  <2> HIDE DEF c
  <2>4. OutcomeOf(o, c)
    BY <2>3, UpdateAccessPointOutcome DEF WlanTyped
  <2>5. /\ WlanTyped'
        /\ DOMAIN config' = DOMAIN config \cup {b}
        /\ config'[b] = o.config
        /\ \A a \in DOMAIN config \ {b} : config'[a] = config[a]
    BY <2>1, <2>4, ApplyWlan
  <2>6. QED
    BY <2>3, <2>4, <2>5 DEF OutcomeOf
<1>3. QED
  BY <1>1, <1>2

\* _remove_wlan_configuration removes the configuration, whether or not the
\* programs stop.
LEMMA RemoveWlan ==
  ASSUME WlanTyped, NEW b \in DOMAIN config, remove_wlan_configuration(b)
  PROVE  /\ WlanTyped'
         /\ DOMAIN config' = DOMAIN config \ {b}
         /\ \A a \in DOMAIN config \ {b} : config'[a] = config[a]
<1>1. PICK r \in stop_client(radio, config[b]) :
        \E o \in stop_access_point(r, config[b]) : radio' = o.radio
  BY DEF remove_wlan_configuration
<1>2. PICK o \in stop_access_point(r, config[b]) : radio' = o.radio
  BY <1>1
<1>3. Sound(o.radio)
  BY StopClientOutcome, StopAccessPointOutcome DEF WlanTyped, OutcomeOf
<1>4. Sound(radio)'
  BY <1>2, <1>3 DEF Sound
<1>5. wifi_acs' \in BOOLEAN
  BY Zenon DEF remove_wlan_configuration
<1>6. recently_reset' = recently_reset /\ config' = Without(b)
  BY DEF remove_wlan_configuration
<1>7. /\ DOMAIN config' = DOMAIN config \ {b}
      /\ \A a \in DOMAIN config \ {b} : config'[a] = config[a]
  BY <1>6 DEF Without
<1>8. QED
  BY <1>4, <1>5, <1>6, <1>7 DEF WlanTyped

\* An access point file sets the wish of its configuration.
LEMMA SetAccessPointWlan ==
  ASSUME WlanTyped, NEW b \in DOMAIN config, NEW wanted \in BOOLEAN,
         SetAccessPoint(b, wanted)
  PROVE  /\ WlanTyped'
         /\ DOMAIN config' = DOMAIN config
         /\ config'[b].access_point = wanted
         /\ \A a \in DOMAIN config : config'[a].command = config[a].command
         /\ \A a \in DOMAIN config \ {b} : config'[a] = config[a]
<1> DEFINE c == [config[b] EXCEPT !.access_point = wanted]
<1>1. c \in WLANConfiguration /\ c.access_point = wanted /\ c.command = config[b].command
  BY DEF WlanTyped, WLANConfiguration
<1>2. config' = [config EXCEPT ![b] = c]
  BY DEF SetAccessPoint
<1> HIDE DEF c
<1>3. /\ DOMAIN config' = DOMAIN config /\ config'[b] = c
      /\ \A a \in DOMAIN config \ {b} : config'[a] = config[a]
  BY <1>2
<1>4. UNCHANGED <<radio, wifi_acs, recently_reset>>
  BY DEF SetAccessPoint
<1>5. QED
  BY <1>1, <1>3, <1>4 DEF WlanTyped, Sound

\* Nothing happens to the configurations.
LEMMA IgnoreWlan ==
  ASSUME WlanTyped, Ignore
  PROVE  WlanTyped' /\ config' = config /\ SameWishes
BY DEF Ignore, WlanTyped, Sound, SameWishes

-----------------------------------------------------------------------------
(* What a turn does to the configurations *)

FilesTyped ==
  /\ command_file \in [Band -> Command \cup {NoFile}] /\ ap_file \in [Band -> BOOLEAN]
  /\ events \in Seq(Inotify) /\ Len(events) <= MaxEvents

ProvisioningTyped ==
  /\ internet \in BOOLEAN /\ bridge_acs \in BOOLEAN /\ reached \in BOOLEAN
  /\ ratchet \in {"idle", "pending", "done", "failed"} /\ patience \in 0..Patience
  /\ last_attempted \in Bss \cup {NoBss} /\ last_successful \in Bss \cup {NoBss}
  /\ seen \subseteq Bss /\ works \subseteq Bss /\ faulty \in BOOLEAN

TurnTyped ==
  /\ pc \in {"load", "events", "provisioning", "bands", "join", "next", "sleep"}
  /\ band \in 1..(Len(Bands) + 1) /\ update_counter \in 0..(UpdatePeriod - 1)
  /\ failed \in BOOLEAN /\ running \in BOOLEAN

\* The parts of the type invariant.
LEMMA TypeParts == TypeOK <=> FilesTyped /\ WlanTyped /\ ProvisioningTyped /\ TurnTyped
BY DEF TypeOK, FilesTyped, WlanTyped, ProvisioningTyped, TurnTyped, Sound

\* Its parts after a step.
LEMMA TypePartsNext ==
  TypeOK' <=> FilesTyped' /\ WlanTyped' /\ ProvisioningTyped' /\ TurnTyped'
BY DEF TypeOK, FilesTyped, WlanTyped, ProvisioningTyped, TurnTyped, Sound

\* A sequence of bands.
LEMMA BandsTyped ==
  /\ Len(Bands) \in Nat /\ DOMAIN Bands = 1..Len(Bands)
  /\ \A i \in 1..Len(Bands) : Bands[i] \in Band
BY ConmanAssumption

\* At startup a configuration is read that has no configuration yet.
LEMMA LoadConfigWlan ==
  ASSUME TypeOK, NEW b \in Band, LoadConfig(b)
  PROVE  /\ WlanTyped'
         /\ DOMAIN config' = DOMAIN config \cup {b} /\ b \notin DOMAIN config
         /\ config'[b].command = command_file[b]
         /\ config'[b].access_point = ap_file[b]
         /\ \A a \in DOMAIN config : config'[a] = config[a]
<1>1. /\ WlanTyped /\ b \notin DOMAIN config
      /\ command_file[b] \in Command /\ ap_file[b] \in BOOLEAN
  BY TypeParts DEF LoadConfig, Unloaded, FilesTyped
<1>2. update_wlan_configuration(b, FALSE)
  BY DEF LoadConfig
<1>3. QED
  BY <1>1, <1>2, UpdateWlan

\* Programs are stopped, the configurations stay.
LEMMA StopUnwantedWlan ==
  ASSUME TypeOK, StopUnwanted
  PROVE  WlanTyped' /\ config' = config
<1>1. WlanTyped
  BY TypeParts
<1>2. UNCHANGED <<config, wifi_acs, recently_reset>>
  BY DEF StopUnwanted
<1>3. \E o \in stop(radio) \cup stopclient(radio) \cup stopap(radio) : radio' = o.radio
  BY DEF StopUnwanted
<1>4. Sound(radio)'
  <2>1. PICK o \in stop(radio) \cup stopclient(radio) \cup stopap(radio) : radio' = o.radio
    BY <1>3
  <2>2. Sound(o.radio)
    BY <1>1, StopSound, StopClientSound, StopApSound DEF WlanTyped, Reported
  <2>3. QED
    BY <2>1, <2>2 DEF Sound
<1>5. QED
  BY <1>1, <1>2, <1>4 DEF WlanTyped

\* The first loop keeps the wishes.
LEMMA UpdateBandWlan ==
  ASSUME TypeOK, UpdateBand
  PROVE  WlanTyped' /\ SameWishes /\ running' \in BOOLEAN
<1> DEFINE b == Bands[band]
<1>1. WlanTyped /\ running \in BOOLEAN /\ band \in 1..Len(Bands)
  BY TypeParts, BandsTyped DEF TurnTyped, UpdateBand
<1>2. b \in Band
  BY <1>1, BandsTyped
<1> HIDE DEF b
<1>3. CASE b \notin DOMAIN config
  <2>1. Ignore /\ running' = running
    BY <1>3 DEF UpdateBand, b
  <2>2. QED
    BY <1>1, <2>1, IgnoreWlan
<1>4. CASE b \in DOMAIN config /\ running
  <2> DEFINE c == [config[b] EXCEPT !.access_point_up = FALSE]
  <2>1. /\ config' = [config EXCEPT ![b] = c]
        /\ UNCHANGED <<radio, wifi_acs, recently_reset, running>>
    BY <1>4 DEF UpdateBand, b
  <2>2. /\ c \in WLANConfiguration /\ c.command = config[b].command
        /\ c.access_point = config[b].access_point
    BY <1>1, <1>4 DEF WlanTyped, WLANConfiguration
  <2> HIDE DEF c
  <2>3. /\ DOMAIN config' = DOMAIN config /\ config'[b] = c
        /\ \A a \in DOMAIN config \ {b} : config'[a] = config[a]
    BY <1>4, <2>1
  <2>4. QED
    BY <1>1, <2>1, <2>2, <2>3 DEF WlanTyped, SameWishes, Sound
<1>5. CASE b \in DOMAIN config /\ ~running
  <2>1. PICK o \in update_access_point(radio, config[b], b, internet) :
          Apply(b, o) /\ running' = o.config.access_point_up
    BY <1>5 DEF UpdateBand, b
  <2>2. OutcomeOf(o, config[b])
    BY <1>1, <1>2, <1>5, UpdateAccessPointOutcome DEF WlanTyped
  <2>3. /\ WlanTyped'
        /\ DOMAIN config' = DOMAIN config \cup {b}
        /\ config'[b] = o.config
        /\ \A a \in DOMAIN config \ {b} : config'[a] = config[a]
    BY <1>1, <1>2, <2>1, <2>2, ApplyWlan
  <2>4. QED
    BY <1>5, <2>1, <2>2, <2>3 DEF OutcomeOf, SameWishes, WLANConfiguration
<1>6. QED
  BY <1>1, <1>3, <1>4, <1>5

\* The second loop keeps the wishes.
LEMMA JoinBandWlan ==
  ASSUME TypeOK, JoinBand
  PROVE  WlanTyped' /\ SameWishes
<1> DEFINE b == Bands[band]
<1>1. WlanTyped /\ band \in 1..Len(Bands)
  BY TypeParts, BandsTyped DEF TurnTyped, JoinBand
<1>2. b \in Band
  BY <1>1, BandsTyped
<1> HIDE DEF b
<1>3. CASE b \notin DOMAIN config
  <2>1. Ignore
    BY <1>3 DEF JoinBand, b
  <2>2. QED
    BY <1>1, <2>1, IgnoreWlan
<1>4. CASE b \in DOMAIN config
  <2>1. PICK o \in start_client(radio, config[b]) : Apply(b, o)
    BY <1>4 DEF JoinBand, b
  <2>2. OutcomeOf(o, config[b])
    BY <1>1, <1>4, StartClientOutcome DEF WlanTyped
  <2>3. /\ WlanTyped'
        /\ DOMAIN config' = DOMAIN config \cup {b}
        /\ config'[b] = o.config
        /\ \A a \in DOMAIN config \ {b} : config'[a] = config[a]
    BY <1>1, <1>2, <2>1, <2>2, ApplyWlan
  <2>4. QED
    BY <1>4, <2>2, <2>3 DEF OutcomeOf, SameWishes
<1>5. QED
  BY <1>3, <1>4

\* Only the waits change when a turn or the search for the WLAN ends.
LEMMA WaitsWlan ==
  ASSUME TypeOK, NotJoinedWithACS \/ Sleep
  PROVE  WlanTyped' /\ SameWishes
<1>1. WlanTyped
  BY TypeParts
<1>2. UNCHANGED <<radio, recently_reset, wifi_acs>>
  BY DEF NotJoinedWithACS, Sleep
<1>3. /\ DOMAIN config' = DOMAIN config
      /\ \A b \in DOMAIN config : \E w \in 0..Retry : config'[b] = [config[b] EXCEPT !.wait = w]
  <2>1. CASE NotJoinedWithACS
    BY <2>1, ConmanAssumption DEF NotJoinedWithACS
  <2>2. CASE Sleep
    <3>1. config' = [b \in DOMAIN config |->
                      [config[b] EXCEPT !.wait = IF config[b].wait > 0 THEN config[b].wait - 1 ELSE 0]]
      BY <2>2 DEF Sleep
    <3>2. \A b \in DOMAIN config :
            (IF config[b].wait > 0 THEN config[b].wait - 1 ELSE 0) \in 0..Retry
      BY <1>1, ConmanAssumption DEF WlanTyped, WLANConfiguration
    <3>3. QED
      BY <3>1, <3>2
  <2>3. QED
    BY <2>1, <2>2
<1>4. ASSUME NEW b \in DOMAIN config
      PROVE  /\ config'[b] \in WLANConfiguration
             /\ config'[b].command = config[b].command
             /\ config'[b].access_point = config[b].access_point
  <2>1. PICK w \in 0..Retry : config'[b] = [config[b] EXCEPT !.wait = w]
    BY <1>3
  <2>2. QED
    BY <1>1, <2>1 DEF WlanTyped, WLANConfiguration
<1>5. QED
  BY <1>1, <1>2, <1>3, <1>4 DEF WlanTyped, SameWishes, Sound

\* An event is about one band: what it does to the configuration of this band.
LEMMA HandleEventWlan ==
  ASSUME TypeOK, handle_event, NEW e, e = Head(events), NEW b, b = e.band
  PROVE  /\ WlanTyped' /\ e \in Inotify
         /\ \A a \in Band \ {b} :
              /\ a \in DOMAIN config' <=> a \in DOMAIN config
              /\ a \in DOMAIN config => config'[a] = config[a]
         /\ e.name = "command" /\ ~e.deleted /\ command_file[b] # NoFile =>
              /\ b \in DOMAIN config' /\ config'[b].command = command_file[b]
              /\ b \in DOMAIN config => config'[b].access_point = config[b].access_point
              /\ b \notin DOMAIN config => config'[b].access_point = ap_file[b]
         /\ e.name = "command" /\ ~e.deleted /\ command_file[b] = NoFile =>
              config' = config
         /\ e.name = "command" /\ e.deleted => b \notin DOMAIN config'
         /\ e.name = "access_point" =>
              /\ DOMAIN config' = DOMAIN config
              /\ b \in DOMAIN config => config'[b].command = config[b].command
              /\ b \in DOMAIN config /\ (e.deleted \/ ap_file[b]) =>
                   config'[b].access_point = ~e.deleted
         /\ e.name = "interface" => config' = config
<1>1. WlanTyped /\ events # <<>> /\ events \in Seq(Inotify)
  BY TypeParts DEF handle_event, FilesTyped
<1>2. e \in Inotify
  BY <1>1
<1>3. b \in Band /\ e.deleted \in BOOLEAN /\ e.name \in {"command", "access_point", "interface"}
  BY <1>2 DEF Inotify
<1>4. command_file[b] \in Command \cup {NoFile} /\ ap_file[b] \in BOOLEAN
  BY <1>3, TypeParts DEF FilesTyped
<1>5. CASE e.name = "command" /\ ~e.deleted /\ command_file[b] = NoFile
  <2>1. Ignore
    BY <1>5 DEF handle_event
  <2>2. QED
    BY <1>1, <1>2, <1>5, <2>1, IgnoreWlan
<1>6. CASE e.name = "command" /\ ~e.deleted /\ command_file[b] # NoFile
  <2>1. update_wlan_configuration(b, internet)
    BY <1>6 DEF handle_event
  <2>2. /\ WlanTyped'
        /\ DOMAIN config' = DOMAIN config \cup {b}
        /\ config'[b].command = command_file[b]
        /\ b \in DOMAIN config => config'[b].access_point = config[b].access_point
        /\ b \notin DOMAIN config => config'[b].access_point = ap_file[b]
        /\ \A a \in DOMAIN config \ {b} : config'[a] = config[a]
    BY <1>1, <1>3, <1>4, <1>6, <2>1, UpdateWlan
  <2>3. QED
    BY <1>2, <1>6, <2>2
<1>7. CASE e.name = "command" /\ e.deleted
  <2>1. CASE b \in DOMAIN config
    <3>1. remove_wlan_configuration(b)
      BY <1>7, <2>1 DEF handle_event
    <3>2. /\ WlanTyped'
          /\ DOMAIN config' = DOMAIN config \ {b}
          /\ \A a \in DOMAIN config \ {b} : config'[a] = config[a]
      BY <1>1, <2>1, <3>1, RemoveWlan
    <3>3. QED
      BY <1>2, <1>7, <3>2
  <2>2. CASE b \notin DOMAIN config
    <3>1. Ignore
      BY <1>7, <2>2 DEF handle_event
    <3>2. QED
      BY <1>1, <1>2, <1>7, <2>2, <3>1, IgnoreWlan
  <2>3. QED
    BY <2>1, <2>2
<1>8. CASE e.name = "access_point"
  <2>1. CASE b \in DOMAIN config /\ (e.deleted \/ ap_file[b])
    <3>1. SetAccessPoint(b, ~e.deleted)
      BY <1>8, <2>1 DEF handle_event
    <3>2. PICK wanted \in BOOLEAN : wanted = ~e.deleted
      BY Zenon
    <3>3. /\ WlanTyped'
          /\ DOMAIN config' = DOMAIN config
          /\ config'[b].access_point = wanted
          /\ \A a \in DOMAIN config : config'[a].command = config[a].command
          /\ \A a \in DOMAIN config \ {b} : config'[a] = config[a]
      <4>1. SetAccessPoint(b, wanted)
        BY <3>1, <3>2
      <4>2. QED
        BY <1>1, <2>1, <4>1, SetAccessPointWlan
    <3>4. QED
      BY <1>2, <1>8, <2>1, <3>2, <3>3
  <2>2. CASE ~(b \in DOMAIN config /\ (e.deleted \/ ap_file[b]))
    <3>1. Ignore
      BY <1>8, <2>2 DEF handle_event
    <3>2. QED
      BY <1>1, <1>2, <1>8, <2>2, <3>1, IgnoreWlan
  <2>3. QED
    BY <2>1, <2>2
<1>9. CASE e.name = "interface"
  <2>1. recently_reset' \in BOOLEAN
    BY <1>9, Zenon DEF handle_event
  <2>2. UNCHANGED <<radio, config, wifi_acs>>
    BY <1>9 DEF handle_event
  <2>3. QED
    BY <1>1, <1>2, <1>9, <2>1, <2>2 DEF WlanTyped, Sound
<1>10. QED
  BY <1>3, <1>5, <1>6, <1>7, <1>8, <1>9

\* The steps that leave the configurations alone.
Undisturbed ==
  \/ EventsDone \/ EventsDoneAndUpdate \/ CheckProvisioning \/ Proceed
  \/ NotJoinedWithoutACS \/ (\E n \in Bss : try_bssid(n)) \/ RanOutOfBssids
  \/ FileChange \/ BridgeChange \/ Association \/ ACSAnswers \/ NetworkFails
  \/ UNCHANGED vars

LEMMA UndisturbedWlan ==
  ASSUME TypeOK, Undisturbed
  PROVE  WlanTyped' /\ config' = config
<1>1. WlanTyped
  BY TypeParts
<1>2. CASE CheckProvisioning \/ NotJoinedWithoutACS \/ RanOutOfBssids \/ FileChange
             \/ BridgeChange \/ ACSAnswers \/ NetworkFails \/ UNCHANGED vars
  <2>1. UNCHANGED <<radio, config, wifi_acs, recently_reset>>
    BY <1>2 DEF CheckProvisioning, NotJoinedWithoutACS, RanOutOfBssids, FileChange,
         BridgeChange, ACSAnswers, NetworkFails, vars
  <2>2. QED
    BY <1>1, <2>1, IgnoreWlan DEF Ignore
<1>3. CASE EventsDone \/ EventsDoneAndUpdate \/ Proceed
  <2>1. UNCHANGED <<radio, config, recently_reset>>
    BY <1>3 DEF EventsDone, EventsDoneAndUpdate, Proceed
  <2>2. wifi_acs' \in BOOLEAN
    <3>1. Reachable \in BOOLEAN
      BY Zenon DEF Reachable
    <3>2. CASE Proceed
      BY <3>2, Zenon DEF Proceed
    <3>3. CASE EventsDone \/ EventsDoneAndUpdate
      <4>1. wifi_acs' \in {wifi_acs, FALSE, Reachable}
        BY <3>3 DEF EventsDone, EventsDoneAndUpdate
      <4>2. QED
        BY <1>1, <3>1, <4>1, Zenon DEF WlanTyped
    <3>4. QED
      BY <1>3, <3>2, <3>3
  <2>3. QED
    BY <1>1, <2>1, <2>2 DEF WlanTyped, Sound
<1>4. ASSUME NEW n \in Bss, try_bssid(n)
      PROVE  WlanTyped' /\ config' = config
  <2>1. PICK o \in setclient(radio, n, FALSE) : radio' = o.radio
    BY <1>4 DEF try_bssid
  <2>2. FALSE \in BOOLEAN
    OBVIOUS
  <2>3. Sound(o.radio)
    BY <1>1, <2>2, SetClientSound DEF WlanTyped, Reported
  <2>4. Sound(radio)'
    BY <2>1, <2>3 DEF Sound
  <2>5. wifi_acs' \in BOOLEAN
    BY <1>4, Zenon DEF try_bssid
  <2>6. UNCHANGED <<config, recently_reset>>
    BY <1>4 DEF try_bssid
  <2>7. QED
    BY <1>1, <2>4, <2>5, <2>6 DEF WlanTyped
<1>5. CASE Association
  <2>1. /\ radio' = [radio EXCEPT !.up = ~radio.up] /\ radio.net # NoNet
        /\ UNCHANGED <<config, wifi_acs, recently_reset>>
    BY <1>5 DEF Association
  <2>2. PICK u \in BOOLEAN : u = ~radio.up
    BY Zenon
  <2>3. radio' = [radio EXCEPT !.up = u]
    BY <2>1, <2>2
  <2>4. Sound(radio)'
    BY <1>1, <2>1, <2>3 DEF WlanTyped, Sound, Radio
  <2>5. QED
    BY <1>1, <2>1, <2>4 DEF WlanTyped
<1>6. QED
  BY <1>2, <1>3, <1>4, <1>5 DEF Undisturbed

\* conman starts without configurations.
LEMMA RestartWlan ==
  ASSUME TypeOK, Restart
  PROVE  WlanTyped' /\ DOMAIN config' = {}
<1>1. WlanTyped /\ radio' = radio
  BY TypeParts DEF Restart
<1>2. DOMAIN config' = {}
  BY DEF Restart
<1>3. wifi_acs' \in BOOLEAN /\ recently_reset' \in BOOLEAN
  BY Zenon DEF Restart
<1>4. QED
  BY <1>1, <1>2, <1>3 DEF WlanTyped, Sound

-----------------------------------------------------------------------------
(* Types *)

\* The steps of conman on its own, but for its start and its events.
LEMMA StepCases ==
  ASSUME [Next]_vars
  PROVE  \/ \E b \in Band : LoadConfig(b)
         \/ StopUnwanted \/ handle_event \/ UpdateBand \/ JoinBand
         \/ NotJoinedWithACS \/ Sleep \/ Undisturbed \/ Restart
BY DEF Next, Step, Undisturbed

\* Every step keeps the types of the configurations and the radio.
LEMMA WlanStep == TypeOK /\ [Next]_vars => WlanTyped'
<1> SUFFICES ASSUME TypeOK, [Next]_vars PROVE WlanTyped'
  OBVIOUS
<1>1. CASE \E b \in Band : LoadConfig(b)
  BY <1>1, LoadConfigWlan
<1>2. CASE StopUnwanted \/ Undisturbed \/ Restart
  BY <1>2, StopUnwantedWlan, UndisturbedWlan, RestartWlan
<1>3. CASE handle_event
  BY <1>3, HandleEventWlan
<1>4. CASE UpdateBand \/ JoinBand
  BY <1>4, UpdateBandWlan, JoinBandWlan
<1>5. CASE NotJoinedWithACS \/ Sleep
  BY <1>5, WaitsWlan
<1>6. QED
  BY <1>1, <1>2, <1>3, <1>4, <1>5, StepCases

\* Every step keeps the types of the files and the events.
LEMMA FilesStep == TypeOK /\ [Next]_vars => FilesTyped'
<1> SUFFICES ASSUME TypeOK, [Next]_vars PROVE FilesTyped'
  OBVIOUS
<1>1. FilesTyped
  BY TypeParts
<1>2. CASE UNCHANGED <<files, events>>
  BY <1>1, <1>2 DEF files, FilesTyped
<1>3. CASE handle_event
  <2>1. events # <<>> /\ events' = Tail(events) /\ UNCHANGED files
    BY <1>3 DEF handle_event
  <2>2. Tail(events) \in Seq(Inotify) /\ Len(Tail(events)) = Len(events) - 1
    BY <1>1, <2>1 DEF FilesTyped
  <2>3. Len(events) \in Nat
    BY <1>1 DEF FilesTyped
  <2>4. QED
    BY <1>1, <2>1, <2>2, <2>3, ConmanAssumption DEF FilesTyped, files
<1>4. CASE FileChange
  <2>1. PICK b \in Band :
          \/ \E c \in Command :
               /\ command_file' = [command_file EXCEPT ![b] = c]
               /\ events' = Append(events, Event("command", b, FALSE))
               /\ UNCHANGED ap_file
          \/ /\ command_file' = [command_file EXCEPT ![b] = NoFile]
             /\ events' = Append(events, Event("command", b, TRUE))
             /\ UNCHANGED ap_file
          \/ /\ ap_file' = [ap_file EXCEPT ![b] = ~ap_file[b]]
             /\ events' = Append(events, Event("access_point", b, ap_file[b]))
             /\ UNCHANGED command_file
          \/ /\ events' = Append(events, Event("interface", b, FALSE))
             /\ UNCHANGED files
    BY <1>4 DEF FileChange
  <2>2. command_file' \in [Band -> Command \cup {NoFile}]
    BY <1>1, <2>1 DEF FilesTyped, files
  <2>3. ap_file' \in [Band -> BOOLEAN]
    <3>1. (~ap_file[b]) \in BOOLEAN
      BY Zenon
    <3>2. QED
      BY <1>1, <2>1, <3>1 DEF FilesTyped, files
  <2>4. \E e \in Inotify : events' = Append(events, e)
    <3>1. /\ Event("command", b, FALSE) \in Inotify
          /\ Event("command", b, TRUE) \in Inotify
          /\ Event("interface", b, FALSE) \in Inotify
      BY DEF Event, Inotify
    <3>2. Event("access_point", b, ap_file[b]) \in Inotify
      BY <1>1 DEF Event, Inotify, FilesTyped
    <3>3. QED
      BY <2>1, <3>1, <3>2
  <2>5. Len(events) < MaxEvents
    BY <1>4 DEF FileChange
  <2>6. events' \in Seq(Inotify) /\ Len(events') <= MaxEvents
    <3>1. PICK e \in Inotify : events' = Append(events, e)
      BY <2>4
    <3>2. events' \in Seq(Inotify) /\ Len(events') = Len(events) + 1 /\ Len(events) \in Nat
      BY <1>1, <3>1 DEF FilesTyped
    <3>3. QED
      BY <2>5, <3>2, ConmanAssumption
  <2>7. QED
    BY <2>2, <2>3, <2>6 DEF FilesTyped
<1>5. CASE Restart
  BY <1>1, <1>5, ConmanAssumption DEF Restart, FilesTyped, files
<1>6. QED
  BY <1>2, <1>3, <1>4, <1>5 DEF Next, Step, LoadConfig, StopUnwanted, EventsDone,
       EventsDoneAndUpdate, CheckProvisioning, UpdateBand, Proceed, JoinBand,
       NotJoinedWithACS, NotJoinedWithoutACS, try_bssid, RanOutOfBssids, Sleep,
       BridgeChange, Association, ACSAnswers, NetworkFails, vars

\* Every step keeps the types of what conman knows of networks.
LEMMA ProvisioningStep == TypeOK /\ [Next]_vars => ProvisioningTyped'
<1> SUFFICES ASSUME TypeOK, [Next]_vars PROVE ProvisioningTyped'
  OBVIOUS
<1>1. ProvisioningTyped
  BY TypeParts
<1>2. CASE UNCHANGED <<world, provisioning>>
  BY <1>1, <1>2 DEF world, provisioning, ProvisioningTyped
<1>3. CASE CheckProvisioning
  <2>1. ratchet' \in {"idle", "pending", "done", "failed"}
    BY <1>1, <1>3 DEF CheckProvisioning, CheckedRatchet, ProvisioningTyped
  <2>2. last_successful' \in {last_successful, NoBss}
    BY <1>3 DEF CheckProvisioning
  <2>3. UNCHANGED <<world, seen, patience, reached, last_attempted>>
    BY <1>3 DEF CheckProvisioning
  <2>4. QED
    BY <1>1, <2>1, <2>2, <2>3 DEF ProvisioningTyped, world
<1>4. CASE EventsDoneAndUpdate
  <2>1. last_successful' \in {last_successful, NoBss}
    BY <1>4 DEF EventsDoneAndUpdate
  <2>2. UNCHANGED <<world, seen, ratchet, patience, reached, last_attempted>>
    BY <1>4 DEF EventsDoneAndUpdate
  <2>3. QED
    BY <1>1, <2>1, <2>2 DEF ProvisioningTyped, world
<1>5. CASE Proceed
  <2>1. seen' = seen \/ seen' \subseteq Bss
    BY <1>5 DEF Proceed
  <2>2. UNCHANGED <<world, ratchet, patience, reached, last_attempted, last_successful>>
    BY <1>5 DEF Proceed
  <2>3. QED
    BY <1>1, <2>1, <2>2 DEF ProvisioningTyped, world
<1>6. CASE NotJoinedWithACS
  <2>1. last_successful' \in {last_successful, NoBss, last_attempted}
    BY <1>6 DEF NotJoinedWithACS
  <2>2. UNCHANGED <<world, seen, ratchet, patience, reached, last_attempted>>
    BY <1>6 DEF NotJoinedWithACS
  <2>3. QED
    BY <1>1, <2>1, <2>2 DEF ProvisioningTyped, world
<1>7. ASSUME NEW n \in Bss, try_bssid(n)
      PROVE  ProvisioningTyped'
  <2>1. /\ ratchet' = "pending" /\ patience' = Patience /\ last_attempted' = n
        /\ last_successful' \in {last_successful, NoBss}
        /\ UNCHANGED <<world, seen>>
    BY <1>7 DEF try_bssid
  <2>2. reached' \in BOOLEAN
    BY <1>7, Zenon DEF try_bssid
  <2>3. QED
    BY <1>1, <2>1, <2>2, ConmanAssumption DEF ProvisioningTyped, world
<1>8. CASE Sleep
  <2>1. /\ patience' = IF patience > 0 THEN patience - 1 ELSE 0
        /\ UNCHANGED <<world, seen, ratchet, reached, last_attempted, last_successful>>
    BY <1>8 DEF Sleep
  <2>2. patience' \in 0..Patience
    BY <1>1, <2>1, ConmanAssumption DEF ProvisioningTyped
  <2>3. QED
    BY <1>1, <2>1, <2>2 DEF ProvisioningTyped, world
<1>9. CASE BridgeChange
  <2>1. internet' \in BOOLEAN
    BY <1>1, <1>9, Zenon DEF BridgeChange, ProvisioningTyped
  <2>2. bridge_acs' \in BOOLEAN
    BY <1>1, <1>9, Zenon DEF BridgeChange, ProvisioningTyped
  <2>3. UNCHANGED <<works, faulty, provisioning>>
    BY <1>9 DEF BridgeChange
  <2>4. QED
    BY <1>1, <2>1, <2>2, <2>3 DEF ProvisioningTyped, provisioning
<1>10. CASE ACSAnswers
  <2>1. reached' \in BOOLEAN
    BY <1>10, Zenon DEF ACSAnswers
  <2>2. UNCHANGED <<world, seen, ratchet, patience, last_attempted, last_successful>>
    BY <1>10 DEF ACSAnswers
  <2>3. QED
    BY <1>1, <2>1, <2>2 DEF ProvisioningTyped, world
<1>11. CASE NetworkFails
  <2>1. works' \subseteq works
    BY <1>11 DEF NetworkFails
  <2>2. UNCHANGED <<internet, bridge_acs, faulty, provisioning>>
    BY <1>11 DEF NetworkFails
  <2>3. QED
    BY <1>1, <2>1, <2>2 DEF ProvisioningTyped, provisioning
<1>12. CASE Restart
  <2>1. reached' \in BOOLEAN
    BY <1>12, Zenon DEF Restart
  <2>2. /\ seen' = {} /\ ratchet' = "idle" /\ patience' = 0
        /\ last_attempted' = NoBss /\ last_successful' = NoBss
        /\ UNCHANGED <<internet, bridge_acs, works>>
    BY <1>12 DEF Restart
  <2>3. faulty' \in BOOLEAN
    BY <1>12, ConmanAssumption DEF Restart
  <2>4. QED
    BY <1>1, <2>1, <2>2, <2>3, ConmanAssumption DEF ProvisioningTyped
<1>13. QED
  BY <1>2, <1>3, <1>4, <1>5, <1>6, <1>7, <1>8, <1>9, <1>10, <1>11, <1>12
     DEF Next, Step, LoadConfig, StopUnwanted, handle_event, EventsDone, UpdateBand,
       JoinBand, NotJoinedWithoutACS, RanOutOfBssids, FileChange, Association, vars

\* Every step keeps the types of the program counter and the turn.
LEMMA TurnStep == TypeOK /\ [Next]_vars => TurnTyped'
<1> SUFFICES ASSUME TypeOK, [Next]_vars PROVE TurnTyped'
  OBVIOUS
<1>1. TurnTyped
  BY TypeParts
<1>2. CASE UNCHANGED <<pc, turn>>
  BY <1>1, <1>2 DEF turn, TurnTyped
<1>3. CASE UNCHANGED turn /\ pc' \in {"events", "sleep", "next"}
  BY <1>1, <1>3 DEF turn, TurnTyped
<1>4. CASE EventsDone \/ EventsDoneAndUpdate
  <2>1. /\ update_counter' \in {0, update_counter + 1} /\ update_counter' # UpdatePeriod
        /\ pc' = "provisioning" /\ UNCHANGED <<band, failed, running>>
    BY <1>4, ConmanAssumption DEF EventsDone, EventsDoneAndUpdate
  <2>2. update_counter' \in 0..(UpdatePeriod - 1)
    BY <1>1, <2>1, ConmanAssumption DEF TurnTyped
  <2>3. QED
    BY <1>1, <2>1, <2>2 DEF TurnTyped
<1>5. CASE CheckProvisioning
  <2>1. failed' \in BOOLEAN /\ running' \in BOOLEAN
    BY <1>5, Zenon DEF CheckProvisioning
  <2>2. pc' \in {"sleep", "bands"} /\ band' = 1 /\ UNCHANGED update_counter
    BY <1>5 DEF CheckProvisioning
  <2>3. QED
    BY <1>1, <2>1, <2>2, BandsTyped DEF TurnTyped
<1>6. CASE UpdateBand
  <2>1. running' \in BOOLEAN
    BY <1>6, UpdateBandWlan
  <2>2. band' = band + 1 /\ band <= Len(Bands) /\ UNCHANGED <<pc, update_counter, failed>>
    BY <1>6 DEF UpdateBand
  <2>3. QED
    BY <1>1, <2>1, <2>2, BandsTyped DEF TurnTyped
<1>7. CASE Proceed
  <2>1. pc' \in {"sleep", "join"} /\ band' = 1 /\ UNCHANGED <<update_counter, failed, running>>
    BY <1>7 DEF Proceed
  <2>2. QED
    BY <1>1, <2>1, BandsTyped DEF TurnTyped
<1>8. CASE JoinBand
  <2>1. /\ band' = band + 1 /\ band <= Len(Bands) /\ pc' \in {"sleep", "join"}
        /\ UNCHANGED <<update_counter, failed, running>>
    BY <1>8 DEF JoinBand
  <2>2. QED
    BY <1>1, <2>1, BandsTyped DEF TurnTyped
<1>9. CASE Restart
  <2>1. failed' \in BOOLEAN /\ running' \in BOOLEAN
    BY <1>9, Zenon DEF Restart
  <2>2. pc' = "load" /\ band' = 1 /\ update_counter' = 0
    BY <1>9 DEF Restart
  <2>3. QED
    BY <1>1, <2>1, <2>2, BandsTyped, ConmanAssumption DEF TurnTyped
<1>10. QED
  <2>1. CASE \E b \in Band : LoadConfig(b)
    BY <1>2, <2>1 DEF LoadConfig
  <2>2. CASE StopUnwanted \/ NotJoinedWithACS \/ NotJoinedWithoutACS
              \/ (\E n \in Bss : try_bssid(n)) \/ RanOutOfBssids \/ Sleep
    BY <1>3, <2>2 DEF StopUnwanted, NotJoinedWithACS, NotJoinedWithoutACS, try_bssid,
         RanOutOfBssids, Sleep
  <2>3. CASE handle_event \/ FileChange \/ BridgeChange \/ Association \/ ACSAnswers
              \/ NetworkFails \/ UNCHANGED vars
    BY <1>2, <2>3 DEF handle_event, FileChange, BridgeChange, Association, ACSAnswers,
         NetworkFails, vars
  <2>4. QED
    BY <1>4, <1>5, <1>6, <1>7, <1>8, <1>9, <2>1, <2>2, <2>3 DEF Next, Step

\* Every step keeps the types.
LEMMA TypeStep == TypeOK /\ [Next]_vars => TypeOK'
BY WlanStep, FilesStep, ProvisioningStep, TurnStep, TypePartsNext

-----------------------------------------------------------------------------
(* Events and files *)

\* The sequence rest is es without its first event e.
Remaining(rest, es, e) ==
  /\ es # <<>> /\ es[1] = e
  /\ DOMAIN rest = 1..(Len(es) - 1)
  /\ \A i \in 1..(Len(es) - 1) : rest[i] = es[i + 1]

\* An event that is read leaves the later ones; the last of a kind is the last
\* still, unless it is the one that is read.
LEMMA EventRead ==
  ASSUME NEW es \in Seq(Inotify), NEW e, NEW rest, Remaining(rest, es, e), NEW n, NEW b
  PROVE  /\ \A i \in LastWaiting(rest, n, b) :
              i + 1 \in LastWaiting(es, n, b) /\ rest[i] = es[i + 1]
         /\ Waiting(rest, n, b) = {} /\ Waiting(es, n, b) # {} =>
              1 \in LastWaiting(es, n, b) /\ e.name = n /\ e.band = b
         /\ Waiting(es, n, b) = {} => ~(e.name = n /\ e.band = b)
<1>1. Len(es) \in Nat \ {0} /\ DOMAIN es = 1..Len(es)
  BY DEF Remaining
<1>2. \A i \in Waiting(rest, n, b) :
        i \in Nat /\ i + 1 \in Waiting(es, n, b) /\ rest[i] = es[i + 1]
  BY <1>1 DEF Waiting, Remaining
<1>3. \A k \in Waiting(es, n, b) : k \in Nat /\ (k = 1 \/ k - 1 \in Waiting(rest, n, b))
  BY <1>1 DEF Waiting, Remaining
<1>4. ASSUME NEW i \in LastWaiting(rest, n, b)
      PROVE  i + 1 \in LastWaiting(es, n, b) /\ rest[i] = es[i + 1]
  <2>1. i \in Waiting(rest, n, b) /\ \A j \in Waiting(rest, n, b) : j <= i
    BY <1>4 DEF LastWaiting
  <2>2. i \in Nat /\ i + 1 \in Waiting(es, n, b) /\ rest[i] = es[i + 1]
    BY <1>2, <2>1
  <2>3. \A k \in Waiting(es, n, b) : k <= i + 1
    BY <1>3, <2>1, <2>2
  <2>4. QED
    BY <2>2, <2>3 DEF LastWaiting
<1>5. ASSUME Waiting(rest, n, b) = {}, Waiting(es, n, b) # {}
      PROVE  1 \in LastWaiting(es, n, b) /\ e.name = n /\ e.band = b
  <2>1. 1 \in Waiting(es, n, b) /\ \A k \in Waiting(es, n, b) : k = 1
    BY <1>3, <1>5
  <2>2. QED
    BY <2>1 DEF LastWaiting, Waiting, Remaining
<1>6. Waiting(es, n, b) = {} => ~(e.name = n /\ e.band = b)
  BY <1>1 DEF Waiting, Remaining
<1>7. QED
  BY <1>4, <1>5, <1>6

\* The sequence more is es with the event e at its end.
Extended(more, es, e) ==
  /\ DOMAIN more = 1..(Len(es) + 1)
  /\ \A i \in 1..Len(es) : more[i] = es[i]
  /\ more[Len(es) + 1] = e

\* A new event is the last of its kind.
LEMMA EventAdded ==
  ASSUME NEW es \in Seq(Inotify), NEW e \in Inotify, NEW more, Extended(more, es, e)
  PROVE  /\ Waiting(more, e.name, e.band) # {}
         /\ \A i \in LastWaiting(more, e.name, e.band) : more[i] = e
<1> DEFINE m == Len(es) + 1
<1>1. m \in Waiting(more, e.name, e.band) /\ Len(es) \in Nat
  BY DEF Waiting, Extended
<1>2. \A i \in Waiting(more, e.name, e.band) : i \in 1..m
  BY DEF Waiting, Extended
<1>3. \A i \in LastWaiting(more, e.name, e.band) : i = m
  BY <1>1, <1>2 DEF LastWaiting
<1>4. QED
  BY <1>1, <1>3 DEF Extended

\* A new event does not matter to those of another kind or band.
LEMMA OtherEventAdded ==
  ASSUME NEW es \in Seq(Inotify), NEW e \in Inotify, NEW more, Extended(more, es, e),
         NEW n, NEW b, ~(e.name = n /\ e.band = b)
  PROVE  /\ Waiting(more, n, b) = Waiting(es, n, b)
         /\ LastWaiting(more, n, b) = LastWaiting(es, n, b)
         /\ \A i \in LastWaiting(es, n, b) : more[i] = es[i]
<1>1. Len(es) \in Nat /\ DOMAIN es = 1..Len(es)
  OBVIOUS
<1>2. Waiting(more, n, b) = Waiting(es, n, b)
  BY <1>1 DEF Waiting, Extended
<1>3. LastWaiting(more, n, b) = LastWaiting(es, n, b)
  BY <1>2 DEF LastWaiting
<1>4. \A i \in LastWaiting(es, n, b) : more[i] = es[i]
  BY <1>1 DEF Waiting, LastWaiting, Extended
<1>5. QED
  BY <1>2, <1>3, <1>4

\* The configurations stay, the files and events too.
LEMMA FollowedSame ==
  ASSUME FilesFollowed, UNCHANGED <<files, events>>, SameWishes,
         pc = "load" => pc' = "load"
  PROVE  FilesFollowed'
<1>1. UNCHANGED <<command_file, ap_file, events>>
  BY DEF files
<1>2. ASSUME NEW b \in Band, NEW n
      PROVE  Waiting(events', n, b) = Waiting(events, n, b) /\ LastWaiting(events', n, b) = LastWaiting(events, n, b)
  BY <1>1 DEF Waiting, LastWaiting
<1>3. ASSUME NEW b \in Band PROVE CommandFollowed(b)'
  <2>1. CommandFollowed(b)
    BY DEF FilesFollowed
  <2>2. QED
    BY <1>1, <1>2, <2>1 DEF CommandFollowed, SameWishes
<1>4. ASSUME NEW b \in Band PROVE AccessPointFollowed(b)'
  <2>1. AccessPointFollowed(b)
    BY DEF FilesFollowed
  <2>2. QED
    BY <1>1, <1>2, <2>1 DEF AccessPointFollowed, SameWishes
<1>5. QED
  BY <1>3, <1>4 DEF FilesFollowed

\* At startup a configuration is that of its files as they are read.
LEMMA FollowedLoad ==
  ASSUME TypeOK, FilesFollowed, NEW b \in Band, LoadConfig(b)
  PROVE  FilesFollowed'
<1>1. UNCHANGED <<command_file, ap_file, events, pc>> /\ pc = "load"
  BY DEF LoadConfig, files
<1>2. /\ DOMAIN config' = DOMAIN config \cup {b} /\ b \notin DOMAIN config
      /\ config'[b].command = command_file[b]
      /\ config'[b].access_point = ap_file[b]
      /\ \A a \in DOMAIN config : config'[a] = config[a]
  BY LoadConfigWlan
<1>3. ASSUME NEW a \in Band, NEW n
      PROVE  Waiting(events', n, a) = Waiting(events, n, a) /\ LastWaiting(events', n, a) = LastWaiting(events, n, a)
  BY <1>1 DEF Waiting, LastWaiting
<1>4. ASSUME NEW a \in Band PROVE CommandFollowed(a)'
  <2>1. CommandFollowed(a)
    BY DEF FilesFollowed
  <2>2. QED
    BY <1>1, <1>2, <1>3, <2>1 DEF CommandFollowed
<1>5. ASSUME NEW a \in Band PROVE AccessPointFollowed(a)'
  <2>1. AccessPointFollowed(a)
    BY DEF FilesFollowed
  <2>2. QED
    BY <1>1, <1>2, <1>3, <2>1 DEF AccessPointFollowed
<1>6. QED
  BY <1>4, <1>5 DEF FilesFollowed

\* The start ends when every command file is read.
LEMMA FollowedStart ==
  ASSUME TypeOK, FilesFollowed, StopUnwanted
  PROVE  FilesFollowed'
<1>1. UNCHANGED <<command_file, ap_file, events, config>> /\ Unloaded = {}
  BY DEF StopUnwanted, files
<1>2. ASSUME NEW a \in Band, NEW n
      PROVE  Waiting(events', n, a) = Waiting(events, n, a) /\ LastWaiting(events', n, a) = LastWaiting(events, n, a)
  BY <1>1 DEF Waiting, LastWaiting
<1>3. ASSUME NEW a \in Band PROVE CommandFollowed(a)'
  <2>1. CommandFollowed(a)
    BY DEF FilesFollowed
  <2>2. command_file[a] # NoFile => a \in DOMAIN config
    BY <1>1 DEF Unloaded
  <2>3. QED
    BY <1>1, <1>2, <2>1, <2>2 DEF CommandFollowed
<1>4. ASSUME NEW a \in Band PROVE AccessPointFollowed(a)'
  <2>1. AccessPointFollowed(a)
    BY DEF FilesFollowed
  <2>2. QED
    BY <1>1, <1>2, <2>1 DEF AccessPointFollowed
<1>5. QED
  BY <1>3, <1>4 DEF FilesFollowed

\* The event e announces what has become of a file of the band b.
Announced(b, e) ==
  /\ e \in Inotify /\ e.band = b /\ events' = Append(events, e)
  /\ \A a \in Band : a # b \/ e.name # "command" => command_file'[a] = command_file[a]
  /\ \A a \in Band : a # b \/ e.name # "access_point" => ap_file'[a] = ap_file[a]
  /\ e.name = "command" => (e.deleted <=> command_file'[b] = NoFile)
  /\ e.name = "access_point" => (e.deleted <=> ~ap_file'[b])

\* Every change of a file is announced by an event.
LEMMA ChangeAnnounced ==
  ASSUME FilesTyped, FileChange
  PROVE  \E b \in Band : \E e \in Inotify : Announced(b, e)
<1>1. PICK b \in Band :
        \/ \E c \in Command :
             /\ command_file' = [command_file EXCEPT ![b] = c]
             /\ events' = Append(events, Event("command", b, FALSE))
             /\ UNCHANGED ap_file
        \/ /\ command_file' = [command_file EXCEPT ![b] = NoFile]
           /\ events' = Append(events, Event("command", b, TRUE))
           /\ UNCHANGED ap_file
        \/ /\ ap_file' = [ap_file EXCEPT ![b] = ~ap_file[b]]
           /\ events' = Append(events, Event("access_point", b, ap_file[b]))
           /\ UNCHANGED command_file
        \/ /\ events' = Append(events, Event("interface", b, FALSE))
           /\ UNCHANGED files
  BY DEF FileChange
<1>2. ASSUME NEW c \in Command, command_file' = [command_file EXCEPT ![b] = c],
             events' = Append(events, Event("command", b, FALSE)), UNCHANGED ap_file
      PROVE  Announced(b, Event("command", b, FALSE))
  <2>1. PICK e : e = Event("command", b, FALSE)
    OBVIOUS
  <2>2. e \in Inotify /\ e.band = b /\ e.name = "command" /\ ~e.deleted
    BY <2>1 DEF Event, Inotify
  <2>3. /\ command_file'[b] # NoFile
        /\ \A a \in Band : a # b => command_file'[a] = command_file[a]
    BY <1>2, ConmanAssumption DEF FilesTyped
  <2>4. QED
    BY <1>2, <2>1, <2>2, <2>3 DEF Announced
<1>3. ASSUME command_file' = [command_file EXCEPT ![b] = NoFile],
             events' = Append(events, Event("command", b, TRUE)), UNCHANGED ap_file
      PROVE  Announced(b, Event("command", b, TRUE))
  <2>1. PICK e : e = Event("command", b, TRUE)
    OBVIOUS
  <2>2. e \in Inotify /\ e.band = b /\ e.name = "command" /\ e.deleted
    BY <2>1 DEF Event, Inotify
  <2>3. /\ command_file'[b] = NoFile
        /\ \A a \in Band : a # b => command_file'[a] = command_file[a]
    BY <1>3 DEF FilesTyped
  <2>4. QED
    BY <1>3, <2>1, <2>2, <2>3 DEF Announced
<1>4. ASSUME ap_file' = [ap_file EXCEPT ![b] = ~ap_file[b]],
             events' = Append(events, Event("access_point", b, ap_file[b])),
             UNCHANGED command_file
      PROVE  Announced(b, Event("access_point", b, ap_file[b]))
  <2>1. PICK e : e = Event("access_point", b, ap_file[b])
    OBVIOUS
  <2>2. e \in Inotify /\ e.band = b /\ e.name = "access_point" /\ e.deleted = ap_file[b]
    BY <2>1 DEF Event, Inotify, FilesTyped
  <2>3. /\ ap_file'[b] = ~ap_file[b]
        /\ \A a \in Band : a # b => ap_file'[a] = ap_file[a]
    BY <1>4 DEF FilesTyped
  <2>4. e.deleted <=> ~ap_file'[b]
    BY <2>2, <2>3, Zenon
  <2>5. QED
    BY <1>4, <2>1, <2>2, <2>3, <2>4 DEF Announced
<1>5. ASSUME events' = Append(events, Event("interface", b, FALSE)), UNCHANGED files
      PROVE  Announced(b, Event("interface", b, FALSE))
  <2>1. PICK e : e = Event("interface", b, FALSE)
    OBVIOUS
  <2>2. e \in Inotify /\ e.band = b /\ e.name = "interface"
    BY <2>1 DEF Event, Inotify
  <2>3. QED
    BY <1>5, <2>1, <2>2 DEF Announced, files
<1>6. QED
  BY <1>1, <1>2, <1>3, <1>4, <1>5 DEF Announced

\* The event of a file that changes is the last of its kind.
LEMMA FollowedChange ==
  ASSUME TypeOK, FilesFollowed, FileChange
  PROVE  FilesFollowed'
<1>1. FilesTyped /\ UNCHANGED <<config, pc>>
  BY TypeParts DEF FileChange
<1>2. PICK b \in Band, e \in Inotify : Announced(b, e)
  BY <1>1, ChangeAnnounced
<1>3. /\ events \in Seq(Inotify) /\ e.band = b
      /\ Extended(events', events, e)
  BY <1>1, <1>2 DEF Announced, FilesTyped, Extended
<1>4. ASSUME NEW a \in Band PROVE CommandFollowed(a)'
  <2>1. CommandFollowed(a)
    BY DEF FilesFollowed
  <2>2. CASE e.name = "command" /\ a = b
    <3>1. /\ Waiting(events', "command", a) # {}
          /\ \A i \in LastWaiting(events', "command", a) : events'[i] = e
      BY <1>3, <2>2, EventAdded
    <3>2. e.deleted <=> command_file'[a] = NoFile
      BY <1>2, <2>2 DEF Announced
    <3>3. QED
      BY <3>1, <3>2 DEF CommandFollowed
  <2>3. CASE ~(e.name = "command" /\ a = b)
    <3>1. /\ Waiting(events', "command", a) = Waiting(events, "command", a)
          /\ LastWaiting(events', "command", a) = LastWaiting(events, "command", a)
          /\ \A i \in LastWaiting(events, "command", a) : events'[i] = events[i]
      BY <1>3, <2>3, OtherEventAdded
    <3>2. command_file'[a] = command_file[a]
      BY <1>2, <2>3 DEF Announced
    <3>3. QED
      BY <1>1, <2>1, <3>1, <3>2 DEF CommandFollowed
  <2>4. QED
    BY <2>2, <2>3
<1>5. ASSUME NEW a \in Band PROVE AccessPointFollowed(a)'
  <2>1. AccessPointFollowed(a)
    BY DEF FilesFollowed
  <2>2. CASE e.name = "access_point" /\ a = b
    <3>1. /\ Waiting(events', "access_point", a) # {}
          /\ \A i \in LastWaiting(events', "access_point", a) : events'[i] = e
      BY <1>3, <2>2, EventAdded
    <3>2. e.deleted <=> ~ap_file'[a]
      BY <1>2, <2>2 DEF Announced
    <3>3. QED
      BY <3>1, <3>2 DEF AccessPointFollowed
  <2>3. CASE ~(e.name = "access_point" /\ a = b)
    <3>1. /\ Waiting(events', "access_point", a) = Waiting(events, "access_point", a)
          /\ LastWaiting(events', "access_point", a) = LastWaiting(events, "access_point", a)
          /\ \A i \in LastWaiting(events, "access_point", a) : events'[i] = events[i]
      BY <1>3, <2>3, OtherEventAdded
    <3>2. ap_file'[a] = ap_file[a]
      BY <1>2, <2>3 DEF Announced
    <3>3. QED
      BY <1>1, <2>1, <3>1, <3>2 DEF AccessPointFollowed
  <2>4. QED
    BY <2>2, <2>3
<1>6. QED
  BY <1>4, <1>5 DEF FilesFollowed

\* An event is processed: if it is the last of its kind the file, read now, and
\* the event agree.
LEMMA FollowedEvent ==
  ASSUME TypeOK, FilesFollowed, handle_event
  PROVE  FilesFollowed'
<1>1. PICK e, b : e = Head(events) /\ b = e.band
  OBVIOUS
<1>2. FilesTyped /\ UNCHANGED <<command_file, ap_file, pc>>
  BY TypeParts DEF handle_event, files
<1>3. events \in Seq(Inotify) /\ Remaining(events', events, e)
  BY <1>1, <1>2 DEF FilesTyped, Remaining, handle_event
<1>4. /\ e \in Inotify
      /\ e.name = "command" /\ ~e.deleted /\ command_file[b] # NoFile =>
           /\ b \in DOMAIN config' /\ config'[b].command = command_file[b]
           /\ b \in DOMAIN config => config'[b].access_point = config[b].access_point
           /\ b \notin DOMAIN config => config'[b].access_point = ap_file[b]
      /\ e.name = "command" /\ ~e.deleted /\ command_file[b] = NoFile =>
           config' = config
      /\ e.name = "command" /\ e.deleted => b \notin DOMAIN config'
      /\ e.name = "access_point" =>
           /\ DOMAIN config' = DOMAIN config
           /\ b \in DOMAIN config => config'[b].command = config[b].command
           /\ b \in DOMAIN config /\ (e.deleted \/ ap_file[b]) =>
                config'[b].access_point = ~e.deleted
      /\ e.name = "interface" => config' = config
  BY <1>1, HandleEventWlan
<1>5. e.name \in {"command", "access_point", "interface"} /\ b \in Band /\ events[1] = e
  BY <1>1, <1>3, <1>4 DEF Inotify, Remaining
<1>6. \A a \in Band \ {b} :
        /\ a \in DOMAIN config' <=> a \in DOMAIN config
        /\ a \in DOMAIN config => config'[a] = config[a]
  BY <1>1, HandleEventWlan
<1>7. ASSUME NEW a \in Band PROVE CommandFollowed(a)'
  <2>1. CommandFollowed(a)
    BY DEF FilesFollowed
  <2>2. \A i \in LastWaiting(events', "command", a) :
          events'[i].deleted <=> command_file'[a] = NoFile
    BY <1>2, <1>3, <2>1, EventRead DEF CommandFollowed
  <2>3. ASSUME Waiting(events', "command", a) = {}, Waiting(events, "command", a) # {}
        PROVE  /\ a \in DOMAIN config' => config'[a].command = command_file[a]
               /\ command_file[a] # NoFile => a \in DOMAIN config'
    <3>1. 1 \in LastWaiting(events, "command", a) /\ e.name = "command" /\ e.band = a
      BY <1>3, <2>3, EventRead
    <3>2. e.deleted <=> command_file[a] = NoFile
      BY <1>5, <2>1, <3>1 DEF CommandFollowed
    <3>3. QED
      BY <1>1, <1>4, <3>1, <3>2
  <2>4. ASSUME Waiting(events, "command", a) = {}
        PROVE  /\ a \in DOMAIN config' => config'[a].command = command_file[a]
               /\ pc # "load" /\ command_file[a] # NoFile => a \in DOMAIN config'
    <3>1. ~(e.name = "command" /\ e.band = a)
      BY <1>3, <2>4, EventRead
    <3>2. /\ a \in DOMAIN config' <=> a \in DOMAIN config
          /\ a \in DOMAIN config => config'[a].command = config[a].command
      <4>1. CASE a # b
        BY <1>6, <4>1
      <4>2. CASE a = b /\ e.name = "access_point"
        BY <1>4, <4>2
      <4>3. CASE a = b /\ e.name = "interface"
        BY <1>4, <4>3
      <4>4. QED
        BY <1>1, <1>5, <3>1, <4>1, <4>2, <4>3
    <3>3. QED
      BY <2>1, <2>4, <3>2 DEF CommandFollowed
  <2>5. QED
    BY <1>2, <2>2, <2>3, <2>4 DEF CommandFollowed
<1>8. ASSUME NEW a \in Band PROVE AccessPointFollowed(a)'
  <2>1. AccessPointFollowed(a)
    BY DEF FilesFollowed
  <2>2. \A i \in LastWaiting(events', "access_point", a) :
          events'[i].deleted <=> ~ap_file'[a]
    BY <1>2, <1>3, <2>1, EventRead DEF AccessPointFollowed
  <2>3. ASSUME Waiting(events', "access_point", a) = {},
               Waiting(events, "access_point", a) # {}, a \in DOMAIN config'
        PROVE  config'[a].access_point = ap_file[a]
    <3>1. 1 \in LastWaiting(events, "access_point", a) /\ e.name = "access_point" /\ e.band = a
      BY <1>3, <2>3, EventRead
    <3>2. e.deleted <=> ~ap_file[a]
      BY <1>5, <2>1, <3>1 DEF AccessPointFollowed
    <3>3. config'[a].access_point = ~e.deleted
      BY <1>1, <1>4, <2>3, <3>1, <3>2
    <3>4. ap_file[a] \in BOOLEAN
      BY <1>2 DEF FilesTyped
    <3>5. QED
      BY <3>2, <3>3, <3>4, Zenon
  <2>4. ASSUME Waiting(events, "access_point", a) = {}, a \in DOMAIN config'
        PROVE  config'[a].access_point = ap_file[a]
    <3>1. ~(e.name = "access_point" /\ e.band = a)
      BY <1>3, <2>4, EventRead
    <3>2. CASE a = b /\ e.name = "command" /\ a \notin DOMAIN config
      BY <1>4, <2>4, <3>2
    <3>3. CASE ~(a = b /\ e.name = "command" /\ a \notin DOMAIN config)
      <4>1. a \in DOMAIN config /\ config'[a].access_point = config[a].access_point
        <5>1. CASE a # b
          BY <1>6, <2>4, <5>1
        <5>2. CASE a = b /\ e.name = "command" /\ e.deleted
          BY <1>4, <2>4, <5>2
        <5>3. CASE a = b /\ e.name = "command" /\ ~e.deleted /\ command_file[b] = NoFile
          BY <1>4, <2>4, <5>3
        <5>4. CASE a = b /\ e.name = "command" /\ ~e.deleted /\ command_file[b] # NoFile
          BY <1>4, <2>4, <3>3, <5>4
        <5>5. CASE a = b /\ e.name = "interface"
          BY <1>4, <2>4, <5>5
        <5>6. QED
          BY <1>1, <1>5, <3>1, <5>1, <5>2, <5>3, <5>4, <5>5
      <4>2. QED
        BY <2>1, <2>4, <4>1 DEF AccessPointFollowed
    <3>4. QED
      BY <3>2, <3>3
  <2>5. QED
    BY <1>2, <2>2, <2>3, <2>4 DEF AccessPointFollowed
<1>9. QED
  BY <1>7, <1>8 DEF FilesFollowed

\* A conman that starts has no events and no configurations.
LEMMA FollowedRestart ==
  ASSUME events' = <<>>, DOMAIN config' = {}, pc' = "load"
  PROVE  FilesFollowed'
<1>1. ASSUME NEW n, NEW b PROVE Waiting(events', n, b) = {} /\ LastWaiting(events', n, b) = {}
  BY DEF Waiting, LastWaiting
<1>2. QED
  BY <1>1 DEF FilesFollowed, CommandFollowed, AccessPointFollowed

\* Every step keeps the configurations and the events in step with the files.
LEMMA FollowedStep == TypeOK /\ FilesFollowed /\ [Next]_vars => FilesFollowed'
<1> SUFFICES ASSUME TypeOK, FilesFollowed, [Next]_vars PROVE FilesFollowed'
  OBVIOUS
<1>1. CASE \E b \in Band : LoadConfig(b)
  BY <1>1, FollowedLoad
<1>2. CASE StopUnwanted
  BY <1>2, FollowedStart
<1>3. CASE handle_event
  BY <1>3, FollowedEvent
<1>4. CASE UpdateBand \/ JoinBand \/ NotJoinedWithACS \/ Sleep
  <2>1. SameWishes
    BY <1>4, UpdateBandWlan, JoinBandWlan, WaitsWlan
  <2>2. UNCHANGED <<files, events>> /\ pc # "load"
    BY <1>4 DEF UpdateBand, JoinBand, NotJoinedWithACS, Sleep
  <2>3. QED
    BY <2>1, <2>2, FollowedSame
<1>5. CASE FileChange
  BY <1>5, FollowedChange
<1>6. CASE Undisturbed /\ ~FileChange
  <2>1. config' = config
    BY <1>6, UndisturbedWlan
  <2>2. UNCHANGED <<files, events>> /\ (pc = "load" => pc' = "load")
    BY <1>6 DEF Undisturbed, EventsDone, EventsDoneAndUpdate, CheckProvisioning, Proceed,
         NotJoinedWithoutACS, try_bssid, RanOutOfBssids, BridgeChange, Association,
         ACSAnswers, NetworkFails, vars
  <2>3. SameWishes
    BY <2>1 DEF SameWishes
  <2>4. QED
    BY <2>2, <2>3, FollowedSame
<1>7. CASE Restart
  BY <1>7, RestartWlan, FollowedRestart DEF Restart
<1>8. QED
  BY <1>1, <1>2, <1>3, <1>4, <1>5, <1>6, <1>7, StepCases

-----------------------------------------------------------------------------
(* Networks over which provisioning failed *)

\* Every step keeps a failed network forgotten until the turn ends.
LEMMA FailureStep == TypeOK /\ FailureNoted /\ [Next]_vars => FailureNoted'
<1> SUFFICES ASSUME TypeOK, FailureNoted, [Next]_vars PROVE FailureNoted'
  OBVIOUS
<1> USE DEF FailureNoted
<1>1. CASE UNCHANGED <<last_attempted, last_successful, failed, pc>>
  BY <1>1
<1>2. CASE UNCHANGED <<last_attempted, last_successful, failed>>
            /\ pc' \notin {"bands", "join", "next"}
  BY <1>2
<1>3. CASE UNCHANGED <<last_attempted, last_successful, failed>>
            /\ pc \in {"bands", "join", "next"}
  BY <1>3
<1>4. CASE EventsDoneAndUpdate
  BY <1>4 DEF EventsDoneAndUpdate
<1>5. CASE CheckProvisioning
  BY <1>5 DEF CheckProvisioning
<1>6. CASE NotJoinedWithACS
  BY <1>6 DEF NotJoinedWithACS, turn
<1>7. ASSUME NEW n \in Bss, try_bssid(n) PROVE FailureNoted'
  BY <1>7 DEF try_bssid
<1>8. CASE Restart
  BY <1>8 DEF Restart
<1>9. QED
  <2>1. CASE (\E b \in Band : LoadConfig(b)) \/ handle_event \/ FileChange \/ BridgeChange
              \/ Association \/ ACSAnswers \/ NetworkFails \/ UNCHANGED vars
    BY <1>1, <2>1 DEF LoadConfig, handle_event, FileChange, BridgeChange, Association,
         ACSAnswers, NetworkFails, provisioning, turn, vars
  <2>2. CASE StopUnwanted \/ EventsDone \/ RanOutOfBssids \/ Sleep
    BY <1>2, <2>2 DEF StopUnwanted, EventsDone, RanOutOfBssids, Sleep, provisioning, turn
  <2>3. CASE UpdateBand \/ Proceed \/ JoinBand \/ NotJoinedWithoutACS
    BY <1>3, <2>3 DEF UpdateBand, Proceed, JoinBand, NotJoinedWithoutACS, provisioning, turn
  <2>4. QED
    BY <1>4, <1>5, <1>6, <1>7, <1>8, <2>1, <2>2, <2>3 DEF Next, Step

-----------------------------------------------------------------------------
\* conman starts in order.
LEMMA InitIInv == Init => IInv
<1> SUFFICES ASSUME Init PROVE IInv
  OBVIOUS
<1>1. FilesTyped
  BY ConmanAssumption DEF Init, FilesTyped
<1>2. WlanTyped
  <2>1. Sound(radio)
    BY DEF Init, Off, Sound, Radio
  <2>2. wifi_acs \in BOOLEAN /\ recently_reset \in BOOLEAN
    BY Zenon DEF Init
  <2>3. DOMAIN config = {}
    BY DEF Init
  <2>4. QED
    BY <2>1, <2>2, <2>3 DEF WlanTyped
<1>3. ProvisioningTyped
  <2>1. internet \in BOOLEAN /\ bridge_acs \in BOOLEAN /\ reached \in BOOLEAN
    BY Zenon DEF Init
  <2>2. faulty \in BOOLEAN
    BY ConmanAssumption DEF Init
  <2>3. QED
    BY <2>1, <2>2, ConmanAssumption DEF Init, ProvisioningTyped
<1>4. TurnTyped
  <2>1. failed \in BOOLEAN /\ running \in BOOLEAN
    BY Zenon DEF Init
  <2>2. QED
    BY <2>1, ConmanAssumption, BandsTyped DEF Init, TurnTyped
<1>5. FilesFollowed
  <2>1. events = <<>> /\ DOMAIN config = {} /\ pc = "load"
    BY DEF Init
  <2>2. ASSUME NEW n, NEW b PROVE Waiting(events, n, b) = {} /\ LastWaiting(events, n, b) = {}
    BY <2>1 DEF Waiting, LastWaiting
  <2>3. QED
    BY <2>1, <2>2 DEF FilesFollowed, CommandFollowed, AccessPointFollowed
<1>6. FailureNoted
  BY DEF Init, FailureNoted
<1>7. QED
  BY <1>1, <1>2, <1>3, <1>4, <1>5, <1>6, TypeParts DEF IInv

\* The inductive invariant holds for ever.
THEOREM InductiveInvariant == Spec => []IInv
<1>1. IInv /\ [Next]_vars => IInv'
  BY TypeStep, FollowedStep, FailureStep DEF IInv
<1>2. QED
  BY InitIInv, <1>1, PTL DEF Spec

\* When no event waits the configurations are what the files say.
LEMMA FollowedMatches == TypeOK /\ FilesFollowed => ConfigMatchesFiles
<1> SUFFICES ASSUME TypeOK, FilesFollowed, pc # "load", events = <<>>, NEW b \in Band
             PROVE  /\ b \in DOMAIN config <=> command_file[b] # NoFile
                    /\ b \in DOMAIN config => /\ config[b].command = command_file[b]
                                              /\ config[b].access_point = ap_file[b]
  BY DEF ConfigMatchesFiles
<1>1. Waiting(events, "command", b) = {} /\ Waiting(events, "access_point", b) = {}
  BY DEF Waiting
<1>2. CommandFollowed(b) /\ AccessPointFollowed(b)
  BY DEF FilesFollowed
<1>3. b \in DOMAIN config => config[b].command \in Command
  BY DEF TypeOK, WLANConfiguration
<1>4. QED
  BY <1>1, <1>2, <1>3, ConmanAssumption DEF CommandFollowed, AccessPointFollowed

\* The types, and configurations that follow their files through every order of
\* writes, deletions and events, failing commands and restarts.
THEOREM ConfigurationsFollowFiles == Spec => []Inv
<1>1. IInv => Inv
  BY FollowedMatches DEF IInv, Inv
<1>2. QED
  BY <1>1, InductiveInvariant, PTL

\* A network over which provisioning has failed is not tried next as the
\* successful one.
THEOREM FailedNetworksDropped == Spec => []FailedNetworkDropped
<1>1. IInv => FailedNetworkDropped
  BY DEF IInv, FailureNoted, FailedNetworkDropped
<1>2. QED
  BY <1>1, InductiveInvariant, PTL
-----------------------------------------------------------------------------
(* The access point of a radio with one band, while no program fails *)

Only == Bands[1]

\* In the configurations cf the band has an access point that runs; has one that
\* should run.
Up(cf) == Only \in DOMAIN cf /\ cf[Only].access_point_up
Asked(cf) == Only \in DOMAIN cf /\ cf[Only].access_point

\* What conman holds for its access point runs on the radio r.
Fits(cf, r) == Up(cf) => r.ap = [band |-> Only, command |-> cf[Only].command]

\* conman believes that its access point runs only if it does, never while it
\* starts or looks for a network, and after the first loop of a turn exactly if it
\* should run.
BeliefHeld ==
  /\ Fits(config, radio)
  /\ pc \in {"load", "join", "next"} => ~Up(config)
  /\ pc = "bands" => (running <=> band # 1 /\ Up(config))
  /\ Updated => (internet /\ Asked(config) <=> Up(config))

\* A radio has one band.
SingleBand == Len(Bands) = 1

\* The only band.
LEMMA OnlyBand == ASSUME SingleBand PROVE Band = {Only} /\ Only \in Band
<1>1. DOMAIN Bands = {1}
  BY BandsTyped DEF SingleBand
<1>2. QED
  BY <1>1, BandsTyped DEF SingleBand, Only, Band, Range

\* Whether an access point is wanted is up to the only band.
LEMMA WantedAsked ==
  ASSUME TypeOK, SingleBand
  PROVE  Wanted <=> internet /\ Asked(config)
<1>1. DOMAIN config \subseteq {Only}
  BY OnlyBand DEF TypeOK
<1>2. QED
  BY <1>1 DEF Wanted, Asked

\* A client that stops leaves the access point alone.
LEMMA StopClientAp ==
  ASSUME NEW r \in Radio, NEW c, NEW s \in stop_client(r, c)
  PROVE  s \in Radio /\ s.ap = r.ap
<1>1. CASE s = r
  BY <1>1
<1>2. CASE s # r
  <2>1. PICK o \in stopclient(r) : s = o.radio
    BY <1>2 DEF stop_client
  <2>2. s \in {[r EXCEPT !.net = NoNet, !.up = FALSE], r}
    BY <2>1 DEF stopclient, Success, Failure
  <2>3. QED
    BY <2>2 DEF Radio
<1>3. QED
  BY <1>1, <1>2

\* A client that starts leaves the access point alone or stops it.
LEMMA SetClientAp ==
  ASSUME ~faulty, NEW r \in Radio, NEW n, NEW f, NEW o \in setclient(r, n, f)
  PROVE  o.radio.ap \in {r.ap, NoAP}
<1> DEFINE joined == [r EXCEPT !.net = n, !.up = TRUE]
<1>1. o \in {Success(r), Success(joined), Failure(Off)}
  BY DEF setclient
<1>2. o.radio \in {r, joined, Off}
  BY <1>1 DEF Success, Failure
<1>3. joined.ap = r.ap /\ Off.ap = NoAP
  BY DEF Radio, Off
<1>4. QED
  BY <1>2, <1>3

\* So does start_client.
LEMMA StartClientAp ==
  ASSUME ~faulty, NEW r \in Radio, NEW c, NEW o \in start_client(r, c)
  PROVE  o.radio.ap \in {r.ap, NoAP}
<1>1. CASE o = Outcome(r, c, FALSE)
  BY <1>1 DEF Outcome
<1>2. CASE o # Outcome(r, c, FALSE)
  <2>1. PICK x \in setclient(r, SsidOf[c.command], recently_reset) :
          \E w : o = Outcome(x.radio, [c EXCEPT !.wait = w], TRUE)
    BY <1>2 DEF start_client
  <2>2. o.radio = x.radio
    BY <2>1 DEF Outcome
  <2>3. QED
    BY <2>2, SetClientAp
<1>3. QED
  BY <1>1, <1>2

\* stopap stops the access point.
LEMMA StopApAp ==
  ASSUME ~faulty, NEW r \in Radio, NEW o \in stopap(r)
  PROVE  o.ok = TRUE /\ o.radio.ap = NoAP /\ o.radio \in Radio
<1>1. o = Success([r EXCEPT !.ap = NoAP])
  BY DEF stopap
<1>2. o.ok = TRUE /\ o.radio = [r EXCEPT !.ap = NoAP]
  BY <1>1 DEF Success
<1>3. QED
  BY <1>2 DEF Radio

\* stop_access_point stops the access point that runs.
LEMMA StopAccessPointAp ==
  ASSUME ~faulty, NEW r \in Radio, NEW c \in WLANConfiguration,
         NEW o \in stop_access_point(r, c)
  PROVE  /\ o.radio.ap \in {r.ap, NoAP}
         /\ ~o.config.access_point_up
         /\ c.access_point_up => o.radio.ap = NoAP
<1>1. CASE ~c.access_point_up
  <2>1. o = Outcome(r, c, FALSE)
    BY <1>1 DEF stop_access_point
  <2>2. QED
    BY <1>1, <2>1 DEF Outcome
<1>2. CASE c.access_point_up
  <2>1. PICK x \in stopap(r) :
          o = Outcome(x.radio, [c EXCEPT !.access_point_up = ~x.ok], FALSE)
    BY <1>2 DEF stop_access_point
  <2>2. x.ok = TRUE /\ x.radio.ap = NoAP
    BY StopApAp
  <2>3. o.radio = x.radio /\ o.config = [c EXCEPT !.access_point_up = ~x.ok]
    BY <2>1 DEF Outcome
  <2>4. ~o.config.access_point_up
    BY <2>2, <2>3 DEF WLANConfiguration
  <2>5. QED
    BY <2>2, <2>3, <2>4
<1>3. QED
  BY <1>1, <1>2

\* start_access_point starts the access point that is asked for.
LEMMA StartAccessPointAp ==
  ASSUME ~faulty, NEW r, Sound(r), NEW c \in WLANConfiguration, c.access_point,
         NEW b \in Band, c.access_point_up => r.ap = [band |-> b, command |-> c.command],
         NEW o \in start_access_point(r, c, b)
  PROVE  /\ o.config.access_point_up
         /\ o.radio.ap = [band |-> b, command |-> c.command]
<1>1. CASE c.access_point_up
  <2>1. o = Outcome(r, c, FALSE)
    BY <1>1 DEF start_access_point
  <2>2. QED
    BY <1>1, <2>1 DEF Outcome
<1>2. CASE ~c.access_point_up
  <2>1. PICK s \in stop_client(r, c) : \E x \in set(s, b, c.command) :
          o = Outcome(x.radio, [c EXCEPT !.access_point_up = x.ok], FALSE)
    BY <1>2 DEF start_access_point
  <2>2. PICK x \in set(s, b, c.command) :
          o = Outcome(x.radio, [c EXCEPT !.access_point_up = x.ok], FALSE)
    BY <2>1
  <2>3. x = Success([s EXCEPT !.ap = [band |-> b, command |-> c.command]])
    BY <2>2 DEF set
  <2>4. x.ok = TRUE /\ x.radio = [s EXCEPT !.ap = [band |-> b, command |-> c.command]]
    BY <2>3 DEF Success
  <2>5. s \in Radio
    BY StopClientAp DEF Sound
  <2>6. o.radio = x.radio /\ o.config = [c EXCEPT !.access_point_up = x.ok]
    BY <2>2 DEF Outcome
  <2>7. o.config.access_point_up
    BY <2>4, <2>6 DEF WLANConfiguration
  <2>8. o.radio.ap = [band |-> b, command |-> c.command]
    BY <2>4, <2>5, <2>6 DEF Radio
  <2>9. QED
    BY <2>7, <2>8
<1>3. QED
  BY <1>1, <1>2

\* _update_access_point: the access point is up exactly if it should be, and runs if
\* it is up.
LEMMA UpdateAccessPointAp ==
  ASSUME ~faulty, NEW r, Sound(r), NEW c \in WLANConfiguration, NEW b \in Band,
         recently_reset \in BOOLEAN, NEW online,
         c.access_point_up => r.ap = [band |-> b, command |-> c.command],
         NEW o \in update_access_point(r, c, b, online)
  PROVE  /\ o.config.access_point_up <=> online /\ c.access_point
         /\ o.config.access_point_up =>
              o.radio.ap = [band |-> b, command |-> o.config.command]
<1>0. o.config.command = c.command
  BY UpdateAccessPointOutcome DEF OutcomeOf
<1>1. CASE online /\ c.access_point
  <2>1. o \in start_access_point(r, c, b)
    BY <1>1 DEF update_access_point
  <2>2. QED
    BY <1>0, <1>1, <2>1, StartAccessPointAp
<1>2. CASE ~(online /\ c.access_point)
  <2>1. PICK s \in stop_access_point(r, c) : o \in start_client(s.radio, s.config)
    BY <1>2 DEF update_access_point
  <2>2. OutcomeOf(s, c)
    BY StopAccessPointOutcome
  <2>3. ~s.config.access_point_up
    BY StopAccessPointAp DEF Sound
  <2>4. o.config.access_point_up = s.config.access_point_up
    BY <2>1, <2>2, StartClientOutcome DEF OutcomeOf
  <2>5. ~o.config.access_point_up
    BY <2>3, <2>4
  <2>6. QED
    BY <1>2, <2>5
<1>3. QED
  BY <1>1, <1>2

\* The same for an outcome that becomes the configuration of the only band.
LEMMA ApplyAp ==
  ASSUME ~faulty, SingleBand, WlanTyped, NEW c \in WLANConfiguration, NEW online,
         c.access_point_up => radio.ap = [band |-> Only, command |-> c.command],
         NEW o \in update_access_point(radio, c, Only, online), Apply(Only, o)
  PROVE  /\ Fits(config', radio')
         /\ Up(config') <=> online /\ c.access_point
         /\ Asked(config') <=> c.access_point
         /\ config'[Only] = o.config
<1>1. Only \in Band
  BY OnlyBand
<1>2. Sound(radio) /\ recently_reset \in BOOLEAN
  BY DEF WlanTyped
<1>3. OutcomeOf(o, c)
  BY <1>1, <1>2, UpdateAccessPointOutcome
<1>4. Only \in DOMAIN config' /\ config'[Only] = o.config
  BY <1>1, <1>3, ApplyWlan
<1>5. radio' = o.radio
  BY DEF Apply
<1>6. /\ o.config.access_point_up <=> online /\ c.access_point
      /\ o.config.access_point_up =>
           o.radio.ap = [band |-> Only, command |-> o.config.command]
  BY <1>1, <1>2, UpdateAccessPointAp
<1>7. o.config.access_point = c.access_point
  BY <1>3 DEF OutcomeOf
<1>8. QED
  BY <1>4, <1>5, <1>6, <1>7 DEF Fits, Up, Asked

\* A configuration that replaces another starts without an access point.
LEMMA UpdateAp ==
  ASSUME ~faulty, SingleBand, WlanTyped, Fits(config, radio), NEW online,
         command_file[Only] \in Command, ap_file[Only] \in BOOLEAN,
         update_wlan_configuration(Only, online)
  PROVE  /\ Fits(config', radio')
         /\ ~online /\ ~Up(config) => ~Up(config')
<1>1. CASE Only \in DOMAIN config /\ config[Only].command = command_file[Only]
  <2>1. UNCHANGED <<radio, config>>
    BY <1>1 DEF update_wlan_configuration
  <2>2. QED
    BY <2>1
<1>2. CASE ~(Only \in DOMAIN config /\ config[Only].command = command_file[Only])
  <2> DEFINE wanted == IF Only \in DOMAIN config THEN config[Only].access_point
                       ELSE ap_file[Only]
             c == NewConfig(Only, wanted)
  <2>1. PICK o \in update_access_point(radio, c, Only, online) : Apply(Only, o)
    BY <1>2 DEF update_wlan_configuration
  <2>2. wanted \in BOOLEAN
    BY DEF WlanTyped, WLANConfiguration
  <2>3. c \in WLANConfiguration /\ ~c.access_point_up
    <3> HIDE DEF wanted
    <3>1. FALSE \in BOOLEAN /\ 0 \in 0..Retry
      BY ConmanAssumption
    <3>2. QED
      BY <2>2, <3>1 DEF NewConfig, WLANConfiguration
  <2> HIDE DEF c
  <2>4. /\ Fits(config', radio')
        /\ Up(config') <=> online /\ c.access_point
    BY <2>1, <2>3, ApplyAp
  <2>5. QED
    BY <2>4
<1>3. QED
  BY <1>1, <1>2

-----------------------------------------------------------------------------
(* The steps and the access point *)

\* A step keeps the belief that leaves the configurations and the access point.
LEMMA SameAp ==
  ASSUME BeliefHeld, config' = config, radio'.ap = radio.ap
  PROVE  /\ Fits(config', radio')
         /\ Up(config') = Up(config) /\ Asked(config') = Asked(config)
BY DEF BeliefHeld, Fits

\* conman starts.
LEMMA LoadAp ==
  ASSUME ~faulty, SingleBand, TypeOK, BeliefHeld, NEW b \in Band, LoadConfig(b)
  PROVE  BeliefHeld'
<1>1. b = Only /\ WlanTyped
  BY OnlyBand, TypeParts
<1>2. command_file[Only] \in Command /\ ap_file[Only] \in BOOLEAN
  BY <1>1, TypeParts DEF LoadConfig, Unloaded, FilesTyped
<1>3. update_wlan_configuration(Only, FALSE) /\ pc = "load" /\ pc' = pc
  BY <1>1 DEF LoadConfig
<1>4. Fits(config, radio) /\ ~Up(config)
  BY <1>3 DEF BeliefHeld
<1>5. Fits(config', radio') /\ ~Up(config')
  BY <1>1, <1>2, <1>3, <1>4, UpdateAp
<1>6. ~Updated'
  BY <1>3 DEF Updated
<1>7. QED
  BY <1>3, <1>5, <1>6 DEF BeliefHeld

\* Programs that are stopped at startup are not those of a configuration.
LEMMA StopUnwantedAp ==
  ASSUME ~faulty, TypeOK, BeliefHeld, StopUnwanted
  PROVE  BeliefHeld'
<1>1. config' = config /\ pc = "load" /\ pc' = "events"
  BY DEF StopUnwanted
<1>2. ~Up(config)
  BY <1>1 DEF BeliefHeld
<1>3. QED
  BY <1>1, <1>2 DEF BeliefHeld, Updated, Fits

\* An event.
LEMMA HandleEventAp ==
  ASSUME ~faulty, SingleBand, TypeOK, BeliefHeld, handle_event
  PROVE  BeliefHeld'
<1> DEFINE e == Head(events)
<1>1. /\ WlanTyped /\ events # <<>> /\ events \in Seq(Inotify)
      /\ pc = "events" /\ pc' = pc
  BY TypeParts DEF handle_event, FilesTyped
<1>2. e \in Inotify
  BY <1>1
<1>3. e.band = Only /\ e.name \in {"command", "access_point", "interface"}
  BY <1>2, OnlyBand DEF Inotify
<1>4. /\ command_file[Only] \in Command \cup {NoFile} /\ ap_file[Only] \in BOOLEAN
      /\ Fits(config, radio)
  BY OnlyBand, TypeParts DEF FilesTyped, BeliefHeld
<1>5. SUFFICES Fits(config', radio')
  BY <1>1 DEF BeliefHeld, Updated
<1>6. CASE UNCHANGED <<config, radio>>
  BY <1>4, <1>6
<1>7. CASE e.name = "command" /\ ~e.deleted /\ command_file[Only] # NoFile
  <2>1. update_wlan_configuration(Only, internet)
    BY <1>3, <1>7 DEF handle_event
  <2>2. QED
    BY <1>1, <1>4, <1>7, <2>1, UpdateAp
<1>8. CASE e.name = "command" /\ e.deleted /\ Only \in DOMAIN config
  <2>1. Only \notin DOMAIN config'
    BY <1>3, <1>8 DEF handle_event, remove_wlan_configuration, Without
  <2>2. QED
    BY <2>1 DEF Fits, Up
<1>9. CASE e.name = "access_point" /\ Only \in DOMAIN config /\ (e.deleted \/ ap_file[Only])
  <2> DEFINE c == [config[Only] EXCEPT !.access_point = ~e.deleted]
  <2>1. SetAccessPoint(Only, ~e.deleted)
    BY <1>3, <1>9 DEF handle_event
  <2>2. config' = [config EXCEPT ![Only] = c] /\ radio' = radio
    BY <2>1 DEF SetAccessPoint
  <2>3. c.access_point_up = config[Only].access_point_up /\ c.command = config[Only].command
    BY <1>1, <1>9 DEF WlanTyped, WLANConfiguration
  <2> HIDE DEF c
  <2>4. DOMAIN config' = DOMAIN config /\ config'[Only] = c
    BY <1>9, <2>2
  <2>5. QED
    BY <1>4, <2>2, <2>3, <2>4 DEF Fits, Up
<1>10. QED
  <2>1. CASE e.name = "command" /\ ~e.deleted /\ command_file[Only] = NoFile
    BY <1>3, <1>6, <2>1 DEF handle_event, Ignore
  <2>2. CASE e.name = "command" /\ e.deleted /\ Only \notin DOMAIN config
    BY <1>3, <1>6, <2>2 DEF handle_event, Ignore
  <2>3. CASE e.name = "access_point" /\ ~(Only \in DOMAIN config /\ (e.deleted \/ ap_file[Only]))
    BY <1>3, <1>6, <2>3 DEF handle_event, Ignore
  <2>4. CASE e.name = "interface"
    BY <1>3, <1>6, <2>4 DEF handle_event
  <2>5. QED
    BY <1>3, <1>7, <1>8, <1>9, <2>1, <2>2, <2>3, <2>4
\* The first loop over the bands makes the access point what it should be.
LEMMA UpdateBandAp ==
  ASSUME ~faulty, SingleBand, TypeOK, BeliefHeld, UpdateBand
  PROVE  BeliefHeld'
<1>1. /\ band = 1 /\ band' = 2 /\ pc = "bands" /\ pc' = pc /\ internet' = internet
  BY DEF UpdateBand, TypeOK, SingleBand, world
<1>2. ~running /\ Fits(config, radio) /\ WlanTyped
  BY <1>1, TypeParts DEF BeliefHeld
<1>3. CASE Only \notin DOMAIN config
  <2>1. UNCHANGED <<radio, config, running>>
    BY <1>1, <1>3 DEF UpdateBand, Ignore, Only
  <2>2. ~Up(config) /\ ~Asked(config)
    BY <1>3 DEF Up, Asked
  <2>3. QED
    BY <1>1, <1>2, <2>1, <2>2 DEF BeliefHeld, Fits
<1>4. CASE Only \in DOMAIN config
  <2>1. PICK o \in update_access_point(radio, config[Only], Only, internet) :
          Apply(Only, o) /\ running' = o.config.access_point_up
    BY <1>1, <1>2, <1>4 DEF UpdateBand, Only
  <2>2. /\ config[Only] \in WLANConfiguration
        /\ config[Only].access_point_up =>
             radio.ap = [band |-> Only, command |-> config[Only].command]
    BY <1>2, <1>4 DEF WlanTyped, Fits, Up
  <2>3. /\ Fits(config', radio')
        /\ Up(config') <=> internet /\ config[Only].access_point
        /\ Asked(config') <=> config[Only].access_point
        /\ config'[Only] = o.config
    BY <1>2, <2>1, <2>2, ApplyAp
  <2>4. running' <=> Up(config')
    <3>1. Only \in DOMAIN config'
      BY <2>1 DEF Apply, With
    <3>2. QED
      BY <2>1, <2>3, <3>1 DEF Up
  <2>5. QED
    BY <1>1, <2>3, <2>4 DEF BeliefHeld
<1>5. QED
  BY <1>3, <1>4

\* The wishes and the belief stay when a configuration changes how long it waits.
LEMMA SameWaitsAp ==
  ASSUME SameWishes,
         Only \in DOMAIN config => config'[Only].access_point_up = config[Only].access_point_up
  PROVE  Up(config') = Up(config) /\ Asked(config') = Asked(config)
BY DEF SameWishes, Up, Asked

\* The second loop runs without an access point.
LEMMA JoinBandAp ==
  ASSUME ~faulty, SingleBand, TypeOK, BeliefHeld, JoinBand
  PROVE  BeliefHeld'
<1>1. /\ band = 1 /\ pc = "join" /\ pc' \in {"sleep", "join"} /\ internet' = internet
  BY DEF JoinBand, TypeOK, SingleBand, world
<1>2. ~Up(config) /\ (internet /\ Asked(config) <=> Up(config)) /\ WlanTyped
  BY <1>1, TypeParts DEF BeliefHeld, Updated
<1>3. SameWishes
  BY JoinBandWlan
<1>4. /\ radio'.ap \in {radio.ap, NoAP}
      /\ Only \in DOMAIN config =>
           config'[Only].access_point_up = config[Only].access_point_up
  <2>1. CASE Only \notin DOMAIN config
    BY <1>1, <2>1 DEF JoinBand, Ignore, Only
  <2>2. CASE Only \in DOMAIN config
    <3>1. PICK o \in start_client(radio, config[Only]) : Apply(Only, o)
      BY <1>1, <2>2 DEF JoinBand, Only
    <3>2. /\ Sound(radio) /\ config[Only] \in WLANConfiguration
          /\ recently_reset \in BOOLEAN
      BY <1>2, <2>2 DEF WlanTyped
    <3>3. OutcomeOf(o, config[Only])
          /\ o.config.access_point_up = config[Only].access_point_up
      BY <3>2, StartClientOutcome
    <3>4. o.radio.ap \in {radio.ap, NoAP}
      BY <3>2, StartClientAp DEF Sound
    <3>5. radio' = o.radio /\ config'[Only] = o.config
      BY <3>1 DEF Apply, With
    <3>6. QED
      BY <3>3, <3>4, <3>5
  <2>3. QED
    BY <2>1, <2>2
<1>5. Up(config') = Up(config) /\ Asked(config') = Asked(config)
  BY <1>3, <1>4, SameWaitsAp
<1>6. QED
  BY <1>1, <1>2, <1>5 DEF BeliefHeld, Fits, Updated

\* The end of a turn.
LEMMA WaitsAp ==
  ASSUME TypeOK, BeliefHeld, NotJoinedWithACS \/ Sleep
  PROVE  BeliefHeld'
<1>1. /\ UNCHANGED <<radio, internet>>
      /\ pc' \notin {"load", "bands", "join"}
      /\ pc' = "next" => pc = "join"
  BY DEF NotJoinedWithACS, Sleep, world
<1>2. SameWishes
  BY WaitsWlan
<1>3. Only \in DOMAIN config =>
        config'[Only].access_point_up = config[Only].access_point_up
  <2>1. SUFFICES ASSUME Only \in DOMAIN config
                 PROVE  config'[Only].access_point_up = config[Only].access_point_up
    OBVIOUS
  <2>2. \E w : config'[Only] = [config[Only] EXCEPT !.wait = w]
    BY <2>1 DEF NotJoinedWithACS, Sleep
  <2>3. config[Only] \in WLANConfiguration
    BY <2>1 DEF TypeOK
  <2>4. QED
    BY <2>2, <2>3 DEF WLANConfiguration
<1>4. Up(config') = Up(config) /\ Asked(config') = Asked(config)
  BY <1>2, <1>3, SameWaitsAp
<1>5. Up(config) => config'[Only].command = config[Only].command
  BY <1>2 DEF SameWishes, Up
<1>6. Fits(config', radio')
  BY <1>1, <1>4, <1>5 DEF BeliefHeld, Fits
<1>7. pc' = "next" => ~Up(config) /\ (internet /\ Asked(config) <=> Up(config))
  BY <1>1 DEF BeliefHeld, Updated
<1>8. QED
  BY <1>1, <1>4, <1>6, <1>7 DEF BeliefHeld, Updated

\* A client that starts for an open network runs without an access point.
LEMMA TryBssidAp ==
  ASSUME ~faulty, TypeOK, BeliefHeld, NEW n \in Bss, try_bssid(n)
  PROVE  BeliefHeld'
<1>1. config' = config /\ pc = "next" /\ pc' = "sleep"
  BY DEF try_bssid
<1>2. ~Up(config)
  BY <1>1 DEF BeliefHeld
<1>3. radio'.ap \in {radio.ap, NoAP}
  <2>1. PICK o \in setclient(radio, n, FALSE) : radio' = o.radio
    BY DEF try_bssid
  <2>2. radio \in Radio
    BY DEF TypeOK
  <2>3. QED
    BY <2>1, <2>2, SetClientAp
<1>4. QED
  BY <1>1, <1>2, <1>3 DEF BeliefHeld, Updated, Fits

\* The other steps leave the access point alone.
LEMMA UndisturbedAp ==
  ASSUME SingleBand, TypeOK, BeliefHeld, Undisturbed, \A n \in Bss : ~try_bssid(n)
  PROVE  BeliefHeld'
<1>1. config' = config
  BY UndisturbedWlan
<1>2. radio'.ap = radio.ap
  <2>1. CASE Association
    BY <2>1 DEF Association, TypeOK, Radio
  <2>2. CASE ~Association
    BY <2>2 DEF Undisturbed, EventsDone, EventsDoneAndUpdate, CheckProvisioning, Proceed,
         NotJoinedWithoutACS, RanOutOfBssids, FileChange, BridgeChange, ACSAnswers,
         NetworkFails, vars
  <2>3. QED
    BY <2>1, <2>2
<1>3. /\ Fits(config', radio')
      /\ Up(config') = Up(config) /\ Asked(config') = Asked(config)
  BY <1>1, <1>2, SameAp
<1>4. CASE UNCHANGED <<pc, band, running, internet>>
  BY <1>3, <1>4 DEF BeliefHeld, Updated
<1>5. CASE pc' \in {"events", "provisioning", "sleep"}
  BY <1>3, <1>5 DEF BeliefHeld, Updated
<1>6. CASE CheckProvisioning /\ pc' = "bands"
  <2>1. band' = 1 /\ running' = FALSE
    BY <1>6 DEF CheckProvisioning
  <2>2. QED
    BY <1>3, <1>6, <2>1 DEF BeliefHeld, Updated, SingleBand
<1>7. CASE Proceed /\ pc' = "join"
  <2>1. /\ pc = "bands" /\ band = 2 /\ ~running /\ internet' = internet
    BY <1>7 DEF Proceed, world, TypeOK, SingleBand
  <2>2. ~Up(config) /\ (internet /\ Asked(config) <=> Up(config))
    BY <2>1 DEF BeliefHeld, Updated, SingleBand
  <2>3. QED
    BY <1>3, <1>7, <2>1, <2>2 DEF BeliefHeld
<1>8. CASE NotJoinedWithoutACS /\ pc' = "next"
  <2>1. pc = "join" /\ internet' = internet
    BY <1>8 DEF NotJoinedWithoutACS, world
  <2>2. ~Up(config) /\ (internet /\ Asked(config) <=> Up(config))
    BY <2>1 DEF BeliefHeld, Updated
  <2>3. QED
    BY <1>3, <1>8, <2>1, <2>2 DEF BeliefHeld
<1>9. QED
  <2>1. CASE FileChange \/ Association \/ ACSAnswers \/ NetworkFails \/ UNCHANGED vars
    BY <1>4, <2>1 DEF FileChange, Association, ACSAnswers, NetworkFails, vars, turn, world
  <2>2. CASE EventsDone \/ EventsDoneAndUpdate \/ RanOutOfBssids \/ BridgeChange
    BY <1>5, <2>2 DEF EventsDone, EventsDoneAndUpdate, RanOutOfBssids, BridgeChange
  <2>3. CASE CheckProvisioning
    BY <1>5, <1>6, <2>3 DEF CheckProvisioning
  <2>4. CASE Proceed
    BY <1>5, <1>7, <2>4 DEF Proceed
  <2>5. CASE NotJoinedWithoutACS
    BY <1>5, <1>8, <2>5 DEF NotJoinedWithoutACS
  <2>6. QED
    BY <2>1, <2>2, <2>3, <2>4, <2>5 DEF Undisturbed

\* conman starts again and knows of no access point.
LEMMA RestartAp == ASSUME Restart PROVE BeliefHeld'
<1>1. config' = <<>> /\ pc' = "load"
  BY DEF Restart
<1>2. ~Up(config')
  BY <1>1 DEF Up
<1>3. QED
  BY <1>1, <1>2 DEF BeliefHeld, Fits, Updated

\* Whether programs fail is up to the run of conman.
LEMMA FaultyStays == ASSUME [Next]_vars, ~Restart PROVE faulty' = faulty
BY DEF Next, Step, LoadConfig, StopUnwanted, handle_event, EventsDone, EventsDoneAndUpdate,
       CheckProvisioning, UpdateBand, Proceed, JoinBand, NotJoinedWithACS,
       NotJoinedWithoutACS, try_bssid, RanOutOfBssids, Sleep, FileChange, BridgeChange,
       Association, ACSAnswers, NetworkFails, vars, world

\* Every step but a restart.
LEMMA StepAp ==
  ASSUME ~faulty, SingleBand, TypeOK, BeliefHeld, [Next]_vars, ~Restart
  PROVE  BeliefHeld'
<1>1. CASE \E b \in Band : LoadConfig(b)
  BY <1>1, LoadAp
<1>2. CASE StopUnwanted \/ handle_event \/ UpdateBand \/ JoinBand
  BY <1>2, StopUnwantedAp, HandleEventAp, UpdateBandAp, JoinBandAp
<1>3. CASE NotJoinedWithACS \/ Sleep
  BY <1>3, WaitsAp
<1>4. CASE Undisturbed
  BY <1>4, UndisturbedAp, TryBssidAp
<1>5. QED
  BY <1>1, <1>2, <1>3, <1>4, StepCases

\* At first nothing runs.
LEMMA InitAp == Init => BeliefHeld
<1> SUFFICES ASSUME Init PROVE BeliefHeld
  OBVIOUS
<1>1. config = <<>> /\ radio.ap = NoAP /\ pc = "load"
  BY DEF Init, Off
<1>2. ~Up(config)
  BY <1>1 DEF Up
<1>3. QED
  BY <1>1, <1>2 DEF BeliefHeld, Fits, Updated

\* On a radio with one band, in every run of conman in which programs start and
\* stop as they are told, an access point that is wanted runs after the first loop
\* of every turn, with the present command: through any change of the files, of the
\* wired connection and of the networks, through restarts, and whatever runs of
\* conman in which programs failed have left behind (run_once).
THEOREM WantedAccessPointRuns ==
  ASSUME Len(Bands) = 1
  PROVE  Spec => []WantedAPRuns
<1> DEFINE Held == ~faulty => BeliefHeld
<1>1. SingleBand
  BY DEF SingleBand
<1>2. IInv /\ Held /\ [Next]_vars => Held'
  <2> SUFFICES ASSUME IInv, Held, [Next]_vars, ~faulty' PROVE BeliefHeld'
    OBVIOUS
  <2>1. CASE Restart
    BY <2>1, RestartAp
  <2>2. CASE ~Restart
    <3>1. faulty' = faulty
      BY <2>2, FaultyStays
    <3>2. QED
      BY <1>1, <2>2, <3>1, StepAp DEF IInv
  <2>3. QED
    BY <2>1, <2>2
<1>3. IInv /\ Held => WantedAPRuns
  <2> SUFFICES ASSUME TypeOK, BeliefHeld, Updated, Wanted
               PROVE  \E b \in DOMAIN config :
                        /\ config[b].access_point
                        /\ radio.ap = [band |-> b, command |-> config[b].command]
    BY DEF IInv, WantedAPRuns
  <2>1. Up(config) /\ Asked(config)
    BY <1>1, WantedAsked DEF BeliefHeld
  <2>2. QED
    BY <2>1 DEF BeliefHeld, Fits, Up, Asked
<1>4. Init => Held
  BY InitAp
<1> HIDE DEF Held
<1>5. QED
  BY <1>2, <1>3, <1>4, InductiveInvariant, PTL DEF Spec

=============================================================================
