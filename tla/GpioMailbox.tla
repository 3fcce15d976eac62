---------------------------- MODULE GpioMailbox ----------------------------
(***************************************************************************)
(* gpio-mailbox (src/gpio-mailbox/gpio-mailbox.c), the process between     *)
(* the files in /tmp/gpio and the pins: it sets the fan to what the file   *)
(* fanpercent says, or to full speed, and writes what it measures.  A      *)
(* reading may fail, and so may a write: neither is noticed.  The lights   *)
(* and the reset button, which share the loop and nothing else, are left   *)
(* out.                                                                    *)
(***************************************************************************)
EXTENDS Integers

CONSTANTS
  Temps,    \* temperatures of the processor
  Full,     \* 100 percent
  High,     \* HIGH_TEMP_OVERRIDE
  SpinAt,   \* the lowest duty cycle at which the fan turns
  Loops,    \* the speed is measured every so many loops, 16 in the code
  Losable,  \* the files of which a write may fail
  Missing   \* the value of a file that does not exist or is empty

ASSUME GpioAssumption ==
  /\ Temps \subseteq Nat /\ Missing \notin Int
  /\ Full \in Nat \ {0} /\ High \in Nat /\ SpinAt \in 1..Full
  /\ Loops \in Nat \ {0}

\* What the process takes its files to say before it has written them.
Unwritten == -42

\* The temperature that a failed reading gives.
Unread == -1

VARIABLES
  soc,         \* the temperature of the processor
  pin,         \* the duty cycle of PIN_FAN_CHASSIS
  file,        \* the files of /tmp/gpio: fanpercent, fanspeed (1 if the fan
               \* turns), cpu_temperature and ready
  gpio_pc,     \* "down", "control", "capture", "poll"
  cpu_temp, fanspeed, readyval,   \* what the files last written should say
  fan_detected_speed,
  fan_loop_count

remembered == <<cpu_temp, fanspeed, readyval>>
gpio_vars == <<gpio_pc, remembered, fan_detected_speed, fan_loop_count>>

InitGpio ==
  /\ soc \in Temps
  /\ pin = Full
  /\ file \in [fanpercent : {Missing, Full}, fanspeed : {Missing},
               cpu_temperature : {Missing}, ready : {Missing}]
  /\ gpio_pc = "down"
  /\ cpu_temp = Unwritten /\ fanspeed = Unwritten /\ readyval = Unwritten
  /\ fan_detected_speed = 0 /\ fan_loop_count = 0

\* The process starts, or is started again.  It knows nothing of the fan yet.
StartGpio ==
  /\ gpio_pc = "down"
  /\ gpio_pc' = "control"
  /\ UNCHANGED <<soc, pin, file, remembered, fan_detected_speed, fan_loop_count>>

\* The process ends, and what it knows with it.
EndGpio ==
  /\ gpio_pc' = "down"
  /\ cpu_temp' = Unwritten /\ fanspeed' = Unwritten /\ readyval' = Unwritten
  /\ fan_detected_speed' = 0 /\ fan_loop_count' = 0

\* WRITE_TO_FILE: a value that differs from the last one is written.  The file may
\* be left as it was or, by a full file system, empty; the new value is
\* remembered in any case, and not written again.  An empty file ready is one.
Write(name, last, value) ==
  IF value = last THEN UNCHANGED file
  ELSE \E v \in {value} \cup IF name \notin Losable THEN {}
                 ELSE {file[name], IF name = "ready" THEN value ELSE Missing} :
         file' = [file EXCEPT ![name] = v]

\* Mutant: without the override, as before the failsafe was added.
WantspeedNoOverride ==
  IF file.fanpercent = Missing \/ file.fanpercent > Full
    THEN Full ELSE file.fanpercent

\* wantspeed: full speed if the file is missing or invalid, or if the
\* temperature of the last loop is too high.
Wantspeed ==
  IF \/ file.fanpercent = Missing
     \/ file.fanpercent > Full
     \/ cpu_temp >= High
    THEN Full ELSE file.fanpercent

\* Once in two seconds: the fan is set, and the speed measured in the meantime
\* is written.
ControlFan ==
  /\ gpio_pc = "control"
  /\ pin' = Wantspeed
  /\ Write("fanspeed", fanspeed, fan_detected_speed)
  /\ fanspeed' = fan_detected_speed
  /\ gpio_pc' = "capture"
  /\ UNCHANGED <<soc, cpu_temp, readyval, fan_detected_speed, fan_loop_count>>

\* The other loops.
SkipControl ==
  /\ gpio_pc = "control"
  /\ gpio_pc' = "poll"
  /\ UNCHANGED <<soc, pin, file, remembered, fan_detected_speed, fan_loop_count>>

\* The temperature is read and written.
Capture(temp) ==
  /\ gpio_pc = "capture"
  /\ Write("cpu_temperature", cpu_temp, temp)
  /\ cpu_temp' = temp
  /\ gpio_pc' = "poll"
  /\ UNCHANGED <<soc, pin, fanspeed, readyval, fan_detected_speed, fan_loop_count>>

CaptureTemp == Capture(soc)

\* PinValue reports success for a reading that has failed.
CaptureFails == Capture(Unread)

\* The fan turns.
Spins == IF pin >= SpinAt THEN 1 ELSE 0

\* The end of a loop: the file ready, and now and then the speed of the fan.
PollFan ==
  /\ gpio_pc = "poll"
  /\ Write("ready", readyval, 1)
  /\ readyval' = 1
  /\ fan_loop_count' = (fan_loop_count + 1) % Loops
  /\ fan_detected_speed' = IF fan_loop_count' = 0 THEN Spins
                                                  ELSE fan_detected_speed
  /\ gpio_pc' = "control"
  /\ UNCHANGED <<soc, pin, cpu_temp, fanspeed>>

\* A signal ends the loop, and the fan is left at full speed.
ShutDownGpio ==
  /\ gpio_pc = "control"
  /\ EndGpio
  /\ pin' = Full
  /\ UNCHANGED <<soc, file>>

\* SIGKILL, or abort after thirty seconds without a loop.
KillGpio ==
  /\ gpio_pc # "down"
  /\ EndGpio
  /\ UNCHANGED <<soc, pin, file>>

GpioNext ==
  \/ StartGpio \/ ControlFan \/ SkipControl \/ CaptureTemp \/ CaptureFails
  \/ PollFan \/ ShutDownGpio \/ KillGpio

\* The device gets warmer or cooler.
TempChanges ==
  /\ \E t \in Temps \ {soc} : soc' = t
  /\ UNCHANGED <<pin, file>>
  /\ UNCHANGED gpio_vars
=============================================================================
