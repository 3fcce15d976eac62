--------------------------- MODULE PeripheralMon ---------------------------
(***************************************************************************)
(* sysmgr (src/sysmgr/): it reads the temperatures and the speed of the    *)
(* fan from the files of gpio-mailbox, computes a duty cycle per sensor,   *)
(* writes the largest to fanpercent, and powers the device off when it has *)
(* been too hot three times.  Either process may stop at any moment and    *)
(* start again; a write may fail.  The specification of the two processes  *)
(* is called after the fan, as DeviceProofs has it beside that of Sysvar.  *)
(***************************************************************************)
EXTENDS GpioMailbox, FanParams, FiniteSetsExt

CONSTANTS
  Soc,        \* parameters of the processor's sensor
  Hdd,        \* and of the disk's
  HddTemps,   \* temperatures of the disk; 0 if it cannot be read
  Startup,    \* kPwmDefaultStartup
  OVERHEATING_COUNT

ASSUME MonAssumption ==
  /\ Sane(Soc, Startup, Full) /\ Sane(Hdd, Startup, Full)
  /\ HddTemps \subseteq Nat /\ Startup \in Nat /\ OVERHEATING_COUNT \in Nat \ {0}

VARIABLES
  mon_pc,       \* "down", "probe", "adjust", "kick"
  duty,         \* duty_cycle_pwm_
  hdd_temp,     \* hdd_temp_
  soc_temp,     \* the temperature that this probe has read
  want,         \* new_duty_cycle_pwm, during the sleep of AdjustSpeed
  overheating   \* overheating_

mon_vars == <<mon_pc, duty, hdd_temp, soc_temp, want, overheating>>
fan_vars == <<soc, pin, file, gpio_vars, mon_vars>>

InitMon ==
  /\ mon_pc = "down" /\ duty = 0 /\ hdd_temp = 0
  /\ soc_temp = Missing /\ want = 0 /\ overheating = 0

-----------------------------------------------------------------------------


\* __ComputeDutyCycle: the duty cycle for one sensor, now being d.
ComputeOne(temp, speed, p, d) ==
  IF temp > p.temp_max THEN p.duty_cycle_max
  ELSE IF temp > p.temp_setpt + p.temp_step
    THEN IF speed = 0 THEN p.duty_cycle_min
         ELSE IF d < p.duty_cycle_max
           THEN IF d + p.pwm_step > p.duty_cycle_max THEN p.duty_cycle_max
                                                     ELSE d + p.pwm_step
         ELSE d
  ELSE IF temp + p.temp_step < p.temp_setpt
    THEN IF speed = 0 \/ d < p.pwm_step THEN 0 ELSE d - p.pwm_step
  ELSE d

\* Mutant: the fan is as slow as the coolest sensor allows.
ComputeDutyCycleMin(temp, hdd, speed) ==
  Min({ComputeOne(temp, speed, Soc, duty), ComputeOne(hdd, speed, Hdd, duty)})

\* ComputeDutyCycle: the largest that a sensor asks for.
ComputeDutyCycle(temp, hdd, speed) ==
  Max({ComputeOne(temp, speed, Soc, duty), ComputeOne(hdd, speed, Hdd, duty)})

\* DrivePwm: the duty cycle is taken note of, then written.  It returns FALSE if
\* the file cannot be opened; that it is not replaced, or by an empty one, is not
\* noticed.
DrivePwm(d, rtn) ==
  /\ duty' = d
  /\ IF rtn
       THEN \E v \in {d, file.fanpercent, Missing} :
              file' = [file EXCEPT !.fanpercent = v]
       ELSE UNCHANGED file

\* The process starts: FanControl::Init takes over the duty cycle in the file.
StartMon ==
  /\ mon_pc = "down"
  /\ mon_pc' = "probe"
  /\ duty' = IF file.fanpercent = Missing THEN Soc.duty_cycle_min
                                       ELSE file.fanpercent
  /\ UNCHANGED <<soc, pin, file, gpio_vars, hdd_temp, soc_temp, want, overheating>>

\* Probe, up to the reading of the temperatures.  The disk is asked every five
\* minutes.
ReadTemps ==
  /\ mon_pc = "probe"
  /\ \E t \in HddTemps \cup {0, hdd_temp} : hdd_temp' = t
  /\ IF file.ready # Missing /\ file.cpu_temperature # Missing
       THEN mon_pc' = "adjust" /\ soc_temp' = file.cpu_temperature
       ELSE UNCHANGED <<mon_pc, soc_temp>>
  /\ UNCHANGED <<soc, pin, file, gpio_vars, duty, want, overheating>>

\* Mutant: the count does not go beyond one.
OverheatingNoCount ==
  overheating' = IF soc_temp < Soc.temp_overheat THEN 0 ELSE 1

\* Overheating: the count starts again with the call of Poweroff.
Overheating ==
  overheating' = IF \/ soc_temp < Soc.temp_overheat
                    \/ overheating + 1 >= OVERHEATING_COUNT
                   THEN 0 ELSE overheating + 1

\* This step calls Poweroff.
Poweroff ==
  /\ mon_pc = "adjust" /\ soc_temp >= Soc.temp_overheat
  /\ overheating' = 0

\* ReadFanSpeed: 0 if there is no file.
ReadFanSpeed == IF file.fanspeed = Missing THEN 0 ELSE file.fanspeed

\* static_cast<uint16_t> of a float, which is undefined if it is negative: 0 where
\* the processor saturates, the low bits of the integer where it does not.
Cast(temp) == IF temp >= 0 THEN {temp} ELSE {0, (2^16 + temp) % 2^16}

\* The rest of Probe: Overheating, and AdjustSpeed.  A fan that does not turn
\* gets a kick before a higher duty cycle is set.
AdjustSpeed ==
  /\ mon_pc = "adjust"
  /\ Overheating
  /\ \E temp \in Cast(soc_temp), rtn \in BOOLEAN :
       LET new == ComputeDutyCycle(temp, hdd_temp, ReadFanSpeed)
       IN IF new = duty
            THEN mon_pc' = "probe" /\ UNCHANGED <<file, duty, want>>
          ELSE IF ReadFanSpeed = 0 /\ new > duty
            THEN /\ DrivePwm(Startup, rtn)
                 /\ IF rtn THEN mon_pc' = "kick" /\ want' = new
                           ELSE mon_pc' = "probe" /\ want' = want
            ELSE mon_pc' = "probe" /\ DrivePwm(new, rtn) /\ want' = want
  /\ soc_temp' = Missing
  /\ UNCHANGED <<soc, pin, gpio_vars, hdd_temp>>

\* After the sleep.
AdjustAfterKick ==
  /\ mon_pc = "kick"
  /\ \E rtn \in BOOLEAN : DrivePwm(want, rtn)
  /\ mon_pc' = "probe" /\ want' = 0
  /\ UNCHANGED <<soc, pin, gpio_vars, hdd_temp, soc_temp, overheating>>

\* sysmgr is killed, and what it knows is gone.
KillMon ==
  /\ mon_pc # "down"
  /\ mon_pc' = "down" /\ duty' = 0 /\ hdd_temp' = 0 /\ soc_temp' = Missing
  /\ want' = 0 /\ overheating' = 0
  /\ UNCHANGED <<soc, pin, file, gpio_vars>>

Mon == ReadTemps \/ AdjustSpeed \/ AdjustAfterKick

FanNext ==
  \/ (GpioNext \/ TempChanges) /\ UNCHANGED mon_vars
  \/ StartMon \/ Mon \/ KillMon

FanInit == InitGpio /\ InitMon

FanSpec == FanInit /\ [][FanNext]_fan_vars
\* The temperature can be read again and again, two seconds pass, and nobody
\* waits for ever in a loop.
FanFairSpec ==
  /\ FanSpec
  /\ SF_fan_vars(ControlFan /\ UNCHANGED mon_vars)
  /\ SF_fan_vars(CaptureTemp /\ UNCHANGED mon_vars)
  /\ WF_fan_vars(PollFan /\ UNCHANGED mon_vars)
  /\ WF_fan_vars(ReadTemps) /\ WF_fan_vars(AdjustSpeed) /\ WF_fan_vars(AdjustAfterKick)

-----------------------------------------------------------------------------
Warm(t, p) == t > p.temp_setpt + p.temp_step
Cool(t, p) == t + p.temp_step < p.temp_setpt

\* The fan is switched off only by a probe that found every sensor cool (or whose
\* reading failed, which looks like it), whatever stale speed it has read,
\* whichever writes have failed and wherever the processes were killed.
StopsOnlyWhenCool ==
  [][file.fanpercent # 0 /\ file'.fanpercent = 0
       => Cool(soc_temp, Soc) /\ Cool(hdd_temp, Hdd)]_fan_vars

Up == gpio_pc # "down" /\ mon_pc # "down"

\* gpio-mailbox's last reading has not failed, and the files say what they should.
\* A failed reading passes for a cool one, and a lost write is not repeated: the
\* controller is only as good as both, in the end.
Told ==
  /\ cpu_temp # Unread
  /\ file.cpu_temperature = cpu_temp /\ file.fanspeed = fanspeed /\ file.ready = 1

Saved == file.fanpercent = duty

\* If it stays too warm, the fan in the end runs at its full speed, though the
\* speed that sysmgr reads is stale and 0 after each start of gpio-mailbox.
WarmFull ==
  <>[](Up /\ Told /\ Saved /\ Warm(soc, Soc)) => <>[](pin >= Soc.duty_cycle_max)

\* If all stays cool the fan stops in the end.
ColdStops ==
  <>[](Up /\ Told /\ Saved /\ Cool(soc, Soc) /\ Cool(hdd_temp, Hdd))
    => <>[](pin = 0)


TooHot == gpio_pc # "down" /\ soc >= High

\* HIGH_TEMP_OVERRIDE: at this temperature gpio-mailbox alone sets the fan to
\* full speed, whatever sysmgr does or fails to do and whichever files are lost:
\* again and again while some readings fail, and for good once they do not.
FailsafeWorks ==
  /\ <>[]TooHot => []<>(pin = Full)
  /\ <>[](TooHot /\ cpu_temp # Unread) => <>[](pin = Full)

\* A device that stays too hot is powered off, and if that fails again, once
\* readings no longer fail and reach sysmgr.
PowersOff ==
  <>[](Up /\ Told /\ soc >= Soc.temp_overheat) => []<><<Poweroff>>_fan_vars
=============================================================================
