----------------------------- MODULE FanParams -----------------------------
(***************************************************************************)
(* The parameters of the fan of every model of the device, from the tables *)
(* of src/sysmgr/peripheral/fancontrol.cc and platform.cc.  A device has   *)
(* up to three sensors: the processor ("soc"), the disk ("hdd") and the    *)
(* Wi-Fi chip ("aux1").  Temperatures are in degrees, duty cycles in       *)
(* percent.                                                                *)
(***************************************************************************)
EXTENDS Naturals

\* A FanControlParams.
Params(setpt, max, step, dmin, dmax, pwm, overheat) ==
  [temp_setpt |-> setpt, temp_max |-> max, temp_step |-> step,
   duty_cycle_min |-> dmin, duty_cycle_max |-> dmax, pwm_step |-> pwm,
   temp_overheat |-> overheat]

GFMS100 == [soc |-> Params(90, 100, 2, 25, 100, 1, 120),
            hdd |-> Params(56, 60, 2, 25, 100, 1, 120)]
GFRG200 == [soc |-> Params(82, 92, 2, 30, 100, 1, 105)]
GFRG210 == [soc |-> Params(86, 94, 2, 30, 100, 1, 105),
            hdd |-> Params(56, 60, 2, 30, 100, 1, 105)]
GFRG250 == [soc |-> Params(76, 88, 3, 30, 100, 2, 105),
            hdd |-> Params(55, 60, 2, 30, 100, 1, 105),
            aux1 |-> Params(90, 109, 9, 30, 100, 2, 120)]
GFSC100 == [soc |-> Params(86, 94, 2, 30, 100, 1, 105),
            hdd |-> Params(56, 60, 2, 30, 100, 1, 105)]
GFHD100 == [soc |-> Params(90, 100, 2, 12, 40, 1, 120)]
GFHD254 == [soc |-> Params(88, 105, 3, 25, 100, 2, 120),
            aux1 |-> Params(94, 110, 3, 25, 100, 2, 120)]

\* The models with a fan.
WithFan == {GFMS100, GFRG200, GFRG210, GFRG250, GFSC100, GFHD100, GFHD254}

\* What the control of the fan relies on, of the parameters of one sensor with
\* duty cycles of at most `full' and a kick of `startup' to start the fan.
Sane(p, startup, full) ==
  /\ p \in [{"temp_setpt", "temp_max", "temp_step", "duty_cycle_min",
             "duty_cycle_max", "pwm_step", "temp_overheat"} -> Nat]
  /\ p.temp_step <= p.temp_setpt
  /\ p.temp_setpt + p.temp_step <= p.temp_max
  /\ p.temp_max < p.temp_overheat
  /\ 0 < p.duty_cycle_min /\ p.duty_cycle_min <= p.duty_cycle_max
  /\ p.duty_cycle_max <= full /\ p.duty_cycle_min <= startup /\ startup <= full
  /\ 0 < p.pwm_step

ASSUME TablesSane ==
  \A m \in WithFan : \A s \in DOMAIN m : Sane(m[s], 50, 100)
=============================================================================
