------------------------------- MODULE CutiePi -------------------------------
(* A CutiePi's battery from the wire to the report: ttyreader and the health  *)
(* HAL, two processes that meet in the properties sys.rpi4.ttyreader.* alone. *)
(* Battery knows ttyreader only by McuProperties; here is the one of the code,*)
(* and what Battery has as constant Voltages is any number.                   *)
EXTENDS TtyReader, Battery

healthVars == <<device, fake, disabled, mLastCapacity, pc, call, read, info, answer, charging>>

CutieInit == Init /\ BatteryInit

\* ttyreader, which init starts on a CutiePi only.
ReaderStep == /\ device = "cutiepi" /\ Reader
              /\ changed' = IF charge' = charge THEN changed ELSE 1
              /\ UNCHANGED healthVars

\* The health HAL and its callers.
HealthStep == /\ Health \/ Call("UpdateHealthInfo") \/ Call("getCapacity")
              /\ UNCHANGED vars

CutieNext == ReaderStep \/ HealthStep

CutieSpec == CutieInit /\ [][CutieNext]_<<vars, healthVars, changed>>

-----------------------------------------------------------------------------
\* What the health HAL makes a level of lies between voltages that were measured,
\* however old it is by then, if no broken frame was reported.
LevelMeasured ==
    read # Unset /\ (\A i \in DOMAIN heard : heard[i].gap = 0) =>
      \E low, high \in {sent[heard[i].frame] : i \in DOMAIN heard} :
         /\ low.cmd = VOLTAGE /\ high.cmd = VOLTAGE
         /\ Value(low) <= read /\ read <= Value(high)
=============================================================================
