------------------------------ MODULE Battery ------------------------------
(* The health HAL (src/hal/health/health.cpp).  Its one thread answers        *)
(* getHealthInfo and getCapacity from the properties ttyreader sets, which    *)
(* may change between any two reads of them, as McuProperties says.           *)
EXTENDS McuProperties

CONSTANTS Levels,     \* batteryLevelMapping: pairs <<voltage, level>>
          Voltages    \* averages ttyreader may report

ASSUME BatteryAssumption ==
    /\ Levels \subseteq Nat \X (0 .. 100 \ {99})
    /\ \A l, m \in Levels : l[1] = m[1] => l = m
    /\ Voltages \subseteq Nat

VARIABLES device,                 \* sys.rpi4.device: "cutiepi" or another
          fake,                   \* persist.vendor.fake_battery
          disabled,               \* sys.health.healthloop.disable, 0 or 1
          mLastCapacity,
          pc,                     \* where the thread is
          call,                   \* what it does: UpdateHealthInfo or getCapacity
          read,                   \* the voltage getCapacityImpl read
          info,                   \* the health information being filled in
          answer,                 \* (history) the last result of getCapacityImpl ...
          charging,               \* (history) ... and the charge it was based on
          changed                 \* (history) 1 if ttyreader set a charge since the call began

tty == <<device, mcu>>
batteryVars == <<tty, fake, disabled, mLastCapacity, pc, call, read, info, answer, charging, changed>>

Empty == [present |-> 0, status |-> "unknown", ac |-> 0, level |-> 0]

BatteryInit == /\ device \in {"cutiepi", "other"}
               /\ McuInit
               /\ fake \in {0, 1, 2}
               /\ disabled = 0
               /\ mLastCapacity = 100
               /\ pc = "idle" /\ call = "getCapacity" /\ read = Unset /\ info = Empty
               /\ answer = Unset /\ charging = Unset /\ changed = 0

-----------------------------------------------------------------------------
\* ttyreader runs on a CutiePi only.
Tty == /\ device = "cutiepi" /\ McuNext(Voltages)
       /\ changed' = IF charge' = charge THEN changed ELSE 1
       /\ UNCHANGED <<device, fake, disabled, mLastCapacity, pc, call, read, info, answer, charging>>

-----------------------------------------------------------------------------
Goto(l) == pc' = l

\* calcBatteryLevel: the level of the highest voltage in the table that is
\* exceeded.
calcBatteryLevel(v) == LET below == {l \in Levels : v > l[1]}
                       IN  IF below = {} THEN -1
                             ELSE (CHOOSE l \in below : \A m \in below : m[1] <= l[1])[2]

\* A call of the service.
Call(c) == /\ pc = "idle"
           /\ call' = c /\ info' = Empty /\ changed' = 0
           /\ Goto(IF c = "UpdateHealthInfo" THEN "device" ELSE "voltage")
           /\ UNCHANGED <<tty, fake, disabled, mLastCapacity, read, answer, charging>>

\* A device that is not validated yet is taken for one without a battery (a mutation).
IsBatteryDeviceHasty ==
    /\ pc = "device"
    /\ disabled' = IF device = "cutiepi" /\ valid = 1 THEN disabled ELSE 1
    /\ Goto(IF device = "cutiepi" /\ valid = 1 THEN "ac" ELSE "fake")
    /\ UNCHANGED <<tty, fake, mLastCapacity, call, read, info, answer, charging, changed>>

\* isBatteryDevice: until ttyreader has decided, there is no battery for now;
\* with none for certain the loop is told to stop.
IsBatteryDevice ==
    /\ pc = "device"
    /\ disabled' = IF device # "cutiepi" \/ valid = 0 THEN 1 ELSE disabled
    /\ Goto(IF device = "cutiepi" /\ valid = 1 THEN "ac" ELSE "fake")
    /\ UNCHANGED <<tty, fake, mLastCapacity, call, read, info, answer, charging, changed>>

\* getChargeStatusImpl
Status == IF charge = Unset THEN "unknown" ELSE IF charge = 1 THEN "charging" ELSE "discharging"

Ac == /\ pc = "ac"
      /\ info' = [info EXCEPT !.ac = IF Status = "charging" THEN 1 ELSE 0]
      /\ Goto("status")
      /\ UNCHANGED <<tty, fake, disabled, mLastCapacity, call, read, answer, charging, changed>>

SetStatus == /\ pc = "status"
             /\ info' = [info EXCEPT !.status = Status]
             /\ Goto("present")
             /\ UNCHANGED <<tty, fake, disabled, mLastCapacity, call, read, answer, charging, changed>>

\* Presence that is taken from the charger (a mutation).
SetPresentAc == /\ pc = "present"
                /\ info' = [info EXCEPT !.present = info.ac]
                /\ Goto("voltage")
                /\ UNCHANGED <<tty, fake, disabled, mLastCapacity, call, read, answer, charging, changed>>

SetPresent == /\ pc = "present"
              /\ info' = [info EXCEPT !.present = IF Status # "unknown" THEN 1 ELSE 0]
              /\ Goto("voltage")
              /\ UNCHANGED <<tty, fake, disabled, mLastCapacity, call, read, answer, charging, changed>>

\* getCapacityImpl reads the voltage ...
ReadVoltage == /\ pc = "voltage"
               /\ read' = voltage
               /\ Goto("capacity")
               /\ UNCHANGED <<tty, fake, disabled, mLastCapacity, call, info, answer, charging, changed>>

\* ... and then the charge.  It remembers the capacity also while charging.
Capacity == IF read = Unset THEN -1 ELSE calcBatteryLevel(read)
Capped == IF charge = 0 /\ Capacity > mLastCapacity THEN mLastCapacity ELSE Capacity

\* A capacity that is capped when it is shown but not when it is remembered (a mutation).
RememberRaw == mLastCapacity' = IF Capacity = -1 THEN mLastCapacity ELSE Capacity

Remember == mLastCapacity' = IF Capacity = -1 THEN mLastCapacity ELSE Capped

Shown == IF charge = Unset THEN 100
           ELSE IF charge = 1 THEN 99
           ELSE IF Capacity = -1 THEN 100 ELSE Capped

ReadCapacity ==
    /\ pc = "capacity"
    /\ Remember
    /\ answer' = Shown /\ charging' = charge
    /\ info' = IF call = "UpdateHealthInfo" THEN [info EXCEPT !.level = Shown] ELSE info
    /\ Goto(IF call = "UpdateHealthInfo" THEN "fake" ELSE "idle")
    /\ UNCHANGED <<tty, fake, disabled, call, read, changed>>

\* The end of UpdateHealthInfo: a battery invented for tests.
Fake == /\ pc = "fake"
        /\ info' = CASE fake = 1 -> [present |-> 1, status |-> "discharging", ac |-> info.ac, level |-> 42]
                     [] fake = 2 -> [present |-> 1, status |-> "charging", ac |-> 1, level |-> 42]
                     [] OTHER -> info
        /\ Goto("idle")
        /\ UNCHANGED <<tty, fake, disabled, mLastCapacity, call, read, answer, charging, changed>>

-----------------------------------------------------------------------------
Health == \/ IsBatteryDevice \/ Ac \/ SetStatus \/ SetPresent \/ ReadVoltage
          \/ ReadCapacity \/ Fake

BatteryNext == Tty \/ Health \/ Call("UpdateHealthInfo") \/ Call("getCapacity")

\* A call runs to its end, and the health loop asks again and again until it
\* is disabled.
BatterySpec == /\ BatteryInit /\ [][BatteryNext]_batteryVars
               /\ WF_batteryVars(Health) /\ SF_batteryVars(Call("UpdateHealthInfo") /\ disabled = 0)

-----------------------------------------------------------------------------
\* "it can never get higher if we are not charging": two answers in a row that
\* were given with no charger, the second from a voltage the table knows.
NeverHigher == [][pc = "capacity" /\ charging = 0 /\ charge = 0 /\ Capacity # -1
                    => answer' <= answer]_batteryVars

\* A report is about one charge unless ttyreader changed it during the call: the
\* charger, the status, the presence and the level agree.  Also one that was torn
\* by a change has no charger without a status and no status without a battery.
Consistent ==
    pc = "fake" =>
      /\ info.ac = 1 => info.status # "unknown"
      /\ info.status # "unknown" => info.present = 1
      /\ changed = 0 /\ info # Empty =>
           /\ info.ac = 1 <=> info.status = "charging"
           /\ info.present = 1 <=> info.status # "unknown"
           /\ info.status = "charging" <=> info.level = 99

\* A battery that is there and whose charge is known comes to be reported.
Reported == pc = "idle" /\ call = "UpdateHealthInfo" /\ info.present = 1
BatteryAppears == valid = 1 /\ charge # Unset ~> Reported
=============================================================================
