----------------------------- MODULE PowerBoost -----------------------------
(* The power HAL (src/hal/power/power.c).  One binder thread switches the     *)
(* range of the CPU's clock with the display (set_interactive) and answers    *)
(* every touch with a thread that raises the lower limit for two seconds      *)
(* (performance_boost_thread).  The two threads share the buffers max_freq    *)
(* and min_freq; the mutex is held by the binder thread only.                 *)
EXTENDS Integers

CONSTANTS CpuMin, CpuMax    \* what cpuinfo_min_freq and cpuinfo_max_freq say

ASSUME PowerAssumption == CpuMin \in Nat /\ CpuMax \in Nat /\ CpuMin < CpuMax

Freq == CpuMin .. CpuMax
Empty == -1                 \* a buffer nothing was read into yet
Unset == -2                 \* a property nobody has set

VARIABLES hi, lo,           \* max_freq, min_freq: the shared buffers
          maxReq, minReq,   \* what was last written to scaling_max/min_freq
          prop,             \* persist.rpi4.cpufreq.max_freq
          mode,             \* the last call of set_interactive
          hal,              \* where the binder thread is in that call
          boost,            \* where the boost thread is; "none": tid == -1
          due,              \* init has yet to act on a change of prop
          raced,            \* (history) what the call goes by changed under it
          moved             \* (history) init wrote scaling_max_freq since the call

vars == <<hi, lo, maxReq, minReq, prop, mode, hal, boost, due, raced, moved>>

Hals == {"idle", "on", "read", "onWrite", "off", "offWrite"}
Boosts == {"none", "max", "min", "test", "raise", "sleep", "drop"}

Init == /\ hi = Empty /\ lo = Empty
        /\ maxReq = CpuMax /\ minReq = CpuMin
        /\ prop \in Freq \cup {Unset} /\ due = (IF prop = Unset THEN 0 ELSE 1)
        /\ mode = "boot" /\ hal = "idle" /\ boost = "none"
        /\ raced = 0 /\ moved = 0

\* cpufreq keeps both requests, and the range it reports is never empty.
ScalingMax == maxReq
ScalingMin == IF minReq > maxReq THEN maxReq ELSE minReq

\* The buffers are read and written with no lock in common.  A thread that reads
\* max_freq while the other one fills it sees parts of both strings, and the
\* kernel moves the number they make into the CPU's range.
Refilled == \/ hal = "on" /\ hi # CpuMax
            \/ hal = "read" /\ prop \notin {Unset, hi}
Seen == IF Refilled THEN Freq ELSE {hi}

-----------------------------------------------------------------------------
\* set_interactive

Interactive(on) ==
    /\ hal = "idle"
    /\ hal' = IF on THEN "on" ELSE "off"
    /\ mode' = IF on THEN "on" ELSE "off"
    /\ raced' = 0 /\ moved' = 0
    /\ UNCHANGED <<hi, lo, maxReq, minReq, prop, due, boost>>

OnRead == /\ hal = "on"
          /\ hi' = CpuMax
          /\ hal' = "read"
          /\ UNCHANGED <<lo, maxReq, minReq, prop, due, mode, boost, raced, moved>>

\* The buffer is converted to a number, which the property replaces if there is one.
OnProperty == /\ hal = "read"
              /\ hi' = IF prop = Unset THEN hi ELSE prop
              /\ hal' = "onWrite"
              /\ UNCHANGED <<lo, maxReq, minReq, prop, due, mode, boost, raced, moved>>

\* Without a property the number counts that strtoul makes of the buffer while the
\* boost thread may be filling it.
OnPropertyTorn(f) == /\ hal = "read" /\ prop = Unset
                     /\ boost = "max" /\ hi # ScalingMax
                     /\ hi' = f
                     /\ hal' = "onWrite"
                     /\ raced' = 1
                     /\ UNCHANGED <<lo, maxReq, minReq, prop, due, mode, boost, moved>>

\* A limit taken from the wrong buffer (a mutation).
OnWriteMin == /\ hal = "onWrite"
              /\ maxReq' = lo
              /\ hal' = "idle"
              /\ UNCHANGED <<hi, lo, minReq, prop, due, mode, boost, raced, moved>>

OnWrite == /\ hal = "onWrite"
           /\ maxReq' = hi
           /\ hal' = "idle"
           /\ UNCHANGED <<hi, lo, minReq, prop, due, mode, boost, raced, moved>>

OnWriteTorn(f) == /\ hal = "onWrite" /\ boost = "max" /\ hi # ScalingMax
                  /\ maxReq' = f
                  /\ hal' = "idle"
                  /\ raced' = 1
                  /\ UNCHANGED <<hi, lo, minReq, prop, due, mode, boost, moved>>

\* interactive_max_freq is filled here and never read.
OffRead == /\ hal = "off"
           /\ lo' = CpuMin
           /\ hal' = "offWrite"
           /\ UNCHANGED <<hi, maxReq, minReq, prop, due, mode, boost, raced, moved>>

\* A limit taken from the wrong buffer (a mutation).
OffWriteHi == /\ hal = "offWrite"
              /\ maxReq' = hi
              /\ hal' = "idle"
              /\ UNCHANGED <<hi, lo, minReq, prop, due, mode, boost, raced, moved>>

OffWrite == /\ hal = "offWrite"
            /\ maxReq' = lo
            /\ hal' = "idle"
            /\ UNCHANGED <<hi, lo, minReq, prop, due, mode, boost, raced, moved>>

\* The user picks a limit.
SetProperty(f) ==
    /\ f # prop
    /\ prop' = f
    /\ due' = 1
    /\ UNCHANGED <<hi, lo, maxReq, minReq, mode, hal, boost, raced, moved>>

\* on property:persist.rpi4.cpufreq.max_freq=*, whatever the display does.
InitWrites ==
    /\ due = 1
    /\ due' = 0
    /\ maxReq' = prop
    /\ moved' = 1
    /\ raced' = IF hal = "onWrite" THEN 1 ELSE raced
    /\ UNCHANGED <<hi, lo, minReq, prop, mode, hal, boost>>

-----------------------------------------------------------------------------
\* power_hint and its thread

\* A hint that does not look whether a boost is under way (a mutation): the
\* thread that is late has already read both limits.
HintAlways == /\ hal = "idle"
              /\ \/ boost = "none" /\ boost' = "max" /\ UNCHANGED lo
                 \/ boost = "sleep" /\ lo' = ScalingMin /\ boost' = "drop"
              /\ UNCHANGED <<hi, maxReq, minReq, prop, due, mode, hal, raced, moved>>

Hint == /\ hal = "idle" /\ boost = "none"
        /\ boost' = "max"
        /\ UNCHANGED <<hi, lo, maxReq, minReq, prop, due, mode, hal, raced, moved>>

BoostMax == /\ boost = "max"
            /\ hi' = ScalingMax
            /\ boost' = "min"
            /\ raced' = IF hal \in {"read", "onWrite"} THEN 1 ELSE raced
            /\ UNCHANGED <<lo, maxReq, minReq, prop, due, mode, hal, moved>>

BoostMin == /\ boost = "min"
            /\ lo' = ScalingMin
            /\ boost' = "test"
            /\ UNCHANGED <<hi, maxReq, minReq, prop, due, mode, hal, raced, moved>>

\* A thread that leaves early and keeps tid (a mutation).
BoostTestKeeps == /\ boost = "test"
                  /\ boost' = IF lo = hi THEN "test" ELSE "raise"
                  /\ UNCHANGED <<hi, lo, maxReq, minReq, prop, due, mode, hal, raced, moved>>

\* With nothing to raise the thread leaves.
BoostTest == /\ boost = "test"
             /\ \E f \in Seen : boost' = IF lo = f THEN "none" ELSE "raise"
             /\ UNCHANGED <<hi, lo, maxReq, minReq, prop, due, mode, hal, raced, moved>>

BoostRaise == /\ boost = "raise"
              /\ minReq' \in Seen
              /\ boost' = "sleep"
              /\ UNCHANGED <<hi, lo, maxReq, prop, due, mode, hal, raced, moved>>

BoostSleep == /\ boost = "sleep"
              /\ boost' = "drop"
              /\ UNCHANGED <<hi, lo, maxReq, minReq, prop, due, mode, hal, raced, moved>>

BoostDrop == /\ boost = "drop"
             /\ minReq' = lo
             /\ boost' = "none"
             /\ UNCHANGED <<hi, lo, maxReq, prop, due, mode, hal, raced, moved>>

-----------------------------------------------------------------------------
Hal == \/ \E on \in BOOLEAN : Interactive(on)
       \/ OnRead \/ OnProperty \/ OnWrite
       \/ \E f \in Freq : OnPropertyTorn(f) \/ OnWriteTorn(f)
       \/ OffRead \/ OffWrite \/ Hint

Booster == BoostMax \/ BoostMin \/ BoostTest \/ BoostRaise \/ BoostSleep \/ BoostDrop

Next == Hal \/ Booster \/ InitWrites \/ (\E f \in Freq : SetProperty(f))

\* sleep ends and threads are scheduled.
Spec == Init /\ [][Next]_vars /\ WF_vars(Booster)

-----------------------------------------------------------------------------
TypeOK == /\ hi \in Freq \cup {Empty} /\ lo \in Freq \cup {Empty}
          /\ maxReq \in Freq /\ minReq \in Freq /\ prop \in Freq \cup {Unset} /\ due \in {0, 1}
          /\ mode \in {"boot", "on", "off"} /\ hal \in Hals /\ boost \in Boosts
          /\ raced \in {0, 1} /\ moved \in {0, 1}

\* However touches and the display interleave on the shared buffers, no boost
\* outlives its two seconds: with no boost the lower limit is the CPU's own.
NoStuckBoost == boost = "none" => minReq = CpuMin

\* A dark display leaves the clock at its lowest, whatever boosts run, unless
\* init writes the user's limit meanwhile.
DarkIsSlow == mode = "off" /\ hal = "idle" /\ moved = 0 => maxReq = CpuMin

\* What a lit display runs at.
Wanted == IF prop = Unset THEN CpuMax ELSE prop

\* A lit display has the user's limit, but for two races: a boost reads its own
\* limit into max_freq after the call filled it, and init writes a new limit
\* between the call's look at the property and its write.
LitIsUsers == mode = "on" /\ hal = "idle" /\ raced = 0 /\ due = 0 => maxReq = Wanted

\* "set to value of persist.rpi4.cpufreq.max_freq": a lit display has the
\* user's limit if no boost is under way and the user has not touched it.
LitFollowsProperty == mode = "on" /\ hal = "idle" /\ boost = "none" /\ moved = 0 /\ due = 0 => maxReq = Wanted

\* A boost ends on every path, so the next touch can start a new one.
BoostEnds == boost # "none" ~> boost = "none"
=============================================================================
