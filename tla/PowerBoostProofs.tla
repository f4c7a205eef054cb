-------------------------- MODULE PowerBoostProofs --------------------------
(* What PowerBoost promises, for every range of the CPU's clock.             *)
EXTENDS PowerBoost, TLAPS

\* What each thread knows of the buffers at each of its places.  The lower
\* limit is raised only between raise and drop, so every read of it by the one
\* boost there is, and every fill of min_freq by a dark display, gives CpuMin:
\* that is why sharing min_freq does no harm, while max_freq is known to hold
\* the user's limit only as long as nothing raced.
Buffers ==
    /\ lo \in {Empty, CpuMin}
    /\ boost \in {"test", "raise", "sleep", "drop"} => lo = CpuMin
    /\ hal = "offWrite" => lo = CpuMin
    /\ boost \in {"min", "test", "raise"} => hi \in Freq
    /\ hal \in {"read", "onWrite"} => hi \in Freq
Limits ==
    /\ boost \notin {"sleep", "drop"} => minReq = CpuMin
    /\ hal = "read" /\ raced = 0 /\ prop = Unset => hi = CpuMax
    /\ hal = "onWrite" /\ raced = 0 /\ due = 0 => hi = Wanted
Calls ==
    /\ hal \in {"on", "read", "onWrite"} => mode = "on"
    /\ hal \in {"off", "offWrite"} => mode = "off"
    /\ due = 1 => prop \in Freq

IInv == TypeOK /\ Buffers /\ Limits /\ Calls /\ DarkIsSlow /\ LitIsUsers
\* A range a buffer may be compared with.
LEMMA FreqFacts == /\ CpuMin \in Freq /\ CpuMax \in Freq
                   /\ Empty \notin Freq /\ Unset \notin Freq
                   /\ Empty # Unset
                   /\ \A f \in Freq : f \in Int /\ f >= CpuMin /\ f <= CpuMax
  BY PowerAssumption DEF PowerAssumption, Freq, Empty, Unset

\* The power HAL starts with nothing in its buffers and the kernel's range.
LEMMA InitEstablishes == Init => IInv
  BY FreqFacts DEF Init, IInv, TypeOK, Buffers, Limits, Calls, DarkIsSlow, LitIsUsers, Hals, Boosts

\* Every step of either thread, of init and of the user keeps it.
LEMMA StepPreserves == IInv /\ [Next]_vars => IInv'
<1>. SUFFICES ASSUME IInv, [Next]_vars PROVE IInv'
  OBVIOUS
<1>. USE FreqFacts DEF IInv
<1>1. CASE \E on \in BOOLEAN : Interactive(on)
  <2>. PICK on \in BOOLEAN : Interactive(on) BY <1>1
  <2>1. TypeOK'
    BY DEF Interactive, TypeOK, Hals, Boosts
  <2>2. Buffers'
    BY DEF Interactive, TypeOK, Buffers, Limits
  <2>3. Limits'
    BY DEF Interactive, TypeOK, Buffers, Limits, Calls, Wanted
  <2>4. Calls'
    BY DEF Interactive, TypeOK, Calls
  <2>5. DarkIsSlow'
    BY DEF Interactive, TypeOK, DarkIsSlow, Calls, Buffers
  <2>6. LitIsUsers'
    BY DEF Interactive, TypeOK, LitIsUsers, Calls, Limits, Wanted
  <2>. QED BY <2>1, <2>2, <2>3, <2>4, <2>5, <2>6
<1>2. CASE OnRead
  <2>1. TypeOK'
    BY <1>2 DEF OnRead, TypeOK, Hals, Boosts
  <2>2. Buffers'
    BY <1>2 DEF OnRead, TypeOK, Buffers, Limits
  <2>3. Limits'
    BY <1>2 DEF OnRead, TypeOK, Buffers, Limits, Calls, Wanted
  <2>4. Calls'
    BY <1>2 DEF OnRead, TypeOK, Calls
  <2>5. DarkIsSlow'
    BY <1>2 DEF OnRead, TypeOK, DarkIsSlow, Calls, Buffers
  <2>6. LitIsUsers'
    BY <1>2 DEF OnRead, TypeOK, LitIsUsers, Calls, Limits, Wanted
  <2>. QED BY <2>1, <2>2, <2>3, <2>4, <2>5, <2>6
<1>3. CASE OnProperty
  <2>1. TypeOK'
    BY <1>3 DEF OnProperty, TypeOK, Hals, Boosts
  <2>2. Buffers'
    BY <1>3 DEF OnProperty, TypeOK, Buffers, Limits
  <2>3. Limits'
    BY <1>3 DEF OnProperty, TypeOK, Buffers, Limits, Calls, Wanted
  <2>4. Calls'
    BY <1>3 DEF OnProperty, TypeOK, Calls
  <2>5. DarkIsSlow'
    BY <1>3 DEF OnProperty, TypeOK, DarkIsSlow, Calls, Buffers
  <2>6. LitIsUsers'
    BY <1>3 DEF OnProperty, TypeOK, LitIsUsers, Calls, Limits, Wanted
  <2>. QED BY <2>1, <2>2, <2>3, <2>4, <2>5, <2>6
<1>4. CASE OnWrite
  <2>1. TypeOK'
    BY <1>4 DEF OnWrite, TypeOK, Buffers, Calls, Hals, Boosts
  <2>2. Buffers'
    BY <1>4 DEF OnWrite, TypeOK, Buffers, Limits
  <2>3. Limits'
    BY <1>4 DEF OnWrite, TypeOK, Buffers, Limits, Calls, Wanted
  <2>4. Calls'
    BY <1>4 DEF OnWrite, TypeOK, Calls
  <2>5. DarkIsSlow'
    BY <1>4 DEF OnWrite, TypeOK, DarkIsSlow, Calls, Buffers
  <2>6. LitIsUsers'
    BY <1>4 DEF OnWrite, TypeOK, LitIsUsers, Calls, Limits, Wanted
  <2>. QED BY <2>1, <2>2, <2>3, <2>4, <2>5, <2>6
<1>5. CASE \E f \in Freq : OnWriteTorn(f)
  <2>. PICK f \in Freq : OnWriteTorn(f) BY <1>5
  <2>1. TypeOK'
    BY DEF OnWriteTorn, TypeOK, Hals, Boosts
  <2>2. Buffers'
    BY DEF OnWriteTorn, TypeOK, Buffers, Limits
  <2>3. Limits'
    BY DEF OnWriteTorn, TypeOK, Buffers, Limits, Calls, Wanted
  <2>4. Calls'
    BY DEF OnWriteTorn, TypeOK, Calls
  <2>5. DarkIsSlow'
    BY DEF OnWriteTorn, TypeOK, DarkIsSlow, Calls, Buffers
  <2>6. LitIsUsers'
    BY DEF OnWriteTorn, TypeOK, LitIsUsers, Calls, Limits, Wanted
  <2>. QED BY <2>1, <2>2, <2>3, <2>4, <2>5, <2>6
<1>6. CASE OffRead
  <2>1. TypeOK'
    BY <1>6 DEF OffRead, TypeOK, Hals, Boosts
  <2>2. Buffers'
    BY <1>6 DEF OffRead, TypeOK, Buffers, Limits
  <2>3. Limits'
    BY <1>6 DEF OffRead, TypeOK, Buffers, Limits, Calls, Wanted
  <2>4. Calls'
    BY <1>6 DEF OffRead, TypeOK, Calls
  <2>5. DarkIsSlow'
    BY <1>6 DEF OffRead, TypeOK, DarkIsSlow, Calls, Buffers
  <2>6. LitIsUsers'
    BY <1>6 DEF OffRead, TypeOK, LitIsUsers, Calls, Limits, Wanted
  <2>. QED BY <2>1, <2>2, <2>3, <2>4, <2>5, <2>6
<1>7. CASE OffWrite
  <2>1. TypeOK'
    BY <1>7 DEF OffWrite, TypeOK, Buffers, Calls, Hals, Boosts
  <2>2. Buffers'
    BY <1>7 DEF OffWrite, TypeOK, Buffers, Limits
  <2>3. Limits'
    BY <1>7 DEF OffWrite, TypeOK, Buffers, Limits, Calls, Wanted
  <2>4. Calls'
    BY <1>7 DEF OffWrite, TypeOK, Calls
  <2>5. DarkIsSlow'
    BY <1>7 DEF OffWrite, TypeOK, DarkIsSlow, Calls, Buffers
  <2>6. LitIsUsers'
    BY <1>7 DEF OffWrite, TypeOK, LitIsUsers, Calls, Limits, Wanted
  <2>. QED BY <2>1, <2>2, <2>3, <2>4, <2>5, <2>6
<1>8. CASE Hint
  <2>1. TypeOK'
    BY <1>8 DEF Hint, TypeOK, Hals, Boosts
  <2>2. Buffers'
    BY <1>8 DEF Hint, TypeOK, Buffers, Limits
  <2>3. Limits'
    BY <1>8 DEF Hint, TypeOK, Buffers, Limits, Calls, Wanted
  <2>4. Calls'
    BY <1>8 DEF Hint, TypeOK, Calls
  <2>5. DarkIsSlow'
    BY <1>8 DEF Hint, TypeOK, DarkIsSlow, Calls, Buffers
  <2>6. LitIsUsers'
    BY <1>8 DEF Hint, TypeOK, LitIsUsers, Calls, Limits, Wanted
  <2>. QED BY <2>1, <2>2, <2>3, <2>4, <2>5, <2>6
<1>9. CASE BoostMax
  <2>1. TypeOK'
    BY <1>9 DEF BoostMax, ScalingMax, TypeOK, Hals, Boosts
  <2>2. Buffers'
    BY <1>9 DEF BoostMax, ScalingMax, TypeOK, Buffers, Limits
  <2>3. Limits'
    BY <1>9 DEF BoostMax, ScalingMax, TypeOK, Buffers, Limits, Calls, Wanted
  <2>4. Calls'
    BY <1>9 DEF BoostMax, ScalingMax, TypeOK, Calls
  <2>5. DarkIsSlow'
    BY <1>9 DEF BoostMax, ScalingMax, TypeOK, DarkIsSlow, Calls, Buffers
  <2>6. LitIsUsers'
    BY <1>9 DEF BoostMax, ScalingMax, TypeOK, LitIsUsers, Calls, Limits, Wanted
  <2>. QED BY <2>1, <2>2, <2>3, <2>4, <2>5, <2>6
<1>10. CASE BoostMin
  <2>1. TypeOK'
    BY <1>10 DEF BoostMin, ScalingMin, TypeOK, Hals, Boosts
  <2>2. Buffers'
    BY <1>10 DEF BoostMin, ScalingMin, TypeOK, Buffers, Limits
  <2>3. Limits'
    BY <1>10 DEF BoostMin, ScalingMin, TypeOK, Buffers, Limits, Calls, Wanted
  <2>4. Calls'
    BY <1>10 DEF BoostMin, ScalingMin, TypeOK, Calls
  <2>5. DarkIsSlow'
    BY <1>10 DEF BoostMin, ScalingMin, TypeOK, DarkIsSlow, Calls, Buffers
  <2>6. LitIsUsers'
    BY <1>10 DEF BoostMin, ScalingMin, TypeOK, LitIsUsers, Calls, Limits, Wanted
  <2>. QED BY <2>1, <2>2, <2>3, <2>4, <2>5, <2>6
<1>11. CASE BoostTest
  <2>1. TypeOK'
    BY <1>11 DEF BoostTest, TypeOK, Hals, Boosts
  <2>2. Buffers'
    BY <1>11 DEF BoostTest, TypeOK, Buffers, Limits
  <2>3. Limits'
    BY <1>11 DEF BoostTest, TypeOK, Buffers, Limits, Calls, Wanted
  <2>4. Calls'
    BY <1>11 DEF BoostTest, TypeOK, Calls
  <2>5. DarkIsSlow'
    BY <1>11 DEF BoostTest, TypeOK, DarkIsSlow, Calls, Buffers
  <2>6. LitIsUsers'
    BY <1>11 DEF BoostTest, TypeOK, LitIsUsers, Calls, Limits, Wanted
  <2>. QED BY <2>1, <2>2, <2>3, <2>4, <2>5, <2>6
<1>12. CASE BoostRaise
  <2>1. TypeOK'
    BY <1>12 DEF BoostRaise, Seen, Refilled, TypeOK, Buffers, Calls, Hals, Boosts
  <2>2. Buffers'
    BY <1>12 DEF BoostRaise, Seen, Refilled, TypeOK, Buffers, Limits
  <2>3. Limits'
    BY <1>12 DEF BoostRaise, Seen, Refilled, TypeOK, Buffers, Limits, Calls, Wanted
  <2>4. Calls'
    BY <1>12 DEF BoostRaise, Seen, Refilled, TypeOK, Calls
  <2>5. DarkIsSlow'
    BY <1>12 DEF BoostRaise, Seen, Refilled, TypeOK, DarkIsSlow, Calls, Buffers
  <2>6. LitIsUsers'
    BY <1>12 DEF BoostRaise, Seen, Refilled, TypeOK, LitIsUsers, Calls, Limits, Wanted
  <2>. QED BY <2>1, <2>2, <2>3, <2>4, <2>5, <2>6
<1>13. CASE BoostSleep
  <2>1. TypeOK'
    BY <1>13 DEF BoostSleep, TypeOK, Hals, Boosts
  <2>2. Buffers'
    BY <1>13 DEF BoostSleep, TypeOK, Buffers, Limits
  <2>3. Limits'
    BY <1>13 DEF BoostSleep, TypeOK, Buffers, Limits, Calls, Wanted
  <2>4. Calls'
    BY <1>13 DEF BoostSleep, TypeOK, Calls
  <2>5. DarkIsSlow'
    BY <1>13 DEF BoostSleep, TypeOK, DarkIsSlow, Calls, Buffers
  <2>6. LitIsUsers'
    BY <1>13 DEF BoostSleep, TypeOK, LitIsUsers, Calls, Limits, Wanted
  <2>. QED BY <2>1, <2>2, <2>3, <2>4, <2>5, <2>6
<1>14. CASE BoostDrop
  <2>1. TypeOK'
    BY <1>14 DEF BoostDrop, TypeOK, Buffers, Calls, Hals, Boosts
  <2>2. Buffers'
    BY <1>14 DEF BoostDrop, TypeOK, Buffers, Limits
  <2>3. Limits'
    BY <1>14 DEF BoostDrop, TypeOK, Buffers, Limits, Calls, Wanted
  <2>4. Calls'
    BY <1>14 DEF BoostDrop, TypeOK, Calls
  <2>5. DarkIsSlow'
    BY <1>14 DEF BoostDrop, TypeOK, DarkIsSlow, Calls, Buffers
  <2>6. LitIsUsers'
    BY <1>14 DEF BoostDrop, TypeOK, LitIsUsers, Calls, Limits, Wanted
  <2>. QED BY <2>1, <2>2, <2>3, <2>4, <2>5, <2>6
<1>15. CASE InitWrites
  <2>1. TypeOK'
    BY <1>15 DEF InitWrites, TypeOK, Buffers, Calls, Hals, Boosts
  <2>2. Buffers'
    BY <1>15 DEF InitWrites, TypeOK, Buffers, Limits
  <2>3. Limits'
    BY <1>15 DEF InitWrites, TypeOK, Buffers, Limits, Calls, Wanted
  <2>4. Calls'
    BY <1>15 DEF InitWrites, TypeOK, Calls
  <2>5. DarkIsSlow'
    BY <1>15 DEF InitWrites, TypeOK, DarkIsSlow, Calls, Buffers
  <2>6. LitIsUsers'
    BY <1>15 DEF InitWrites, TypeOK, LitIsUsers, Calls, Limits, Wanted
  <2>. QED BY <2>1, <2>2, <2>3, <2>4, <2>5, <2>6
<1>16. CASE \E f \in Freq : SetProperty(f)
  <2>. PICK f \in Freq : SetProperty(f) BY <1>16
  <2>1. TypeOK'
    BY DEF SetProperty, TypeOK, Hals, Boosts
  <2>2. Buffers'
    BY DEF SetProperty, TypeOK, Buffers, Limits
  <2>3. Limits'
    BY DEF SetProperty, TypeOK, Buffers, Limits, Calls, Wanted
  <2>4. Calls'
    BY DEF SetProperty, TypeOK, Calls
  <2>5. DarkIsSlow'
    BY DEF SetProperty, TypeOK, DarkIsSlow, Calls, Buffers
  <2>6. LitIsUsers'
    BY DEF SetProperty, TypeOK, LitIsUsers, Calls, Limits, Wanted
  <2>. QED BY <2>1, <2>2, <2>3, <2>4, <2>5, <2>6
<1>17. CASE UNCHANGED vars
  <2>1. TypeOK'
    BY <1>17 DEF vars, TypeOK, Hals, Boosts
  <2>2. Buffers'
    BY <1>17 DEF vars, TypeOK, Buffers, Limits
  <2>3. Limits'
    BY <1>17 DEF vars, TypeOK, Buffers, Limits, Calls, Wanted
  <2>4. Calls'
    BY <1>17 DEF vars, TypeOK, Calls
  <2>5. DarkIsSlow'
    BY <1>17 DEF vars, TypeOK, DarkIsSlow, Calls, Buffers
  <2>6. LitIsUsers'
    BY <1>17 DEF vars, TypeOK, LitIsUsers, Calls, Limits, Wanted
  <2>. QED BY <2>1, <2>2, <2>3, <2>4, <2>5, <2>6
<1>18. CASE \E f \in Freq : OnPropertyTorn(f)
  <2>. PICK f \in Freq : OnPropertyTorn(f) BY <1>18
  <2>1. TypeOK'
    BY DEF OnPropertyTorn, TypeOK, Hals, Boosts
  <2>2. Buffers'
    BY DEF OnPropertyTorn, TypeOK, Buffers, Limits
  <2>3. Limits'
    BY DEF OnPropertyTorn, TypeOK, Buffers, Limits, Calls, Wanted
  <2>4. Calls'
    BY DEF OnPropertyTorn, TypeOK, Calls
  <2>5. DarkIsSlow'
    BY DEF OnPropertyTorn, TypeOK, DarkIsSlow, Calls, Buffers
  <2>6. LitIsUsers'
    BY DEF OnPropertyTorn, TypeOK, LitIsUsers, Calls, Limits, Wanted
  <2>. QED BY <2>1, <2>2, <2>3, <2>4, <2>5, <2>6
<1>. QED BY <1>1, <1>2, <1>3, <1>4, <1>5, <1>6, <1>7, <1>8, <1>9, <1>10, <1>11, <1>12, <1>13, <1>14, <1>15, <1>16, <1>17, <1>18 DEF Next, Hal, Booster

\* The buffers, the limits and the two threads' places stay consistent.
THEOREM Inductive == Spec => []IInv
<1>1. Init => IInv BY InitEstablishes
<1>2. IInv /\ [Next]_vars => IInv' BY StepPreserves
<1>. QED BY <1>1, <1>2, PTL DEF Spec

\* Every value read, requested or set is one the CPU has.
THEOREM Typing == Spec => []TypeOK
<1>1. IInv => TypeOK BY DEF IInv
<1>. QED BY <1>1, Inductive, PTL

\* power_hint and set_interactive share min_freq without a lock, and still no
\* boost leaves the lower limit raised.
THEOREM BoostSafety == Spec => []NoStuckBoost
<1>1. IInv => NoStuckBoost BY DEF IInv, Limits, NoStuckBoost
<1>. QED BY <1>1, Inductive, PTL

\* set_interactive(false) leaves the CPU at its lowest clock.
THEOREM DarkSafety == Spec => []DarkIsSlow
<1>1. IInv => DarkIsSlow BY DEF IInv
<1>. QED BY <1>1, Inductive, PTL

\* set_interactive(true) leaves the user's limit unless one of two races happens.
THEOREM LitSafety == Spec => []LitIsUsers
<1>1. IInv => LitIsUsers BY DEF IInv
<1>. QED BY <1>1, Inductive, PTL
=============================================================================
