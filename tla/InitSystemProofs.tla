-------------------------- MODULE InitSystemProofs --------------------------
(* Proofs about BootSwitch and about InitSystem, which composes it with       *)
(* AudioRoute: for any number of shells, whichever configuration is the       *)
(* longer file, any set of boards and outputs and any number of changes.      *)
(* What a calm request to boot needs is that at any moment it is either still *)
(* with init, or with the only script that runs, or done; and that the kernel *)
(* has nothing to write while the partition is not mounted.  The composition  *)
(* implements BootSwitch, so this holds in it; and the invariant of the       *)
(* sound's route says what init still has to do when the arguments of         *)
(* alsa_loop are old.                                                         *)
EXTENDS InitSystem, TLAPS

Places == {"idle", "mount", "open", "write", "umount"}

TypeInv == /\ pc \in [Scripts -> Places]
           /\ arg \in [Scripts -> Modes]
           /\ \A m \in Modes : arg[m] = m
           /\ asked \in Modes
           /\ mounted \in {0, 1} /\ calm \in {0, 1}

\* Something that will unmount it runs while the partition is mounted, and only
\* a mounted partition is written.
MountInv == /\ mounted = 1 => \E p \in Scripts : pc[p] \in {"open", "write", "umount"}
            /\ mounted = 0 => file = disk /\ \A p \in Scripts : pc[p] # "write"

OffInv == os \notin Modes => events = <<>> /\ pc = Idle

\* The request is with init.
Waiting == /\ pc = Idle
           /\ events = <<asked>> \/ (events = <<"1recovery">> /\ asked = "recovery")

\* The request is with script p, and nothing else is under way.
Alone(p) == /\ events = <<>>
            /\ pc[p] # "idle" /\ arg[p] = asked
            /\ \A q \in Scripts : q # p => pc[q] = "idle"
            /\ pc[p] # "mount" => mounted = 1
            /\ pc[p] = "write" => file = "partial"
            /\ pc[p] = "umount" => file = asked

CalmInv == os \in Modes /\ calm = 1 =>
             Waiting \/ (Quiet /\ disk = asked) \/ \E p \in Scripts : Alone(p)

IInv == TypeInv /\ MountInv /\ OffInv /\ CalmInv

-----------------------------------------------------------------------------
LEMMA ModesAreScripts == Modes \subseteq Scripts
  BY DEF Scripts

LEMMA NotIdle == ASSUME TypeInv, pc # Idle PROVE \E p \in Scripts : pc[p] # "idle"
  BY DEF TypeInv, Idle

LEMMA AllIdle == ASSUME TypeInv PROVE pc = Idle <=> \A p \in Scripts : pc[p] = "idle"
  BY DEF TypeInv, Idle

\* A copy over a truncated file, or over its own, leaves that file.
LEMMA CopyOver == ASSUME NEW m \in Modes PROVE Over("partial", m) = m
  BY BootAssumption DEF BootAssumption, Over, Modes

LEMMA InitInductive == Init => IInv
<1> SUFFICES ASSUME Init PROVE IInv
  OBVIOUS
<1>1. TypeInv
  <2>1. pc \in [Scripts -> Places]
    BY DEF Init, Idle, Places
  <2>2. arg \in [Scripts -> Modes] /\ \A m \in Modes : arg[m] = m
    BY DEF Init, Modes, Scripts
  <2>3. asked \in Modes /\ mounted \in {0, 1} /\ calm \in {0, 1}
    BY DEF Init, Modes
  <2> QED BY <2>1, <2>2, <2>3 DEF TypeInv
<1>2. MountInv /\ OffInv
  BY DEF Init, MountInv, OffInv, Idle
<1>3. CalmInv
  BY DEF Init, CalmInv, Modes
<1> QED BY <1>1, <1>2, <1>3 DEF IInv

LEMMA TypeStep == TypeInv /\ [Next]_vars => TypeInv'
<1> SUFFICES ASSUME TypeInv, [Next]_vars PROVE TypeInv'
  OBVIOUS
<1> USE ModesAreScripts DEF TypeInv, Places
<1>1. CASE PowerOn
  BY <1>1 DEF PowerOn, Modes
<1>2. CASE Reboot \/ PowerCut \/ Leave
  BY <1>2 DEF Reboot, PowerCut, Leave, Down, Idle
<1>3. CASE WriteBack \/ Repair
  BY <1>3 DEF WriteBack, Repair
<1>4. ASSUME NEW m \in Modes, SetMode(m) PROVE TypeInv'
  BY <1>4 DEF SetMode, Ask
<1>5. CASE ShutdownRequested
  BY <1>5 DEF ShutdownRequested, Ask, Modes
<1>6. ASSUME NEW m \in Modes, NEW p \in Shells, Shell(p, m) PROVE TypeInv'
  BY <1>6, BootAssumption DEF BootAssumption, Shell, Ask, Scripts
<1>7. ASSUME NEW b \in BOOLEAN, Return(b) PROVE TypeInv'
  BY <1>7 DEF Return, Ask, Modes
<1>8. CASE Trigger
  BY <1>8 DEF Trigger, StartService
<1>9. CASE TriggerShutdown
  BY <1>9 DEF TriggerShutdown
<1>10. ASSUME NEW p \in Scripts, Script(p) PROVE TypeInv'
  BY <1>10 DEF Script, Mount, Open, Write, Umount, Goto
<1>11. CASE UNCHANGED vars
  BY <1>11 DEF vars
<1> QED BY <1>1, <1>2, <1>3, <1>4, <1>5, <1>6, <1>7, <1>8, <1>9, <1>10, <1>11
    DEF Next, Board, Asks

\* What a script that is not under way yet does to the partition: nothing.
LEMMA MountStep == TypeInv /\ MountInv /\ OffInv /\ [Next]_vars => MountInv'
<1> SUFFICES ASSUME TypeInv, MountInv, OffInv, [Next]_vars PROVE MountInv'
  OBVIOUS
<1> USE ModesAreScripts DEF MountInv
<1>1. CASE PowerOn \/ TriggerShutdown \/ UNCHANGED vars
  BY <1>1 DEF PowerOn, TriggerShutdown, vars
<1>2. CASE Reboot \/ PowerCut \/ Leave
  BY <1>2 DEF Reboot, PowerCut, Leave, Down, Idle
<1>3. CASE WriteBack
  BY <1>3 DEF WriteBack, TypeInv
<1>4. CASE Repair
  <2>1. \A p \in Scripts : pc[p] = "idle"
    BY <1>4, AllIdle DEF Repair, OffInv, Modes
  <2> QED BY <1>4, <2>1 DEF Repair
<1>5. ASSUME NEW m \in Modes, SetMode(m) PROVE MountInv'
  BY <1>5 DEF SetMode
<1>6. CASE ShutdownRequested
  BY <1>6 DEF ShutdownRequested
<1>7. ASSUME NEW m \in Modes, NEW p \in Shells, Shell(p, m) PROVE MountInv'
  BY <1>7 DEF Shell, Scripts, TypeInv
<1>8. ASSUME NEW b \in BOOLEAN, Return(b) PROVE MountInv'
  BY <1>8, AllIdle DEF Return, TypeInv, Modes
<1>9. CASE Trigger
  BY <1>9 DEF Trigger, StartService, TypeInv
<1>10. ASSUME NEW p \in Scripts, Mount(p) PROVE MountInv'
  BY <1>10 DEF Mount, Goto, TypeInv
<1>11. ASSUME NEW p \in Scripts, Open(p) PROVE MountInv'
  BY <1>11 DEF Open, Goto, TypeInv
<1>12. ASSUME NEW p \in Scripts, Write(p) PROVE MountInv'
  BY <1>12 DEF Write, Goto, TypeInv
<1>13. ASSUME NEW p \in Scripts, Umount(p) PROVE MountInv'
  BY <1>13 DEF Umount, Goto, TypeInv
<1> QED BY <1>1, <1>2, <1>3, <1>4, <1>5, <1>6, <1>7, <1>8, <1>9, <1>10, <1>11, <1>12, <1>13
    DEF Next, Board, Asks, Script

LEMMA OffStep == OffInv /\ [Next]_vars => OffInv'
<1> SUFFICES ASSUME OffInv, [Next]_vars PROVE OffInv'
  OBVIOUS
<1> USE DEF OffInv, Modes
<1>1. CASE PowerOn
  BY <1>1 DEF PowerOn
<1>2. CASE Reboot \/ PowerCut \/ Leave
  BY <1>2 DEF Reboot, PowerCut, Leave, Down
<1>3. CASE WriteBack \/ Repair \/ Trigger \/ TriggerShutdown \/ UNCHANGED vars
  BY <1>3 DEF WriteBack, Repair, Trigger, TriggerShutdown, vars
<1>4. CASE Asks
  BY <1>4 DEF Asks, SetMode, ShutdownRequested, Shell, Return
<1>5. ASSUME NEW p \in Scripts, Script(p) PROVE OffInv'
  <2>1. UNCHANGED <<os, events>>
    BY <1>5 DEF Script, Mount, Open, Write, Umount
  <2>2. pc # Idle
    BY <1>5 DEF Script, Mount, Open, Write, Umount, Idle
  <2> QED BY <2>1, <2>2
<1> QED BY <1>1, <1>2, <1>3, <1>4, <1>5 DEF Next, Board

LEMMA CalmStep == IInv /\ [Next]_vars => CalmInv'
<1> SUFFICES ASSUME IInv, [Next]_vars PROVE CalmInv'
  OBVIOUS
<1>t. TypeInv /\ MountInv /\ OffInv /\ CalmInv /\ TypeInv'
  BY TypeStep DEF IInv
<1>q. pc = Idle => mounted = 0 /\ file = disk
  BY <1>t, AllIdle DEF MountInv, TypeInv
<1>1. CASE PowerOn
  BY <1>1, <1>t DEF PowerOn, CalmInv, Waiting, OffInv, Quiet, Modes
<1>2. CASE Reboot \/ PowerCut \/ Leave \/ Repair
  BY <1>2 DEF Reboot, PowerCut, Leave, Down, Repair, CalmInv, Modes
<1>3. CASE WriteBack
  <2>1. pc # Idle
    BY <1>3, <1>q DEF WriteBack
  <2> QED BY <1>3, <1>t, <2>1 DEF WriteBack, CalmInv, Waiting, Quiet, Alone
<1>4. ASSUME NEW m \in Modes, SetMode(m) PROVE CalmInv'
  <2>1. CASE Quiet
    <3>1. events' = <<m>> /\ asked' = m /\ pc' = Idle
      BY <1>4, <2>1 DEF SetMode, Ask, Quiet
    <3> QED BY <3>1 DEF CalmInv, Waiting, Idle
  <2>2. CASE ~Quiet
    BY <1>4, <2>2 DEF SetMode, Ask, CalmInv
  <2> QED BY <2>1, <2>2
<1>5. CASE ShutdownRequested
  <2>1. CASE Quiet
    <3>1. events' = <<"1recovery">> /\ asked' = "recovery" /\ pc' = Idle
      BY <1>5, <2>1 DEF ShutdownRequested, Ask, Quiet
    <3> QED BY <3>1 DEF CalmInv, Waiting, Idle
  <2>2. CASE ~Quiet
    BY <1>5, <2>2 DEF ShutdownRequested, Ask, CalmInv
  <2> QED BY <2>1, <2>2
<1>6. ASSUME NEW m \in Modes, NEW p \in Shells, Shell(p, m) PROVE CalmInv'
  <2>1. CASE Quiet
    <3>1. p \in Scripts /\ \A q \in Scripts : pc[q] = "idle"
      BY <2>1, AllIdle, <1>t DEF Quiet, Scripts
    <3>2. Alone(p)'
      BY <1>6, <1>t, <2>1, <3>1 DEF Shell, Ask, Alone, Quiet, TypeInv
    <3> QED BY <3>1, <3>2 DEF CalmInv
  <2>2. CASE ~Quiet
    BY <1>6, <2>2 DEF Shell, Ask, CalmInv
  <2> QED BY <2>1, <2>2
<1>7. ASSUME NEW b \in BOOLEAN, Return(b) PROVE CalmInv'
  <2>1. CASE Quiet
    <3>1. "rom" \in Scripts /\ \A q \in Scripts : pc[q] = "idle"
      BY <2>1, AllIdle, <1>t, ModesAreScripts DEF Quiet, Modes
    <3>2. Alone("rom")'
      BY <1>7, <1>t, <2>1, <3>1 DEF Return, Ask, Alone, Quiet, TypeInv, Modes
    <3> QED BY <3>1, <3>2 DEF CalmInv
  <2>2. CASE ~Quiet
    BY <1>7, <2>2 DEF Return, Ask, CalmInv
  <2> QED BY <2>1, <2>2
<1>8. CASE Trigger
  <2> SUFFICES ASSUME os \in Modes, calm = 1 PROVE CalmInv'
    BY <1>8 DEF Trigger, CalmInv
  <2>1. Waiting
    BY <1>8, <1>t DEF Trigger, CalmInv, Quiet, Alone
  <2>2. events = <<asked>> /\ Head(events) = asked /\ events' = <<>>
    BY <1>8, <2>1 DEF Trigger, Waiting, Modes
  <2>3. asked \in Scripts /\ \A q \in Scripts : pc[q] = "idle"
    BY <2>1, AllIdle, <1>t, ModesAreScripts DEF Waiting, TypeInv
  <2>4. Alone(asked)'
    BY <1>8, <1>t, <2>2, <2>3 DEF Trigger, StartService, Alone, TypeInv
  <2>5. asked' = asked
    BY <1>8 DEF Trigger
  <2> QED BY <2>3, <2>4, <2>5 DEF CalmInv
<1>9. CASE TriggerShutdown
  <2> SUFFICES ASSUME os \in Modes, calm = 1 PROVE CalmInv'
    BY <1>9 DEF TriggerShutdown, CalmInv
  <2>1. Waiting
    BY <1>9, <1>t DEF TriggerShutdown, CalmInv, Quiet, Alone
  <2>2. events = <<"1recovery">> /\ asked = "recovery"
    BY <1>9, <2>1, <1>t DEF TriggerShutdown, Waiting, TypeInv, Modes
  <2>3. events' = <<"recovery">>
    BY <1>9, <2>2 DEF TriggerShutdown
  <2> QED BY <1>9, <2>1, <2>2, <2>3 DEF TriggerShutdown, CalmInv, Waiting
<1>10. ASSUME NEW p \in Scripts, Script(p) PROVE CalmInv'
  <2> SUFFICES ASSUME os \in Modes, calm = 1 PROVE CalmInv'
    BY <1>10 DEF Script, Mount, Open, Write, Umount, CalmInv
  <2>1. pc[p] # "idle" /\ UNCHANGED <<events, arg, asked, os, calm>>
    BY <1>10 DEF Script, Mount, Open, Write, Umount
  <2>2. Alone(p)
    <3>1. pc # Idle
      BY <2>1 DEF Idle
    <3> QED BY <3>1, <2>1, <1>t DEF CalmInv, Waiting, Quiet, Alone
  <2>3. \A q \in Scripts : q # p => pc[q] = "idle"
    BY <2>2 DEF Alone
  <2>4. CASE Mount(p) \/ Open(p)
    <3>1. Alone(p)'
      BY <2>1, <2>2, <2>4, <1>t DEF Mount, Open, Goto, Alone, TypeInv
    <3> QED BY <3>1 DEF CalmInv
  <2>5. CASE Write(p)
    <3>1. arg[p] \in Modes /\ file' = arg[p] /\ mounted = 1
      BY <2>2, <2>5, <1>t, CopyOver DEF Write, Alone, TypeInv
    <3>2. Alone(p)'
      BY <2>1, <2>2, <2>5, <3>1, <1>t DEF Write, Goto, Alone, TypeInv
    <3> QED BY <3>2 DEF CalmInv
  <2>6. CASE Umount(p)
    <3>1. \A q \in Scripts : pc[q] # "write"
      BY <2>3, <2>6 DEF Umount
    <3>2. disk' = asked
      BY <2>2, <2>6, <3>1 DEF Umount, Alone
    <3>3. \A q \in Scripts : pc'[q] = "idle"
      BY <2>3, <2>6, <1>t DEF Umount, Goto, TypeInv
    <3>4. pc' = Idle
      BY <3>3, <1>t DEF TypeInv, Idle
    <3>5. events' = <<>>
      BY <2>1, <2>2 DEF Alone
    <3> QED BY <2>1, <3>2, <3>4, <3>5 DEF CalmInv, Quiet, Idle
  <2> QED BY <1>10, <2>4, <2>5, <2>6 DEF Script
<1>11. CASE UNCHANGED vars
  BY <1>11, <1>t DEF vars, CalmInv, Waiting, Quiet, Alone, Idle
<1> QED BY <1>1, <1>2, <1>3, <1>4, <1>5, <1>6, <1>7, <1>8, <1>9, <1>10, <1>11
    DEF Next, Board, Asks

LEMMA StepInductive == IInv /\ [Next]_vars => IInv'
  BY TypeStep, MountStep, OffStep, CalmStep DEF IInv

\* A request made while nothing is under way is on the card once nothing is
\* under way again, whatever happened before it, for any number of shells.
THEOREM CalmRequests == Spec => []RequestTakes
<1>1. IInv => RequestTakes
  <2> SUFFICES ASSUME IInv, os \in Modes, Quiet, calm = 1 PROVE disk = asked
    BY DEF RequestTakes
  <2>1. ~Waiting
    BY DEF Waiting, Quiet
  <2>2. ~ \E p \in Scripts : Alone(p)
    BY AllIdle DEF IInv, Quiet, Alone
  <2> QED BY <2>1, <2>2 DEF IInv, CalmInv
<1> QED BY <1>1, InitInductive, StepInductive, PTL DEF Spec

\* The boot partition never stays mounted when the scripts have ended.
THEOREM Unmounts == Spec => []NoStaleMount
<1>1. IInv => NoStaleMount
  BY AllIdle DEF IInv, MountInv, NoStaleMount
<1> QED BY <1>1, InitInductive, StepInductive, PTL DEF Spec
-----------------------------------------------------------------------------
Devices == Outputs \cup {Audio!Empty}
Last == changes[Len(changes)]

TypeRoute == /\ changes \in Seq(Devices)
             /\ loop.state \in {"off", "on", "exited"}

\* What init has still to do ends with the device as it is now.
PendingInv == changes # <<>> => up = "up" /\ Last = device

\* Before the system is up there is no alsa_loop.
DownInv == up # "up" => loop = Audio!Off

RouteInv == TypeRoute /\ PendingInv /\ DownInv /\ LoopFollows

-----------------------------------------------------------------------------
\* The composition takes a step of BootSwitch or leaves it alone.
LEMMA BootImplemented == SystemSpec => Spec
<1>1. SystemInit => Init
  BY DEF SystemInit
<1>2. [SystemNext]_systemVars => [Next]_vars
  BY DEF SystemNext, SystemOn, SystemOff, BootStep, AudioStep, systemVars, Next, Board
<1> QED BY <1>1, <1>2, PTL DEF SystemSpec, Spec

\* Likewise for the route, of which a boot, a shutdown and RouteNext are the steps.
LEMMA RouteSteps ==
    ASSUME [SystemNext]_systemVars
    PROVE Audio!Boot \/ Audio!ShutDown \/ Audio!RouteNext \/ UNCHANGED routeVars
  BY DEF SystemNext, SystemOn, SystemOff, BootStep, AudioStep, systemVars

LEMMA RouteStep == RouteInv /\ [SystemNext]_systemVars => RouteInv'
<1> SUFFICES ASSUME RouteInv, [SystemNext]_systemVars PROVE RouteInv'
  OBVIOUS
<1> USE DEF RouteInv, TypeRoute, PendingInv, DownInv, LoopFollows, Audio!LoopFollows, Last, Audio!Off, Devices, Audio!Empty
<1>1. CASE Audio!Boot
  BY <1>1 DEF Audio!Boot
<1>2. CASE Audio!ShutDown
  BY <1>2 DEF Audio!ShutDown
<1>3. CASE Audio!BootCompleted
  BY <1>3 DEF Audio!BootCompleted, Audio!Start
<1>4. ASSUME NEW d \in Devices, Audio!SetDevice(d), UNCHANGED <<up, loop>> PROVE RouteInv'
  <2>1. changes' \in Seq(Devices) /\ changes' # <<>> /\ Last' = d
    BY <1>4 DEF Audio!SetDevice
  <2> QED BY <1>4, <2>1 DEF Audio!SetDevice
<1>5. CASE Audio!User
  BY <1>4, <1>5 DEF Audio!User, Audio!SetProp, Audio!Choose, Audio!Offered
<1>6. CASE Audio!ChooseCard
  BY <1>6 DEF Audio!ChooseCard
<1>7. CASE Audio!RestartLoop
  <2>1. changes' \in Seq(Devices) /\ (changes' # <<>> => Last' = Last)
    BY <1>7 DEF Audio!RestartLoop
  <2>2. changes' = <<>> => Head(changes) = device
    BY <1>7 DEF Audio!RestartLoop
  <2>3. /\ loop'.state \in {"off", "on", "exited"}
        /\ loop'.state = "off" <=> Head(changes) = "empty"
        /\ loop'.state = "on" => loop'.device = device
    BY <1>7 DEF Audio!RestartLoop, Audio!Start, Audio!Exited
  <2> QED BY <1>7, <2>1, <2>2, <2>3 DEF Audio!RestartLoop
<1>8. CASE Audio!LoopExits
  BY <1>8 DEF Audio!LoopExits, Audio!Exited
<1>9. CASE Audio!LoopAgain
  BY <1>9 DEF Audio!LoopAgain, Audio!Start
<1>10. CASE UNCHANGED routeVars
  BY <1>10 DEF routeVars
<1> QED BY <1>1, <1>2, <1>3, <1>5, <1>6, <1>7, <1>8, <1>9, <1>10, RouteSteps DEF Audio!RouteNext

\* Once init has acted on all changes, sound goes to the device of the property.
THEOREM SoundFollows == SystemSpec => []LoopFollows
<1>1. SystemInit => RouteInv
  BY DEF SystemInit, Audio!RouteInit, RouteInv, TypeRoute, PendingInv, DownInv, LoopFollows,
         Audio!LoopFollows, Audio!Off, Devices, Audio!Empty
<1>2. RouteInv => LoopFollows
  BY DEF RouteInv
<1> QED BY <1>1, <1>2, RouteStep, PTL DEF SystemSpec

-----------------------------------------------------------------------------
\* alsa_loop runs only in a system that is up, with the card of this boot.
CardInv == /\ CardsAgree
           /\ loop.state # "off" => up = "up"
           /\ saved = [device |-> saved.device, card |-> saved.card]

\* The HAL and alsa_loop use the loopback card in every boot, but for the page
\* on a board without headphones.
THEOREM CardsSafety == SystemSpec => []CardsAgree
<1> USE DEF CardInv, CardsAgree, Audio!CardsAgree, Audio!Loopback, Audio!Headless, Audio!Off, Audio!Empty
<1>1. SystemInit => CardInv
  BY DEF SystemInit, Audio!RouteInit
<1>2. CardInv /\ [SystemNext]_systemVars => CardInv'
  <2> SUFFICES ASSUME CardInv, [SystemNext]_systemVars PROVE CardInv'
    OBVIOUS
  <2>1. CASE Audio!Boot
    BY <2>1 DEF Audio!Boot, Audio!LoadProperties, Audio!Saved
  <2>2. CASE Audio!ShutDown
    BY <2>2 DEF Audio!ShutDown
  <2>3. CASE Audio!BootCompleted
    BY <2>3 DEF Audio!BootCompleted, Audio!Start
  <2>4. CASE Audio!User
    BY <2>4 DEF Audio!User, Audio!SetProp, Audio!Choose, Audio!SetDevice
  <2>5. CASE Audio!ChooseCard
    BY <2>5 DEF Audio!ChooseCard
  <2>6. CASE Audio!RestartLoop
    BY <2>6 DEF Audio!RestartLoop, Audio!Start, Audio!Exited
  <2>7. CASE Audio!LoopExits \/ Audio!LoopAgain
    BY <2>7 DEF Audio!LoopExits, Audio!LoopAgain, Audio!Start, Audio!Exited
  <2>8. CASE UNCHANGED routeVars
    BY <2>8 DEF routeVars
  <2> QED BY <2>1, <2>2, <2>3, <2>4, <2>5, <2>6, <2>7, <2>8, RouteSteps DEF Audio!RouteNext
<1>3. CardInv => CardsAgree
  OBVIOUS
<1> QED BY <1>1, <1>2, <1>3, PTL DEF SystemSpec

\* What is proved of the scripts holds while sound is routed as well.
THEOREM SystemRequests == SystemSpec => [](RequestTakes /\ NoStaleMount)
  BY BootImplemented, CalmRequests, Unmounts, PTL
=============================================================================
