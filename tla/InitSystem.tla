----------------------------- MODULE InitSystem -----------------------------
(* What init starts when a property changes, from boot to boot: the scripts   *)
(* that choose the system to boot (BootSwitch) and the service that forwards  *)
(* sound (AudioRoute).  They meet in the boots: a shutdown kills both and     *)
(* drops what init had still to do for them, persist.* properties survive it, *)
(* sys.* properties do not, and in the recovery there is no sound.  init has  *)
(* one queue, of which each module has its own part.                          *)
EXTENDS BootSwitch

CONSTANTS Boards, Outputs, MaxChanges   \* as in AudioRoute

ASSUME SystemAssumption == /\ Boards \subseteq {"pi4", "cm4", "pi400", "cutiepi"}
                           /\ MaxChanges \in Nat \ {0}

VARIABLES board, up, device, card, saved, changes, loop, page

routeVars == <<board, up, device, card, saved, changes, loop, page>>

Audio == INSTANCE AudioRoute

SystemInit == Init /\ Audio!RouteInit

\* Only Android has properties and alsa_loop.
SystemOn == PowerOn /\ IF os' = "rom" THEN Audio!Boot ELSE UNCHANGED routeVars

SystemOff == (Reboot \/ PowerCut \/ Leave) /\ Audio!ShutDown

BootStep == /\ \/ WriteBack \/ Repair \/ Asks \/ Trigger \/ TriggerShutdown
               \/ \E p \in Scripts : Script(p)
            /\ UNCHANGED routeVars

AudioStep == Audio!RouteNext /\ UNCHANGED vars

SystemNext == SystemOn \/ SystemOff \/ BootStep \/ AudioStep

systemVars == <<vars, routeVars>>

SystemSpec == SystemInit /\ [][SystemNext]_systemVars

-----------------------------------------------------------------------------
\* The device that sound is forwarded to is the one chosen (AudioRoute).
LoopFollows == Audio!LoopFollows

\* HAL and alsa_loop use the board's loopback card (AudioRoute).
CardsAgree == Audio!CardsAgree
=============================================================================
