----------------------------- MODULE BootSwitch -----------------------------
(* Which system the board boots.  The firmware reads config.txt on the boot   *)
(* partition; scripts/switch_boot.sh copies the configuration of Android or   *)
(* of the recovery over it.  In Android init starts the script as one of two  *)
(* oneshot services when sys.rpi4.boot_mode changes (init.system.rpi4.rc),    *)
(* and anybody may run it from a shell; in the recovery it runs before a      *)
(* reboot to the system (recovery/root/system/bin/rebootsystem.sh).  Any      *)
(* number of copies of it share one mount point.                              *)
EXTENDS Naturals, Sequences

CONSTANTS Shells,     \* shells that may run switch_boot by hand
          Longer,     \* the mode whose configuration file is the longer one
          MaxEvents   \* bound on the property changes init has still to act on

Modes == {"rom", "recovery"}

ASSUME BootAssumption == /\ Shells \cap Modes = {}
                         /\ Longer \in Modes \cup {"equal"}
                         /\ MaxEvents \in Nat \ {0}

VARIABLES os,       \* what runs: a mode, "off", or "dead" when nothing boots
          events,   \* property changes init has still to act on
          pc,       \* where each script is: a service by its mode, or a shell
          arg,      \* the mode it was given
          mounted,  \* 1 while the boot partition is mounted, else 0
          file,     \* config.txt as the kernel has it
          disk,     \* config.txt as the card has it
          leaving,  \* the recovery reboots to the system when the script ends
          asked,    \* (history) the mode asked for last
          calm      \* (history) 1 if that was asked while nothing was under way

vars == <<os, events, pc, arg, mounted, file, disk, leaving, asked, calm>>

Scripts == Modes \cup Shells

\* A truncated copy, and a short copy over the beginning of a longer one.
Contents == Modes \cup {"partial", "mixed"}

Idle == [p \in Scripts |-> "idle"]
Quiet == events = <<>> /\ pc = Idle

Init == /\ os = "off"
        /\ events = <<>> /\ pc = Idle
        /\ arg = [p \in Scripts |-> IF p \in Modes THEN p ELSE "rom"]
        /\ mounted = 0
        /\ file = "rom" /\ disk = "rom"
        /\ leaving = FALSE
        /\ asked = "rom" /\ calm = 1

-----------------------------------------------------------------------------
\* The board.

\* The firmware boots what config.txt says.  Android sets the property to rom,
\* and init acts on it like on any change.
PowerOn ==
    /\ os = "off"
    /\ os' = IF disk \in Modes THEN disk ELSE "dead"
    /\ events' = IF disk = "rom" THEN <<"rom">> ELSE <<>>
    /\ asked' = IF disk \in Modes THEN disk ELSE asked
    /\ calm' = 1
    /\ UNCHANGED <<pc, arg, mounted, file, disk, leaving>>

\* Scripts are killed and forgotten, and with them what init had still to do.
Down == /\ os \in Modes /\ os' = "off"
        /\ events' = <<>> /\ pc' = Idle
        /\ mounted' = 0 /\ leaving' = FALSE
        /\ UNCHANGED <<arg, asked, calm>>

\* A reboot writes what the kernel has to the card, a power cut loses it.
Reboot == Down /\ disk' = file /\ UNCHANGED file
PowerCut == Down /\ file' = disk /\ UNCHANGED disk

\* The kernel writes the file back in its own time, and in more than one step.
WriteBack == /\ mounted = 1 /\ disk # file
             /\ disk' \in {file, "partial"}
             /\ UNCHANGED <<os, events, pc, arg, mounted, file, leaving, asked, calm>>

\* The owner repairs the card on a PC.
Repair == /\ os = "dead" /\ os' = "off"
          /\ disk' = "rom" /\ file' = "rom"
          /\ UNCHANGED <<events, pc, arg, mounted, leaving, asked, calm>>

-----------------------------------------------------------------------------
\* Who asks for a mode.

Ask(m) == asked' = m /\ calm' = IF Quiet THEN 1 ELSE 0

\* The settings page, or setprop sys.rpi4.boot_mode.
SetMode(m) == /\ os = "rom" /\ Len(events) < MaxEvents
              /\ events' = Append(events, m)
              /\ Ask(m)
              /\ UNCHANGED <<os, pc, arg, mounted, file, disk, leaving>>

\* A reboot to the recovery sets sys.shutdown.requested before anything else.
ShutdownRequested == /\ os = "rom" /\ Len(events) < MaxEvents
                     /\ events' = Append(events, "1recovery")
                     /\ Ask("recovery")
                     /\ UNCHANGED <<os, pc, arg, mounted, file, disk, leaving>>

\* adb shell switch_boot rom|recovery
Shell(p, m) == /\ os = "rom" /\ pc[p] = "idle"
               /\ pc' = [pc EXCEPT ![p] = "mount"]
               /\ arg' = [arg EXCEPT ![p] = m]
               /\ Ask(m)
               /\ UNCHANGED <<os, events, mounted, file, disk, leaving>>

\* In the recovery: the flashable zip, or the reboot to the system.
Return(reboot) == /\ os = "recovery" /\ pc = Idle /\ ~leaving
                  /\ pc' = [pc EXCEPT !["rom"] = "mount"]
                  /\ leaving' = reboot
                  /\ Ask("rom")
                  /\ UNCHANGED <<os, events, arg, mounted, file, disk>>

Leave == leaving /\ pc = Idle /\ Reboot

\* init acts on a change: a service that is running is not started again.
StartService(m) == pc' = IF pc[m] = "idle" THEN [pc EXCEPT ![m] = "mount"] ELSE pc

Trigger == /\ events # <<>> /\ Head(events) \in Modes
           /\ events' = Tail(events)
           /\ StartService(Head(events))
           /\ UNCHANGED <<os, arg, mounted, file, disk, leaving, asked, calm>>

TriggerShutdown == /\ events # <<>> /\ Head(events) = "1recovery"
                   /\ events' = Append(Tail(events), "recovery")
                   /\ UNCHANGED <<os, pc, arg, mounted, file, disk, leaving, asked, calm>>

-----------------------------------------------------------------------------
\* The script.  No step of it looks at whether the one before succeeded.

Goto(p, l) == pc' = [pc EXCEPT ![p] = l]

\* mount fails when the partition is mounted there already.
Mount(p) == /\ pc[p] = "mount"
            /\ mounted' = 1
            /\ Goto(p, "open")
            /\ UNCHANGED <<os, events, arg, file, disk, leaving, asked, calm>>

\* cp opens and truncates the target, or finds nothing under the mount point.
Open(p) == /\ pc[p] = "open"
           /\ IF mounted = 1 THEN file' = "partial" /\ Goto(p, "write")
                         ELSE Goto(p, "umount") /\ UNCHANGED file
           /\ UNCHANGED <<os, events, arg, mounted, disk, leaving, asked, calm>>

\* What a copy leaves of a file that another one has written meanwhile.
Over(content, m) == IF content \in {"mixed", Longer} /\ m # Longer THEN "mixed" ELSE m

\* A script that ends with a failed copy, "set -e" (a mutation).
WriteMayExit(p) == /\ pc[p] = "write"
                   /\ \/ file' = Over(file, arg[p]) /\ Goto(p, "umount")
                      \/ UNCHANGED file /\ Goto(p, "idle")
                   /\ UNCHANGED <<os, events, arg, mounted, disk, leaving, asked, calm>>

Write(p) == /\ pc[p] = "write"
            /\ file' = Over(file, arg[p])
            /\ Goto(p, "umount")
            /\ UNCHANGED <<os, events, arg, mounted, disk, leaving, asked, calm>>

\* An unmount that leaves the writing to the kernel (a mutation).
UmountLazily(p) == /\ pc[p] = "umount"
                   /\ mounted' = 0
                   /\ Goto(p, "idle")
                   /\ UNCHANGED <<os, events, arg, file, disk, leaving, asked, calm>>

\* umount fails while another copy has its file open.
Umount(p) == /\ pc[p] = "umount"
             /\ IF mounted = 1 /\ \A q \in Scripts : pc[q] # "write"
                  THEN mounted' = 0 /\ disk' = file
                  ELSE UNCHANGED <<mounted, disk>>
             /\ Goto(p, "idle")
             /\ UNCHANGED <<os, events, arg, file, leaving, asked, calm>>

-----------------------------------------------------------------------------
Script(p) == Mount(p) \/ Open(p) \/ Write(p) \/ Umount(p)

Board == PowerOn \/ Reboot \/ PowerCut \/ WriteBack \/ Repair

Asks == \/ \E m \in Modes : SetMode(m) \/ \E p \in Shells : Shell(p, m)
        \/ ShutdownRequested
        \/ \E b \in BOOLEAN : Return(b)

Next == Board \/ Asks \/ Leave \/ Trigger \/ TriggerShutdown \/ \E p \in Scripts : Script(p)

Spec == Init /\ [][Next]_vars

-----------------------------------------------------------------------------
\* "Next reboot will then boot the correct mode" (README.legacy): once nothing
\* is under way, the card has what was asked for last, provided that this was
\* asked while nothing was under way, whatever cuts, reboots and overlapping
\* scripts there were before.  From then on a power cut does no harm.
RequestTakes == os \in Modes /\ Quiet /\ calm = 1 => disk = asked

\* However scripts overlap, and although one that is told the partition is
\* busy goes on, the last one to end leaves it unmounted.
NoStaleMount == mounted = 1 => pc # Idle
=============================================================================
