----------------------------- MODULE AudioRoute -----------------------------
(* Where sound goes.  The audio HAL plays on a loopback card, and alsa_loop   *)
(* forwards it to an output device.  Which card and which device is decided   *)
(* by vendor.prop, by the init library for the board (init/init_rpi4.cpp), by *)
(* what the settings page saved (DeviceSettings.java) and by setprop, and     *)
(* reaches alsa_loop through a trigger of init (init.vendor.rpi4.rc).         *)
EXTENDS Naturals, Sequences

CONSTANTS Boards,     \* values of androidboot.rpi4.device or androidboot.model
          Outputs,    \* the output devices that are used
          MaxChanges  \* bound on the changes init has still to act on

VARIABLES board,    \* the board the system runs on
          up,       \* "down", "booting", or "up": sys.boot_completed
          device,   \* persist.rpi4.audio.output.device
          card,     \* persist.rpi4.audio.pcm.card
          saved,    \* what is kept of both over a reboot, or "unset"
          changes,  \* values of device that init has still to act on
          loop,     \* alsa_loop: whether it runs, and its arguments
          page      \* the settings page: "shown", or "half" between its two calls

route == <<board, up, device, card, saved, changes, loop, page>>

Headless == {"cm4", "pi400", "cutiepi"}

\* The card that is the loopback: those boards have it in the first place.
Loopback == IF board \in Headless THEN "0" ELSE "1"

Empty == "empty"   \* the empty value of a property

Off == [state |-> "off", device |-> Empty, card |-> Empty]
Exited == [state |-> "exited", device |-> Empty, card |-> Empty]

RouteInit == /\ board \in Boards
             /\ up = "down" /\ device = Empty /\ card = Empty
             /\ saved = [device |-> "unset", card |-> "unset"]
             /\ changes = <<>> /\ loop = Off
             /\ page = "shown"

-----------------------------------------------------------------------------
\* A boot: vendor.prop, then vendor_load_properties, then what was saved.

Saved(key, default) == IF saved[key] = "unset" THEN default ELSE saved[key]

\* A board whose card the init library does not set (a mutation).
LoadPropertiesNoCard ==
    /\ device' = Saved("device", IF board = "cutiepi" THEN "Device"
                                 ELSE IF board \in Headless THEN "vc4hdmi0" ELSE "Headphones")
    /\ card' = Saved("card", "1")

LoadProperties ==
    /\ device' = Saved("device", IF board = "cutiepi" THEN "Device"
                                 ELSE IF board \in Headless THEN "vc4hdmi0" ELSE "Headphones")
    /\ card' = Saved("card", IF board \in Headless THEN "0" ELSE "1")

Boot == /\ up = "down"
        /\ LoadProperties
        /\ up' = "booting"
        /\ UNCHANGED <<board, saved, changes, loop, page>>

ShutDown == /\ up' = "down" /\ changes' = <<>> /\ loop' = Off /\ page' = "shown"
            /\ device' = Empty /\ card' = Empty
            /\ UNCHANGED <<board, saved>>

\* What init gives alsa_loop when it starts it: the properties at that time.
Start == loop' = [state |-> "on", device |-> device, card |-> card]

\* sys.boot_completed is set, and triggers unless the device is empty.
BootCompleted == /\ up = "booting"
                 /\ up' = "up"
                 /\ IF device = Empty THEN UNCHANGED loop ELSE Start
                 /\ UNCHANGED <<board, device, card, saved, changes, page>>

-----------------------------------------------------------------------------
\* The user.

SetDevice(d) == /\ up = "up" /\ Len(changes) < MaxChanges
                /\ device' = d
                /\ saved' = [saved EXCEPT !.device = d]
                /\ changes' = Append(changes, d)

\* setprop, with the empty value for no forwarding.
SetProp(d) == /\ SetDevice(d)
              /\ UNCHANGED <<board, up, card, loop, page>>

\* The devices the settings page offers; it is hidden on a CutiePi.
Offered == CASE board = "pi4" -> Outputs \cap {"Headphones", "vc4hdmi0", "vc4hdmi1"}
             [] board \in {"cm4", "pi400"} -> Outputs \cap {"vc4hdmi0", "vc4hdmi1"}
             [] OTHER -> {}

\* onPreferenceChange sets the device ...
Choose(d) == /\ page = "shown" /\ d \in Offered /\ SetDevice(d)
             /\ page' = "half"
             /\ UNCHANGED <<board, up, card, loop>>

\* ... and then the card, to 1 on every board.
ChooseCard == /\ page = "half"
              /\ card' = "1"
              /\ saved' = IF card = "1" THEN saved ELSE [saved EXCEPT !.card = "1"]
              /\ page' = "shown"
              /\ UNCHANGED <<board, up, device, changes, loop>>

-----------------------------------------------------------------------------
\* init and alsa_loop.

\* A trigger without the stop: a service that runs is not started (a mutation).
RestartLoopNoStop ==
    /\ up = "up" /\ changes # <<>>
    /\ changes' = Tail(changes)
    /\ CASE Head(changes) = Empty -> loop' = Off
         [] Head(changes) # Empty /\ loop.state = "on" -> UNCHANGED loop
         [] OTHER -> Start
    /\ UNCHANGED <<board, up, device, card, saved, page>>

\* A change stops the service and starts it, and one to the empty value stops
\* it again.  One that runs is killed first, and starts when it has been reaped.
RestartLoop == /\ up = "up" /\ changes # <<>>
               /\ changes' = Tail(changes)
               /\ CASE Head(changes) = Empty -> loop' = Off
                    [] Head(changes) # Empty /\ loop.state = "off" -> Start
                    [] OTHER -> loop' = Exited
               /\ UNCHANGED <<board, up, device, card, saved, page>>

\* alsa_loop ends when it cannot open a card or loses it ...
LoopExits == /\ loop.state = "on"
             /\ loop' = Exited
             /\ UNCHANGED <<board, up, device, card, saved, changes, page>>

\* ... and init starts it again after a while.
LoopAgain == /\ loop.state = "exited"
             /\ Start
             /\ UNCHANGED <<board, up, device, card, saved, changes, page>>

-----------------------------------------------------------------------------
User == \/ \E d \in Outputs \cup {Empty} : SetProp(d)
        \/ \E d \in Offered : Choose(d)

RouteNext == User \/ BootCompleted \/ ChooseCard \/ RestartLoop \/ LoopExits \/ LoopAgain

-----------------------------------------------------------------------------
\* Sound that is forwarded goes to the device of the property, in whatever
\* order the properties, the exits of alsa_loop and init's triggers came, and
\* nothing is forwarded if that is empty, once init has acted on all changes.
LoopFollows == up = "up" /\ changes = <<>> => /\ device = Empty <=> loop.state = "off"
                                              /\ loop.state = "on" => loop.device = device

\* The HAL, which reads the card when it starts a stream, and alsa_loop use the
\* card that is the board's loopback ("cm4 and pi400 have loopback at 0", init
\* library), in this boot and in every later one, whatever device is chosen.
\* There is one exception: the page sets card 1 on boards without headphones
\* too, and what it saved overrides the init library from then on.
CardsAgree == up # "down" /\ saved.card = "unset" =>
                 card = Loopback /\ (loop.state = "on" => loop.card = Loopback)
=============================================================================
