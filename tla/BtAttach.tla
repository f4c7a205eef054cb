------------------------------ MODULE BtAttach ------------------------------
(* btuart (src/bluetooth/btuart/hciattach_rpi4.c): a service that brings up   *)
(* the Bluetooth controller over a UART, loads its firmware, hands the UART   *)
(* to the kernel and waits.  init starts it again whenever it ends, and       *)
(* nothing resets the controller in between.                                  *)
EXTENDS Naturals, Sequences, SequencesExt

CONSTANTS Init0, Target,  \* the speeds after power on and after attaching
          Records,        \* records of a firmware file, the last launches it
          Budget,         \* bound on troubles: losses, refusals, deaths, hangups, signals
          Backlog,        \* commands a slow controller may still have when init restarts
          Junk            \* what arrives of an event sent at another speed

ASSUME BtAssumption == /\ Init0 # Target
                       /\ Records \in Nat \ {0} /\ Budget \in Nat /\ Backlog \in {0, 1}
                       /\ Junk \notin {"reset", "name", "speed", "download", "record", "launch", "addr"}

VARIABLES pc,        \* what the process does
          waiting,   \* a command was written and its event is awaited
          speed,     \* of the host's UART
          record,    \* record being written
          alarm,     \* alarm(10) is set
          ldisc,     \* line discipline of the UART: "tty" or "hci"
          canceled,  \* __io_canceled
          rx,        \* events in the host's input: [op, ok]
          cmds,      \* commands the controller has still to process
          ctl,       \* the controller: speed, mode, addr
          hasPatch,  \* there is a firmware file for the chip
          hung,      \* the UART hung up
          budget,    \* troubles left
          skipped    \* (history) a record was refused, or the address given up

host == <<pc, waiting, speed, record, alarm, ldisc, canceled>>
vars == <<host, rx, cmds, ctl, hasPatch, hung, budget, skipped>>

\* Each step of bcm43xx_init that exchanges a command and an event, and the command.
Op == [reset1 |-> "reset", name |-> "name", speed1 |-> "speed", download |-> "download",
       record |-> "record", reset2 |-> "reset", addr |-> "addr", speed2 |-> "speed"]

\* Where the process is between alarm(to) and alarm(0).
Starting == DOMAIN Op \cup {"locate", "default", "attach"}

Init == /\ pc = "off" /\ waiting = FALSE /\ speed = Init0 /\ record = 0
        /\ alarm = FALSE /\ ldisc = "tty" /\ canceled = FALSE
        /\ rx = <<>> /\ cmds = <<>>
        /\ ctl = [speed |-> Init0, mode |-> "rom", addr |-> "none"]
        /\ hasPatch \in BOOLEAN /\ hung = FALSE
        /\ budget \in 0 .. Budget /\ skipped = FALSE

Trouble == budget > 0 /\ budget' = budget - 1
Others == UNCHANGED <<hasPatch, hung>>

-----------------------------------------------------------------------------
\* The process starts and ends.

\* init starts the service, no sooner than five seconds after it did before,
\* which leaves the controller time for all but Backlog commands; it sets the
\* alarm, opens the UART, flushes it and goes to the initial speed.
Open == /\ pc = "off" /\ Len(cmds) <= Backlog
        /\ pc' = "reset1" /\ waiting' = FALSE /\ alarm' = TRUE /\ speed' = Init0 /\ canceled' = FALSE
        /\ rx' = <<>> /\ hung' = FALSE
        /\ UNCHANGED <<record, ldisc, cmds, ctl, hasPatch, budget, skipped>>

\* The process is gone, and with it the line discipline and what was not read.
Dies == /\ pc' = "off" /\ waiting' = FALSE /\ alarm' = FALSE /\ ldisc' = "tty" /\ rx' = <<>>
        /\ UNCHANGED <<speed, record, canceled>>

\* An alarm that is only logged, while the read goes on (a mutation).
AlarmLogged == alarm /\ waiting /\ rx = <<>> /\ cmds = <<>> /\ UNCHANGED vars

\* sig_alarm, when an answer does not come.
Alarm == /\ alarm /\ waiting /\ rx = <<>> /\ cmds = <<>>
         /\ Dies
         /\ UNCHANGED <<cmds, ctl, hasPatch, hung, budget, skipped>>

\* Everything takes longer than the alarm, a call fails, or a signal ends the process.
Die == /\ pc \in Starting
       /\ Trouble /\ Dies
       /\ UNCHANGED <<cmds, ctl, hasPatch, hung, skipped>>

-----------------------------------------------------------------------------
\* Commands and events.

\* What goes out at the wrong speed is not understood, and what goes out may be lost.
Write(op) == \/ /\ cmds' = IF speed = ctl.speed THEN Append(cmds, op) ELSE cmds
                /\ UNCHANGED budget
             \/ Trouble /\ UNCHANGED cmds

\* The command of a step: the last record of the firmware launches it.
Command == IF pc = "record" /\ record = Records THEN "launch" ELSE Op[pc]

\* write, after a flush of the input in every step but the resets.
Send == /\ pc \in DOMAIN Op /\ ~waiting
        /\ waiting' = TRUE
        /\ rx' = IF Op[pc] = "reset" THEN rx ELSE <<>>
        /\ Write(Command)
        /\ UNCHANGED <<pc, speed, record, alarm, ldisc, canceled, ctl, skipped>> /\ Others

\* The address set before the firmware is launched (a mutation).
AfterAddrFirst == [reset1 |-> "name", name |-> "addr", addr |-> "locate", speed1 |-> "download",
                   download |-> "record", record |-> "default", reset2 |-> "speed2",
                   speed2 |-> "attach"]

\* The last step forgotten: the host goes to full speed alone (a mutation).
AfterNoSpeed == [reset1 |-> "name", name |-> "locate", speed1 |-> "download",
                 download |-> "record", record |-> "default", reset2 |-> "addr", addr |-> "attach",
                 speed2 |-> "attach"]

\* The order of the steps.
After == [reset1 |-> "name", name |-> "locate", speed1 |-> "download", download |-> "record",
          record |-> "default", reset2 |-> "addr", addr |-> "speed2", speed2 |-> "attach"]

\* read_hci_event gives a Command Complete for the command, with success.
Answered == rx # <<>> /\ Head(rx).op = Op[pc] /\ Head(rx).ok

\* A step that succeeds: the host follows the controller to the speed it asked for.
Succeed == /\ pc \in DOMAIN Op \ {"record"} /\ waiting /\ Answered
           /\ rx' = Tail(rx) /\ waiting' = FALSE
           /\ pc' = After[pc]
           /\ speed' = IF Op[pc] = "speed" THEN Target ELSE speed
           /\ record' = IF pc = "download" THEN 1 ELSE record
           /\ UNCHANGED <<alarm, ldisc, canceled, cmds, ctl, budget, skipped>> /\ Others

\* What the event for a record says is not looked at, and the input is flushed.
RecordDone == /\ pc = "record" /\ waiting /\ rx # <<>>
              /\ rx' = <<>> /\ waiting' = FALSE
              /\ IF record = Records THEN pc' = After[pc] /\ UNCHANGED record
                   ELSE pc' = pc /\ record' = record + 1
              /\ UNCHANGED <<speed, alarm, ldisc, canceled, cmds, ctl, budget, skipped>> /\ Others

\* Another event, or one without success: only the address may do without.
Fail == /\ pc \in DOMAIN Op \ {"record"} /\ waiting /\ rx # <<>> /\ ~Answered
        /\ IF pc = "addr"
             THEN /\ pc' = After[pc] /\ waiting' = FALSE /\ rx' = Tail(rx)
                  /\ skipped' = TRUE
                  /\ UNCHANGED <<speed, record, alarm, ldisc, canceled>>
             ELSE Dies /\ UNCHANGED skipped
        /\ UNCHANGED <<cmds, ctl, budget>> /\ Others

\* bcm43xx_locate_patch: with firmware loaded the chip may have another name.
Locate == /\ pc = "locate"
          /\ \E found \in {hasPatch, ctl.mode = "rom" /\ hasPatch} :
               pc' = IF found THEN "speed1" ELSE "addr"
          /\ UNCHANGED <<waiting, speed, record, alarm, ldisc, canceled, rx, cmds, ctl, budget, skipped>>
          /\ Others

\* A host that stays at the speed of the download (a mutation).
DefaultKeeps == /\ pc = "default"
                /\ pc' = "reset2"
                /\ UNCHANGED <<waiting, speed, record, alarm, ldisc, canceled, rx, cmds, ctl, budget, skipped>>
                /\ Others

\* "Controller speed has been reset to def speed"
Default == /\ pc = "default"
           /\ speed' = Init0 /\ pc' = "reset2"
           /\ UNCHANGED <<waiting, record, alarm, ldisc, canceled, rx, cmds, ctl, budget, skipped>>
           /\ Others

\* The end of init_uart: the kernel takes the UART over; and alarm(0).
Attach == /\ pc = "attach"
          /\ rx' = <<>> /\ speed' = Target /\ ldisc' = "hci" /\ alarm' = FALSE
          /\ pc' = "test"
          /\ UNCHANGED <<waiting, record, canceled, cmds, ctl, budget, skipped>> /\ Others

-----------------------------------------------------------------------------
\* The loop that waits, and what ends it.

Running == pc \in {"test", "enter", "poll"}
Rest == UNCHANGED <<waiting, speed, record, alarm, rx, cmds, ctl, hasPatch, skipped>>

Test == /\ pc = "test"
        /\ pc' = IF canceled THEN "restore" ELSE "enter"
        /\ Rest /\ UNCHANGED <<ldisc, canceled, hung, budget>>

\* ppoll waits for a hangup.
Poll == /\ pc \in {"enter", "poll"}
        /\ pc' = IF hung THEN "restore" ELSE "poll"
        /\ Rest /\ UNCHANGED <<ldisc, canceled, hung, budget>>

HangUp == /\ Running /\ ~hung /\ Trouble
          /\ hung' = TRUE
          /\ Rest /\ UNCHANGED <<pc, ldisc, canceled>>

\* SIGTERM or SIGINT: it wakes a ppoll, but not one that is about to be entered.
Signal == /\ Running /\ Trouble
          /\ canceled' = TRUE
          /\ pc' = IF pc = "poll" THEN "test" ELSE pc
          /\ Rest /\ UNCHANGED <<ldisc, hung>>

\* The line discipline is set on descriptor n, which is not the UART's: the
\* process ends, and the UART is closed, whether that succeeds or not.
Restore == /\ pc = "restore"
           /\ Dies
           /\ UNCHANGED <<cmds, ctl, hasPatch, hung, budget, skipped>>

-----------------------------------------------------------------------------
\* The controller takes its commands in order and answers at the speed it had.
\* The answer may be lost, and at another speed comes as junk or not at all.

Answer(e) == IF ldisc = "hci" \/ pc = "off" THEN UNCHANGED <<rx, budget>>
               ELSE IF speed = ctl.speed
                 THEN \/ rx' = Append(rx, e) /\ UNCHANGED budget
                      \/ Trouble /\ UNCHANGED rx
                 ELSE rx' \in {rx, Append(rx, [op |-> Junk, ok |-> FALSE])} /\ UNCHANGED budget

\* What a command does to the controller.  A launch ends a download.
Effect(op) ==
    CASE op = "speed" -> [ctl EXCEPT !.speed = Target]
      [] op = "addr" -> [ctl EXCEPT !.addr = "own"]
      [] op = "download" -> [ctl EXCEPT !.mode = "download"]
      [] op = "launch" -> [speed |-> Init0, mode |-> "patched", addr |-> "none"]
      [] OTHER -> ctl

Process == /\ cmds # <<>>
           /\ cmds' = Tail(cmds)
           /\ ctl' = Effect(Head(cmds))
           /\ Answer([op |-> Head(cmds), ok |-> TRUE])
           /\ UNCHANGED <<host, skipped>> /\ Others

\* The controller refuses a command; a refused record leaves the firmware incomplete.
Refuse == /\ cmds # <<>> /\ Trouble
          /\ cmds' = Tail(cmds)
          /\ rx' = IF ldisc = "hci" \/ pc = "off" THEN rx
                     ELSE Append(rx, [op |-> IF speed = ctl.speed THEN Head(cmds) ELSE Junk, ok |-> FALSE])
          /\ skipped' = (skipped \/ Head(cmds) \in {"record", "launch"})
          /\ UNCHANGED <<host, ctl>> /\ Others

-----------------------------------------------------------------------------
Steps == \/ Send \/ Succeed \/ RecordDone \/ Fail \/ Locate \/ Default \/ Attach
         \/ Test \/ Poll \/ Restore

Next == Open \/ Steps \/ Alarm \/ Die \/ HangUp \/ Signal \/ Process \/ Refuse

\* init starts the service, the process runs, the alarm goes off and the
\* controller takes its commands; nothing else has to happen.
Spec == /\ Init /\ [][Next]_vars
        /\ WF_vars(Open) /\ WF_vars(Steps) /\ WF_vars(Alarm) /\ WF_vars(Process)

-----------------------------------------------------------------------------
\* When the kernel has the UART, both ends run at the full speed, and no command
\* or event of the setup, or of an attempt before it, is left between them.
AttachedAgrees == ldisc = "hci" => /\ speed = Target /\ ctl.speed = Target
                                   /\ rx = <<>> /\ cmds = <<>>

\* An attached controller has its own address and, when it came up from ROM and
\* there is firmware, runs that; unless a record was refused or the address given up.
AttachedSetUp == ldisc = "hci" /\ ~skipped => /\ ctl.addr = "own"
                                              /\ hasPatch => ctl.mode = "patched"

\* Each attempt attaches or ends, however much is lost.
AttemptEnds == pc \in Starting ~> pc \in {"off", "test"}

\* An attempt that begins with the controller at its initial speed and nothing
\* left from earlier ones attaches, when nothing goes wrong any more.
Attaches == pc = "off" /\ ctl.speed = Init0 /\ cmds = <<>> /\ budget = 0 ~> ldisc = "hci"
=============================================================================
