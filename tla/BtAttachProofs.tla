--------------------------- MODULE BtAttachProofs ---------------------------
(* Proofs about BtAttach, for any number of firmware records and of troubles. *)
(* The setup never counts its events: that each step acts on the answer to    *)
(* its own command follows from what can be between host and controller at    *)
(* each step.  A command an earlier attempt left behind is the reason why the *)
(* first two steps are different from the others.                             *)
EXTENDS BtAttach, TLAPS

Ops == {"reset", "name", "speed", "download", "record", "launch", "addr"}
Event == [op : Ops \cup {Junk}, ok : BOOLEAN]
Later == {"speed1", "download", "record", "reset2", "addr", "speed2"}
Attached == {"test", "enter", "poll", "restore"}
Places == {"off", "reset1", "name", "locate", "default", "attach"} \cup Later \cup Attached

TypeInv == /\ pc \in Places /\ waiting \in BOOLEAN /\ record \in Nat
           /\ speed \in {Init0, Target} /\ ldisc \in {"tty", "hci"}
           /\ hasPatch \in BOOLEAN /\ skipped \in BOOLEAN
           /\ ctl \in [speed : {Init0, Target}, mode : {"rom", "download", "patched"},
                       addr : {"none", "own"}]

\* What the controller may have still to do, whatever the host does.
Left == {<<>>, <<"reset", "name">>} \cup {<<op>> : op \in Ops} \cup {<<op, "reset">> : op \in Ops}

None == rx = <<>>
One == \E e \in Event : rx = <<e>>
Two == \E e, f \in Event : rx = <<e, f>>

\* The first step: something of an earlier attempt may be before its own command.
FirstInv == pc = "reset1" =>
    /\ waiting = FALSE => \/ None /\ Len(cmds) <= 1
                          \/ One /\ cmds = <<>>
    /\ waiting = TRUE => \/ None /\ cmds # <<"reset", "name">>
                         \/ One /\ cmds \in {<<>>, <<"reset">>}
                         \/ Two /\ cmds = <<>>
    /\ rx # <<>> /\ Answered => ctl.speed = Init0

\* The second step: a reset of the first may be before its command.
SecondInv == pc = "name" =>
    /\ waiting = FALSE => cmds \in {<<>>, <<"reset">>}
    /\ waiting = TRUE => \/ None /\ cmds \in {<<>>, <<"name">>, <<"reset">>, <<"reset", "name">>}
                         \/ One /\ cmds = <<>>
                         \/ One /\ cmds = <<"name">> /\ ~Answered
                         \/ Two /\ cmds = <<>> /\ ~Answered

\* What the controller is after the event of a step: the last record launches
\* the firmware whether or not the event says so.
Obeyed(e) == /\ e.ok = TRUE /\ pc \in {"speed1", "speed2"} => ctl.speed = Target
             /\ e.ok = TRUE /\ pc = "addr" => ctl.addr = "own"
             /\ pc = "record" /\ record = Records => skipped = TRUE \/ ctl.mode = "patched"

\* All later steps: nothing but the step's own command or its event.
LaterInv == /\ pc = "off" => None
            /\ pc \in {"locate", "default", "attach"} \cup Attached => None /\ cmds = <<>>
            /\ pc \in Later =>
                 /\ waiting = FALSE => None /\ cmds = <<>>
                 /\ waiting = TRUE => \/ None /\ cmds \in {<<>>, <<Command>>}
                                      \/ cmds = <<>> /\ \E e \in Event : rx = <<e>> /\ Obeyed(e)

\* The host's speed, and the controller's where the step before has shown it.
SpeedInv == /\ pc = "reset1" => speed = Init0
            /\ pc = "download" => speed = Target
            /\ pc \in {"name", "locate"} => ctl.speed = Init0
            /\ pc \in {"attach"} \cup Attached => ctl.speed = Target
            /\ pc \in Attached => speed = Target
            /\ ldisc = "hci" => pc \in Attached

\* A download is left at full speed only.
DownloadInv == /\ ctl.mode = "download" => ctl.speed = Target
               /\ cmds # <<>> /\ Head(cmds) = "download" => ctl.speed = Target

\* What the steps so far have set up.
SetUpInv ==
    /\ pc \in {"default", "reset2", "addr", "speed2", "attach"} \cup Attached =>
         skipped = TRUE \/ hasPatch = FALSE \/ ctl.mode = "patched"
    /\ pc \in {"speed2", "attach"} \cup Attached => skipped = TRUE \/ ctl.addr = "own"

IInv == TypeInv /\ cmds \in Left /\ FirstInv /\ SecondInv /\ LaterInv
        /\ SpeedInv /\ DownloadInv /\ SetUpInv

-----------------------------------------------------------------------------
LEMMA InitInductive == Init => IInv
<1> SUFFICES ASSUME Init PROVE IInv
  OBVIOUS
<1>1. TypeInv
  BY DEF Init, TypeInv, Places
<1>2. cmds \in Left
  BY DEF Init, Left
<1> QED
  BY <1>1, <1>2 DEF Init, IInv, FirstInv, SecondInv, LaterInv, SpeedInv, DownloadInv, SetUpInv, Later, Attached, None

\* What a command leaves of the controller.
LEMMA Effects ==
    ASSUME TypeInv, NEW op \in Ops
    PROVE /\ Effect(op) \in [speed : {Init0, Target}, mode : {"rom", "download", "patched"},
                             addr : {"none", "own"}]
          /\ op \notin {"speed", "launch"} => Effect(op).speed = ctl.speed
          /\ op \notin {"download", "launch"} => Effect(op).mode = ctl.mode
          /\ op # "launch" => Effect(op).addr = IF op = "addr" THEN "own" ELSE ctl.addr
          /\ op = "speed" => Effect(op).speed = Target
          /\ op = "download" => Effect(op).mode = "download"
          /\ op = "launch" => Effect(op).speed = Init0 /\ Effect(op).mode = "patched"
<1>1. CASE op = "speed"
  BY <1>1 DEF Effect, TypeInv
<1>2. CASE op = "addr"
  BY <1>2 DEF Effect, TypeInv
<1>3. CASE op = "download"
  BY <1>3 DEF Effect, TypeInv
<1>4. CASE op = "launch"
  BY <1>4 DEF Effect, TypeInv
<1>5. CASE op \in {"reset", "name", "record"}
  BY <1>5 DEF Effect, TypeInv
<1> QED BY <1>1, <1>2, <1>3, <1>4, <1>5 DEF Ops

\* The tables of the steps.
LEMMA Table ==
    /\ DOMAIN Op = {"reset1", "name"} \cup Later
    /\ Op["reset1"] = "reset" /\ After["reset1"] = "name"
    /\ Op["name"] = "name" /\ After["name"] = "locate"
    /\ Op["speed1"] = "speed" /\ After["speed1"] = "download"
    /\ Op["download"] = "download" /\ After["download"] = "record"
    /\ Op["record"] = "record" /\ After["record"] = "default"
    /\ Op["reset2"] = "reset" /\ After["reset2"] = "addr"
    /\ Op["addr"] = "addr" /\ After["addr"] = "speed2"
    /\ Op["speed2"] = "speed" /\ After["speed2"] = "attach"
  BY DEF Op, After, Later

\* The process ends, at whatever place.
LEMMA DiesStep ==
    ASSUME IInv, Dies, cmds' = cmds, ctl' = ctl, hasPatch' = hasPatch, skipped' = skipped
    PROVE IInv'
<1>1. TypeInv'
  BY DEF Dies, IInv, TypeInv, Places
<1>2. DownloadInv'
  BY DEF Dies, IInv, DownloadInv
<1> QED
  BY <1>1, <1>2 DEF Dies, IInv, FirstInv, SecondInv, LaterInv, SpeedInv, SetUpInv, Later, Attached, None

LEMMA OpenStep == IInv /\ Open => IInv'
<1> SUFFICES ASSUME IInv, Open PROVE IInv'
  OBVIOUS
<1>1. TypeInv'
  BY DEF Open, IInv, TypeInv, Places
<1>2. Len(cmds) <= 1
  BY BtAssumption DEF BtAssumption, Open, IInv, Left
<1> QED
  BY <1>1, <1>2 DEF Open, IInv, FirstInv, SecondInv, LaterInv, SpeedInv, DownloadInv, SetUpInv, Later, Attached, None

LEMMA SendStep == IInv /\ Send => IInv'
<1> SUFFICES ASSUME IInv, Send PROVE IInv'
  OBVIOUS
<1>1. TypeInv'
  BY DEF Send, Others, IInv, TypeInv
<1>w. waiting = FALSE
  BY DEF Send, IInv, TypeInv
<1>2. CASE pc = "reset1"
  <2>1. rx' = rx /\ (cmds' = cmds \/ cmds' = Append(cmds, "reset"))
    BY <1>2, Table DEF Send, Write, Command
  <2>2. FirstInv'
    BY <1>2, <2>1 DEF Send, IInv, FirstInv, Left, None, One, Two, Answered
  <2>3. cmds' \in Left
    <3>1. cmds = <<>> \/ \E op \in Ops : cmds = <<op>>
      BY <1>w, <1>2 DEF IInv, FirstInv, Left
    <3>2. cmds = <<>> => cmds' = <<>> \/ cmds' = <<"reset">>
      BY <2>1
    <3>3. ASSUME NEW op \in Ops, cmds = <<op>> PROVE cmds' = <<op>> \/ cmds' = <<op, "reset">>
      BY <2>1, <3>3
    <3> QED BY <3>1, <3>2, <3>3 DEF Left, Ops
  <2>4. DownloadInv'
    BY <1>2, <2>1 DEF Send, IInv, DownloadInv, Left
  <2> QED
    BY <1>1, <1>2, <2>2, <2>3, <2>4 DEF Send, Others, IInv, SecondInv, LaterInv, SpeedInv, SetUpInv, Later, Attached
<1>3. CASE pc = "name"
  <2>1. rx' = <<>> /\ (cmds' = cmds \/ cmds' = Append(cmds, "name"))
    BY <1>3, Table DEF Send, Write, Command
  <2>2. cmds' \in {<<>>, <<"name">>, <<"reset">>, <<"reset", "name">>}
    <3>1. cmds \in {<<>>, <<"reset">>}
      BY <1>w, <1>3 DEF IInv, SecondInv
    <3>2. cmds = <<>> => cmds' = <<>> \/ cmds' = <<"name">>
      BY <2>1
    <3>3. cmds = <<"reset">> => cmds' = <<"reset">> \/ cmds' = <<"reset", "name">>
      BY <2>1
    <3> QED BY <3>1, <3>2, <3>3
  <2>3. SecondInv'
    BY <1>3, <2>1, <2>2 DEF Send, SecondInv, None
  <2>4. cmds' \in Left /\ DownloadInv'
    BY <1>3, <2>2 DEF Send, IInv, DownloadInv, Left, Ops
  <2> QED
    BY <1>1, <1>3, <2>3, <2>4 DEF Send, Others, IInv, FirstInv, LaterInv, SpeedInv, SetUpInv, Later, Attached
<1>4. CASE pc \in Later
  <2>1. rx' = <<>> /\ (cmds' = <<>> \/ cmds' = <<Command>>)
    BY <1>4 DEF Send, Write, IInv, LaterInv, None
  <2>2. Command' = Command /\ Command \in Ops
    BY <1>4 DEF Send, Command, Op, Later, Ops
  <2>3. LaterInv'
    BY <1>4, <2>1, <2>2 DEF Send, LaterInv, None, Later, Attached
  <2>4. DownloadInv'
    BY <1>4, <2>1 DEF Send, DownloadInv, IInv, Write, SpeedInv, Command, Op, Later, LaterInv
  <2> QED
    BY <1>1, <1>4, <2>1, <2>2, <2>3, <2>4 DEF Send, Others, IInv, FirstInv, SecondInv, SpeedInv, SetUpInv, Left, Later, Attached
<1> QED BY <1>2, <1>3, <1>4 DEF Send, Op, Later

\* A step that goes on with nothing between host and controller.
LEMMA SucceedStep == IInv /\ Succeed => IInv'
<1> SUFFICES ASSUME IInv, Succeed PROVE IInv'
  OBVIOUS
<1>1. TypeInv'
  <2>1. pc' \in Places
    BY Table DEF Succeed, Places, Later
  <2>2. speed' \in {Init0, Target} /\ record' \in Nat
    BY DEF Succeed, IInv, TypeInv
  <2> QED BY <2>1, <2>2 DEF Succeed, Others, IInv, TypeInv
<1>w. waiting = TRUE /\ rx # <<>> /\ Answered
  BY DEF Succeed, Answered, IInv, TypeInv
<1>2. CASE pc = "reset1"
  <2>1. cmds \in {<<>>, <<"reset">>} /\ ctl.speed = Init0
    BY <1>w, <1>2 DEF IInv, FirstInv, None
  <2>2. pc' = "name"
    BY <1>2, Table DEF Succeed
  <2> QED
    BY <1>1, <1>2, <2>1, <2>2 DEF Succeed, Others, IInv, FirstInv, SecondInv, LaterInv, SpeedInv, DownloadInv, SetUpInv, Later, Attached
<1>3. CASE pc = "name"
  <2>1. rx' = <<>> /\ cmds = <<>>
    <3>1. One /\ cmds = <<>>
      BY <1>w, <1>3 DEF IInv, SecondInv, None
    <3> QED BY <3>1 DEF Succeed, One
  <2>2. pc' = "locate"
    BY <1>3, Table DEF Succeed
  <2> QED
    BY <1>1, <1>3, <2>1, <2>2 DEF Succeed, Others, IInv, FirstInv, SecondInv, LaterInv, SpeedInv, DownloadInv, SetUpInv, Later, Attached, None
<1>4. CASE pc \in Later
  <2>1. rx' = <<>> /\ cmds = <<>> /\ Obeyed(Head(rx)) /\ Head(rx).ok = TRUE
    <3>1. cmds = <<>> /\ \E e \in Event : rx = <<e>> /\ Obeyed(e)
      BY <1>w, <1>4 DEF IInv, LaterInv, None
    <3>2. PICK e \in Event : rx = <<e>> /\ Obeyed(e)
      BY <3>1
    <3>3. e.ok = TRUE
      BY <3>2 DEF Succeed, Answered, Event
    <3> QED BY <3>1, <3>2, <3>3 DEF Succeed
  <2>2. pc \in {"speed1", "speed2"} => ctl.speed = Target
    BY <2>1 DEF Obeyed
  <2>3. pc = "addr" => ctl.addr = "own"
    BY <2>1 DEF Obeyed
  <2> QED
    BY <1>1, <1>4, <2>1, <2>2, <2>3, Table DEF Succeed, Others, IInv, FirstInv, SecondInv, LaterInv, SpeedInv, DownloadInv, SetUpInv, Later, Attached, None
<1> QED BY <1>2, <1>3, <1>4, Table DEF Succeed

LEMMA RecordStep == IInv /\ RecordDone => IInv'
<1> SUFFICES ASSUME IInv, RecordDone PROVE IInv'
  OBVIOUS
<1>1. TypeInv'
  <2>1. pc' \in Places /\ record' \in Nat
    BY Table DEF RecordDone, IInv, TypeInv, Places, Later
  <2> QED BY <2>1 DEF RecordDone, Others, IInv, TypeInv
<1>2. cmds = <<>> /\ Obeyed(Head(rx))
  BY DEF RecordDone, IInv, TypeInv, LaterInv, None, Later
<1>3. record = Records => skipped = TRUE \/ ctl.mode = "patched"
  BY <1>2 DEF RecordDone, Obeyed
<1> QED
  BY <1>1, <1>2, <1>3 DEF RecordDone, Others, IInv, FirstInv, SecondInv, LaterInv, SpeedInv, DownloadInv, SetUpInv, Left, Later, Attached, None, After

LEMMA FailStep == IInv /\ Fail => IInv'
<1> SUFFICES ASSUME IInv, Fail PROVE IInv'
  OBVIOUS
<1>1. CASE pc = "addr"
  <2>1. TypeInv'
    BY <1>1 DEF Fail, Others, IInv, TypeInv, Places, Later, After
  <2>2. rx' = <<>> /\ cmds = <<>>
    BY <1>1 DEF Fail, IInv, TypeInv, LaterInv, None, Later
  <2> QED
    BY <1>1, <2>1, <2>2 DEF Fail, Others, IInv, FirstInv, SecondInv, LaterInv, SpeedInv, DownloadInv, SetUpInv, Left, Later, Attached, None, After
<1>2. CASE pc # "addr"
  BY <1>2, DiesStep DEF Fail, Others
<1> QED BY <1>1, <1>2

\* The steps without a command, of which the last hands the UART over; and the
\* loop that waits.
LEMMA QuietStep ==
    IInv /\ (Locate \/ Default \/ Attach \/ Test \/ Poll \/ HangUp \/ Signal) => IInv'
<1> USE DEF IInv, FirstInv, SecondInv, LaterInv, SpeedInv, DownloadInv, SetUpInv, Later, Attached, None, Others
<1>1. ASSUME IInv, Locate PROVE IInv'
  <2>1. TypeInv'
    BY <1>1 DEF Locate, TypeInv, Places
  <2>2. pc' = "addr" => hasPatch = FALSE \/ ctl.mode = "patched"
    <3>1. ctl.mode # "rom" => ctl.mode = "patched"
      BY <1>1, BtAssumption DEF BtAssumption, Locate, TypeInv
    <3>2. ctl.mode = "rom" => hasPatch = FALSE \/ pc' = "speed1"
      BY <1>1 DEF Locate, TypeInv
    <3> QED BY <3>1, <3>2
  <2> QED BY <1>1, <2>1, <2>2 DEF Locate
<1>2. ASSUME IInv, Default \/ Attach PROVE IInv'
  <2>1. TypeInv'
    BY <1>2 DEF Default, Attach, TypeInv, Places
  <2> QED BY <1>2, <2>1 DEF Default, Attach
<1>3. ASSUME IInv, Test \/ Poll \/ HangUp \/ Signal PROVE IInv'
  <2>1. TypeInv' /\ pc \in Attached /\ pc' \in Attached
    BY <1>3 DEF Test, Poll, HangUp, Signal, Running, Rest, TypeInv, Places
  <2>2. UNCHANGED <<rx, cmds, ctl, speed, hasPatch, skipped>>
    BY <1>3 DEF Test, Poll, HangUp, Signal, Rest
  <2> QED BY <1>3, <2>1, <2>2
<1> QED BY <1>1, <1>2, <1>3

-----------------------------------------------------------------------------
\* The controller takes a command, whose event may or may not arrive.

\* What may be of commands and events before and after.
LEMMA Taken ==
    ASSUME cmds \in Left, cmds # <<>>
    PROVE /\ Head(cmds) \in Ops
          /\ Tail(cmds) \in {<<>>, <<"name">>, <<"reset">>}
          /\ Tail(cmds) = <<"name">> => cmds = <<"reset", "name">>
          /\ \A op \in Ops : cmds = <<op>> => Head(cmds) = op /\ Tail(cmds) = <<>>
<1>1. CASE cmds = <<"reset", "name">>
  BY <1>1 DEF Ops
<1>2. ASSUME NEW op \in Ops, cmds = <<op>>
      PROVE Head(cmds) = op /\ Tail(cmds) = <<>>
  BY <1>2
<1>3. ASSUME NEW op \in Ops, cmds = <<op, "reset">>
      PROVE Head(cmds) = op /\ Tail(cmds) = <<"reset">>
  BY <1>3
<1> QED
  BY <1>1, <1>2, <1>3 DEF Left

\* Process and Refuse alike: e is the event that arrives, if one does.
Take(e) == /\ cmds # <<>> /\ cmds' = Tail(cmds) /\ UNCHANGED <<host, hasPatch>>
           /\ rx' = rx \/ (pc # "off" /\ rx' = Append(rx, e))
           /\ e.ok = TRUE => e.op = Head(cmds) /\ ctl' = Effect(Head(cmds)) /\ speed = ctl.speed
           /\ skipped' \in BOOLEAN /\ (skipped = TRUE => skipped' = TRUE)
           /\ \/ ctl' = Effect(Head(cmds))
              \/ ctl' = ctl /\ (Head(cmds) = "launch" => skipped' = TRUE)

LEMMA Takes ==
    ASSUME IInv, Process \/ Refuse
    PROVE \E e \in Event : Take(e)
<1> DEFINE good == [op |-> Head(cmds), ok |-> TRUE]
           bad == [op |-> Junk, ok |-> FALSE]
           refused == [op |-> Head(cmds), ok |-> FALSE]
<1>1. Head(cmds) \in Ops /\ cmds # <<>> /\ skipped \in BOOLEAN
  BY Taken DEF IInv, Process, Refuse, TypeInv
<1>2. good \in Event /\ bad \in Event /\ refused \in Event
  BY <1>1 DEF Event
<1>3. good.ok = TRUE /\ bad.ok = FALSE /\ refused.ok = FALSE /\ good.op = Head(cmds)
  OBVIOUS
<1>4. ldisc # "hci"
  BY <1>1 DEF IInv, SpeedInv, LaterInv
<1> HIDE DEF good, bad, refused
<1>5. CASE Process
  <2>1. /\ cmds' = Tail(cmds) /\ ctl' = Effect(Head(cmds))
        /\ UNCHANGED <<host, hasPatch>> /\ skipped' = skipped
    BY <1>5 DEF Process, Others
  <2>2. \/ rx' = rx \/ (pc # "off" /\ rx' = Append(rx, bad))
        \/ (pc # "off" /\ rx' = Append(rx, good) /\ speed = ctl.speed)
    BY <1>4, <1>5 DEF Process, Answer, good, bad
  <2> QED BY <1>1, <1>2, <1>3, <2>1, <2>2 DEF Take
<1>6. CASE Refuse
  <2>1. /\ cmds' = Tail(cmds) /\ ctl' = ctl /\ UNCHANGED <<host, hasPatch>>
        /\ skipped' = (skipped \/ Head(cmds) \in {"record", "launch"})
    BY <1>6 DEF Refuse, Others
  <2>2. rx' = rx \/ (pc # "off" /\ (rx' = Append(rx, bad) \/ rx' = Append(rx, refused)))
    BY <1>4, <1>6 DEF Refuse, bad, refused
  <2>3. /\ skipped' \in BOOLEAN /\ (skipped = TRUE => skipped' = TRUE)
        /\ Head(cmds) = "launch" => skipped' = TRUE
    BY <2>1, <1>1
  <2> QED BY <1>1, <1>2, <1>3, <2>1, <2>2, <2>3 DEF Take
<1> QED BY <1>5, <1>6

LEMMA TakeStep ==
    ASSUME IInv, NEW e \in Event, Take(e)
    PROVE IInv'
<1> DEFINE c == Head(cmds)
<1>1. cmds # <<>> /\ cmds' = Tail(cmds) /\ UNCHANGED <<pc, waiting, speed, record, ldisc, hasPatch>>
  BY DEF Take, host
<1>2. c \in Ops /\ cmds' \in {<<>>, <<"name">>, <<"reset">>}
  BY <1>1, Taken DEF IInv
<1>3. ctl' = Effect(c) \/ (ctl' = ctl /\ (c = "launch" => skipped' = TRUE))
  BY DEF Take
<1>4. skipped' \in BOOLEAN /\ (skipped = TRUE => skipped' = TRUE)
  BY DEF Take
<1>5. TypeInv /\ DownloadInv
  BY DEF IInv
<1>6. TypeInv'
  BY <1>1, <1>2, <1>3, <1>4, <1>5, Effects DEF TypeInv
<1>7. /\ c \notin {"speed", "launch"} => ctl'.speed = ctl.speed
      /\ c \notin {"download", "launch"} => ctl'.mode = ctl.mode
      /\ c \notin {"addr", "launch"} => ctl'.addr = ctl.addr
  BY <1>2, <1>3, <1>5, Effects
<1>8. DownloadInv'
  <2>1. cmds' # <<>> => Head(cmds') # "download"
    BY <1>2
  <2>2. CASE ctl' = ctl
    BY <2>1, <2>2, <1>5 DEF DownloadInv
  <2>3. CASE ctl' = Effect(c)
    BY <1>1, <1>2, <1>5, <2>1, <2>3, Effects DEF DownloadInv, Ops
  <2> QED BY <1>3, <2>2, <2>3
<1>9. pc \in Later => waiting = TRUE /\ None /\ c = Command /\ cmds' = <<>> /\ Command \in Ops
  <2> SUFFICES ASSUME pc \in Later
               PROVE waiting = TRUE /\ None /\ c = Command /\ cmds' = <<>> /\ Command \in Ops
    OBVIOUS
  <2>1. waiting = TRUE /\ None /\ cmds = <<Command>>
    BY <1>1, <1>5 DEF IInv, LaterInv, TypeInv
  <2> QED BY <1>1, <1>2, <2>1
<1>10. pc \notin {"locate", "default", "attach"} \cup Attached
  BY <1>1 DEF IInv, LaterInv
<1>11. pc = "name" => c \in {"reset", "name"}
  BY <1>1, <1>5 DEF IInv, SecondInv, TypeInv
<1>12. SpeedInv'
  BY <1>1, <1>7, <1>10, <1>11 DEF IInv, SpeedInv
<1>13. SetUpInv'
  <2>1. pc \in {"reset2", "addr", "speed2"} => c \in {"reset", "addr", "speed"}
    BY <1>9, Table DEF Command, Later
  <2>2. pc = "speed2" => c = "speed"
    BY <1>9, Table DEF Command, Later
  <2> QED BY <1>1, <1>4, <1>7, <1>10, <2>1, <2>2 DEF IInv, SetUpInv
<1>14. rx' = rx \/ (pc # "off" /\ rx' = Append(rx, e))
  BY DEF Take
<1>15. e.ok = TRUE => e.op = c /\ ctl' = Effect(c)
  BY DEF Take
<1>16. LaterInv'
  <2>1. CASE pc \in Later
    <3>1. Command' = Command
      BY <1>1 DEF Command
    <3>2. rx' = <<>> \/ rx' = <<e>>
      BY <1>9, <1>14, <2>1 DEF None
    <3>3. Obeyed(e)'
      <4>1. pc \in {"speed1", "speed2"} => c = "speed"
        BY <1>9, Table DEF Command, Later
      <4>2. pc = "addr" => c = "addr"
        BY <1>9, Table DEF Command, Later
      <4>3. pc = "record" /\ record = Records => c = "launch"
        BY <1>9 DEF Command, Later
      <4>4. e.ok = TRUE /\ c = "speed" => ctl'.speed = Target
        BY <1>2, <1>5, <1>15, Effects
      <4>5. e.ok = TRUE /\ c = "addr" => ctl'.addr = "own"
        BY <1>2, <1>5, <1>15, Effects
      <4>6. c = "launch" => skipped' = TRUE \/ ctl'.mode = "patched"
        BY <1>2, <1>3, <1>5, Effects
      <4> QED BY <1>1, <4>1, <4>2, <4>3, <4>4, <4>5, <4>6 DEF Obeyed
    <3> QED BY <1>1, <1>9, <2>1, <3>2, <3>3 DEF LaterInv, None, Later, Attached
  <2>2. CASE pc \notin Later
    BY <1>1, <1>10, <1>14, <2>2 DEF IInv, LaterInv, None
  <2> QED BY <2>1, <2>2
<1>17. FirstInv'
  <2> SUFFICES ASSUME pc = "reset1" PROVE FirstInv'
    BY <1>1 DEF FirstInv
  <2>1. speed = Init0 /\ Op[pc] = "reset"
    BY Table DEF IInv, SpeedInv
  <2>2. CASE None
    <3>1. /\ rx' = <<>> \/ rx' = <<e>>
          /\ cmds # <<"reset", "name">>
      BY <1>1, <1>5, <1>14, <2>2 DEF IInv, FirstInv, None, One, TypeInv
    <3>2. cmds' \in {<<>>, <<"reset">>}
      BY <1>1, <1>2, <3>1, Taken DEF IInv
    <3>3. waiting = FALSE => cmds' = <<>>
      <4>1. ASSUME waiting = FALSE PROVE \E op \in Ops : cmds = <<op>>
        BY <1>1, <2>2, <4>1 DEF IInv, FirstInv, One, None, Left
      <4> QED BY <1>1, <4>1, Taken DEF IInv
    <3>4. rx' # <<>> /\ Answered' => ctl'.speed = Init0
      <4>1. e.ok = TRUE /\ e.op = "reset" => ctl'.speed = Init0
        BY <1>7, <1>15, <2>1 DEF Take
      <4>2. rx' = <<e>> /\ Answered' => e.op = "reset" /\ e.ok = TRUE
        BY <1>1, <2>1 DEF Answered, Event
      <4> QED BY <3>1, <4>1, <4>2
    <3>5. None' \/ One'
      BY <3>1 DEF None, One
    <3>6. cmds' # <<"reset", "name">>
      BY <3>2
    <3>7. waiting = FALSE \/ waiting = TRUE
      BY <1>5 DEF TypeInv
    <3> QED BY <1>1, <3>2, <3>3, <3>4, <3>5, <3>6, <3>7 DEF FirstInv
  <2>3. CASE ~None
    <3>1. waiting = TRUE /\ One /\ cmds = <<"reset">>
      BY <1>1, <1>5, <2>3 DEF IInv, FirstInv, None, TypeInv
    <3>2. PICK d \in Event : rx = <<d>>
      BY <3>1 DEF One
    <3>3. cmds' = <<>> /\ c = "reset" /\ (rx' = <<d>> \/ rx' = <<d, e>>)
      BY <1>1, <1>14, <3>1, <3>2
    <3>4. rx' # <<>> /\ Answered' => ctl'.speed = Init0
      <4>1. Head(rx') = Head(rx)
        BY <3>2, <3>3
      <4>2. Answered' => Answered
        BY <1>1, <3>2, <4>1 DEF Answered
      <4> QED BY <1>7, <3>2, <3>3, <4>2 DEF IInv, FirstInv
    <3> QED BY <1>1, <3>1, <3>3, <3>4 DEF FirstInv, One, Two
  <2> QED BY <2>2, <2>3
<1>18. SecondInv'
  <2> SUFFICES ASSUME pc = "name" PROVE SecondInv'
    BY <1>1 DEF SecondInv
  <2>1. Op[pc] = "name"
    BY Table
  <2>2. CASE waiting = FALSE
    <3>1. cmds = <<"reset">>
      BY <1>1, <2>2 DEF IInv, SecondInv
    <3> QED BY <1>1, <2>2, <3>1 DEF SecondInv
  <2>3. CASE waiting = TRUE /\ None
    <3>1. rx' = <<>> \/ rx' = <<e>>
      BY <1>14, <2>3 DEF None
    <3>2. cmds \in {<<"name">>, <<"reset">>, <<"reset", "name">>}
      BY <1>1, <2>3 DEF IInv, SecondInv, None, One, Two
    <3>3. /\ cmds' \in {<<>>, <<"name">>}
          /\ cmds' = <<"name">> => c = "reset"
      <4>1. cmds = <<"name">> => Tail(cmds) = <<>>
        OBVIOUS
      <4>2. cmds = <<"reset">> => Tail(cmds) = <<>>
        OBVIOUS
      <4>3. cmds = <<"reset", "name">> => Tail(cmds) = <<"name">> /\ c = "reset"
        OBVIOUS
      <4> QED BY <1>1, <3>2, <4>1, <4>2, <4>3
    <3>4. rx' = <<e>> /\ c = "reset" => ~Answered'
      BY <1>1, <1>15, <2>1 DEF Answered
    <3> QED BY <1>1, <2>3, <3>1, <3>3, <3>4 DEF SecondInv, None, One
  <2>4. CASE waiting = TRUE /\ ~None
    <3>1. One /\ cmds = <<"name">> /\ ~Answered
      BY <1>1, <2>4 DEF IInv, SecondInv, None
    <3>2. PICK d \in Event : rx = <<d>>
      BY <3>1 DEF One
    <3>3. cmds' = <<>> /\ (rx' = <<d>> \/ rx' = <<d, e>>)
      BY <1>1, <1>14, <3>1, <3>2
    <3>4. ~Answered'
      BY <1>1, <3>1, <3>2, <3>3 DEF Answered
    <3> QED BY <1>1, <2>4, <3>3, <3>4 DEF SecondInv, One, Two
  <2> QED BY <1>5, <2>2, <2>3, <2>4 DEF TypeInv
<1> QED BY <1>2, <1>6, <1>8, <1>12, <1>13, <1>16, <1>17, <1>18 DEF IInv, Left, Ops

-----------------------------------------------------------------------------
LEMMA StepInductive == IInv /\ [Next]_vars => IInv'
<1> SUFFICES ASSUME IInv, [Next]_vars PROVE IInv'
  OBVIOUS
<1>1. CASE Alarm \/ Die \/ Restore
  BY <1>1, DiesStep DEF Alarm, Die, Restore
<1>2. CASE Process \/ Refuse
  BY <1>2, Takes, TakeStep
<1>3. CASE UNCHANGED vars
  BY <1>3 DEF vars, host, IInv, TypeInv, FirstInv, SecondInv, LaterInv, SpeedInv, DownloadInv, SetUpInv,
              None, One, Two, Answered, Command, Obeyed
<1> QED
  BY <1>1, <1>2, <1>3, OpenStep, SendStep, SucceedStep, RecordStep, FailStep, QuietStep DEF Next, Steps

\* When the kernel has the UART, both ends run at full speed and nothing is left
\* between them, for any firmware and any number of losses, refusals and restarts.
THEOREM Agreement == Spec => []AttachedAgrees
<1>1. IInv => AttachedAgrees
  BY DEF IInv, SpeedInv, LaterInv, None, AttachedAgrees, Attached
<1> QED BY <1>1, InitInductive, StepInductive, PTL DEF Spec

\* An attached controller has its address and its firmware, unless a record was
\* refused or the address given up.
THEOREM SetUp == Spec => []AttachedSetUp
<1>1. IInv => AttachedSetUp
  BY DEF IInv, TypeInv, SpeedInv, SetUpInv, AttachedSetUp, Attached
<1> QED BY <1>1, InitInductive, StepInductive, PTL DEF Spec
=============================================================================
