---------------------------- MODULE GpsLifecycle ----------------------------
(* Starting and stopping the GPS HAL (src/hal/gps/gnsshal/gps_zkw.c): the     *)
(* location service calls init, start, stop and cleanup; a reader thread      *)
(* waits in epoll for a CMD_STOP on the control socket and for sentences on   *)
(* the GPS tty.  They share the flag `started' and the descriptors of         *)
(* _gps_state without a lock.                                                 *)
EXTENDS Naturals

CONSTANTS Readers,     \* reader threads that may ever be created
          Trouble,     \* what the environment does, out of Troubles
          MaxPending   \* bound on unread CMD_STOPs

\* "restart", "cleanup": the service starts, or cleans up, while a reader is
\* still there; "unplug": the GPS is missing at times; "nosocket", "nothread":
\* the socket pair or the thread cannot be created.
Troubles == {"restart", "cleanup", "unplug", "nosocket", "nothread"}

ASSUME GpsAssumption == Trouble \subseteq Troubles /\ MaxPending \in Nat \ {0}

VARIABLES fw,        \* the location service: "off", "ready", "nav", "closing"
          init,      \* s->init
          started,   \* the static flag
          cur,       \* the descriptor numbers of _gps_state, or Closed
          zero,      \* descriptor 0 was closed by the first gps_state_done
          ctlHup,    \* control[0] is closed and control[1] still open
          reg,       \* what is registered with the epoll descriptor
          pending,   \* bytes in control[1]
          plugged,   \* the GPS device is there
          hup,       \* the open tty has hung up
          pc,        \* where each reader is
          num,       \* the descriptor numbers it cached when it began
          met        \* (history) the troubles met so far

vars == <<fw, init, started, cur, zero, ctlHup, reg, pending, plugged, hup, pc, num, met>>
shared == <<fw, init, cur, zero, ctlHup, plugged, hup, met>>

\* The kernel gives the lowest free numbers, so the numbers depend on whether
\* descriptor 0 is free and on which of the descriptors were opened.
Numbers == SUBSET {"epoll", "tty", "shifted"}
Closed == {}
Opened(devices) == devices \cup IF zero THEN {"shifted"} ELSE {}
Labels == {"off", "begin", "regCtl", "regTty", "poll", "wait", "parse", "check",
           "cmd", "deregCtl", "deregTty", "lost"}

Init == /\ fw = "off" /\ init = FALSE /\ started = FALSE
        /\ cur = Closed /\ zero = FALSE /\ ctlHup = FALSE
        /\ reg = {} /\ pending = 0
        /\ plugged \in (IF "unplug" \in Trouble THEN BOOLEAN ELSE {TRUE})
        /\ hup = FALSE
        /\ pc = [t \in Readers |-> "off"]
        /\ num = [t \in Readers |-> Closed]
        /\ met = IF plugged THEN {} ELSE {"unplug"}

\* Trouble is met and goes into the history.
Meet(troubles) == met' = met \cup troubles

NoReader == \A t \in Readers : pc[t] \in {"off", "lost"}
WaitsUnless(trouble) == trouble \in Trouble \/ NoReader

\* The tty and the control sockets of _gps_state are open.
TtyOpen == "tty" \in cur

-----------------------------------------------------------------------------
\* The location service, through GpsInterface

\* A state that was initialised before is taken as it is.
InitAgain == /\ fw = "off" /\ init
             /\ fw' = "ready"
             /\ UNCHANGED <<init, started, cur, zero, ctlHup, reg, pending, plugged, hup, pc, num, met>>

InitOpens == /\ fw = "off" /\ ~init /\ plugged
             /\ cur' = Opened({"epoll", "tty"})
             /\ init' = TRUE /\ fw' = "ready"
             /\ hup' = FALSE
             /\ UNCHANGED <<started, zero, ctlHup, reg, pending, plugged, pc, num, met>>

\* No GPS: only the epoll descriptor is open, init is set and -1 is returned.
InitMissing == /\ fw = "off" /\ ~init /\ ~plugged
               /\ cur' = Opened({"epoll"})
               /\ init' = TRUE
               /\ UNCHANGED <<fw, started, zero, ctlHup, reg, pending, plugged, hup, pc, num, met>>

\* The socket pair fails: gps_state_done closes everything, init is set again.
InitFails == /\ fw = "off" /\ ~init /\ plugged /\ "nosocket" \in Trouble
             /\ zero' = TRUE
             /\ init' = TRUE
             /\ Meet({"nosocket"})
             /\ UNCHANGED <<fw, started, cur, ctlHup, reg, pending, plugged, hup, pc, num>>

Overlap(trouble) == IF NoReader THEN {} ELSE {trouble}

Start == /\ fw = "ready" /\ WaitsUnless("restart")
         /\ fw' = "nav"
         /\ \/ /\ started                      \* "Already started"
               /\ Meet(Overlap("restart"))
               /\ UNCHANGED <<started, pc, num>>
            \/ /\ ~started
               /\ \E t \in Readers : /\ pc[t] = "off"
                                     /\ pc' = [pc EXCEPT ![t] = "begin"]
               /\ started' = TRUE
               /\ Meet(Overlap("restart"))
               /\ UNCHANGED num
            \/ /\ ~started /\ "nothread" \in Trouble
               /\ Meet(Overlap("restart") \cup {"nothread"})
               /\ UNCHANGED <<started, pc, num>>
         /\ UNCHANGED <<init, cur, zero, ctlHup, reg, pending, plugged, hup>>

\* gps_state_stop: CMD_STOP goes to control[0] when a reader is thought to run.
SendStop == pending' = IF started /\ TtyOpen /\ pending < MaxPending
                         THEN pending + 1 ELSE pending

\* A stop that trusts the flag to be enough and writes nothing (a mutation).
StopSilent == /\ fw = "nav"
              /\ fw' = "ready"
              /\ UNCHANGED <<init, started, cur, zero, ctlHup, reg, pending, plugged, hup, pc, num, met>>

\* A stop that closes the descriptors as well (a mutation).
StopCloses == /\ fw = "nav"
              /\ fw' = "ready"
              /\ SendStop
              /\ cur' = Closed /\ reg' = {}
              /\ UNCHANGED <<init, started, zero, ctlHup, plugged, hup, pc, num, met>>

Stop == /\ fw = "nav"
        /\ fw' = "ready"
        /\ SendStop
        /\ UNCHANGED <<init, started, cur, zero, ctlHup, reg, plugged, hup, pc, num, met>>

\* Cleanup sends CMD_STOP, if a reader runs, and closes control[0] ...
CleanupBegins ==
    /\ fw = "ready" /\ WaitsUnless("cleanup")
    /\ fw' = "closing"
    /\ SendStop
    /\ ctlHup' = TtyOpen
    /\ Meet(Overlap("cleanup"))
    /\ UNCHANGED <<init, started, cur, zero, reg, plugged, hup, pc, num>>

\* ... then the other descriptors: what they were registered for or held is
\* gone, and a reader that waits in the old epoll waits for nothing.
CleanupEnds ==
    /\ fw = "closing"
    /\ fw' = "off" /\ init' = FALSE
    /\ cur' = Closed /\ zero' = TRUE /\ ctlHup' = FALSE
    /\ reg' = {} /\ pending' = 0
    /\ hup' = FALSE
    /\ pc' = [t \in Readers |-> IF pc[t] = "wait" THEN "lost" ELSE pc[t]]
    /\ UNCHANGED <<started, plugged, num, met>>

\* The GPS is pulled, which hangs up its tty, or plugged in again.
Plug == /\ "unplug" \in Trouble
        /\ plugged' = ~plugged
        /\ hup' = (hup \/ (TtyOpen /\ plugged))
        /\ Meet({"unplug"})
        /\ UNCHANGED <<fw, init, started, cur, zero, ctlHup, reg, pending, pc, num>>

-----------------------------------------------------------------------------
\* gps_state_thread

Goto(t, l) == pc' = [pc EXCEPT ![t] = l]

\* The numbers the reader cached still name the descriptors of _gps_state.
Valid(t) == num[t] # Closed /\ num[t] = cur

Begin(t) == /\ pc[t] = "begin"
            /\ num' = [num EXCEPT ![t] = cur]
            /\ Goto(t, "regCtl")
            /\ UNCHANGED <<shared, started, reg, pending>>

\* epoll_register: an error is logged and the reader goes on.
Register(t, d) == reg' = IF Valid(t) /\ TtyOpen THEN reg \cup {d} ELSE reg

RegCtl(t) == /\ pc[t] = "regCtl"
             /\ Register(t, "ctl")
             /\ Goto(t, "regTty")
             /\ UNCHANGED <<shared, started, pending, num>>

\* The control socket registered a second time instead of the tty (a mutation).
RegTtyWrong(t) == /\ pc[t] = "regTty"
                  /\ Register(t, "ctl")
                  /\ Goto(t, "poll")
                  /\ UNCHANGED <<shared, started, pending, num>>

RegTty(t) == /\ pc[t] = "regTty"
             /\ Register(t, "tty")
             /\ Goto(t, "poll")
             /\ UNCHANGED <<shared, started, pending, num>>

\* epoll_wait blocks; on a number that is not the epoll descriptor any more it
\* fails, and the reader calls it again and again.
Poll(t) == /\ pc[t] = "poll" /\ Valid(t)
           /\ Goto(t, "wait")
           /\ UNCHANGED <<shared, started, reg, pending, num>>

\* EPOLLERR or EPOLLHUP on either descriptor: the reader leaves.
WakeHup(t) == /\ pc[t] = "wait"
              /\ ("ctl" \in reg /\ ctlHup) \/ ("tty" \in reg /\ hup)
              /\ Goto(t, "deregCtl")
              /\ UNCHANGED <<shared, started, reg, pending, num>>

WakeCtl(t) == /\ pc[t] = "wait" /\ "ctl" \in reg /\ ~ctlHup /\ pending > 0
              /\ Goto(t, "cmd")
              /\ UNCHANGED <<shared, started, reg, pending, num>>

\* A command that is read but leaves the flag alone (a mutation).
ReadCmdKeeps(t) == /\ pc[t] = "cmd"
                   /\ pending' = IF Valid(t) /\ pending > 0 THEN pending - 1 ELSE pending
                   /\ Goto(t, "deregCtl")
                   /\ UNCHANGED <<shared, started, reg, num>>

\* One byte is read, unless another reader was faster or the socket is closed.
ReadCmd(t) == /\ pc[t] = "cmd"
              /\ IF Valid(t) /\ pending > 0
                   THEN pending' = pending - 1 /\ started' = FALSE
                   ELSE UNCHANGED <<pending, started>>
              /\ Goto(t, "check")
              /\ UNCHANGED <<shared, reg, num>>

WakeTty(t) == /\ pc[t] = "wait" /\ "tty" \in reg /\ ~hup /\ plugged
              /\ Goto(t, "parse")
              /\ UNCHANGED <<shared, started, reg, pending, num>>

\* Sentences are read until the tty has no more; one that hung up returns no
\* byte and no error for ever, and the reader stays in the loop.
Parse(t) == /\ pc[t] = "parse" /\ ~(Valid(t) /\ hup)
            /\ Goto(t, "check")
            /\ UNCHANGED <<shared, started, reg, pending, num>>

Check(t) == /\ pc[t] = "check"
            /\ Goto(t, IF started THEN "poll" ELSE "deregCtl")
            /\ UNCHANGED <<shared, started, reg, pending, num>>

Deregister(t, d) == reg' = IF Valid(t) THEN reg \ {d} ELSE reg

DeregCtl(t) == /\ pc[t] = "deregCtl"
               /\ Deregister(t, "ctl")
               /\ Goto(t, "deregTty")
               /\ UNCHANGED <<shared, started, pending, num>>

DeregTty(t) == /\ pc[t] = "deregTty"
               /\ Deregister(t, "tty")
               /\ Goto(t, "off")
               /\ num' = [num EXCEPT ![t] = Closed]
               /\ UNCHANGED <<shared, started, pending>>

-----------------------------------------------------------------------------
Service == \/ InitAgain \/ InitOpens \/ InitMissing \/ InitFails
           \/ Start \/ Stop \/ CleanupBegins \/ CleanupEnds

Reader(t) == \/ Begin(t) \/ RegCtl(t) \/ RegTty(t) \/ Poll(t)
             \/ WakeHup(t) \/ WakeCtl(t) \/ ReadCmd(t) \/ WakeTty(t) \/ Parse(t)
             \/ Check(t) \/ DeregCtl(t) \/ DeregTty(t)

Next == Service \/ Plug \/ \E t \in Readers : Reader(t)

Spec == Init /\ [][Next]_vars

\* The kernel runs the readers, and a command that stays unread is not passed
\* over for ever by sentences: epoll_wait reports both.
FairSpec == Spec /\ \A t \in Readers : WF_vars(Reader(t)) /\ SF_vars(WakeCtl(t))

-----------------------------------------------------------------------------
\* Without trouble, but for threads that cannot be created, when the last
\* reader has left nothing of its session is left for the next one: the flag is
\* down, no command is unread and nothing is registered.
FreshStart == NoReader /\ fw \in {"off", "ready"} /\ met \subseteq {"nothread"} =>
                ~started /\ pending = 0 /\ reg = {}

\* The numbers a reader cached when it began stay those of _gps_state for as
\* long as it runs, across failed starts, hang-ups and restarts, if cleanup
\* always waits for it.
NoStaleNumbers == "cleanup" \notin met =>
                    \A t \in Readers : pc[t] \notin {"off", "begin"} => num[t] = cur

Heard == \E t \in Readers : pc[t] = "wait" /\ reg = {"ctl", "tty"}
Session == fw = "nav" /\ TtyOpen /\ plugged /\ ~hup

\* "it waits for commands from gps_state_start/stop and, when started, messages
\* from the GPS daemon": while the service navigates, a reader comes to wait
\* for the sentences and for the command.
SessionHeard == Session ~> (Heard \/ ~Session)

\* The same for a service that never met trouble: none of its sessions is lost.
CalmSessionHeard == Session ~> (Heard \/ ~Session \/ met # {})

\* After stop the reader leaves, unless the service starts again or cleans up
\* first, or met other trouble than a missing thread.
StopEndsReader == fw = "ready" ~> (NoReader \/ fw # "ready" \/ ~(met \subseteq {"nothread"}))
=============================================================================
