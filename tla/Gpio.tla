-------------------------------- MODULE Gpio --------------------------------
(* The two GPIO services (src/gpio/src/gpiod.cpp, gpiosetd.cpp): gpiod runs a *)
(* script for each edge of the lines it monitors, gpiosetd holds lines at a   *)
(* value, and init starts either anew whenever its configuration changes.     *)
EXTENDS Naturals, FiniteSets, FiniteSetsExt, Sequences, SequencesExt

CONSTANTS Lines,      \* GPIO lines, numbers
          QueueLen,   \* edges the kernel keeps for a line
          Wanteds,    \* values of -n, 0 for none
          Settings,   \* sets of lines gpiosetd may be told to set
          MaxEdges,   \* bound on edges of a line while gpiod runs
          MaxChanges  \* bound on changes of the configuration

ASSUME GpioAssumption == /\ Lines \subseteq Nat /\ IsFiniteSet(Lines)
                         /\ QueueLen \in Nat \ {0} /\ Wanteds \subseteq Nat

VARIABLES monitored, set, \* persist.rpi4.gpiod.lines, persist.rpi4.gpiosetd.values
          due,        \* services whose trigger init has still to run
          changes,    \* changes of the configuration
          edges,      \* edges of each line since gpiod requested it
          pc,         \* where gpiod is
          held,       \* lines gpiod has requested
          queue,      \* the kernel's queue of edges for each
          batch,      \* lines poll_callback flagged and that are still to be read
          cur,        \* the event whose script runs: <<line, edge>>, or <<>>
          events_wanted, events_done,
          signal,     \* the blocked signals that are pending for gpiod
          setter,     \* where gpiosetd is
          sheld,      \* lines it has requested
          got, lost,  \* (history) the edges this gpiod ran and the kernel dropped
          passed,     \* (history) scripts of other lines run while an edge waits
          late        \* (history) scripts begun while SIGTERM is pending

init == <<monitored, set, due, changes>>
history == <<edges, got, lost, passed, late>>
gpiosetd == <<setter, sheld>>
gpiod == <<pc, held, batch, cur, events_done, signal>>
vars == <<init, gpiod, events_wanted, queue, gpiosetd, history>>

Signals == {"SIGTERM", "SIGINT"}
Nothing == [l \in Lines |-> <<>>]
Zero == [l \in Lines |-> 0]

Init == /\ monitored \in SUBSET Lines \ {{}} /\ set \in Settings
        /\ due = {"gpiod", "gpiosetd"} /\ changes = 0
        /\ edges = Zero
        /\ pc = "off" /\ held = {} /\ queue = Nothing /\ batch = {} /\ cur = <<>>
        /\ events_wanted \in Wanteds /\ events_done = 0 /\ signal = {}
        /\ setter = "off" /\ sheld = {}
        /\ got = Nothing /\ lost = [l \in Lines |-> {}]
        /\ passed = Zero /\ late = 0

-----------------------------------------------------------------------------
\* init and whoever sets the properties.

Change == /\ changes < MaxChanges /\ changes' = changes + 1
          /\ \/ /\ monitored' \in SUBSET Lines \ {{}, monitored}
                /\ due' = due \cup {"gpiod"} /\ UNCHANGED set
             \/ /\ set' \in Settings \ {set}
                /\ due' = due \cup {"gpiosetd"} /\ UNCHANGED monitored
          /\ UNCHANGED <<gpiod, events_wanted, queue, gpiosetd, history>>

\* gpiod is gone, its request and its queues with it.
Gone == /\ held' = {} /\ queue' = Nothing /\ batch' = {} /\ cur' = <<>>
        /\ edges' = Zero /\ got' = Nothing /\ lost' = [l \in Lines |-> {}]
        /\ passed' = Zero /\ late' = 0

\* A trigger without the stop: a start does nothing to a service that runs (a mutation).
RestartGpiodNoStop ==
    /\ "gpiod" \in due
    /\ due' = due \ {"gpiod"}
    /\ IF pc = "off" THEN pc' = "start" /\ events_done' = 0 /\ signal' = {} /\ Gone
         ELSE UNCHANGED <<gpiod, queue, history>>
    /\ UNCHANGED <<monitored, set, changes, events_wanted, gpiosetd>>

\* stop kills gpiod, whatever it does, and start follows when it is dead.
RestartGpiod == /\ "gpiod" \in due
                /\ due' = due \ {"gpiod"}
                /\ pc' = "start" /\ events_done' = 0 /\ signal' = {} /\ Gone
                /\ UNCHANGED <<monitored, set, changes, events_wanted, gpiosetd>>

RestartGpiosetd == /\ "gpiosetd" \in due
                   /\ due' = due \ {"gpiosetd"}
                   /\ setter' = "start" /\ sheld' = {}
                   /\ UNCHANGED <<monitored, set, changes, gpiod, events_wanted, queue, history>>

\* gpiosetd sets its lines and waits for a signal; without lines, or when one of
\* them is taken, it ends.
Set == /\ setter = "start"
       /\ IF set # {} /\ set \cap held = {}
            THEN setter' = "wait" /\ sheld' = set
            ELSE setter' = "off" /\ sheld' = {}
       /\ UNCHANGED <<init, gpiod, events_wanted, queue, history>>

-----------------------------------------------------------------------------
\* gpiod

\* The lines are requested, and from now on the kernel queues their edges.
Request == /\ pc = "start"
           /\ IF monitored \cap sheld = {}
                THEN pc' = "poll" /\ held' = monitored
                ELSE pc' = "off" /\ held' = {}
           /\ UNCHANGED <<init, queue, batch, cur, events_done, signal, events_wanted, gpiosetd, history>>

Exit == pc' = "off" /\ Gone

\* A callback that only stops when no line has an event (a mutation).
PollLinesFirst ==
    /\ pc = "poll"
    /\ LET flagged == {l \in held : queue[l] # <<>>}
       IN  \/ /\ signal # {} /\ flagged = {}
              /\ Exit
           \/ /\ flagged # {}
              /\ batch' = flagged /\ pc' = "read"
              /\ UNCHANGED <<held, queue, cur, history>>
    /\ UNCHANGED <<init, events_wanted, events_done, signal, gpiosetd>>

\* A callback that does not look at the last line (a mutation).
PollButLast == /\ pc = "poll"
  /\ LET flagged == {l \in held \ {Max(held)} : queue[l] # <<>>}
     IN  \/ signal # {} /\ Exit
         \/ /\ signal = {} /\ flagged # {}
            /\ batch' = flagged /\ pc' = "read"
            /\ UNCHANGED <<held, queue, cur, history>>
  /\ UNCHANGED <<init, events_wanted, events_done, signal, gpiosetd>>

\* poll_callback: the lines with an edge are flagged, but a signal that is there
\* as well ends the service without them.
Poll == /\ pc = "poll"
        /\ LET flagged == {l \in held : queue[l] # <<>>}
           IN  \/ /\ signal # {}
                  /\ Exit
               \/ /\ signal = {} /\ flagged # {}
                  /\ batch' = flagged /\ pc' = "read"
                  /\ UNCHANGED <<held, queue, cur, history>>
        /\ UNCHANGED <<init, events_wanted, events_done, signal, gpiosetd>>

\* The script is begun with the line's first edge.  system ignores SIGINT while the
\* script runs: one that is pending by then is discarded, blocked as it is, while
\* one that comes during the script stays pending, as blocked signals do.
Trigger(l) == /\ cur' = <<l, Head(queue[l])>>
              /\ passed' = [m \in Lines |-> IF m # l /\ queue[m] # <<>> THEN passed[m] + 1
                                              ELSE IF m = l THEN 0 ELSE passed[m]]
              /\ late' = IF "SIGTERM" \in signal THEN late + 1 ELSE late
              /\ signal' = signal \ {"SIGINT"}
              /\ pc' = "script"
              /\ UNCHANGED <<init, edges, held, events_done, events_wanted, gpiosetd, got, lost>>

\* A line that is read until it has no edge (a mutation).
ReadAll == /\ pc = "read"
           /\ LET l == Min(batch)
              IN  /\ queue' = [queue EXCEPT ![l] = Tail(@)]
                  /\ batch' = IF queue'[l] = <<>> THEN batch \ {l} ELSE batch
                  /\ Trigger(l)

\* A read that throws away the edges after the first (a mutation).
ReadFlush == /\ pc = "read"
             /\ LET l == Min(batch)
                IN  /\ queue' = [queue EXCEPT ![l] = <<>>]
                    /\ batch' = batch \ {l}
                    /\ Trigger(l)

\* gpiod_ctxless_event_monitor_multiple: of each flagged line one edge is read.
Read == /\ pc = "read"
        /\ LET l == Min(batch)
           IN  /\ queue' = [queue EXCEPT ![l] = Tail(@)]
               /\ batch' = batch \ {l}
               /\ Trigger(l)

\* system returns, and event_callback says whether to go on.
ScriptEnds == /\ pc = "script"
              /\ events_done' = events_done + 1
              /\ IF events_wanted > 0 /\ events_done' >= events_wanted
                   THEN Exit
                   ELSE /\ cur' = <<>> /\ pc' = IF batch = {} THEN "poll" ELSE "read"
                        /\ got' = [got EXCEPT ![cur[1]] = Append(@, cur[2])]
                        /\ UNCHANGED <<held, queue, batch, edges, lost, passed, late>>
              /\ UNCHANGED <<init, signal, events_wanted, gpiosetd>>

-----------------------------------------------------------------------------
\* The world.

\* An edge of the kind asked for: it is queued, or dropped when the queue is full.
Edge(l) == /\ l \in held /\ edges[l] < MaxEdges
           /\ edges' = [edges EXCEPT ![l] = @ + 1]
           /\ IF Len(queue[l]) < QueueLen
                THEN queue' = [queue EXCEPT ![l] = Append(@, edges'[l])] /\ UNCHANGED lost
                ELSE lost' = [lost EXCEPT ![l] = @ \cup {edges'[l]}] /\ UNCHANGED queue
           /\ UNCHANGED <<init, gpiod, events_wanted, gpiosetd, got, passed, late>>

\* init, a shell or another process sends a signal.
Signal(s) == /\ pc \notin {"off", "start"} /\ s \notin signal
             /\ signal' = signal \cup {s}
             /\ UNCHANGED <<init, pc, held, batch, cur, events_done, events_wanted, queue, gpiosetd, history>>

\* poll that times out after ten seconds: nothing happens.
Timeout == pc = "poll" /\ signal = {} /\ (\A l \in held : queue[l] = <<>>) /\ UNCHANGED vars

Service == Request \/ Poll \/ Read \/ ScriptEnds
Restart == RestartGpiod \/ RestartGpiosetd
World == (\E l \in Lines : Edge(l)) \/ (\E s \in Signals : Signal(s)) \/ Change

Next == Restart \/ Set \/ Service \/ World \/ Timeout

\* init runs what is due, the services run and every script ends.
Spec == /\ Init /\ [][Next]_vars
        /\ WF_vars(Service) /\ WF_vars(Set) /\ WF_vars(RestartGpiod) /\ WF_vars(RestartGpiosetd)

-----------------------------------------------------------------------------
\* What became of a line's edges since the request, in order: their scripts ran,
\* one runs, the rest waits; and none is missing but those the kernel dropped.
Course(l) == got[l] \o (IF cur # <<>> /\ cur[1] = l THEN <<cur[2]>> ELSE <<>>) \o queue[l]
EdgesConserved ==
    \A l \in held : /\ \A i, j \in DOMAIN Course(l) : i < j => Course(l)[i] < Course(l)[j]
                    /\ ToSet(Course(l)) \cup lost[l] = 1 .. edges[l]

\* While an edge waits, each other line runs at most two scripts: one of the batch
\* that is being read and one of the next.
FairToLines == \A l \in held : passed[l] <= 2 * (Cardinality(held) - 1)

\* After a SIGTERM no more scripts are begun than the batch has lines, and with -n
\* no more than so many run.  Nothing of the kind holds of SIGINT, which the next
\* script of the batch discards.
EndsInTime == /\ late <= Cardinality(Lines)
              /\ events_wanted > 0 => events_done <= events_wanted

\* Every edge that is queued is taken, unless the service ends.
EdgesServed == \A l \in Lines, k \in 1 .. MaxEdges : k \in ToSet(queue[l]) ~> k \notin ToSet(queue[l])

\* A service that goes on running comes to monitor the lines that are configured.
ConfigTakesEffect == <>[](pc = "off" \/ held = monitored)
=============================================================================
