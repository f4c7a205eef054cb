----------------------------- MODULE GpioProofs -----------------------------
(* Proofs about Gpio for any set of lines, any queues and any number of       *)
(* edges: every edge is run once and in order or was dropped by the kernel,   *)
(* no line waits for more than two scripts of each other, and a SIGTERM or a  *)
(* count ends the service in time.                                            *)
EXTENDS Gpio, FiniteSetTheorems, SequenceTheorems, TLAPS

TypeInv == /\ monitored \in SUBSET Lines /\ held \in SUBSET Lines /\ batch \in SUBSET held
           /\ queue \in [Lines -> Seq(Nat)] /\ got \in [Lines -> Seq(Nat)]
           /\ edges \in [Lines -> Nat] /\ passed \in [Lines -> Nat]
           /\ lost \in [Lines -> SUBSET Nat]
           /\ cur = <<>> \/ cur \in Lines \X Nat
           /\ late \in Nat /\ events_done \in Nat /\ events_wanted \in Nat

\* There is nothing before the request.
Afresh == /\ held = {} /\ queue = Nothing /\ batch = {} /\ cur = <<>>
          /\ edges = Zero /\ got = Nothing /\ lost = [l \in Lines |-> {}]
          /\ passed = Zero /\ late = 0

\* What each place of gpiod means.
PlaceInv == /\ pc \in {"off", "start"} => Afresh
            /\ pc # "script" => cur = <<>>
            /\ pc = "script" => cur # <<>>
            /\ pc = "poll" => batch = {}
            /\ pc = "read" => batch # {}
            /\ \A l \in batch : queue[l] # <<>>

\* A line waits for the rest of the batch and, unless it is in it, for the next.
WaitInv == \A l \in held :
    /\ queue[l] = <<>> => passed[l] = 0
    /\ l \in batch => passed[l] + Cardinality(batch) - 1 <= 2 * (Cardinality(held) - 1)
    /\ l \notin batch => passed[l] + Cardinality(batch) <= Cardinality(held) - 1

\* After a SIGTERM there is the rest of the batch, and a count that is reached ends.
EndInv == /\ "SIGTERM" \in signal \/ late = 0
          /\ late + Cardinality(batch) <= Cardinality(Lines)
          /\ events_wanted > 0 => /\ events_done <= events_wanted
                                  /\ pc # "off" => events_done < events_wanted

-----------------------------------------------------------------------------
\* The steps, by what they do to the lines and their edges.

core == <<pc, held, batch, cur, queue, edges, got, lost, passed, late>>

Stay == UNCHANGED core
Leave == Gone /\ pc' \in {"off", "start"}
Hold == /\ pc = "start" /\ pc' = "poll" /\ held' = monitored
        /\ UNCHANGED <<batch, cur, queue, edges, got, lost, passed, late>>
NoHold == /\ pc = "start" /\ pc' = "off" /\ held' = {}
          /\ UNCHANGED <<batch, cur, queue, edges, got, lost, passed, late>>
Gather == /\ pc = "poll" /\ pc' = "read" /\ signal = {}
          /\ batch' = {l \in held : queue[l] # <<>>} /\ batch' # {}
          /\ UNCHANGED <<held, cur, queue, edges, got, lost, passed, late>>
Finish == /\ pc = "script" /\ pc' = IF batch = {} THEN "poll" ELSE "read"
          /\ cur' = <<>> /\ got' = [got EXCEPT ![cur[1]] = Append(@, cur[2])]
          /\ UNCHANGED <<held, batch, queue, edges, lost, passed, late>>

LEMMA Steps ==
    [Next]_vars => \/ Stay \/ Leave \/ Hold \/ NoHold \/ Gather \/ Read \/ Finish
                   \/ \E l \in Lines : Edge(l)
<1> SUFFICES ASSUME [Next]_vars
             PROVE \/ Stay \/ Leave \/ Hold \/ NoHold \/ Gather \/ Read \/ Finish
                   \/ \E l \in Lines : Edge(l)
  OBVIOUS
<1>1. CASE RestartGpiod
  BY <1>1 DEF RestartGpiod, Leave
<1>2. CASE RestartGpiosetd
  BY <1>2 DEF RestartGpiosetd, Stay, core, gpiod, history
<1>3. CASE Set
  BY <1>3 DEF Set, Stay, core, gpiod, history
<1>4. CASE Request
  BY <1>4 DEF Request, Hold, NoHold, history
<1>5. CASE Poll
  BY <1>5, Zenon DEF Poll, Exit, Leave, Gather, history
<1>6. CASE ScriptEnds
  BY <1>6, Zenon DEF ScriptEnds, Exit, Leave, Finish
<1>7. CASE (\E s \in Signals : Signal(s)) \/ Change
  BY <1>7, Zenon DEF Signal, Change, Stay, core, gpiod, history
<1>8. CASE Timeout \/ UNCHANGED vars
  BY <1>8, Zenon DEF Timeout, vars, Stay, core, gpiod, history
<1> QED BY <1>1, <1>2, <1>3, <1>4, <1>5, <1>6, <1>7, <1>8 DEF Next, Restart, Service, World

-----------------------------------------------------------------------------
LEMMA MinIsIn == ASSUME NEW S \in SUBSET Lines, S # {} PROVE Min(S) \in S
<1>1. S \subseteq Nat
  BY GpioAssumption DEF GpioAssumption
<1>2. PICK x \in S : \A y \in S : ~ <<y, x>> \in OpToRel(<, Nat)
  BY <1>1, NatLessThanWellFounded, WFMin
<1>3. ASSUME NEW y \in S PROVE x <= y
  <2>1. x \in Nat /\ y \in Nat
    BY <1>1
  <2>2. y < x => <<y, x>> \in OpToRel(<, Nat)
    BY <2>1 DEF OpToRel
  <2>3. ~ (y < x)
    BY <1>2, <2>2, Zenon
  <2> QED BY <2>1, <2>3
<1> QED BY <1>2, <1>3 DEF Min

LEMMA Finite ==
    ASSUME NEW S \in SUBSET Lines
    PROVE /\ IsFiniteSet(S) /\ Cardinality(S) \in Nat
          /\ S # {} => Cardinality(S) >= 1
          /\ \A T \in SUBSET S : Cardinality(T) <= Cardinality(S)
          /\ \A x \in S : Cardinality(S \ {x}) = Cardinality(S) - 1
<1>1. IsFiniteSet(S)
  BY GpioAssumption, FS_Subset DEF GpioAssumption
<1>2. Cardinality(S) \in Nat /\ (Cardinality(S) = 0 <=> S = {})
  BY <1>1, FS_CardinalityType, FS_EmptySet
<1>3. \A T \in SUBSET S : Cardinality(T) <= Cardinality(S)
  BY <1>1, FS_Subset
<1>4. \A x \in S : Cardinality(S \ {x}) = Cardinality(S) - 1
  BY <1>1, FS_RemoveElement
<1> QED BY <1>1, <1>2, <1>3, <1>4

\* A read takes the first edge of a line of the batch, and leaves the other lines.
LEMMA Reading ==
    ASSUME TypeInv, PlaceInv, Read
    PROVE \E l \in batch :
            /\ pc = "read" /\ pc' = "script" /\ cur = <<>> /\ cur' = <<l, Head(queue[l])>>
            /\ queue[l] # <<>> /\ queue' = [queue EXCEPT ![l] = Tail(@)]
            /\ batch' = batch \ {l}
            /\ passed' = [m \in Lines |-> IF m # l /\ queue[m] # <<>> THEN passed[m] + 1
                                            ELSE IF m = l THEN 0 ELSE passed[m]]
            /\ UNCHANGED <<held, edges, got, lost, events_done, events_wanted, monitored>>
            /\ signal' = signal \ {"SIGINT"}
            /\ late' = IF "SIGTERM" \in signal THEN late + 1 ELSE late
<1> DEFINE l == Min(batch)
<1>1. batch # {} /\ batch \in SUBSET Lines /\ pc = "read" /\ cur = <<>>
  BY DEF Read, PlaceInv, TypeInv
<1>2. l \in batch
  BY <1>1, MinIsIn
<1>3. queue[l] # <<>>
  BY <1>2 DEF PlaceInv
<1> HIDE DEF l
<1>4. Read => /\ queue' = [queue EXCEPT ![l] = Tail(@)] /\ batch' = batch \ {l} /\ Trigger(l)
  BY DEF Read, l
<1> QED BY <1>1, <1>2, <1>3, <1>4, Zenon DEF Trigger, init

-----------------------------------------------------------------------------
LEMMA TypeStep == TypeInv /\ PlaceInv /\ [Next]_vars => TypeInv'
<1> SUFFICES ASSUME TypeInv, PlaceInv, [Next]_vars PROVE TypeInv'
  OBVIOUS
<1>a. monitored' \in SUBSET Lines
  <2>1. monitored' = monitored \/ monitored' \in SUBSET Lines
    BY Zenon DEF Next, Restart, RestartGpiod, RestartGpiosetd, Set, Service, Request, Poll, Read,
         Trigger, ScriptEnds, World, Edge, Signal, Change, Timeout, init, vars
  <2> QED BY <2>1 DEF TypeInv
<1>b. events_done' \in Nat /\ events_wanted' \in Nat
  <2>1. /\ events_done' = events_done \/ events_done' = events_done + 1 \/ events_done' = 0
        /\ events_wanted' = events_wanted
    BY Zenon DEF Next, Restart, RestartGpiod, RestartGpiosetd, Set, Service, Request, Poll, Read,
         Trigger, ScriptEnds, World, Edge, Signal, Change, Timeout, gpiod, vars
  <2> QED BY <2>1 DEF TypeInv
<1> DEFINE Rest == /\ held' \in SUBSET Lines /\ batch' \in SUBSET held'
                   /\ queue' \in [Lines -> Seq(Nat)] /\ got' \in [Lines -> Seq(Nat)]
                   /\ edges' \in [Lines -> Nat] /\ passed' \in [Lines -> Nat]
                   /\ lost' \in [Lines -> SUBSET Nat]
                   /\ cur' = <<>> \/ cur' \in Lines \X Nat
                   /\ late' \in Nat
<1> SUFFICES Rest
  BY <1>a, <1>b DEF TypeInv
<1>1. CASE Stay
  BY <1>1 DEF Stay, core, TypeInv
<1>2. CASE Leave
  <2>1. <<>> \in Seq(Nat)
    BY EmptySeq
  <2>2. /\ held' = {} /\ queue' = [l \in Lines |-> <<>>] /\ batch' = {} /\ cur' = <<>>
        /\ edges' = [l \in Lines |-> 0] /\ got' = [l \in Lines |-> <<>>]
        /\ lost' = [l \in Lines |-> {}] /\ passed' = [l \in Lines |-> 0] /\ late' = 0
    BY <1>2, Zenon DEF Leave, Gone, Nothing, Zero
  <2> QED BY <2>1, <2>2
<1>3. CASE Hold \/ NoHold
  <2>1. Afresh
    BY <1>3 DEF Hold, NoHold, PlaceInv
  <2>2. held' \in SUBSET Lines /\ batch' = {}
    BY <1>3, <2>1 DEF Hold, NoHold, Afresh, TypeInv
  <2> QED BY <1>3, <2>2 DEF Hold, NoHold, TypeInv
<1>4. CASE Gather
  BY <1>4 DEF Gather, TypeInv
<1>5. CASE Read
  <2>1. PICK l \in batch :
            /\ cur' = <<l, Head(queue[l])>>
            /\ queue[l] # <<>> /\ queue' = [queue EXCEPT ![l] = Tail(@)]
            /\ batch' = batch \ {l}
            /\ passed' = [m \in Lines |-> IF m # l /\ queue[m] # <<>> THEN passed[m] + 1
                                            ELSE IF m = l THEN 0 ELSE passed[m]]
            /\ UNCHANGED <<held, edges, got, lost>>
            /\ late' = IF "SIGTERM" \in signal THEN late + 1 ELSE late
    BY <1>5, Reading
  <2>2. l \in Lines /\ queue[l] \in Seq(Nat)
    BY DEF TypeInv
  <2>3. Head(queue[l]) \in Nat /\ Tail(queue[l]) \in Seq(Nat)
    BY <2>1, <2>2, HeadTailProperties
  <2>4. cur' \in Lines \X Nat
    BY <2>1, <2>2, <2>3
  <2>5. queue' \in [Lines -> Seq(Nat)]
    BY <2>1, <2>3 DEF TypeInv
  <2>6. passed' \in [Lines -> Nat]
    BY <2>1 DEF TypeInv
  <2>7. late' \in Nat
    <3>1. late' = late \/ late' = late + 1
      BY <2>1, Zenon
    <3> QED BY <3>1 DEF TypeInv
  <2>8. held' \in SUBSET Lines /\ batch' \in SUBSET held'
    BY <2>1 DEF TypeInv
  <2> QED BY <2>1, <2>4, <2>5, <2>6, <2>7, <2>8 DEF TypeInv
<1>6. CASE Finish
  <2>1. cur \in Lines \X Nat
    BY <1>6 DEF Finish, PlaceInv, TypeInv
  <2>2. Append(got[cur[1]], cur[2]) \in Seq(Nat)
    BY <2>1, AppendProperties DEF TypeInv
  <2>3. got' \in [Lines -> Seq(Nat)]
    BY <1>6, <2>2 DEF Finish, TypeInv
  <2> QED BY <1>6, <2>3 DEF Finish, TypeInv
<1>7. ASSUME NEW l \in Lines, Edge(l) PROVE Rest
  <2>1. edges' \in [Lines -> Nat] /\ edges'[l] = edges[l] + 1
    BY <1>7 DEF Edge, TypeInv
  <2>2. queue' \in [Lines -> Seq(Nat)]
    <3>1. Append(queue[l], edges'[l]) \in Seq(Nat)
      BY <2>1, AppendProperties DEF TypeInv
    <3> QED BY <1>7, <3>1 DEF Edge, TypeInv
  <2>3. lost' \in [Lines -> SUBSET Nat]
    <3>1. lost[l] \cup {edges'[l]} \in SUBSET Nat
      BY <2>1 DEF TypeInv
    <3>2. lost' = lost \/ lost' = [lost EXCEPT ![l] = lost[l] \cup {edges'[l]}]
      BY <1>7 DEF Edge
    <3> QED BY <3>1, <3>2 DEF TypeInv
  <2> QED BY <1>7, <2>1, <2>2, <2>3 DEF Edge, gpiod, TypeInv
<1> QED BY <1>1, <1>2, <1>3, <1>4, <1>5, <1>6, <1>7, Steps

LEMMA PlaceStep == TypeInv /\ PlaceInv /\ [Next]_vars => PlaceInv'
<1> SUFFICES ASSUME TypeInv, PlaceInv, [Next]_vars PROVE PlaceInv'
  OBVIOUS
<1>1. CASE Stay
  BY <1>1 DEF Stay, core, PlaceInv, Afresh
<1>2. CASE Leave
  <2>1. pc' \in {"off", "start"} /\ Afresh'
    BY <1>2, Zenon DEF Leave, Gone, Afresh, Nothing, Zero
  <2> QED BY <2>1 DEF PlaceInv, Afresh
<1>3. CASE Hold \/ NoHold
  BY <1>3 DEF Hold, NoHold, PlaceInv, Afresh
<1>4. CASE Gather
  BY <1>4 DEF Gather, PlaceInv
<1>5. CASE Read
  <2>1. PICK l \in batch :
            /\ pc' = "script" /\ cur' = <<l, Head(queue[l])>>
            /\ queue' = [queue EXCEPT ![l] = Tail(@)]
            /\ batch' = batch \ {l}
    BY <1>5, Reading
  <2>2. \A m \in batch' : queue'[m] # <<>>
    BY <2>1 DEF PlaceInv, TypeInv
  <2> QED BY <2>1, <2>2 DEF PlaceInv
<1>6. CASE Finish
  BY <1>6 DEF Finish, PlaceInv
<1>7. ASSUME NEW l \in Lines, Edge(l) PROVE PlaceInv'
  <2>1. UNCHANGED <<pc, cur, batch>> /\ pc \notin {"off", "start"}
    BY <1>7 DEF Edge, gpiod, PlaceInv, Afresh
  <2>2. \A m \in batch : queue'[m] # <<>>
    <3>1. Append(queue[l], edges'[l]) # <<>>
      <4>1. edges'[l] \in Nat
        BY <1>7 DEF Edge, TypeInv
      <4>2. queue[l] \in Seq(Nat)
        BY DEF TypeInv
      <4> QED BY <4>1, <4>2, AppendProperties
    <3> QED BY <1>7, <3>1 DEF Edge, PlaceInv, TypeInv
  <2> QED BY <2>1, <2>2 DEF PlaceInv
<1> QED BY <1>1, <1>2, <1>3, <1>4, <1>5, <1>6, <1>7, Steps

-----------------------------------------------------------------------------
LEMMA WaitStep == TypeInv /\ PlaceInv /\ WaitInv /\ [Next]_vars => WaitInv'
<1> SUFFICES ASSUME TypeInv, PlaceInv, WaitInv, [Next]_vars, NEW m \in held'
             PROVE /\ queue'[m] = <<>> => passed'[m] = 0
                   /\ m \in batch' => passed'[m] + Cardinality(batch') - 1 <= 2 * (Cardinality(held') - 1)
                   /\ m \notin batch' => passed'[m] + Cardinality(batch') <= Cardinality(held') - 1
  BY DEF WaitInv
<1>0. /\ Cardinality(held) \in Nat /\ Cardinality(batch) \in Nat
      /\ Cardinality(batch) <= Cardinality(held)
      /\ m \in held => Cardinality(held) >= 1
      /\ batch \in SUBSET Lines
  BY Finite DEF TypeInv
<1>t. m \in Lines => passed[m] \in Nat
  BY DEF TypeInv
<1>1. CASE Stay
  BY <1>1 DEF Stay, core, WaitInv
<1>2. CASE Leave \/ NoHold
  BY <1>2 DEF Leave, Gone, NoHold
<1>3. CASE Hold
  <2>1. passed'[m] = 0 /\ batch' = {} /\ Cardinality(batch') = 0 /\ held' \in SUBSET Lines
    BY <1>3, FS_EmptySet DEF Hold, PlaceInv, Afresh, Zero, TypeInv
  <2>2. Cardinality(held') \in Nat /\ Cardinality(held') >= 1
    BY <2>1, Finite
  <2> QED BY <2>1, <2>2
<1>4. CASE Gather
  <2>1. batch = {} /\ Cardinality(batch) = 0 /\ held' = held /\ m \in held /\ UNCHANGED <<queue, passed>>
    BY <1>4, FS_EmptySet DEF Gather, PlaceInv
  <2>2. batch' \in SUBSET held /\ (m \in batch' <=> queue[m] # <<>>)
    BY <1>4, <2>1 DEF Gather
  <2>3. Cardinality(batch') \in Nat /\ Cardinality(batch') <= Cardinality(held)
    BY <2>2, Finite DEF TypeInv
  <2>4. passed[m] \in Nat /\ passed[m] <= Cardinality(held) - 1 /\ (queue[m] = <<>> => passed[m] = 0)
    BY <1>0, <1>t, <2>1 DEF WaitInv, TypeInv
  <2>5. m \notin batch' => Cardinality(batch') <= Cardinality(held) - 1
    <3>1. held \in SUBSET Lines
      BY DEF TypeInv
    <3>2. ASSUME m \notin batch' PROVE batch' \in SUBSET (held \ {m})
      BY <2>2, <3>2
    <3>3. held \ {m} \in SUBSET Lines /\ Cardinality(held \ {m}) = Cardinality(held) - 1
      BY <2>1, <3>1, Finite
    <3> QED BY <3>2, <3>3, Finite
  <2> QED BY <1>0, <2>1, <2>2, <2>3, <2>4, <2>5
<1>5. CASE Read
  <2>1. PICK l \in batch :
            /\ queue[l] # <<>> /\ queue' = [queue EXCEPT ![l] = Tail(@)]
            /\ batch' = batch \ {l}
            /\ passed' = [n \in Lines |-> IF n # l /\ queue[n] # <<>> THEN passed[n] + 1
                                            ELSE IF n = l THEN 0 ELSE passed[n]]
            /\ held' = held
    BY <1>5, Reading
  <2>2. Cardinality(batch') = Cardinality(batch) - 1
    BY <1>0, <2>1, Finite
  <2>3. m \in held /\ m \in Lines
    BY <2>1 DEF TypeInv
  <2>4. CASE m = l
    BY <1>0, <2>1, <2>2, <2>3, <2>4
  <2>5. CASE m # l
    <3>1. queue'[m] = queue[m] /\ (m \in batch' <=> m \in batch)
      BY <2>1, <2>3, <2>5 DEF TypeInv
    <3>2. passed'[m] = IF queue[m] # <<>> THEN passed[m] + 1 ELSE passed[m]
      BY <2>1, <2>3, <2>5
    <3> QED BY <1>0, <1>t, <2>1, <2>2, <2>3, <3>1, <3>2 DEF WaitInv
  <2> QED BY <2>4, <2>5
<1>6. CASE Finish
  BY <1>6 DEF Finish, WaitInv
<1>7. ASSUME NEW l \in Lines, Edge(l) PROVE WaitInv'
  <2>1. UNCHANGED <<held, batch, passed>>
    BY <1>7 DEF Edge, gpiod
  <2>2. ASSUME NEW n \in held, queue'[n] = <<>> PROVE queue[n] = <<>>
    <3>1. edges'[l] \in Nat
      BY <1>7 DEF Edge, TypeInv
    <3>2. Append(queue[l], edges'[l]) # <<>>
      <4>1. queue[l] \in Seq(Nat)
        BY DEF TypeInv
      <4> QED BY <3>1, <4>1, AppendProperties
    <3> QED BY <1>7, <2>2, <3>2 DEF Edge, TypeInv
  <2> QED BY <2>1, <2>2 DEF WaitInv
<1>8. ASSUME WaitInv'
      PROVE /\ queue'[m] = <<>> => passed'[m] = 0
            /\ m \in batch' => passed'[m] + Cardinality(batch') - 1 <= 2 * (Cardinality(held') - 1)
            /\ m \notin batch' => passed'[m] + Cardinality(batch') <= Cardinality(held') - 1
  BY <1>8 DEF WaitInv
<1> QED BY <1>1, <1>2, <1>3, <1>4, <1>5, <1>6, <1>7, <1>8, Steps

LEMMA EndStep == TypeInv /\ PlaceInv /\ EndInv /\ [Next]_vars => EndInv'
<1> SUFFICES ASSUME TypeInv, PlaceInv, EndInv, [Next]_vars PROVE EndInv'
  OBVIOUS
<1>0. /\ Cardinality(Lines) \in Nat /\ Cardinality(batch) \in Nat /\ batch \in SUBSET Lines
      /\ Cardinality({}) = 0
  BY Finite, FS_EmptySet DEF TypeInv
<1>1. "SIGTERM" \in signal' \/ late' = 0
  <2>1. Stay => UNCHANGED late
    BY DEF Stay, core
  <2>2. Leave => late' = 0
    BY DEF Leave, Gone
  <2>3. Hold \/ NoHold \/ Gather \/ Finish \/ (\E l \in Lines : Edge(l)) => UNCHANGED late
    BY DEF Hold, NoHold, Gather, Finish, Edge
  <2>4. Read => (late' = late + 1 /\ "SIGTERM" \in signal) \/ late' = late
    BY Zenon, Reading
  <2>5. signal' = signal \/ signal' = signal \ {"SIGINT"} \/ (\E s : signal' = signal \cup {s}) \/ late' = 0
    BY Zenon DEF Next, Restart, RestartGpiod, RestartGpiosetd, Set, Service, Request, Poll, Read,
         Trigger, ScriptEnds, World, Edge, Signal, Change, Timeout, gpiod, vars, Gone
  <2> QED BY <2>1, <2>2, <2>3, <2>4, <2>5, Steps DEF EndInv
<1>2. late' + Cardinality(batch') <= Cardinality(Lines)
  <2>1. CASE UNCHANGED <<late, batch>>
    BY <2>1 DEF EndInv
  <2>2. CASE Leave
    BY <1>0, <2>2 DEF Leave, Gone
  <2>3. CASE Gather
    <3>1. late' = 0 /\ batch' \in SUBSET Lines
      BY <2>3 DEF Gather, EndInv, TypeInv
    <3>2. Cardinality(batch') \in Nat /\ Cardinality(batch') <= Cardinality(Lines)
      BY <3>1, Finite
    <3> QED BY <1>0, <3>1, <3>2
  <2>4. CASE Read
    <3>1. PICK l \in batch : batch' = batch \ {l} /\ late' = IF "SIGTERM" \in signal THEN late + 1 ELSE late
      BY <2>4, Reading
    <3>2. Cardinality(batch') = Cardinality(batch) - 1
      BY <1>0, <3>1, Finite
    <3>3. late' = late \/ late' = late + 1
      BY <3>1, Zenon
    <3> QED BY <1>0, <3>2, <3>3 DEF EndInv, TypeInv
  <2>5. Stay \/ Hold \/ NoHold \/ Finish \/ (\E l \in Lines : Edge(l)) => UNCHANGED <<late, batch>>
    BY DEF Stay, core, Hold, NoHold, Finish, Edge, gpiod
  <2> QED BY <2>1, <2>2, <2>3, <2>4, <2>5, Steps
<1>3. events_wanted' > 0 => /\ events_done' <= events_wanted'
                            /\ pc' # "off" => events_done' < events_wanted'
  <2>1. events_wanted' = events_wanted
    BY Zenon DEF Next, Restart, RestartGpiod, RestartGpiosetd, Set, Service, Request, Poll, Read,
         Trigger, ScriptEnds, World, Edge, Signal, Change, Timeout, gpiod, vars
  <2>2. CASE RestartGpiod
    BY <2>1, <2>2 DEF RestartGpiod, TypeInv
  <2>3. CASE ScriptEnds
    BY <2>1, <2>3 DEF ScriptEnds, Exit, EndInv, TypeInv
  <2>4. RestartGpiod \/ ScriptEnds \/ (events_done' = events_done /\ (pc' = "off" \/ pc # "off"))
        \/ (events_done' = events_done /\ pc' = pc)
    BY Zenon DEF Next, Restart, RestartGpiosetd, Set, Service, Request, Poll, Read,
         Trigger, World, Edge, Signal, Change, Timeout, gpiod, vars, Exit
  <2> QED BY <2>1, <2>2, <2>3, <2>4 DEF EndInv, TypeInv
<1> QED BY <1>1, <1>2, <1>3 DEF EndInv

-----------------------------------------------------------------------------
\* What Course(l) is made of, and what a line's edges must be.

Now(l) == IF cur # <<>> /\ cur[1] = l THEN <<cur[2]>> ELSE <<>>
Rising(s) == \A i, j \in DOMAIN s : i < j => s[i] < s[j]

LEMMA CourseParts ==
    ASSUME TypeInv, NEW l \in Lines
    PROVE /\ got[l] \in Seq(Nat) /\ Now(l) \in Seq(Nat) /\ queue[l] \in Seq(Nat)
          /\ Course(l) = got[l] \o Now(l) \o queue[l] /\ Course(l) \in Seq(Nat)
<1>1. got[l] \in Seq(Nat) /\ queue[l] \in Seq(Nat)
  BY DEF TypeInv
<1>2. Now(l) \in Seq(Nat)
  <2>1. CASE cur # <<>> /\ cur[1] = l
    <3>1. cur[2] \in Nat /\ Now(l) = <<cur[2]>>
      BY <2>1 DEF TypeInv, Now
    <3> QED BY <3>1
  <2>2. CASE ~ (cur # <<>> /\ cur[1] = l)
    <3>1. Now(l) = <<>>
      BY <2>2 DEF Now
    <3> QED BY <3>1, EmptySeq
  <2> QED BY <2>1, <2>2
<1>3. Course(l) = got[l] \o Now(l) \o queue[l]
  BY DEF Course, Now
<1>4. (got[l] \o Now(l)) \in Seq(Nat)
  BY <1>1, <1>2, ConcatProperties
<1>5. (got[l] \o Now(l)) \o queue[l] \in Seq(Nat)
  BY <1>1, <1>4, ConcatProperties
<1> QED BY <1>1, <1>2, <1>3, <1>5

\* An edge that is appended comes last.
LEMMA RisingAppend ==
    ASSUME NEW s \in Seq(Nat), Rising(s), NEW e \in Nat, NEW L \in SUBSET Nat,
           ToSet(s) \cup L = 1 .. e
    PROVE /\ Rising(Append(s, e + 1))
          /\ ToSet(Append(s, e + 1)) \cup L = 1 .. (e + 1)
<1> DEFINE t == Append(s, e + 1)
<1>1. /\ t \in Seq(Nat) /\ Len(t) = Len(s) + 1 /\ Len(s) \in Nat
      /\ \A i \in 1 .. Len(s) : t[i] = s[i]
      /\ t[Len(s) + 1] = e + 1
  BY AppendProperties, LenProperties
<1>2. DOMAIN t = 1 .. (Len(s) + 1) /\ DOMAIN s = 1 .. Len(s)
  BY <1>1
<1>3. \A i \in 1 .. Len(s) : s[i] \in 1 .. e
  <2>1. \A i \in DOMAIN s : s[i] \in ToSet(s)
    BY DEF ToSet
  <2> QED BY <1>2, <2>1
<1> HIDE DEF t
<1>4. Rising(t)
  <2> SUFFICES ASSUME NEW i \in DOMAIN t, NEW j \in DOMAIN t, i < j PROVE t[i] < t[j]
    BY DEF Rising
  <2>1. i \in 1 .. Len(s) /\ j \in 1 .. (Len(s) + 1) /\ t[i] = s[i]
    BY <1>1, <1>2
  <2>2. CASE j \in 1 .. Len(s)
    BY <1>1, <1>2, <2>1, <2>2 DEF Rising
  <2>3. CASE j = Len(s) + 1
    BY <1>1, <1>3, <2>1, <2>3
  <2> QED BY <1>1, <1>2, <2>2, <2>3
<1>5. ToSet(t) = ToSet(s) \cup {e + 1}
  <2>1. \A x \in ToSet(t) : x \in ToSet(s) \cup {e + 1}
    <3> SUFFICES ASSUME NEW i \in DOMAIN t PROVE t[i] \in ToSet(s) \cup {e + 1}
      BY DEF ToSet
    <3>1. CASE i = Len(s) + 1
      BY <1>1, <3>1
    <3>2. CASE i # Len(s) + 1
      <4>1. i \in DOMAIN s /\ t[i] = s[i]
        BY <1>1, <1>2, <3>2
      <4> QED BY <4>1 DEF ToSet
    <3> QED BY <3>1, <3>2
  <2>2. \A x \in ToSet(s) : x \in ToSet(t)
    <3> SUFFICES ASSUME NEW i \in DOMAIN s PROVE s[i] \in ToSet(t)
      BY DEF ToSet
    <3>1. i \in DOMAIN t /\ t[i] = s[i]
      BY <1>1, <1>2
    <3> QED BY <3>1 DEF ToSet
  <2>3. e + 1 \in ToSet(t)
    <3>1. Len(s) + 1 \in DOMAIN t
      BY <1>1, <1>2
    <3> QED BY <1>1, <3>1 DEF ToSet
  <2> QED BY <2>1, <2>2, <2>3
<1>6. 1 .. (e + 1) = 1 .. e \cup {e + 1}
  OBVIOUS
<1> QED BY <1>4, <1>5, <1>6 DEF t

\* The first edge of the queue moves to the script ...
LEMMA CourseRead ==
    ASSUME NEW g \in Seq(Nat), NEW q \in Seq(Nat), q # <<>>
    PROVE g \o <<Head(q)>> \o Tail(q) = g \o <<>> \o q
<1>1. Head(q) \in Nat /\ Tail(q) \in Seq(Nat) /\ <<Head(q)>> \in Seq(Nat)
  BY HeadTailProperties
<1>2. g \o <<>> = g
  BY ConcatEmptySeq
<1>3. (g \o <<Head(q)>>) \o Tail(q) = g \o (<<Head(q)>> \o Tail(q))
  BY <1>1, ConcatAssociative
<1>4. <<Head(q)>> \o Tail(q) = q
  <2>1. /\ Len(q) \in Nat \ {0} /\ Len(Tail(q)) = Len(q) - 1
        /\ \A i \in 1 .. Len(Tail(q)) : Tail(q)[i] = q[i + 1]
    BY HeadTailProperties, EmptySeq
  <2> DEFINE r == <<Head(q)>> \o Tail(q)
  <2>2. /\ r \in Seq(Nat) /\ Len(<<Head(q)>>) = 1 /\ Len(r) = 1 + Len(Tail(q))
        /\ \A i \in 1 .. 1 + Len(Tail(q)) :
             r[i] = IF i <= 1 THEN <<Head(q)>>[i] ELSE Tail(q)[i - 1]
    BY <1>1, ConcatProperties
  <2> HIDE DEF r
  <2>3. Len(r) = Len(q)
    BY <2>1, <2>2
  <2>4. ASSUME NEW i \in 1 .. Len(r) PROVE r[i] = q[i]
    <3>1. CASE i = 1
      BY <2>1, <2>2, <2>3, <3>1
    <3>2. CASE i # 1
      <4>1. i - 1 \in 1 .. Len(Tail(q)) /\ r[i] = Tail(q)[i - 1]
        BY <2>1, <2>2, <2>3, <3>2
      <4>2. Tail(q)[i - 1] = q[(i - 1) + 1]
        BY <2>1, <4>1
      <4> QED BY <4>1, <4>2, <2>1
    <3> QED BY <3>1, <3>2
  <2>5. r = q
    BY <2>2, <2>3, <2>4, SeqEqual
  <2> QED BY <2>5 DEF r
<1> QED BY <1>2, <1>3, <1>4

\* ... and from there to those that ran.
LEMMA CourseFinish ==
    ASSUME NEW g \in Seq(Nat), NEW e \in Nat, NEW q \in Seq(Nat)
    PROVE Append(g, e) \o <<>> \o q = g \o <<e>> \o q
<1>1. Append(g, e) = g \o <<e>> /\ Append(g, e) \in Seq(Nat)
  BY AppendIsConcat, AppendProperties
<1>2. Append(g, e) \o <<>> = Append(g, e)
  BY <1>1, ConcatEmptySeq
<1> QED BY <1>1, <1>2

LEMMA ThreeParts ==
    ASSUME NEW u \in Seq(Nat), NEW q \in Seq(Nat), NEW w \in Seq(Nat)
    PROVE (u \o q) \o w = u \o (q \o w)
  BY ConcatAssociative

\* A line's new edge comes behind all the others.
LEMMA CourseAppend ==
    ASSUME NEW g \in Seq(Nat), NEW n \in Seq(Nat), NEW q \in Seq(Nat), NEW e \in Nat
    PROVE g \o n \o Append(q, e) = Append(g \o n \o q, e)
<1>1. (g \o n) \in Seq(Nat) /\ <<e>> \in Seq(Nat)
  BY ConcatProperties
<1>2. (g \o n) \o q \in Seq(Nat)
  BY <1>1, ConcatProperties
<1>3. Append(q, e) = q \o <<e>> /\ Append((g \o n) \o q, e) = ((g \o n) \o q) \o <<e>>
  BY <1>2, AppendIsConcat
<1>4. ((g \o n) \o q) \o <<e>> = (g \o n) \o (q \o <<e>>)
  BY <1>1, ThreeParts, Zenon
<1> QED BY <1>3, <1>4

\* Each line's edges keep their course from step to step.
LEMMA CourseStep == TypeInv /\ PlaceInv /\ EdgesConserved /\ [Next]_vars => EdgesConserved'
<1> SUFFICES ASSUME TypeInv, PlaceInv, EdgesConserved, [Next]_vars, NEW m \in held'
             PROVE /\ Rising(Course(m)')
                   /\ ToSet(Course(m)') \cup lost'[m] = 1 .. edges'[m]
  BY DEF EdgesConserved, Rising
<1>h. m \in held => /\ m \in Lines /\ Rising(Course(m))
                    /\ ToSet(Course(m)) \cup lost[m] = 1 .. edges[m]
  BY DEF EdgesConserved, Rising, TypeInv
<1>c. Course(m)' = got'[m] \o (IF cur' # <<>> /\ cur'[1] = m THEN <<cur'[2]>> ELSE <<>>) \o queue'[m]
  BY DEF Course
<1>s. ASSUME m \in held, Course(m)' = Course(m), UNCHANGED <<lost, edges>>
      PROVE /\ Rising(Course(m)')
            /\ ToSet(Course(m)') \cup lost'[m] = 1 .. edges'[m]
  BY <1>h, <1>s
<1>1. CASE Stay \/ Gather
  <2>1. UNCHANGED <<held, got, cur, queue, lost, edges>>
    BY <1>1 DEF Stay, Gather, core
  <2>2. m \in held /\ Course(m)' = Course(m)
    BY <2>1 DEF Course
  <2> QED BY <1>s, <2>1, <2>2
<1>2. CASE Leave \/ NoHold
  BY <1>2 DEF Leave, Gone, NoHold
<1>3. CASE Hold
  <2>1. /\ m \in Lines /\ got'[m] = <<>> /\ cur' = <<>> /\ queue'[m] = <<>>
        /\ lost'[m] = {} /\ edges'[m] = 0
    BY <1>3 DEF Hold, PlaceInv, Afresh, TypeInv, Nothing, Zero
  <2>2. Course(m)' = <<>>
    BY <1>c, <2>1
  <2>3. Rising(<<>>) /\ ToSet(<<>>) = {}
    BY DEF Rising, ToSet
  <2> QED BY <2>1, <2>2, <2>3
<1>4. CASE Read
  <2>1. PICK l \in batch :
            /\ cur = <<>> /\ cur' = <<l, Head(queue[l])>>
            /\ queue[l] # <<>> /\ queue' = [queue EXCEPT ![l] = Tail(@)]
            /\ UNCHANGED <<held, edges, got, lost>>
    BY <1>4, Reading
  <2>2. m \in held /\ m \in Lines /\ l \in Lines
    BY <2>1 DEF TypeInv
  <2>3. CASE m = l
    <3>1. Course(m) = got[m] \o <<>> \o queue[m]
      BY <2>1 DEF Course
    <3>2. Course(m)' = got[m] \o <<Head(queue[m])>> \o Tail(queue[m])
      BY <1>c, <2>1, <2>2, <2>3 DEF TypeInv
    <3>3. got[m] \in Seq(Nat) /\ queue[m] \in Seq(Nat) /\ queue[m] # <<>>
      BY <2>1, <2>2, <2>3 DEF TypeInv
    <3>4. Course(m)' = Course(m)
      BY <3>1, <3>2, <3>3, CourseRead
    <3> QED BY <1>s, <2>1, <2>2, <3>4
  <2>4. CASE m # l
    <3>1. queue'[m] = queue[m] /\ cur'[1] # m
      BY <2>1, <2>2, <2>4 DEF TypeInv
    <3>2. Course(m)' = Course(m)
      BY <1>c, <2>1, <3>1 DEF Course
    <3> QED BY <1>s, <2>1, <2>2, <3>2
  <2> QED BY <2>3, <2>4
<1>5. CASE Finish
  <2>1. /\ cur' = <<>> /\ got' = [got EXCEPT ![cur[1]] = Append(@, cur[2])]
        /\ UNCHANGED <<held, queue, edges, lost>> /\ cur # <<>>
    BY <1>5 DEF Finish, PlaceInv
  <2>2. m \in held /\ m \in Lines /\ cur[1] \in Lines /\ cur[2] \in Nat
    BY <2>1 DEF TypeInv
  <2>3. Course(m)' = got'[m] \o <<>> \o queue[m]
    BY <1>c, <2>1
  <2>4. CASE cur[1] = m
    <3>1. got'[m] = Append(got[m], cur[2])
      BY <2>1, <2>2, <2>4 DEF TypeInv
    <3>2. Course(m) = got[m] \o <<cur[2]>> \o queue[m]
      BY <2>1, <2>4 DEF Course
    <3>3. got[m] \in Seq(Nat) /\ queue[m] \in Seq(Nat)
      BY <2>2 DEF TypeInv
    <3>4. Course(m)' = Course(m)
      BY <2>2, <2>3, <3>1, <3>2, <3>3, CourseFinish
    <3> QED BY <1>s, <2>1, <2>2, <3>4
  <2>5. CASE cur[1] # m
    <3>1. got'[m] = got[m]
      BY <2>1, <2>2, <2>5 DEF TypeInv
    <3>2. Course(m)' = Course(m)
      BY <2>3, <2>5, <3>1 DEF Course
    <3> QED BY <1>s, <2>1, <2>2, <3>2
  <2> QED BY <2>4, <2>5
<1>6. ASSUME NEW l \in Lines, Edge(l)
      PROVE /\ Rising(Course(m)')
            /\ ToSet(Course(m)') \cup lost'[m] = 1 .. edges'[m]
  <2>1. /\ UNCHANGED <<held, cur, got>> /\ edges' = [edges EXCEPT ![l] = @ + 1]
        /\ \/ queue' = [queue EXCEPT ![l] = Append(@, edges'[l])] /\ lost' = lost
           \/ lost' = [lost EXCEPT ![l] = @ \cup {edges'[l]}] /\ queue' = queue
    BY <1>6 DEF Edge, gpiod
  <2>2. m \in held /\ m \in Lines
    BY <2>1 DEF TypeInv
  <2>3. CASE m # l
    <3>1. queue'[m] = queue[m] /\ lost'[m] = lost[m] /\ edges'[m] = edges[m]
      BY <2>1, <2>2, <2>3 DEF TypeInv
    <3>2. Course(m)' = Course(m)
      BY <2>1, <3>1 DEF Course
    <3> QED BY <1>h, <2>2, <3>1, <3>2
  <2>4. CASE m = l
    <3>1. edges[m] \in Nat /\ edges'[m] = edges[m] + 1 /\ lost[m] \in SUBSET Nat
      BY <2>1, <2>2, <2>4 DEF TypeInv
    <3>2. /\ got[m] \in Seq(Nat) /\ Now(m) \in Seq(Nat) /\ queue[m] \in Seq(Nat)
          /\ Course(m) = got[m] \o Now(m) \o queue[m] /\ Course(m) \in Seq(Nat)
      BY <2>2, CourseParts
    <3>3. Course(m)' = got[m] \o Now(m) \o queue'[m]
      BY <1>c, <2>1 DEF Now
    <3>4. CASE queue' = [queue EXCEPT ![l] = Append(@, edges'[l])] /\ lost' = lost
      <4>1. queue'[m] = Append(queue[m], edges[m] + 1)
        BY <2>2, <2>4, <3>1, <3>4 DEF TypeInv
      <4>2. Course(m)' = Append(Course(m), edges[m] + 1)
        <5>1. edges[m] + 1 \in Nat
          BY <3>1
        <5>2. got[m] \o Now(m) \o Append(queue[m], edges[m] + 1)
                = Append(got[m] \o Now(m) \o queue[m], edges[m] + 1)
          BY <3>2, <5>1, CourseAppend, Zenon
        <5> QED BY <3>2, <3>3, <4>1, <5>2, Zenon
      <4>3. /\ Rising(Append(Course(m), edges[m] + 1))
            /\ ToSet(Append(Course(m), edges[m] + 1)) \cup lost[m] = 1 .. (edges[m] + 1)
        BY <1>h, <2>2, <3>1, <3>2, RisingAppend, Zenon
      <4> QED BY <2>2, <3>1, <3>4, <4>2, <4>3, Zenon
    <3>5. CASE lost' = [lost EXCEPT ![l] = @ \cup {edges'[l]}] /\ queue' = queue
      <4>1. Course(m)' = Course(m)
        BY <3>2, <3>3, <3>5
      <4>2. lost'[m] = lost[m] \cup {edges[m] + 1}
        BY <2>2, <2>4, <3>1, <3>5 DEF TypeInv
      <4>3. 1 .. (edges[m] + 1) = 1 .. edges[m] \cup {edges[m] + 1}
        BY <3>1
      <4> QED BY <1>h, <2>2, <3>1, <4>1, <4>2, <4>3
    <3> QED BY <2>1, <3>4, <3>5
  <2> QED BY <2>3, <2>4
<1> QED BY <1>1, <1>2, <1>3, <1>4, <1>5, <1>6, Steps

-----------------------------------------------------------------------------
IInv == TypeInv /\ PlaceInv /\ EdgesConserved /\ WaitInv /\ EndInv

LEMMA InitInductive == Init => IInv
<1> SUFFICES ASSUME Init PROVE IInv
  OBVIOUS
<1>1. TypeInv
  <2>1. <<>> \in Seq(Nat)
    BY EmptySeq
  <2>2. events_wanted \in Nat
    BY GpioAssumption DEF GpioAssumption, Init
  <2> QED BY <2>1, <2>2 DEF Init, TypeInv, Nothing, Zero
<1>2. PlaceInv
  BY DEF Init, PlaceInv, Afresh
<1>3. EdgesConserved /\ WaitInv
  BY DEF Init, EdgesConserved, WaitInv
<1>4. EndInv
  <2>1. Cardinality({}) = 0 /\ Cardinality(Lines) \in Nat
    BY FS_EmptySet, Finite
  <2> QED BY <1>1, <2>1 DEF Init, EndInv, TypeInv
<1> QED BY <1>1, <1>2, <1>3, <1>4 DEF IInv

LEMMA StepInductive == IInv /\ [Next]_vars => IInv'
  BY TypeStep, PlaceStep, CourseStep, WaitStep, EndStep DEF IInv

\* No edge of a monitored line is lost, doubled or overtaken but by a full
\* queue, for any number of lines, queues of any length and any number of edges.
THEOREM Conservation == Spec => []EdgesConserved
<1>1. IInv => EdgesConserved
  BY DEF IInv
<1> QED BY <1>1, InitInductive, StepInductive, PTL DEF Spec

\* An edge waits for at most two scripts of each other line, for any number of lines.
THEOREM Fairness == Spec => []FairToLines
<1>1. IInv => FairToLines
  <2> SUFFICES ASSUME IInv, NEW l \in held PROVE passed[l] <= 2 * (Cardinality(held) - 1)
    BY DEF FairToLines
  <2>1. passed[l] \in Nat /\ held \in SUBSET Lines /\ batch \in SUBSET Lines
    BY DEF IInv, TypeInv
  <2>2. Cardinality(held) \in Nat /\ Cardinality(held) >= 1 /\ Cardinality(batch) \in Nat
    BY <2>1, Finite
  <2>3. l \in batch => Cardinality(batch) >= 1
    BY <2>1, Finite
  <2> QED BY <2>1, <2>2, <2>3 DEF IInv, WaitInv
<1> QED BY <1>1, InitInductive, StepInductive, PTL DEF Spec

\* A SIGTERM is heard after at most one script per line, and a count is kept, though
\* each script discards a pending SIGINT.
THEOREM Ending == Spec => []EndsInTime
<1>1. IInv => EndsInTime
  <2> SUFFICES ASSUME IInv PROVE EndsInTime
    OBVIOUS
  <2>1. Cardinality(batch) \in Nat /\ Cardinality(Lines) \in Nat /\ late \in Nat
    BY Finite DEF IInv, TypeInv
  <2> QED BY <2>1 DEF IInv, EndInv, EndsInTime
<1> QED BY <1>1, InitInductive, StepInductive, PTL DEF Spec
=============================================================================
