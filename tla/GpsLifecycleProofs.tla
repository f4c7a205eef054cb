------------------------- MODULE GpsLifecycleProofs -------------------------
(* Proofs about GpsLifecycle for any number of readers and in every           *)
(* environment: a reader's descriptor numbers stay those of the state, and a  *)
(* session that met no trouble leaves nothing for the next one.               *)
EXTENDS GpsLifecycle, TLAPS

Places == {"off", "ready", "nav", "closing"}

TypeInv == /\ fw \in Places
           /\ init \in BOOLEAN /\ started \in BOOLEAN /\ zero \in BOOLEAN
           /\ ctlHup \in BOOLEAN /\ plugged \in BOOLEAN /\ hup \in BOOLEAN
           /\ cur \in Numbers /\ num \in [Readers -> Numbers]
           /\ pc \in [Readers -> Labels]
           /\ reg \in SUBSET {"ctl", "tty"} /\ pending \in Nat /\ met \in SUBSET Troubles

AllOff == \A t \in Readers : pc[t] = "off"

\* The service only uses a state that is initialised.
InitInv == fw # "off" => init = TRUE

\* If cleanup waited for the readers, the numbers change only when there is none.
NumInv == "cleanup" \notin met =>
    /\ \A t \in Readers : pc[t] # "lost"
    /\ fw = "closing" \/ init = FALSE => AllOff
    /\ \A t \in Readers : pc[t] \notin {"off", "begin"} => num[t] = cur

-----------------------------------------------------------------------------
LEMMA InitTyped == Init => TypeInv
<1> SUFFICES ASSUME Init PROVE TypeInv
  OBVIOUS
<1>1. plugged \in BOOLEAN /\ met \in SUBSET Troubles
  <2>1. CASE "unplug" \in Trouble
    BY <2>1 DEF Init, Troubles
  <2>2. CASE "unplug" \notin Trouble
    BY <2>2 DEF Init, Troubles
  <2> QED BY <2>1, <2>2
<1> QED BY <1>1 DEF Init, TypeInv, Places, Labels, Numbers, Closed

LEMMA TypeStep == TypeInv /\ [Next]_vars => TypeInv'
<1> SUFFICES ASSUME TypeInv, [Next]_vars PROVE TypeInv'
  OBVIOUS
<1> USE DEF TypeInv, Places, Labels, Numbers, Closed, Meet, Troubles
<1>1. CASE InitAgain \/ InitOpens \/ InitMissing \/ InitFails
  BY <1>1 DEF InitAgain, InitOpens, InitMissing, InitFails, Opened
<1>2. CASE Start
  BY <1>2 DEF Start, Overlap
<1>s. SendStop => pending' \in Nat
  BY DEF SendStop
<1>3. CASE Stop
  BY <1>3, <1>s DEF Stop
<1>4. CASE CleanupBegins
  BY <1>4, <1>s DEF CleanupBegins, TtyOpen, Overlap
<1>5. CASE CleanupEnds
  BY <1>5 DEF CleanupEnds
<1>6. CASE Plug
  BY <1>6 DEF Plug
<1>7. ASSUME NEW t \in Readers, Reader(t) PROVE TypeInv'
  <2>1. CASE Begin(t) \/ RegCtl(t) \/ RegTty(t) \/ Poll(t)
    BY <2>1 DEF Begin, RegCtl, RegTty, Poll, Register, Goto, shared
  <2>2. CASE WakeHup(t) \/ WakeCtl(t) \/ WakeTty(t) \/ Parse(t) \/ Check(t)
    BY <2>2 DEF WakeHup, WakeCtl, WakeTty, Parse, Check, Goto, shared
  <2>3. CASE ReadCmd(t)
    <3>1. CASE Valid(t) /\ pending > 0
      <4>1. pending' = pending - 1 /\ started' = FALSE /\ pc' = [pc EXCEPT ![t] = "check"]
            /\ UNCHANGED <<shared, reg, num>>
        BY <2>3, <3>1, Zenon DEF ReadCmd, Goto
      <4>2. pending' \in Nat
        BY <3>1, <4>1
      <4> QED BY <4>1, <4>2 DEF shared
    <3>2. CASE ~ (Valid(t) /\ pending > 0)
      BY <2>3, <3>2 DEF ReadCmd, Goto, shared
    <3> QED BY <3>1, <3>2
  <2>4. CASE DeregCtl(t) \/ DeregTty(t)
    BY <2>4 DEF DeregCtl, DeregTty, Deregister, Goto, shared
  <2> QED BY <1>7, <2>1, <2>2, <2>3, <2>4 DEF Reader
<1>8. CASE UNCHANGED vars
  BY <1>8 DEF vars
<1> QED BY <1>1, <1>2, <1>3, <1>4, <1>5, <1>6, <1>7, <1>8 DEF Next, Service

LEMMA InitStep == TypeInv /\ InitInv /\ [Next]_vars => InitInv'
<1> SUFFICES ASSUME TypeInv, InitInv, [Next]_vars PROVE InitInv'
  OBVIOUS
<1>1. CASE Service
  BY <1>1 DEF Service, InitAgain, InitOpens, InitMissing, InitFails, Start, Stop, CleanupBegins,
              CleanupEnds, InitInv, TypeInv
<1>2. CASE Plug \/ \E t \in Readers : Reader(t)
  <2>1. UNCHANGED <<fw, init>>
    BY <1>2 DEF Plug, Reader, Begin, RegCtl, RegTty, Poll, WakeHup, WakeCtl, ReadCmd, WakeTty, Parse,
                Check, DeregCtl, DeregTty, shared
  <2> QED BY <2>1 DEF InitInv
<1>3. CASE UNCHANGED vars
  BY <1>3 DEF vars, InitInv
<1> QED BY <1>1, <1>2, <1>3 DEF Next

LEMMA NumStep == TypeInv /\ InitInv /\ NumInv /\ [Next]_vars => NumInv'
<1> SUFFICES ASSUME TypeInv, InitInv, NumInv, [Next]_vars, "cleanup" \notin met'
             PROVE /\ \A t \in Readers : pc'[t] # "lost"
                   /\ fw' = "closing" \/ init' = FALSE => AllOff'
                   /\ \A t \in Readers : pc'[t] \notin {"off", "begin"} => num'[t] = cur'
  BY DEF NumInv
<1>m. met \subseteq met'
  BY DEF Next, Service, InitAgain, InitOpens, InitMissing, InitFails, Start, Stop, CleanupBegins,
         CleanupEnds, Plug, Reader, Begin, RegCtl, RegTty, Poll, WakeHup, WakeCtl, ReadCmd, WakeTty,
         Parse, Check, DeregCtl, DeregTty, shared, vars, Meet
<1>n. /\ \A t \in Readers : pc[t] # "lost"
      /\ fw = "closing" \/ init = FALSE => AllOff
      /\ \A t \in Readers : pc[t] \notin {"off", "begin"} => num[t] = cur
  BY <1>m DEF NumInv
<1>1. CASE InitAgain \/ InitFails \/ Stop
  BY <1>1, <1>n DEF InitAgain, InitFails, Stop, AllOff
<1>2. CASE InitOpens \/ InitMissing
  BY <1>2, <1>n DEF InitOpens, InitMissing, AllOff, TypeInv
<1>3. CASE Start
  BY <1>3, <1>n DEF Start, AllOff, InitInv, TypeInv, Labels
<1>4. CASE CleanupBegins
  <2>1. NoReader
    BY <1>4 DEF CleanupBegins, Meet, Overlap
  <2> QED BY <1>4, <1>n, <2>1 DEF CleanupBegins, NoReader, AllOff
<1>5. CASE CleanupEnds
  BY <1>5, <1>n DEF CleanupEnds, AllOff
<1>6. CASE Plug \/ UNCHANGED vars
  BY <1>6, <1>n DEF Plug, vars, AllOff
<1>7. ASSUME NEW t \in Readers, Reader(t)
      PROVE /\ \A u \in Readers : pc'[u] # "lost"
            /\ fw' = "closing" \/ init' = FALSE => AllOff'
            /\ \A u \in Readers : pc'[u] \notin {"off", "begin"} => num'[u] = cur'
  <2>1. /\ UNCHANGED <<fw, init, cur>> /\ pc[t] # "off"
        /\ \/ Begin(t) \/ DeregTty(t)
           \/ num' = num /\ pc[t] # "begin" /\ \E l \in Labels \ {"lost"} : pc' = [pc EXCEPT ![t] = l]
    <3>1. CASE Begin(t) \/ RegCtl(t) \/ RegTty(t) \/ Poll(t) \/ WakeHup(t) \/ WakeCtl(t) \/ DeregTty(t)
      BY <3>1 DEF Begin, RegCtl, RegTty, Poll, WakeHup, WakeCtl, DeregTty, Goto, shared, Labels
    <3>2. CASE ReadCmd(t) \/ WakeTty(t) \/ Parse(t) \/ DeregCtl(t)
      BY <3>2 DEF ReadCmd, WakeTty, Parse, DeregCtl, Goto, shared, Labels
    <3>3. CASE Check(t)
      BY <3>3, Zenon DEF Check, Goto, shared, Labels
    <3> QED BY <1>7, <3>1, <3>2, <3>3 DEF Reader
  <2>2. ~ (fw' = "closing" \/ init' = FALSE)
    BY <1>n, <2>1 DEF AllOff
  <2>3. CASE Begin(t)
    BY <1>n, <2>1, <2>2, <2>3 DEF Begin, Goto, TypeInv
  <2>4. CASE DeregTty(t)
    BY <1>n, <2>1, <2>2, <2>4 DEF DeregTty, Goto, TypeInv
  <2>5. CASE num' = num /\ pc[t] # "begin" /\ \E l \in Labels \ {"lost"} : pc' = [pc EXCEPT ![t] = l]
    BY <1>n, <2>1, <2>2, <2>5 DEF TypeInv
  <2> QED BY <2>1, <2>3, <2>4, <2>5
<1> QED BY <1>1, <1>2, <1>3, <1>4, <1>5, <1>6, <1>7 DEF Next, Service

-----------------------------------------------------------------------------
\* A service that met no trouble but a missing thread.  It has one reader at a
\* time, which is registered for what its place says, and which knows of the
\* one stop that was asked for until it has taken it.

Registered(l) == CASE l \in {"off", "begin", "regCtl"} -> {}
                   [] l = "regTty" -> {"ctl"}
                   [] l = "deregTty" -> {"tty"}
                   [] OTHER -> {"ctl", "tty"}

Alone == \A t, u \in Readers : pc[t] # "off" /\ pc[u] # "off" => t = u

Leaving(t) == pc[t] \in {"deregCtl", "deregTty"}

\* What reader t, which runs, has to do with the service's last call.
ReaderInv(t) == /\ fw \in {"ready", "nav"}
                /\ reg = Registered(pc[t])
                /\ started = FALSE => pending = 0 /\ fw = "ready"
                                        /\ pc[t] \in {"check", "deregCtl", "deregTty"}
                /\ started = TRUE => ~Leaving(t)
                /\ started = TRUE /\ fw = "nav" => pending = 0 /\ pc[t] # "cmd"
                /\ started = TRUE /\ fw = "ready" => pending = 1

CalmInv == met \subseteq {"nothread"} =>
    /\ plugged = TRUE /\ hup = FALSE /\ (fw # "closing" => ctlHup = FALSE)
    /\ init = TRUE => "tty" \in cur
    /\ Alone
    /\ \A t \in Readers : pc[t] # "off" => ReaderInv(t)
    /\ AllOff => started = FALSE /\ pending = 0 /\ reg = {}

LEMMA MetGrows == [Next]_vars => met \subseteq met'
BY DEF Next, Service, InitAgain, InitOpens, InitMissing, InitFails, Start, Stop, CleanupBegins,
       CleanupEnds, Plug, Reader, Begin, RegCtl, RegTty, Poll, WakeHup, WakeCtl, ReadCmd, WakeTty,
       Parse, Check, DeregCtl, DeregTty, shared, vars, Meet

\* One of the readers' steps, for a service without trouble.
LEMMA CalmReader ==
    ASSUME TypeInv, InitInv, NumInv, CalmInv, met \subseteq {"nothread"},
           NEW t \in Readers, Reader(t)
    PROVE CalmInv'
<1>1. /\ pc[t] # "off" /\ pc[t] # "lost" /\ ReaderInv(t)
      /\ plugged = TRUE /\ hup = FALSE /\ ctlHup = FALSE /\ fw \in {"ready", "nav"}
      /\ init = TRUE /\ "tty" \in cur
      /\ \A u \in Readers : u # t => pc[u] = "off"
      /\ pc[t] # "begin" => num[t] = cur
  <2>1. pc[t] # "off"
    BY DEF Reader, Begin, RegCtl, RegTty, Poll, WakeHup, WakeCtl, ReadCmd, WakeTty, Parse, Check,
           DeregCtl, DeregTty
  <2>2. ReaderInv(t) /\ fw \in {"ready", "nav"}
    BY <2>1 DEF CalmInv, ReaderInv
  <2>3. "cleanup" \notin met
    OBVIOUS
  <2> QED BY <2>1, <2>2, <2>3 DEF CalmInv, InitInv, NumInv, Alone
<1>2. /\ UNCHANGED shared
      /\ \E l \in Labels : pc' = [pc EXCEPT ![t] = l]
  <2>1. CASE Begin(t) \/ RegCtl(t) \/ RegTty(t) \/ Poll(t) \/ WakeHup(t) \/ WakeCtl(t) \/ DeregTty(t)
    BY <2>1 DEF Begin, RegCtl, RegTty, Poll, WakeHup, WakeCtl, DeregTty, Goto, Labels
  <2>2. CASE ReadCmd(t) \/ WakeTty(t) \/ Parse(t) \/ DeregCtl(t)
    BY <2>2 DEF ReadCmd, WakeTty, Parse, DeregCtl, Goto, Labels
  <2>3. CASE Check(t)
    BY <2>3, Zenon DEF Check, Goto, Labels
  <2> QED BY <2>1, <2>2, <2>3 DEF Reader
<1>3. /\ UNCHANGED <<fw, init, cur, plugged, hup, ctlHup, met>>
      /\ \A u \in Readers : u # t => pc'[u] = "off"
  BY <1>1, <1>2 DEF shared, TypeInv
<1>4. SUFFICES /\ pc'[t] # "off" => ReaderInv(t)'
               /\ pc'[t] = "off" => started' = FALSE /\ pending' = 0 /\ reg' = {}
  <2>1. Alone'
    BY <1>3 DEF Alone
  <2>2. AllOff' => pc'[t] = "off"
    BY DEF AllOff
  <2>3. \A u \in Readers : pc'[u] # "off" => u = t
    BY <1>3
  <2> QED BY <1>1, <1>3, <1>4, <2>1, <2>2, <2>3 DEF CalmInv
<1>v. pc[t] # "begin" => Valid(t) /\ TtyOpen
  BY <1>1 DEF Valid, TtyOpen, Closed
<1>5. CASE Begin(t)
  BY <1>1, <1>3, <1>5 DEF Begin, Goto, ReaderInv, Registered, Leaving, TypeInv
<1>6. CASE RegCtl(t)
  BY <1>1, <1>3, <1>6, <1>v DEF RegCtl, Register, Goto, ReaderInv, Registered, Leaving, TypeInv
<1>7. CASE RegTty(t)
  BY <1>1, <1>3, <1>7, <1>v DEF RegTty, Register, Goto, ReaderInv, Registered, Leaving, TypeInv
<1>8. CASE Poll(t)
  BY <1>1, <1>3, <1>8 DEF Poll, Goto, ReaderInv, Registered, Leaving, TypeInv
<1>9. CASE WakeHup(t)
  BY <1>1, <1>9 DEF WakeHup
<1>10. CASE WakeCtl(t)
  BY <1>1, <1>3, <1>10 DEF WakeCtl, Goto, ReaderInv, Registered, Leaving, TypeInv
<1>11. CASE ReadCmd(t)
  <2>1. pc[t] = "cmd" /\ started = TRUE /\ fw = "ready" /\ pending = 1
    BY <1>1, <1>11 DEF ReadCmd, ReaderInv, TypeInv
  <2>2. pending' = 0 /\ started' = FALSE /\ pc' = [pc EXCEPT ![t] = "check"] /\ reg' = reg
    BY <1>11, <1>v, <2>1 DEF ReadCmd, Goto
  <2> QED BY <1>1, <1>3, <2>1, <2>2 DEF ReaderInv, Registered, Leaving, TypeInv
<1>12. CASE WakeTty(t) \/ Parse(t)
  BY <1>1, <1>3, <1>12 DEF WakeTty, Parse, Goto, ReaderInv, Registered, Leaving, TypeInv
<1>13. CASE Check(t)
  <2>1. CASE started = TRUE
    BY <1>1, <1>3, <1>13, <2>1 DEF Check, Goto, ReaderInv, Registered, Leaving, TypeInv
  <2>2. CASE started = FALSE
    BY <1>1, <1>3, <1>13, <2>2 DEF Check, Goto, ReaderInv, Registered, Leaving, TypeInv
  <2> QED BY <2>1, <2>2 DEF TypeInv
<1>14. CASE DeregCtl(t)
  BY <1>1, <1>3, <1>14, <1>v DEF DeregCtl, Deregister, Goto, ReaderInv, Registered, Leaving, TypeInv
<1>15. CASE DeregTty(t)
  BY <1>1, <1>3, <1>15, <1>v DEF DeregTty, Deregister, Goto, ReaderInv, Registered, Leaving, TypeInv
<1> QED BY <1>5, <1>6, <1>7, <1>8, <1>9, <1>10, <1>11, <1>12, <1>13, <1>14, <1>15 DEF Reader

LEMMA CalmStep == TypeInv /\ InitInv /\ NumInv /\ CalmInv /\ [Next]_vars => CalmInv'
<1> SUFFICES ASSUME TypeInv, InitInv, NumInv, CalmInv, [Next]_vars, met' \subseteq {"nothread"}
             PROVE CalmInv'
  BY DEF CalmInv
<1>m. met \subseteq {"nothread"}
  BY MetGrows
<1>c. /\ plugged = TRUE /\ hup = FALSE /\ (fw # "closing" => ctlHup = FALSE)
      /\ init = TRUE => "tty" \in cur
      /\ Alone
      /\ \A t \in Readers : pc[t] # "off" => ReaderInv(t)
      /\ AllOff => started = FALSE /\ pending = 0 /\ reg = {}
  BY <1>m DEF CalmInv
<1>r. NoReader => AllOff
  BY <1>m DEF NumInv, NoReader, AllOff
<1>o. fw \in {"off", "closing"} => AllOff
  BY <1>c DEF AllOff, ReaderInv
<1>1. CASE InitAgain
  BY <1>1, <1>c, <1>o DEF InitAgain, CalmInv, Alone, AllOff
<1>2. CASE InitOpens
  <2>1. "tty" \in cur'
    BY <1>2 DEF InitOpens, Opened
  <2> QED BY <1>2, <1>c, <1>o, <2>1 DEF InitOpens, CalmInv, Alone, AllOff
<1>3. CASE InitMissing \/ InitFails \/ Plug
  <2>1. ~InitMissing
    BY <1>c DEF InitMissing
  <2>2. InitFails => "nosocket" \in met'
    BY DEF InitFails, Meet
  <2>3. Plug => "unplug" \in met'
    BY DEF Plug, Meet
  <2> QED BY <1>3, <2>1, <2>2, <2>3
<1>4. CASE Start
  <2>1. AllOff
    BY <1>4, <1>r DEF Start, Meet, Overlap
  <2>2. started = FALSE /\ pending = 0 /\ reg = {} /\ fw = "ready"
    BY <1>4, <1>c, <2>1 DEF Start
  <2>3. /\ fw' = "nav" /\ UNCHANGED <<init, cur, ctlHup, reg, pending, plugged, hup>>
    BY <1>4 DEF Start
  <2>4. CASE \E t \in Readers : pc' = [pc EXCEPT ![t] = "begin"] /\ started' = TRUE
    <3>1. PICK t \in Readers : pc' = [pc EXCEPT ![t] = "begin"] /\ started' = TRUE
      BY <2>4
    <3>2. pc'[t] = "begin" /\ \A u \in Readers : u # t => pc'[u] = "off"
      BY <2>1, <3>1 DEF AllOff, TypeInv
    <3>3. ReaderInv(t)'
      BY <2>2, <2>3, <3>1, <3>2 DEF ReaderInv, Registered, Leaving
    <3>4. Alone' /\ ~AllOff' /\ \A u \in Readers : pc'[u] # "off" => u = t
      BY <3>2 DEF Alone, AllOff
    <3> QED BY <1>c, <2>2, <2>3, <3>3, <3>4 DEF CalmInv
  <2>5. CASE UNCHANGED <<started, pc>>
    BY <1>c, <2>1, <2>2, <2>3, <2>5 DEF CalmInv, Alone, AllOff
  <2>6. (\E t \in Readers : pc' = [pc EXCEPT ![t] = "begin"] /\ started' = TRUE)
           \/ UNCHANGED <<started, pc>>
    BY <1>4 DEF Start
  <2> QED BY <2>4, <2>5, <2>6
<1>5. CASE Stop
  <2>1. /\ fw = "nav" /\ fw' = "ready" /\ UNCHANGED <<init, started, cur, ctlHup, reg, plugged, hup, pc>>
        /\ SendStop
    BY <1>5 DEF Stop
  <2>2. CASE AllOff
    <3>1. pending' = 0
      BY <1>c, <2>1, <2>2 DEF SendStop
    <3> QED BY <1>c, <2>1, <2>2, <3>1 DEF CalmInv, Alone, AllOff
  <2>3. CASE ~AllOff
    <3>1. PICK t \in Readers : pc[t] # "off"
      BY <2>3 DEF AllOff
    <3>2. ReaderInv(t) /\ started = TRUE /\ pending = 0 /\ ~Leaving(t) /\ TtyOpen
      BY <1>c, <2>1, <3>1 DEF ReaderInv, InitInv, TtyOpen, TypeInv
    <3>3. pending' = 1
      BY <2>1, <3>2, GpsAssumption DEF GpsAssumption, SendStop
    <3>4. ReaderInv(t)'
      BY <2>1, <3>2, <3>3 DEF ReaderInv, Leaving
    <3>5. \A u \in Readers : pc'[u] # "off" => u = t
      BY <1>c, <2>1, <3>1 DEF Alone
    <3>6. Alone' /\ ~AllOff'
      BY <1>c, <2>1, <2>3 DEF Alone, AllOff
    <3> QED BY <1>c, <2>1, <3>4, <3>5, <3>6 DEF CalmInv
  <2> QED BY <2>2, <2>3
<1>6. CASE CleanupBegins
  <2>1. AllOff
    BY <1>6, <1>r DEF CleanupBegins, Meet, Overlap
  <2>2. /\ pending' = 0 /\ fw' = "closing"
        /\ UNCHANGED <<init, started, cur, reg, plugged, hup, pc>>
    BY <1>6, <1>c, <2>1 DEF CleanupBegins, SendStop
  <2> QED BY <1>c, <2>1, <2>2 DEF CalmInv, Alone, AllOff
<1>7. CASE CleanupEnds
  <2>1. AllOff
    BY <1>7, <1>o DEF CleanupEnds
  <2>2. /\ pending' = 0 /\ reg' = {} /\ init' = FALSE /\ ctlHup' = FALSE /\ hup' = FALSE
        /\ UNCHANGED <<started, plugged>>
        /\ \A t \in Readers : pc'[t] = "off"
    BY <1>7, <2>1 DEF CleanupEnds, AllOff
  <2> QED BY <1>c, <2>1, <2>2 DEF CalmInv, Alone, AllOff
<1>8. ASSUME NEW t \in Readers, Reader(t) PROVE CalmInv'
  BY <1>8, <1>m, CalmReader
<1>9. CASE UNCHANGED vars
  BY <1>9, <1>c DEF vars, CalmInv, Alone, AllOff, ReaderInv, Leaving
<1> QED BY <1>1, <1>2, <1>3, <1>4, <1>5, <1>6, <1>7, <1>8, <1>9 DEF Next, Service

-----------------------------------------------------------------------------
IInv == TypeInv /\ InitInv /\ NumInv /\ CalmInv

LEMMA InitInductive == Init => IInv
<1> SUFFICES ASSUME Init PROVE IInv
  OBVIOUS
<1>1. InitInv /\ NumInv
  BY DEF Init, InitInv, NumInv, AllOff
<1>2. CalmInv
  <2>1. plugged = TRUE \/ ~ (met \subseteq {"nothread"})
    BY InitTyped DEF Init, TypeInv
  <2> QED BY <2>1 DEF Init, CalmInv, Alone, AllOff
<1> QED BY <1>1, <1>2, InitTyped DEF IInv

LEMMA StepInductive == IInv /\ [Next]_vars => IInv'
  BY TypeStep, InitStep, NumStep, CalmStep DEF IInv

\* The numbers a reader cached stay those of the state as long as cleanup waits
\* for it, for any number of readers and whatever else goes wrong.
THEOREM Numbering == Spec => []NoStaleNumbers
<1>1. IInv => NoStaleNumbers
  BY DEF IInv, NumInv, NoStaleNumbers
<1> QED BY <1>1, InitInductive, StepInductive, PTL DEF Spec

\* A session that met no trouble leaves no flag, no command and no registration
\* for the next one, for any number of readers.
THEOREM Freshness == Spec => []FreshStart
<1>1. IInv => FreshStart
  <2> SUFFICES ASSUME IInv, NoReader, met \subseteq {"nothread"}
               PROVE ~started /\ pending = 0 /\ reg = {}
    BY DEF FreshStart
  <2>1. AllOff
    BY DEF IInv, NumInv, NoReader, AllOff
  <2> QED BY <2>1 DEF IInv, CalmInv
<1> QED BY <1>1, InitInductive, StepInductive, PTL DEF Spec
=============================================================================
