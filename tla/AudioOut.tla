------------------------------ MODULE AudioOut ------------------------------
(* The playback half of the audio HAL (src/hal/audio/audio_hw.c): threads of  *)
(* the audio service call write, standby and close on the output streams of   *)
(* one device.  A call takes the device lock, then the stream's lock; a write *)
(* gives the device lock back before it blocks in pcm_write.                  *)
EXTENDS Naturals

CONSTANTS Threads,    \* threads of the audio service
          Streams,    \* memory for that many stub_stream_out
          Cards,      \* values of persist.rpi4.audio.pcm.card
          Present,    \* the cards the kernel really has
          NoThread,   \* owner of a free mutex
          NoPcm,      \* out->pcm == NULL
          Modulus     \* out->written wraps here (2^64 in the code)

ASSUME AudioAssumption == /\ NoThread \notin Threads
                          /\ NoPcm \notin Cards
                          /\ Present \subseteq Cards
                          /\ Modulus \in Nat \ {0}

VARIABLES adevLock,   \* owner of adev->lock
          outLock,    \* owner of each out->lock
          opened,     \* the stream is allocated
          standby,    \* out->standby
          pcm,        \* out->pcm: the card it is open on, or NoPcm
          written,    \* out->written, in buffers
          card,       \* persist.rpi4.audio.pcm.card
          pc,         \* where each thread is
          op,         \* the call it makes
          arg,        \* the stream it makes it on
          res         \* ret of out_write

vars == <<adevLock, outLock, opened, standby, pcm, written, card, pc, op, arg, res>>

Ops == {"none", "write", "standby", "close"}
Results == {"ok", "ENOMEM", "EPIPE", "EIO"}
Labels == {"idle", "dev", "out", "body", "started", "play", "exit", "sleep",
           "closed", "unlock", "last", "free"}

\* The places of a call between lock and unlock of each mutex.
DevHeld == {"out", "body", "started", "closed", "unlock", "last"}
OutHeld == {"body", "started", "play", "exit", "closed", "unlock"}

Init == /\ adevLock = NoThread
        /\ outLock = [s \in Streams |-> NoThread]
        /\ opened = [s \in Streams |-> FALSE]
        /\ standby = [s \in Streams |-> TRUE]
        /\ pcm = [s \in Streams |-> NoPcm]
        /\ written = [s \in Streams |-> 0]
        /\ card \in Cards
        /\ pc = [t \in Threads |-> "idle"]
        /\ op = [t \in Threads |-> "none"]
        /\ arg \in [Threads -> Streams]
        /\ res = [t \in Threads |-> "ok"]

Goto(t, l) == pc' = [pc EXCEPT ![t] = l]
Return(t) == Goto(t, "idle") /\ op' = [op EXCEPT ![t] = "none"]

Calls(t, s) == op[t] # "none" /\ arg[t] = s

-----------------------------------------------------------------------------
\* Environment: the audio service and the user's choice of a card.

\* adev_open_output_stream; a configuration other than the default one is
\* refused before anything changes.
OpenOutput(t, s) ==
    /\ pc[t] = "idle" /\ ~opened[s]
    /\ opened' = [opened EXCEPT ![s] = TRUE]
    /\ standby' = [standby EXCEPT ![s] = TRUE]
    /\ pcm' = [pcm EXCEPT ![s] = NoPcm]
    /\ written' = [written EXCEPT ![s] = 0]
    /\ UNCHANGED <<adevLock, outLock, card, pc, op, arg, res>>

\* The service calls write or standby on an open stream from any thread, and
\* closes a stream when no call on it is left.
Call(t, s, o) ==
    /\ pc[t] = "idle" /\ opened[s]
    /\ \A u \in Threads : ~(Calls(u, s) /\ op[u] = "close")
    /\ o = "close" => \A u \in Threads : ~Calls(u, s)
    /\ Goto(t, "dev")
    /\ op' = [op EXCEPT ![t] = o]
    /\ arg' = [arg EXCEPT ![t] = s]
    /\ res' = [res EXCEPT ![t] = "ok"]
    /\ UNCHANGED <<adevLock, outLock, opened, standby, pcm, written, card>>

SetCard(c) ==
    /\ card' = c
    /\ UNCHANGED <<adevLock, outLock, opened, standby, pcm, written, pc, op, arg, res>>

-----------------------------------------------------------------------------
\* Both calls begin with adev->lock and then out->lock.

\* A writer that skips the device lock (a mutation).
LockDevSkipped(t) ==
    /\ pc[t] = "dev" /\ (op[t] = "write" \/ adevLock = NoThread)
    /\ adevLock' = IF op[t] = "write" THEN adevLock ELSE t
    /\ Goto(t, "out")
    /\ UNCHANGED <<outLock, opened, standby, pcm, written, card, op, arg, res>>

LockDev(t) ==
    /\ pc[t] = "dev" /\ adevLock = NoThread
    /\ adevLock' = t
    /\ Goto(t, "out")
    /\ UNCHANGED <<outLock, opened, standby, pcm, written, card, op, arg, res>>

LockOut(t) ==
    /\ pc[t] = "out" /\ outLock[arg[t]] = NoThread
    /\ outLock' = [outLock EXCEPT ![arg[t]] = t]
    /\ Goto(t, "body")
    /\ UNCHANGED <<adevLock, opened, standby, pcm, written, card, op, arg, res>>

-----------------------------------------------------------------------------
\* out_write

\* tinyalsa: a PCM device opens for one handle at a time.
PcmIsReady(c) == c \in Present /\ \A s \in Streams : pcm[s] # c

\* A failed start that leaves the unready handle in out->pcm (a mutation).
StartFailsOpen(t) ==
    /\ pc[t] = "body" /\ op[t] = "write" /\ standby[arg[t]]
    /\ pcm' = [pcm EXCEPT ![arg[t]] = card]
    /\ adevLock' = NoThread
    /\ res' = [res EXCEPT ![t] = "ENOMEM"]
    /\ Goto(t, "exit")
    /\ UNCHANGED <<outLock, opened, standby, written, card, op, arg>>

\* A failed start that keeps the device lock (a mutation).
StartFailsLocked(t) ==
    /\ pc[t] = "body" /\ op[t] = "write" /\ standby[arg[t]]
    /\ res' = [res EXCEPT ![t] = "ENOMEM"]
    /\ Goto(t, "exit")
    /\ UNCHANGED <<adevLock, outLock, opened, standby, pcm, written, card, op, arg>>

\* start_output_stream fails: no handle, or one that is not ready and is closed.
StartFails(t) ==
    /\ pc[t] = "body" /\ op[t] = "write" /\ standby[arg[t]]
    /\ adevLock' = NoThread
    /\ res' = [res EXCEPT ![t] = "ENOMEM"]
    /\ Goto(t, "exit")
    /\ UNCHANGED <<outLock, opened, standby, pcm, written, card, op, arg>>

\* start_output_stream succeeds.
StartOpens(t) ==
    /\ pc[t] = "body" /\ op[t] = "write" /\ standby[arg[t]]
    /\ PcmIsReady(card)
    /\ pcm' = [pcm EXCEPT ![arg[t]] = card]
    /\ Goto(t, "started")
    /\ UNCHANGED <<adevLock, outLock, opened, standby, written, card, op, arg, res>>

Started(t) ==
    /\ pc[t] = "started"
    /\ standby' = [standby EXCEPT ![arg[t]] = FALSE]
    /\ adevLock' = NoThread
    /\ Goto(t, "play")
    /\ UNCHANGED <<outLock, opened, pcm, written, card, op, arg, res>>

\* A writer that gives both locks back before pcm_write (a mutation).
RunningUnlocked(t) ==
    /\ pc[t] = "body" /\ op[t] = "write" /\ ~standby[arg[t]]
    /\ adevLock' = NoThread
    /\ outLock' = [outLock EXCEPT ![arg[t]] = NoThread]
    /\ Goto(t, "play")
    /\ UNCHANGED <<opened, standby, pcm, written, card, op, arg, res>>

\* The stream plays already: only adev->lock is given back.
Running(t) ==
    /\ pc[t] = "body" /\ op[t] = "write" /\ ~standby[arg[t]]
    /\ adevLock' = NoThread
    /\ Goto(t, "play")
    /\ UNCHANGED <<outLock, opened, standby, pcm, written, card, op, arg, res>>

\* pcm_write took the buffer.
WriteOk(t) ==
    /\ pc[t] = "play"
    /\ written' = [written EXCEPT ![arg[t]] = (@ + 1) % Modulus]
    /\ Goto(t, "exit")
    /\ UNCHANGED <<adevLock, outLock, opened, standby, pcm, card, op, arg, res>>

\* An underrun that returns without unlocking (a mutation).
WriteUnderrunLocked(t) ==
    /\ pc[t] = "play"
    /\ res' = [res EXCEPT ![t] = "EPIPE"]
    /\ Return(t)
    /\ UNCHANGED <<adevLock, outLock, opened, standby, pcm, written, card, arg>>

\* Underrun: the call returns at once.
WriteUnderrun(t) ==
    /\ pc[t] = "play"
    /\ outLock' = [outLock EXCEPT ![arg[t]] = NoThread]
    /\ res' = [res EXCEPT ![t] = "EPIPE"]
    /\ Return(t)
    /\ UNCHANGED <<adevLock, opened, standby, pcm, written, card, arg>>

WriteFails(t) ==
    /\ pc[t] = "play"
    /\ res' = [res EXCEPT ![t] = "EIO"]
    /\ Goto(t, "exit")
    /\ UNCHANGED <<adevLock, outLock, opened, standby, pcm, written, card, op, arg>>

\* exit: the stream's lock is given back, and a failed write sleeps for as long
\* as its buffer would have played.
WriteExit(t) ==
    /\ pc[t] = "exit"
    /\ outLock' = [outLock EXCEPT ![arg[t]] = NoThread]
    /\ IF res[t] = "ok" THEN Return(t) ELSE Goto(t, "sleep") /\ UNCHANGED op
    /\ UNCHANGED <<adevLock, opened, standby, pcm, written, card, arg, res>>

WriteSlept(t) ==
    /\ pc[t] = "sleep"
    /\ Return(t)
    /\ UNCHANGED <<adevLock, outLock, opened, standby, pcm, written, card, arg, res>>

-----------------------------------------------------------------------------
\* out_standby, and adev_close_output_stream, which calls it and frees the stream

StandbyCloses(t) ==
    /\ pc[t] = "body" /\ op[t] # "write" /\ ~standby[arg[t]]
    /\ pcm' = [pcm EXCEPT ![arg[t]] = NoPcm]
    /\ Goto(t, "closed")
    /\ UNCHANGED <<adevLock, outLock, opened, standby, written, card, op, arg, res>>

\* A standby that forgets out->standby = true (a mutation).
ClosedNotStandby(t) ==
    /\ pc[t] = "closed"
    /\ Goto(t, "unlock")
    /\ UNCHANGED <<adevLock, outLock, opened, standby, pcm, written, card, op, arg, res>>

Closed(t) ==
    /\ pc[t] = "closed"
    /\ standby' = [standby EXCEPT ![arg[t]] = TRUE]
    /\ Goto(t, "unlock")
    /\ UNCHANGED <<adevLock, outLock, opened, pcm, written, card, op, arg, res>>

StandbyAlready(t) ==
    /\ pc[t] = "body" /\ op[t] # "write" /\ standby[arg[t]]
    /\ Goto(t, "unlock")
    /\ UNCHANGED <<adevLock, outLock, opened, standby, pcm, written, card, op, arg, res>>

UnlockOut(t) ==
    /\ pc[t] = "unlock"
    /\ outLock' = [outLock EXCEPT ![arg[t]] = NoThread]
    /\ Goto(t, "last")
    /\ UNCHANGED <<adevLock, opened, standby, pcm, written, card, op, arg, res>>

UnlockDev(t) ==
    /\ pc[t] = "last"
    /\ adevLock' = NoThread
    /\ IF op[t] = "close" THEN Goto(t, "free") /\ UNCHANGED op ELSE Return(t)
    /\ UNCHANGED <<outLock, opened, standby, pcm, written, card, arg, res>>

Free(t) ==
    /\ pc[t] = "free"
    /\ opened' = [opened EXCEPT ![arg[t]] = FALSE]
    /\ Return(t)
    /\ UNCHANGED <<adevLock, outLock, standby, pcm, written, card, arg, res>>

-----------------------------------------------------------------------------
Write(t) == \/ StartFails(t) \/ StartOpens(t) \/ Started(t) \/ Running(t)
            \/ WriteOk(t) \/ WriteUnderrun(t) \/ WriteFails(t)
            \/ WriteExit(t) \/ WriteSlept(t)

Standby(t) == \/ StandbyCloses(t) \/ Closed(t) \/ StandbyAlready(t)
              \/ UnlockOut(t) \/ UnlockDev(t) \/ Free(t)

\* A thread that is inside a call.
Step(t) == LockDev(t) \/ LockOut(t) \/ Write(t) \/ Standby(t)

Next == \/ \E t \in Threads, s \in Streams :
                \/ OpenOutput(t, s)
                \/ \E o \in Ops \ {"none"} : Call(t, s, o)
        \/ \E c \in Cards : SetCard(c)
        \/ \E t \in Threads : Step(t)

Spec == Init /\ [][Next]_vars

\* The kernel runs every thread that can run, and pcm_write returns; a mutex
\* is not fair among the threads that wait for it.
FairSpec == Spec /\ \A t \in Threads : WF_vars(Step(t))

-----------------------------------------------------------------------------
TypeOK == /\ adevLock \in Threads \cup {NoThread}
          /\ outLock \in [Streams -> Threads \cup {NoThread}]
          /\ opened \in [Streams -> BOOLEAN]
          /\ standby \in [Streams -> BOOLEAN]
          /\ pcm \in [Streams -> Cards \cup {NoPcm}]
          /\ written \in [Streams -> 0 .. Modulus - 1]
          /\ card \in Cards
          /\ pc \in [Threads -> Labels]
          /\ op \in [Threads -> Ops]
          /\ arg \in [Threads -> Streams]
          /\ res \in [Threads -> Results]

\* Each mutex is owned by exactly the thread that is between its lock and its
\* unlock, on every path of out_write and out_standby, the failing ones too.
LockInv == \A t \in Threads :
             /\ adevLock = t <=> pc[t] \in DevHeld
             /\ \A s \in Streams :
                  outLock[s] = t <=> pc[t] \in OutHeld /\ arg[t] = s

\* Whoever takes a stream's lock finds a handle exactly when the stream is not
\* in standby, so neither out_write nor out_standby uses a NULL or a closed
\* handle; and a writer inside pcm_write has one.
HandleInv ==
    /\ \A s \in Streams : outLock[s] = NoThread => (standby[s] <=> pcm[s] = NoPcm)
    /\ \A t \in Threads : pc[t] = "play" => pcm[arg[t]] # NoPcm /\ ~standby[arg[t]]

\* A stream that adev_close_output_stream has freed left no PCM open, which
\* would keep the card from every later stream, and no lock taken.
FreedReleases == \A s \in Streams :
                   ~opened[s] => pcm[s] = NoPcm /\ outLock[s] = NoThread

\* The handle a thread passed to pcm_write stays the stream's handle until
\* that thread returns: no standby closes it under the writer.
WriterKeepsHandle ==
    [][\A t \in Threads : pc[t] = "play" => pcm'[arg[t]] = pcm[arg[t]]]_vars

\* The streams share the cards as AudioSession says.
Session == INSTANCE AudioSession WITH holds <- pcm, frames <- written
SessionSpec == Session!SSpec

\* What out_write's comment promises of "acquiring hw device mutex
\* systematically": a thread that waits for a stream's lock gets it, because
\* the writers cannot overtake it while it holds the device's.
WaiterServed == \A t \in Threads : (pc[t] = "out") ~> (pc[t] = "body")

\* A thread that waits for a blocked writer holds the device lock, which every
\* other stream needs; the lock is free again in the end.
DevLockReleased == adevLock # NoThread ~> adevLock = NoThread
=============================================================================
