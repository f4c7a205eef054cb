--------------------------- MODULE AudioOutProofs ---------------------------
(* Proofs about AudioOut for any number of threads, streams and cards.  The   *)
(* safety invariants are not inductive alone: what a thread knows of its      *)
(* stream between the two assignments of a start or of a standby has to be    *)
(* said for each place, and a stream is freed only after its last call.       *)
EXTENDS AudioOut, TLAPS

\* The call of a thread fits the place it is at.
CallInv == \A t \in Threads :
             /\ op[t] = "none" <=> pc[t] = "idle"
             /\ pc[t] \in {"started", "play", "exit", "sleep"} => op[t] = "write"
             /\ pc[t] \in {"closed", "unlock", "last"} => op[t] \in {"standby", "close"}
             /\ pc[t] = "free" => op[t] = "close"

\* What the owner of a stream's lock knows of the stream.
PlaceInv == \A t \in Threads :
             /\ pc[t] \in {"body", "exit"} => (standby[arg[t]] <=> pcm[arg[t]] = NoPcm)
             /\ pc[t] = "started" => standby[arg[t]] /\ pcm[arg[t]] # NoPcm
             /\ pc[t] = "play" => ~standby[arg[t]] /\ pcm[arg[t]] # NoPcm
             /\ pc[t] = "closed" => ~standby[arg[t]] /\ pcm[arg[t]] = NoPcm
             /\ pc[t] = "unlock" => standby[arg[t]] /\ pcm[arg[t]] = NoPcm

FreeStreamInv == \A s \in Streams :
                   outLock[s] = NoThread => (standby[s] <=> pcm[s] = NoPcm)

\* Calls are on allocated streams, a close is the only call on its stream and
\* leaves it in standby, and so is a stream that is not allocated.
AllocInv ==
    /\ \A t \in Threads : op[t] # "none" => opened[arg[t]]
    /\ \A t, u \in Threads : op[t] = "close" /\ Calls(u, arg[t]) => u = t
    /\ \A t \in Threads : pc[t] \in {"last", "free"} /\ op[t] = "close" =>
                             standby[arg[t]] /\ pcm[arg[t]] = NoPcm
    /\ \A s \in Streams : ~opened[s] => standby[s] /\ pcm[s] = NoPcm

\* A card is open on one stream.
ExclusiveInv == \A r, s \in Streams : pcm[r] = pcm[s] /\ pcm[s] # NoPcm => r = s

IInv == /\ TypeOK
        /\ LockInv
        /\ CallInv
        /\ PlaceInv
        /\ FreeStreamInv
        /\ AllocInv
        /\ ExclusiveInv

LEMMA InitInductive == Init => IInv
<1> SUFFICES ASSUME Init PROVE IInv
  OBVIOUS
<1> QED BY AudioAssumption DEF Init, IInv, TypeOK, LockInv, CallInv, PlaceInv, FreeStreamInv,
             AllocInv, ExclusiveInv, Ops, Results, Labels, DevHeld, OutHeld, Calls

LEMMA StepInductive == ASSUME NEW t \in Threads, IInv, Step(t) PROVE IInv'
<1> USE AudioAssumption DEF IInv, Goto, Return, TypeOK, Ops, Results, Labels
<1>1. CASE LockDev(t)
  <2>1. TypeOK' BY <1>1 DEF LockDev
  <2>2. LockInv' BY <1>1 DEF LockDev, LockInv, CallInv, DevHeld, OutHeld
  <2>3. CallInv' BY <1>1 DEF LockDev, CallInv
  <2>4. PlaceInv' BY <1>1 DEF LockDev, PlaceInv, FreeStreamInv, LockInv, DevHeld, OutHeld
  <2>5. FreeStreamInv' BY <1>1 DEF LockDev, PlaceInv, FreeStreamInv, LockInv, DevHeld, OutHeld
  <2>6. AllocInv' BY <1>1 DEF LockDev, AllocInv, Calls, CallInv, PlaceInv, LockInv, OutHeld
  <2>7. ExclusiveInv' BY <1>1 DEF LockDev, ExclusiveInv
  <2> QED BY <2>1, <2>2, <2>3, <2>4, <2>5, <2>6, <2>7
<1>2. CASE LockOut(t)
  <2>1. TypeOK' BY <1>2 DEF LockOut
  <2>2. LockInv' BY <1>2 DEF LockOut, LockInv, CallInv, DevHeld, OutHeld
  <2>3. CallInv' BY <1>2 DEF LockOut, CallInv
  <2>4. PlaceInv' BY <1>2 DEF LockOut, PlaceInv, FreeStreamInv, LockInv, DevHeld, OutHeld
  <2>5. FreeStreamInv' BY <1>2 DEF LockOut, PlaceInv, FreeStreamInv, LockInv, DevHeld, OutHeld
  <2>6. AllocInv' BY <1>2 DEF LockOut, AllocInv, Calls, CallInv, PlaceInv, LockInv, OutHeld
  <2>7. ExclusiveInv' BY <1>2 DEF LockOut, ExclusiveInv
  <2> QED BY <2>1, <2>2, <2>3, <2>4, <2>5, <2>6, <2>7
<1>3. CASE StartFails(t)
  <2>1. TypeOK' BY <1>3 DEF StartFails
  <2>2. LockInv' BY <1>3 DEF StartFails, LockInv, CallInv, DevHeld, OutHeld
  <2>3. CallInv' BY <1>3 DEF StartFails, CallInv
  <2>4. PlaceInv' BY <1>3 DEF StartFails, PlaceInv, FreeStreamInv, LockInv, DevHeld, OutHeld
  <2>5. FreeStreamInv' BY <1>3 DEF StartFails, PlaceInv, FreeStreamInv, LockInv, DevHeld, OutHeld
  <2>6. AllocInv' BY <1>3 DEF StartFails, AllocInv, Calls, CallInv, PlaceInv, LockInv, OutHeld
  <2>7. ExclusiveInv' BY <1>3 DEF StartFails, ExclusiveInv
  <2> QED BY <2>1, <2>2, <2>3, <2>4, <2>5, <2>6, <2>7
<1>4. CASE StartOpens(t)
  <2>1. TypeOK' BY <1>4 DEF StartOpens, PcmIsReady
  <2>2. LockInv' BY <1>4 DEF StartOpens, LockInv, CallInv, DevHeld, OutHeld
  <2>3. CallInv' BY <1>4 DEF StartOpens, CallInv
  <2>4. PlaceInv' BY <1>4 DEF StartOpens, PlaceInv, FreeStreamInv, LockInv, DevHeld, OutHeld
  <2>5. FreeStreamInv' BY <1>4 DEF StartOpens, PlaceInv, FreeStreamInv, LockInv, DevHeld, OutHeld
  <2>6. AllocInv' BY <1>4 DEF StartOpens, AllocInv, Calls, CallInv, PlaceInv, LockInv, OutHeld
  <2>7. ExclusiveInv' BY <1>4 DEF StartOpens, ExclusiveInv, PcmIsReady
  <2> QED BY <2>1, <2>2, <2>3, <2>4, <2>5, <2>6, <2>7
<1>5. CASE Started(t)
  <2>1. TypeOK' BY <1>5 DEF Started
  <2>2. LockInv' BY <1>5 DEF Started, LockInv, CallInv, DevHeld, OutHeld
  <2>3. CallInv' BY <1>5 DEF Started, CallInv
  <2>4. PlaceInv' BY <1>5 DEF Started, PlaceInv, FreeStreamInv, LockInv, DevHeld, OutHeld
  <2>5. FreeStreamInv' BY <1>5 DEF Started, PlaceInv, FreeStreamInv, LockInv, DevHeld, OutHeld
  <2>6. AllocInv' BY <1>5 DEF Started, AllocInv, Calls, CallInv, PlaceInv, LockInv, OutHeld
  <2>7. ExclusiveInv' BY <1>5 DEF Started, ExclusiveInv
  <2> QED BY <2>1, <2>2, <2>3, <2>4, <2>5, <2>6, <2>7
<1>6. CASE Running(t)
  <2>1. TypeOK' BY <1>6 DEF Running
  <2>2. LockInv' BY <1>6 DEF Running, LockInv, CallInv, DevHeld, OutHeld
  <2>3. CallInv' BY <1>6 DEF Running, CallInv
  <2>4. PlaceInv' BY <1>6 DEF Running, PlaceInv, FreeStreamInv, LockInv, DevHeld, OutHeld
  <2>5. FreeStreamInv' BY <1>6 DEF Running, PlaceInv, FreeStreamInv, LockInv, DevHeld, OutHeld
  <2>6. AllocInv' BY <1>6 DEF Running, AllocInv, Calls, CallInv, PlaceInv, LockInv, OutHeld
  <2>7. ExclusiveInv' BY <1>6 DEF Running, ExclusiveInv
  <2> QED BY <2>1, <2>2, <2>3, <2>4, <2>5, <2>6, <2>7
<1>7. CASE WriteOk(t)
  <2>1. TypeOK' BY <1>7 DEF WriteOk
  <2>2. LockInv' BY <1>7 DEF WriteOk, LockInv, CallInv, DevHeld, OutHeld
  <2>3. CallInv' BY <1>7 DEF WriteOk, CallInv
  <2>4. PlaceInv' BY <1>7 DEF WriteOk, PlaceInv, FreeStreamInv, LockInv, DevHeld, OutHeld
  <2>5. FreeStreamInv' BY <1>7 DEF WriteOk, PlaceInv, FreeStreamInv, LockInv, DevHeld, OutHeld
  <2>6. AllocInv' BY <1>7 DEF WriteOk, AllocInv, Calls, CallInv, PlaceInv, LockInv, OutHeld
  <2>7. ExclusiveInv' BY <1>7 DEF WriteOk, ExclusiveInv
  <2> QED BY <2>1, <2>2, <2>3, <2>4, <2>5, <2>6, <2>7
<1>8. CASE WriteUnderrun(t)
  <2>1. TypeOK' BY <1>8 DEF WriteUnderrun
  <2>2. LockInv' BY <1>8 DEF WriteUnderrun, LockInv, CallInv, DevHeld, OutHeld
  <2>3. CallInv' BY <1>8 DEF WriteUnderrun, CallInv
  <2>4. PlaceInv' BY <1>8 DEF WriteUnderrun, PlaceInv, FreeStreamInv, LockInv, DevHeld, OutHeld
  <2>5. FreeStreamInv' BY <1>8 DEF WriteUnderrun, PlaceInv, FreeStreamInv, LockInv, DevHeld, OutHeld
  <2>6. AllocInv' BY <1>8 DEF WriteUnderrun, AllocInv, Calls, CallInv, PlaceInv, LockInv, OutHeld
  <2>7. ExclusiveInv' BY <1>8 DEF WriteUnderrun, ExclusiveInv
  <2> QED BY <2>1, <2>2, <2>3, <2>4, <2>5, <2>6, <2>7
<1>9. CASE WriteFails(t)
  <2>1. TypeOK' BY <1>9 DEF WriteFails
  <2>2. LockInv' BY <1>9 DEF WriteFails, LockInv, CallInv, DevHeld, OutHeld
  <2>3. CallInv' BY <1>9 DEF WriteFails, CallInv
  <2>4. PlaceInv' BY <1>9 DEF WriteFails, PlaceInv, FreeStreamInv, LockInv, DevHeld, OutHeld
  <2>5. FreeStreamInv' BY <1>9 DEF WriteFails, PlaceInv, FreeStreamInv, LockInv, DevHeld, OutHeld
  <2>6. AllocInv' BY <1>9 DEF WriteFails, AllocInv, Calls, CallInv, PlaceInv, LockInv, OutHeld
  <2>7. ExclusiveInv' BY <1>9 DEF WriteFails, ExclusiveInv
  <2> QED BY <2>1, <2>2, <2>3, <2>4, <2>5, <2>6, <2>7
<1>10. CASE WriteExit(t)
  <2>1. TypeOK' BY <1>10 DEF WriteExit
  <2>2. LockInv' BY <1>10 DEF WriteExit, LockInv, CallInv, DevHeld, OutHeld
  <2>3. CallInv' BY <1>10 DEF WriteExit, CallInv
  <2>4. PlaceInv' BY <1>10 DEF WriteExit, PlaceInv, FreeStreamInv, LockInv, DevHeld, OutHeld
  <2>5. FreeStreamInv' BY <1>10 DEF WriteExit, PlaceInv, FreeStreamInv, LockInv, DevHeld, OutHeld
  <2>6. AllocInv' BY <1>10 DEF WriteExit, AllocInv, Calls, CallInv, PlaceInv, LockInv, OutHeld
  <2>7. ExclusiveInv' BY <1>10 DEF WriteExit, ExclusiveInv
  <2> QED BY <2>1, <2>2, <2>3, <2>4, <2>5, <2>6, <2>7
<1>11. CASE WriteSlept(t)
  <2>1. TypeOK' BY <1>11 DEF WriteSlept
  <2>2. LockInv' BY <1>11 DEF WriteSlept, LockInv, CallInv, DevHeld, OutHeld
  <2>3. CallInv' BY <1>11 DEF WriteSlept, CallInv
  <2>4. PlaceInv' BY <1>11 DEF WriteSlept, PlaceInv, FreeStreamInv, LockInv, DevHeld, OutHeld
  <2>5. FreeStreamInv' BY <1>11 DEF WriteSlept, PlaceInv, FreeStreamInv, LockInv, DevHeld, OutHeld
  <2>6. AllocInv' BY <1>11 DEF WriteSlept, AllocInv, Calls, CallInv, PlaceInv, LockInv, OutHeld
  <2>7. ExclusiveInv' BY <1>11 DEF WriteSlept, ExclusiveInv
  <2> QED BY <2>1, <2>2, <2>3, <2>4, <2>5, <2>6, <2>7
<1>12. CASE StandbyCloses(t)
  <2>1. TypeOK' BY <1>12 DEF StandbyCloses
  <2>2. LockInv' BY <1>12 DEF StandbyCloses, LockInv, CallInv, DevHeld, OutHeld
  <2>3. CallInv' BY <1>12 DEF StandbyCloses, CallInv
  <2>4. PlaceInv' BY <1>12 DEF StandbyCloses, PlaceInv, FreeStreamInv, LockInv, DevHeld, OutHeld
  <2>5. FreeStreamInv' BY <1>12 DEF StandbyCloses, PlaceInv, FreeStreamInv, LockInv, DevHeld, OutHeld
  <2>6. AllocInv' BY <1>12 DEF StandbyCloses, AllocInv, Calls, CallInv, PlaceInv, LockInv, OutHeld
  <2>7. ExclusiveInv' BY <1>12 DEF StandbyCloses, ExclusiveInv
  <2> QED BY <2>1, <2>2, <2>3, <2>4, <2>5, <2>6, <2>7
<1>13. CASE Closed(t)
  <2>1. TypeOK' BY <1>13 DEF Closed
  <2>2. LockInv' BY <1>13 DEF Closed, LockInv, CallInv, DevHeld, OutHeld
  <2>3. CallInv' BY <1>13 DEF Closed, CallInv
  <2>4. PlaceInv' BY <1>13 DEF Closed, PlaceInv, FreeStreamInv, LockInv, DevHeld, OutHeld
  <2>5. FreeStreamInv' BY <1>13 DEF Closed, PlaceInv, FreeStreamInv, LockInv, DevHeld, OutHeld
  <2>6. AllocInv' BY <1>13 DEF Closed, AllocInv, Calls, CallInv, PlaceInv, LockInv, OutHeld
  <2>7. ExclusiveInv' BY <1>13 DEF Closed, ExclusiveInv
  <2> QED BY <2>1, <2>2, <2>3, <2>4, <2>5, <2>6, <2>7
<1>14. CASE StandbyAlready(t)
  <2>1. TypeOK' BY <1>14 DEF StandbyAlready
  <2>2. LockInv' BY <1>14 DEF StandbyAlready, LockInv, CallInv, DevHeld, OutHeld
  <2>3. CallInv' BY <1>14 DEF StandbyAlready, CallInv
  <2>4. PlaceInv' BY <1>14 DEF StandbyAlready, PlaceInv, FreeStreamInv, LockInv, DevHeld, OutHeld
  <2>5. FreeStreamInv' BY <1>14 DEF StandbyAlready, PlaceInv, FreeStreamInv, LockInv, DevHeld, OutHeld
  <2>6. AllocInv' BY <1>14 DEF StandbyAlready, AllocInv, Calls, CallInv, PlaceInv, LockInv, OutHeld
  <2>7. ExclusiveInv' BY <1>14 DEF StandbyAlready, ExclusiveInv
  <2> QED BY <2>1, <2>2, <2>3, <2>4, <2>5, <2>6, <2>7
<1>15. CASE UnlockOut(t)
  <2>1. TypeOK' BY <1>15 DEF UnlockOut
  <2>2. LockInv' BY <1>15 DEF UnlockOut, LockInv, CallInv, DevHeld, OutHeld
  <2>3. CallInv' BY <1>15 DEF UnlockOut, CallInv
  <2>4. PlaceInv' BY <1>15 DEF UnlockOut, PlaceInv, FreeStreamInv, LockInv, DevHeld, OutHeld
  <2>5. FreeStreamInv' BY <1>15 DEF UnlockOut, PlaceInv, FreeStreamInv, LockInv, DevHeld, OutHeld
  <2>6. AllocInv' BY <1>15 DEF UnlockOut, AllocInv, Calls, CallInv, PlaceInv, LockInv, OutHeld
  <2>7. ExclusiveInv' BY <1>15 DEF UnlockOut, ExclusiveInv
  <2> QED BY <2>1, <2>2, <2>3, <2>4, <2>5, <2>6, <2>7
<1>16. CASE UnlockDev(t)
  <2>1. TypeOK' BY <1>16 DEF UnlockDev
  <2>2. LockInv' BY <1>16 DEF UnlockDev, LockInv, CallInv, DevHeld, OutHeld
  <2>3. CallInv' BY <1>16 DEF UnlockDev, CallInv
  <2>4. PlaceInv' BY <1>16 DEF UnlockDev, PlaceInv, FreeStreamInv, LockInv, DevHeld, OutHeld
  <2>5. FreeStreamInv' BY <1>16 DEF UnlockDev, PlaceInv, FreeStreamInv, LockInv, DevHeld, OutHeld
  <2>6. AllocInv' BY <1>16 DEF UnlockDev, AllocInv, Calls, CallInv, PlaceInv, LockInv, OutHeld
  <2>7. ExclusiveInv' BY <1>16 DEF UnlockDev, ExclusiveInv
  <2> QED BY <2>1, <2>2, <2>3, <2>4, <2>5, <2>6, <2>7
<1>17. CASE Free(t)
  <2>1. TypeOK' BY <1>17 DEF Free
  <2>2. LockInv' BY <1>17 DEF Free, LockInv, CallInv, DevHeld, OutHeld
  <2>3. CallInv' BY <1>17 DEF Free, CallInv
  <2>4. PlaceInv' BY <1>17 DEF Free, PlaceInv, FreeStreamInv, LockInv, DevHeld, OutHeld
  <2>5. FreeStreamInv' BY <1>17 DEF Free, PlaceInv, FreeStreamInv, LockInv, DevHeld, OutHeld
  <2>6. AllocInv' BY <1>17 DEF Free, AllocInv, Calls, CallInv, PlaceInv, LockInv, OutHeld
  <2>7. ExclusiveInv' BY <1>17 DEF Free, ExclusiveInv
  <2> QED BY <2>1, <2>2, <2>3, <2>4, <2>5, <2>6, <2>7
<1> QED BY <1>1, <1>2, <1>3, <1>4, <1>5, <1>6, <1>7, <1>8, <1>9, <1>10, <1>11, <1>12, <1>13, <1>14, <1>15, <1>16, <1>17 DEF Step, Write, Standby

LEMMA EnvironmentInductive ==
    ASSUME IInv,
           \/ \E t \in Threads, s \in Streams : OpenOutput(t, s)
           \/ \E t \in Threads, s \in Streams, o \in Ops \ {"none"} : Call(t, s, o)
           \/ \E c \in Cards : SetCard(c)
    PROVE  IInv'
<1> USE AudioAssumption DEF IInv, Goto, TypeOK, Ops, Results, Labels
<1>1. ASSUME NEW t \in Threads, NEW s \in Streams, OpenOutput(t, s) PROVE IInv'
  <2>0. \A u \in Threads : arg[u] = s => pc[u] = "idle"
    BY <1>1 DEF OpenOutput, AllocInv, CallInv
  <2>1. TypeOK'
    <3>1. 0 \in 0 .. Modulus - 1
      BY DEF AudioAssumption
    <3> QED BY <1>1, <3>1 DEF OpenOutput
  <2>2. LockInv' BY <1>1 DEF OpenOutput, LockInv
  <2>3. CallInv' BY <1>1 DEF OpenOutput, CallInv
  <2>4. PlaceInv' BY <1>1, <2>0 DEF OpenOutput, PlaceInv
  <2>5. FreeStreamInv' BY <1>1 DEF OpenOutput, FreeStreamInv
  <2>6. AllocInv' BY <1>1 DEF OpenOutput, AllocInv, Calls, CallInv
  <2>7. ExclusiveInv' BY <1>1 DEF OpenOutput, ExclusiveInv
  <2> QED BY <2>1, <2>2, <2>3, <2>4, <2>5, <2>6, <2>7
<1>2. ASSUME NEW t \in Threads, NEW s \in Streams, NEW o \in Ops \ {"none"}, Call(t, s, o)
      PROVE IInv'
  <2>1. TypeOK' BY <1>2 DEF Call
  <2>2. LockInv' BY <1>2 DEF Call, LockInv, DevHeld, OutHeld
  <2>3. CallInv' BY <1>2 DEF Call, CallInv
  <2>4. PlaceInv' BY <1>2 DEF Call, PlaceInv
  <2>5. FreeStreamInv' BY <1>2 DEF Call, FreeStreamInv
  <2>6. AllocInv' BY <1>2 DEF Call, AllocInv, Calls, CallInv
  <2>7. ExclusiveInv' BY <1>2 DEF Call, ExclusiveInv
  <2> QED BY <2>1, <2>2, <2>3, <2>4, <2>5, <2>6, <2>7
<1>3. ASSUME NEW c \in Cards, SetCard(c) PROVE IInv'
  BY <1>3 DEF SetCard, LockInv, CallInv, PlaceInv, FreeStreamInv, AllocInv, ExclusiveInv, Calls
<1> QED BY <1>1, <1>2, <1>3

LEMMA StutterInductive == ASSUME IInv, UNCHANGED vars PROVE IInv'
BY DEF IInv, vars, TypeOK, LockInv, CallInv, PlaceInv, FreeStreamInv, AllocInv, ExclusiveInv, Calls

\* The strengthened invariant holds in every reachable state.
THEOREM Inductive == Spec => []IInv
<1>1. Init => IInv
  BY InitInductive
<1>2. IInv /\ [Next]_vars => IInv'
  BY StepInductive, EnvironmentInductive, StutterInductive DEF Next
<1> QED BY <1>1, <1>2, PTL DEF Spec

-----------------------------------------------------------------------------
\* Every variable keeps its type.
THEOREM Typing == Spec => []TypeOK
<1>1. IInv => TypeOK
  BY DEF IInv
<1> QED BY <1>1, Inductive, PTL

\* The mutexes are owned by exactly the threads between lock and unlock.
THEOREM Locking == Spec => []LockInv
<1>1. IInv => LockInv
  BY DEF IInv
<1> QED BY <1>1, Inductive, PTL

\* A stream has an open handle exactly when it is not in standby, as seen by
\* whoever takes its lock, and a writer in pcm_write has one.
THEOREM HandleSafety == Spec => []HandleInv
<1>1. IInv => HandleInv
  BY DEF IInv, HandleInv, FreeStreamInv, PlaceInv
<1> QED BY <1>1, Inductive, PTL

\* A freed stream holds neither a PCM nor a lock.
THEOREM FreeSafety == Spec => []FreedReleases
<1>1. ASSUME IInv PROVE FreedReleases
  BY <1>1 DEF IInv, TypeOK, FreedReleases, AllocInv, LockInv, CallInv, OutHeld
<1> QED BY <1>1, Inductive, PTL

\* No step of any thread changes the handle of a stream that another thread
\* has passed to pcm_write.
THEOREM WriterSafety == Spec => WriterKeepsHandle
<1> DEFINE Keeps == \A t \in Threads : pc[t] = "play" => pcm'[arg[t]] = pcm[arg[t]]
<1>1. ASSUME IInv, Next PROVE Keeps
  <2> SUFFICES ASSUME NEW t \in Threads, pc[t] = "play" PROVE pcm'[arg[t]] = pcm[arg[t]]
    OBVIOUS
  <2> USE <1>1 DEF IInv, TypeOK
  <2>1. opened[arg[t]] /\ outLock[arg[t]] = t
    BY DEF AllocInv, CallInv, LockInv, OutHeld
  <2>2. ASSUME NEW u \in Threads, Step(u) PROVE pcm'[arg[t]] = pcm[arg[t]]
    <3>1. u # t \/ pcm' = pcm
      BY <2>2 DEF Step, Write, Standby, LockDev, LockOut, StartFails, StartOpens, Started,
         Running, WriteOk, WriteUnderrun, WriteFails, WriteExit, WriteSlept, StandbyCloses,
         Closed, StandbyAlready, UnlockOut, UnlockDev, Free
    <3>2. CASE StartOpens(u)
      BY <2>1, <3>1, <3>2 DEF StartOpens, LockInv, OutHeld
    <3>3. CASE StandbyCloses(u)
      BY <2>1, <3>1, <3>3 DEF StandbyCloses, LockInv, OutHeld
    <3>4. CASE ~StartOpens(u) /\ ~StandbyCloses(u)
      BY <2>2, <3>4 DEF Step, Write, Standby, LockDev, LockOut, StartFails, Started, Running,
         WriteOk, WriteUnderrun, WriteFails, WriteExit, WriteSlept, Closed, StandbyAlready,
         UnlockOut, UnlockDev, Free
    <3> QED BY <3>2, <3>3, <3>4
  <2>3. ASSUME NEW u \in Threads, NEW s \in Streams, OpenOutput(u, s)
        PROVE pcm'[arg[t]] = pcm[arg[t]]
    BY <2>1, <2>3 DEF OpenOutput
  <2>4. ASSUME NEW u \in Threads, NEW s \in Streams, NEW o \in Ops, Call(u, s, o)
        PROVE pcm'[arg[t]] = pcm[arg[t]]
    BY <2>4 DEF Call
  <2>5. ASSUME NEW c \in Cards, SetCard(c) PROVE pcm'[arg[t]] = pcm[arg[t]]
    BY <2>5 DEF SetCard
  <2> QED BY <1>1, <2>2, <2>3, <2>4, <2>5 DEF Next
<1>2. UNCHANGED vars => Keeps
  BY DEF vars
<1>3. IInv /\ [Next]_vars => [Keeps]_vars
  BY <1>1, <1>2
<1> QED BY <1>3, Inductive, PTL DEF Spec, WriterKeepsHandle

-----------------------------------------------------------------------------
\* Thread t waits for a mutex that thread u owns.
Waits(t, u) == \/ pc[t] = "dev" /\ adevLock = u
               \/ pc[t] = "out" /\ outLock[arg[t]] = u

\* Who waits for the device may find its owner waiting for a stream, and there
\* the chain ends: a writer in pcm_write, or one that returns, waits for nobody.
ShortChains == \A t, u, v, w \in Threads : ~(Waits(t, u) /\ Waits(u, v) /\ Waits(v, w))

\* The two mutexes are taken in one order on every path of out_write and
\* out_standby, so the threads never wait for each other in a circle, which
\* would be a chain without an end.
THEOREM NoCircularWait == Spec => []ShortChains
<1>1. ASSUME TypeOK, LockInv, NEW t \in Threads, NEW u \in Threads, Waits(t, u)
      PROVE pc[u] # "dev" /\ (pc[t] = "out" => pc[u] # "out")
  BY <1>1 DEF Waits, TypeOK, LockInv, DevHeld, OutHeld
<1>2. ASSUME TypeOK, LockInv PROVE ShortChains
  <2> SUFFICES ASSUME NEW t \in Threads, NEW u \in Threads, NEW v \in Threads,
                      NEW w \in Threads, Waits(t, u), Waits(u, v), Waits(v, w)
               PROVE FALSE
    BY DEF ShortChains
  <2>1. pc[u] = "out"
    BY <1>1, <1>2 DEF Waits
  <2>2. pc[v] \notin {"dev", "out"}
    BY <1>1, <1>2, <2>1
  <2> QED BY <2>2 DEF Waits
<1> QED BY <1>2, Typing, Locking, PTL

-----------------------------------------------------------------------------
\* A step of the device maps to a step of AudioSession or leaves it alone.
LEMMA StepRefines == ASSUME IInv, Next PROVE [Session!SNext]_(Session!svars)
<1> USE DEF IInv, TypeOK, Session!SNext, Session!svars
<1>1. ASSUME NEW t \in Threads, Step(t) PROVE [Session!SNext]_(Session!svars)
  <2>1. CASE StartOpens(t)
    <3>1. Session!Acquire(arg[t], card)
      BY <2>1, AudioAssumption DEF StartOpens, PcmIsReady, PlaceInv, Session!Acquire
    <3> QED BY <3>1
  <2>2. CASE WriteOk(t)
    <3>1. Session!Play(arg[t])
      BY <2>2 DEF WriteOk, PlaceInv, Session!Play
    <3> QED BY <3>1
  <2>3. CASE StandbyCloses(t)
    <3>1. Session!Release(arg[t])
      BY <2>3 DEF StandbyCloses, PlaceInv, Session!Release
    <3> QED BY <3>1
  <2>4. CASE ~StartOpens(t) /\ ~WriteOk(t) /\ ~StandbyCloses(t)
    BY <1>1, <2>4 DEF Step, Write, Standby, LockDev, LockOut, StartFails, Started, Running,
       WriteUnderrun, WriteFails, WriteExit, WriteSlept, Closed, StandbyAlready, UnlockOut,
       UnlockDev, Free
  <2> QED BY <2>1, <2>2, <2>3, <2>4
<1>2. ASSUME NEW t \in Threads, NEW s \in Streams, OpenOutput(t, s)
      PROVE [Session!SNext]_(Session!svars)
  <2>1. Session!Renew(s)
    BY <1>2 DEF OpenOutput, AllocInv, Session!Renew
  <2> QED BY <2>1
<1>3. ASSUME NEW t \in Threads, NEW s \in Streams, NEW o \in Ops, Call(t, s, o)
      PROVE [Session!SNext]_(Session!svars)
  BY <1>3 DEF Call
<1>4. ASSUME NEW c \in Cards, SetCard(c) PROVE [Session!SNext]_(Session!svars)
  BY <1>4 DEF SetCard
<1> QED BY <1>1, <1>2, <1>3, <1>4 DEF Next

\* The locked, threaded device implements the abstract sharing of the cards:
\* a card plays for one stream at a time, until that stream gives it back.
THEOREM Refinement == Spec => SessionSpec
<1>1. Init => Session!SInit
  BY DEF Init, Session!SInit
<1>2. IInv /\ [Next]_vars => [Session!SNext]_(Session!svars)
  <2>1. UNCHANGED vars => UNCHANGED Session!svars
    BY DEF vars, Session!svars
  <2> QED BY <2>1, StepRefines
<1> QED BY <1>1, <1>2, Inductive, PTL DEF Spec, SessionSpec, Session!SSpec
=============================================================================
