---------------------- MODULE PythonInterpreterProofs ----------------------
(***************************************************************************)
(* The safety of the locking protocol for every set of threads and every   *)
(* nesting depth.  TypeOK is not inductive: that refct[t] stays within its *)
(* type needs the agreement of the count with the stage, that the GIL is   *)
(* free for whoever waits for it needs the ownership of the mutex.  IInv   *)
(* is the strengthening; it says of each lock exactly who holds it.        *)
(***************************************************************************)
EXTENDS PythonInterpreter, TLAPS

\* How often thread t has python_mutex locked, by its stage.
Held(t) ==
    IF at[t] = "lock" THEN depth[t] - 1
    ELSE IF at[t] \in {"startpython", "startunlock"} THEN 1
    ELSE depth[t]

\* How many python_thread_state_scope objects t has alive, by its stage.
Scopes(t) ==
    IF at[t] \in {"lock", "enter", "wantgil", "unlock"} THEN depth[t] - 1 ELSE depth[t]

\* Whether t is to have the GIL: CPython has not taken it away meanwhile.
HoldsGil(t) ==
    \/ at[t] = "startpython"
    \/ refct[t] > 0 /\ at[t] # "yielded"

StageOK ==
    \A t \in Threads :
        /\ at[t] \in OpStages <=> depth[t] > 0
        /\ at[t] = "wantgil" => depth[t] = 1
        /\ depth[t] > 0 => plugin = "running"
        /\ at[t] \in {"startlock", "startpython", "configure"} => plugin = "starting"
        /\ at[t] = "startunlock" => plugin \in {"starting", "failed"}
        /\ at[t] = "stopgil" => plugin = "stopped"
        /\ (at[t] \in {"startunlock", "configure"} /\ plugin = "starting") => tsMain

RunningOK == plugin \in {"running", "stopped"} => tsMain

\* Starting and stopping are done with every other thread outside.
LifecycleAlone ==
    \A t, u \in Threads :
        (t # u /\ at[t] \in StartStages \cup {"stopgil"}) => at[u] = "idle"

ScopeOK ==
    \A t \in Threads :
        /\ refct[t] = Scopes(t)
        /\ live[t] = IF refct[t] > 0 \/ at[t] = "wantgil" THEN 1 ELSE 0

MutexOK ==
    /\ \A t \in Threads : Held(t) > 0 => mutexOwner = t
    /\ mutexOwner \in Threads => Held(mutexOwner) > 0 /\ mutexCount = Held(mutexOwner)
    /\ mutexOwner = NoThread => mutexCount = 0

GilOK ==
    /\ \A t \in Threads : HoldsGil(t) => gil = t
    /\ plugin \notin {"failed", "stopped"} => (gil = NoThread \/ HoldsGil(gil))
    /\ \A t \in Threads : at[t] = "stopgil" => gil = NoThread

IInv ==
    /\ TypeOK
    /\ StageOK
    /\ RunningOK
    /\ LifecycleAlone
    /\ ScopeOK
    /\ MutexOK
    /\ GilOK

-----------------------------------------------------------------------------
USE NoThreadAssumption, DepthAssumption

\* The plug-in starts in the invariant: nobody holds anything.
LEMMA InitIInv == Init => IInv
  <1> SUFFICES ASSUME Init PROVE IInv
    OBVIOUS
  <1>0. \A t \in Threads : at[t] = "idle" /\ depth[t] = 0 /\ refct[t] = 0 /\ live[t] = 0
    BY DEF Init
  <1>1. TypeOK
    <2>1. at \in [Threads -> Stages] /\ op \in [Threads -> Kinds]
      BY DEF Init, Stages, Kinds
    <2>2. depth \in [Threads -> 0..MaxDepth] /\ refct \in [Threads -> 0..MaxDepth]
      BY DEF Init
    <2>3. live \in [Threads -> 0..1]
      BY DEF Init
    <2> QED
      BY <2>1, <2>2, <2>3 DEF Init, TypeOK
  <1>2. StageOK /\ RunningOK /\ LifecycleAlone
    BY DEF Init, StageOK, RunningOK, LifecycleAlone, OpStages, StartStages
  <1>3. ScopeOK
    <2> SUFFICES ASSUME NEW t \in Threads
                 PROVE  refct[t] = Scopes(t) /\ live[t] = IF refct[t] > 0 \/ at[t] = "wantgil" THEN 1 ELSE 0
      BY DEF ScopeOK
    <2>1. Scopes(t) = 0
      BY <1>0 DEF Scopes
    <2> QED
      BY <1>0, <2>1
  <1>4. MutexOK
    BY DEF Init, MutexOK, Held
  <1>5. GilOK
    BY DEF Init, GilOK, HoldsGil
  <1> QED
    BY <1>1, <1>2, <1>3, <1>4, <1>5 DEF IInv

\* start() begins when every thread is idle, and only clears ts_main.
LEMMA StartIInv == ASSUME IInv, NEW t \in Threads, Start(t) PROVE IInv'
  <1> USE DEF IInv, Start, Goto
  <1>1. TypeOK'
    BY DEF TypeOK, Stages, StartStages, locks
  <1>2. StageOK' /\ RunningOK' /\ LifecycleAlone'
    BY DEF StageOK, RunningOK, LifecycleAlone, OpStages, StartStages, Quiet
  <1>3. ScopeOK'
    BY DEF ScopeOK, Scopes, Quiet
  <1>4. MutexOK'
    BY DEF MutexOK, Held, locks, Quiet
  <1>5. GilOK'
    BY DEF GilOK, HoldsGil, Quiet
  <1> QED
    BY <1>1, <1>2, <1>3, <1>4, <1>5

\* Taking the mutex for the start-up: nobody else can hold it.
LEMMA StartLockIInv == ASSUME IInv, NEW t \in Threads, StartLock(t) PROVE IInv'
  <1> USE DEF IInv, StartLock, Goto
  <1>1. TypeOK'
    BY DEF TypeOK, Stages, StartStages, AcquireMutex
  <1>2. StageOK' /\ RunningOK' /\ LifecycleAlone'
    BY DEF StageOK, RunningOK, LifecycleAlone, OpStages, StartStages
  <1>3. ScopeOK'
    BY DEF ScopeOK, Scopes
  <1>4. MutexOK'
    BY DEF TypeOK, StageOK, MutexOK, Held, AcquireMutex
  <1>5. GilOK'
    BY DEF TypeOK, StageOK, LifecycleAlone, ScopeOK, GilOK, Scopes, HoldsGil,
           Stages
  <1> QED
    BY <1>1, <1>2, <1>3, <1>4, <1>5

\* The interpreter comes up: ts_main is set and the GIL is given back.
LEMMA StartPythonIInv == ASSUME IInv, NEW t \in Threads, StartPython(t) PROVE IInv'
  <1> USE DEF IInv, StartPython, Goto
  <1>1. TypeOK'
    BY DEF TypeOK, Stages, StartStages, locks
  <1>2. StageOK' /\ RunningOK' /\ LifecycleAlone'
    BY DEF StageOK, RunningOK, LifecycleAlone, OpStages, StartStages
  <1>3. ScopeOK'
    BY DEF ScopeOK, Scopes
  <1>4. MutexOK'
    BY DEF MutexOK, Held, locks
  <1>5. GilOK'
    BY DEF TypeOK, StageOK, ScopeOK, GilOK, Scopes, HoldsGil
  <1> QED
    BY <1>1, <1>2, <1>3, <1>4, <1>5

\* The start-up fails with the GIL held: no operation will ever begin.
LEMMA StartRaisesIInv == ASSUME IInv, NEW t \in Threads, StartRaises(t) PROVE IInv'
  <1> USE DEF IInv, StartRaises, Goto
  <1>1. TypeOK'
    BY DEF TypeOK, Stages, StartStages, locks
  <1>2. StageOK' /\ RunningOK' /\ LifecycleAlone'
    BY DEF TypeOK, StageOK, RunningOK, LifecycleAlone, Stages, OpStages
  <1>3. ScopeOK'
    BY DEF ScopeOK, Scopes
  <1>4. MutexOK'
    BY DEF MutexOK, Held, locks
  <1>5. GilOK'
    BY DEF GilOK, HoldsGil
  <1> QED
    BY <1>1, <1>2, <1>3, <1>4, <1>5

\* The mutex is given back after the start-up.
LEMMA StartUnlockIInv == ASSUME IInv, NEW t \in Threads, StartUnlock(t) PROVE IInv'
  <1> USE DEF IInv, StartUnlock, Goto
  <1>1. TypeOK'
    BY DEF TypeOK, MutexOK, Held, Stages, StartStages, ReleaseMutex
  <1>2. StageOK' /\ RunningOK' /\ LifecycleAlone'
    BY DEF StageOK, RunningOK, LifecycleAlone, OpStages, StartStages
  <1>3. ScopeOK'
    BY DEF ScopeOK, Scopes
  <1>4. MutexOK'
    BY DEF TypeOK, StageOK, MutexOK, Held, ReleaseMutex
  <1>5. GilOK'
    BY DEF GilOK, HoldsGil
  <1> QED
    BY <1>1, <1>2, <1>3, <1>4, <1>5

\* Reading the configuration touches no lock.
LEMMA ConfigureIInv == ASSUME IInv, NEW t \in Threads, Configure(t) PROVE IInv'
  <1> USE DEF IInv, Configure, Goto
  <1>1. TypeOK'
    BY DEF TypeOK, Stages, locks
  <1>2. StageOK' /\ RunningOK' /\ LifecycleAlone'
    BY DEF TypeOK, StageOK, RunningOK, LifecycleAlone, Stages, OpStages
  <1>3. ScopeOK'
    BY DEF ScopeOK, Scopes
  <1>4. MutexOK'
    BY DEF MutexOK, Held, locks
  <1>5. GilOK'
    BY DEF StageOK, GilOK, HoldsGil
  <1> QED
    BY <1>1, <1>2, <1>3, <1>4, <1>5

\* stop() begins when every thread is idle.
LEMMA StopIInv == ASSUME IInv, NEW t \in Threads, Stop(t) PROVE IInv'
  <1> USE DEF IInv, Stop, Goto
  <1>1. TypeOK'
    BY DEF TypeOK, Stages, locks
  <1>2. StageOK' /\ RunningOK' /\ LifecycleAlone'
    BY DEF StageOK, RunningOK, LifecycleAlone, OpStages, StartStages, Quiet
  <1>3. ScopeOK'
    BY DEF ScopeOK, Scopes, Quiet
  <1>4. MutexOK'
    BY DEF MutexOK, Held, locks, Quiet
  <1>5. GilOK'
    BY DEF TypeOK, StageOK, ScopeOK, GilOK, Scopes, HoldsGil, OpStages, Quiet
  <1> QED
    BY <1>1, <1>2, <1>3, <1>4, <1>5

\* stop() takes the GIL, which nobody holds then.
LEMMA StopGilIInv == ASSUME IInv, NEW t \in Threads, StopGil(t) PROVE IInv'
  <1> USE DEF IInv, StopGil, Goto
  <1>1. TypeOK'
    BY DEF TypeOK, Stages, locks
  <1>2. StageOK' /\ RunningOK' /\ LifecycleAlone'
    BY DEF StageOK, RunningOK, LifecycleAlone, OpStages
  <1>3. ScopeOK'
    BY DEF ScopeOK, Scopes
  <1>4. MutexOK'
    BY DEF MutexOK, Held, locks
  <1>5. GilOK'
    BY DEF TypeOK, StageOK, LifecycleAlone, GilOK, HoldsGil
  <1> QED
    BY <1>1, <1>2, <1>3, <1>4, <1>5

\* An operation called by the host begins outside every lock.
LEMMA CallIInv == ASSUME IInv, NEW t \in Threads, Call(t) PROVE IInv'
  <1> USE DEF IInv, Call, Goto
  <1>1. TypeOK'
    BY DEF TypeOK, Stages, OpStages, locks
  <1>2. StageOK' /\ RunningOK' /\ LifecycleAlone'
    BY DEF TypeOK, StageOK, RunningOK, LifecycleAlone, OpStages, StartStages
  <1>3. ScopeOK'
    BY DEF TypeOK, StageOK, ScopeOK, Scopes, OpStages
  <1>4. MutexOK'
    BY DEF TypeOK, StageOK, MutexOK, Held, OpStages, locks
  <1>5. GilOK'
    BY DEF GilOK, HoldsGil
  <1> QED
    BY <1>1, <1>2, <1>3, <1>4, <1>5

\* A rule calls back: its thread keeps what it holds.
LEMMA CallBackIInv == ASSUME IInv, NEW t \in Threads, CallBack(t) PROVE IInv'
  <1> USE DEF IInv, CallBack, Goto
  <1>1. TypeOK'
    BY DEF TypeOK, Stages, OpStages, locks
  <1>2. StageOK' /\ RunningOK' /\ LifecycleAlone'
    BY DEF TypeOK, StageOK, RunningOK, LifecycleAlone, OpStages, StartStages
  <1>3. ScopeOK'
    BY DEF TypeOK, ScopeOK, Scopes
  <1>4. MutexOK'
    BY DEF TypeOK, MutexOK, Held, locks
  <1>5. GilOK'
    BY DEF GilOK, HoldsGil
  <1> QED
    BY <1>1, <1>2, <1>3, <1>4, <1>5

\* The mutex is free or the caller's own.
LEMMA LockIInv == ASSUME IInv, NEW t \in Threads, Lock(t) PROVE IInv'
  <1> USE DEF IInv, Lock, Goto
  <1>1. TypeOK'
    BY DEF TypeOK, Stages, OpStages, AcquireMutex
  <1>2. StageOK' /\ RunningOK' /\ LifecycleAlone'
    BY DEF StageOK, RunningOK, LifecycleAlone, OpStages, StartStages
  <1>3. ScopeOK'
    BY DEF ScopeOK, Scopes
  <1>4. MutexOK'
    BY DEF TypeOK, StageOK, MutexOK, Held, OpStages, AcquireMutex
  <1>5. GilOK'
    BY DEF GilOK, HoldsGil
  <1> QED
    BY <1>1, <1>2, <1>3, <1>4, <1>5

\* A scope is opened: a new thread state for the outermost one only.
LEMMA EnterIInv == ASSUME IInv, NEW t \in Threads, Enter(t) PROVE IInv'
  <1> USE DEF IInv, Enter, Goto
  <1>1. TypeOK'
    BY DEF TypeOK, ScopeOK, Scopes, Stages, OpStages, locks
  <1>2. StageOK' /\ RunningOK' /\ LifecycleAlone'
    BY DEF TypeOK, StageOK, RunningOK, LifecycleAlone, ScopeOK, Scopes,
           OpStages, StartStages
  <1>3. ScopeOK'
    BY DEF TypeOK, ScopeOK, Scopes
  <1>4. MutexOK'
    BY DEF TypeOK, MutexOK, Held, locks
  <1>5. GilOK'
    BY DEF TypeOK, GilOK, HoldsGil
  <1> QED
    BY <1>1, <1>2, <1>3, <1>4, <1>5

\* The GIL is taken with the mutex held.
LEMMA TakeGilIInv == ASSUME IInv, NEW t \in Threads, TakeGil(t) PROVE IInv'
  <1> USE DEF IInv, TakeGil, Goto
  <1>0. depth[t] = 1 /\ refct[t] = 0
    BY DEF TypeOK, StageOK, ScopeOK, Scopes
  <1>1. TypeOK'
    BY <1>0 DEF TypeOK, Stages, OpStages, locks
  <1>2. StageOK' /\ RunningOK' /\ LifecycleAlone'
    BY <1>0 DEF StageOK, RunningOK, LifecycleAlone, OpStages, StartStages
  <1>3. ScopeOK'
    BY <1>0 DEF TypeOK, ScopeOK, Scopes
  <1>4. MutexOK'
    BY <1>0 DEF MutexOK, Held, locks
  <1>5. GilOK'
    BY <1>0 DEF TypeOK, StageOK, GilOK, HoldsGil
  <1> QED
    BY <1>1, <1>2, <1>3, <1>4, <1>5

\* CPython hands the GIL over: the mutex stays.
LEMMA YieldIInv == ASSUME IInv, NEW t \in Threads, Yield(t) PROVE IInv'
  <1> USE DEF IInv, Yield, Goto
  <1>1. TypeOK'
    BY DEF TypeOK, Stages, OpStages, locks
  <1>2. StageOK' /\ RunningOK' /\ LifecycleAlone'
    BY DEF StageOK, RunningOK, LifecycleAlone, OpStages, StartStages
  <1>3. ScopeOK'
    BY DEF ScopeOK, Scopes
  <1>4. MutexOK'
    BY DEF MutexOK, Held, locks
  <1>5. GilOK'
    BY DEF TypeOK, StageOK, ScopeOK, GilOK, Scopes, HoldsGil, OpStages
  <1> QED
    BY <1>1, <1>2, <1>3, <1>4, <1>5

\* The thread has the GIL back.
LEMMA RegainIInv == ASSUME IInv, NEW t \in Threads, Regain(t) PROVE IInv'
  <1> USE DEF IInv, Regain, Goto
  <1>1. TypeOK'
    BY DEF TypeOK, Stages, OpStages, locks
  <1>2. StageOK' /\ RunningOK' /\ LifecycleAlone'
    BY DEF StageOK, RunningOK, LifecycleAlone, OpStages, StartStages
  <1>3. ScopeOK'
    BY DEF ScopeOK, Scopes
  <1>4. MutexOK'
    BY DEF MutexOK, Held, locks
  <1>5. GilOK'
    BY DEF TypeOK, StageOK, ScopeOK, GilOK, Scopes, HoldsGil, OpStages
  <1> QED
    BY <1>1, <1>2, <1>3, <1>4, <1>5

\* The body ends and changes no lock.
LEMMA FinishIInv == ASSUME IInv, NEW t \in Threads, Finish(t) PROVE IInv'
  <1> USE DEF IInv, Finish, Goto
  <1>1. TypeOK'
    BY DEF TypeOK, Stages, OpStages, locks
  <1>2. StageOK' /\ RunningOK' /\ LifecycleAlone'
    BY DEF StageOK, RunningOK, LifecycleAlone, OpStages, StartStages
  <1>3. ScopeOK'
    BY DEF ScopeOK, Scopes
  <1>4. MutexOK'
    BY DEF MutexOK, Held, locks
  <1>5. GilOK'
    BY DEF GilOK, HoldsGil
  <1> QED
    BY <1>1, <1>2, <1>3, <1>4, <1>5

\* A scope is closed: the outermost one deletes its thread state.
LEMMA LeaveIInv == ASSUME IInv, NEW t \in Threads, Leave(t) PROVE IInv'
  <1> USE DEF IInv, Leave, Goto
  <1>1. TypeOK'
    BY DEF TypeOK, StageOK, ScopeOK, Scopes, Stages, OpStages, locks
  <1>2. StageOK' /\ RunningOK' /\ LifecycleAlone'
    BY DEF StageOK, RunningOK, LifecycleAlone, OpStages, StartStages
  <1>3. ScopeOK'
    BY DEF TypeOK, ScopeOK, Scopes
  <1>4. MutexOK'
    BY DEF MutexOK, Held, locks
  <1>5. GilOK'
    BY DEF TypeOK, GilOK, HoldsGil
  <1> QED
    BY <1>1, <1>2, <1>3, <1>4, <1>5

\* The guard is destroyed: one count of the mutex less.
LEMMA UnlockIInv == ASSUME IInv, NEW t \in Threads, Unlock(t) PROVE IInv'
  <1> USE DEF IInv, Unlock, Goto
  <1>0. depth[t] \in 1..MaxDepth /\ mutexOwner = t /\ mutexCount = depth[t]
    BY DEF TypeOK, StageOK, MutexOK, Held, OpStages
  <1>1. TypeOK'
    BY <1>0 DEF TypeOK, Stages, OpStages, Kinds, ReleaseMutex
  <1>2. StageOK' /\ RunningOK' /\ LifecycleAlone'
    BY DEF TypeOK, StageOK, RunningOK, LifecycleAlone, OpStages, StartStages
  <1>3. ScopeOK'
    BY DEF TypeOK, ScopeOK, Scopes
  <1>4. MutexOK'
    BY DEF TypeOK, StageOK, MutexOK, Held, OpStages, ReleaseMutex
  <1>5. GilOK'
    BY DEF GilOK, HoldsGil
  <1> QED
    BY <1>1, <1>2, <1>3, <1>4, <1>5

\* The unprimed state functions determine IInv: a stutter keeps it.
LEMMA StutterIInv == ASSUME IInv, UNCHANGED vars PROVE IInv'
  BY DEF IInv, vars, TypeOK, StageOK, RunningOK, LifecycleAlone, ScopeOK, MutexOK, GilOK,
         Held, Scopes, HoldsGil

\* Every step keeps the invariant.
LEMMA NextIInv == IInv /\ [Next]_vars => IInv'
  <1> SUFFICES ASSUME IInv, [Next]_vars PROVE IInv'
    OBVIOUS
  <1>1. ASSUME NEW t \in Threads, Lifecycle(t) PROVE IInv'
    BY <1>1, StartIInv, StartLockIInv, StartPythonIInv, StartRaisesIInv,
       StartUnlockIInv, ConfigureIInv, StopIInv, StopGilIInv DEF Lifecycle
  <1>2. ASSUME NEW t \in Threads, Operation(t) PROVE IInv'
    BY <1>2, CallIInv, CallBackIInv, LockIInv, EnterIInv, TakeGilIInv,
       YieldIInv, RegainIInv, FinishIInv, LeaveIInv, UnlockIInv DEF Operation
  <1>3. CASE Halted \/ UNCHANGED vars
    BY <1>3, StutterIInv DEF Halted
  <1> QED
    BY <1>1, <1>2, <1>3 DEF Next

\* The inductive invariant: which thread holds the mutex how often, who has
\* the GIL, and how many scopes are alive, all by the stages of the threads.
THEOREM Invariance == Spec => []IInv
  BY InitIInv, NextIInv, PTL DEF Spec

-----------------------------------------------------------------------------
\* No thread ever owns two Python thread states, and no count leaves its type.
THEOREM TypeCorrect == Spec => []TypeOK
  <1>1. IInv => TypeOK
    BY DEF IInv
  <1> QED
    BY <1>1, Invariance, PTL

\* Python code of a rule runs under the GIL and the mutex, on the thread's one
\* thread state.
LEMMA IInvLocks == IInv => PythonNeedsLocks
  <1> SUFFICES ASSUME IInv, NEW t \in Threads, at[t] = "python"
               PROVE  gil = t /\ mutexOwner = t /\ mutexCount = depth[t] /\ live[t] = 1 /\ tsMain
    BY DEF PythonNeedsLocks
  <1>1. depth[t] > 0 /\ refct[t] = depth[t] /\ Held(t) = depth[t]
    BY DEF IInv, StageOK, OpStages, ScopeOK, Scopes, Held
  <1>2. gil = t /\ live[t] = 1
    BY <1>1 DEF IInv, GilOK, HoldsGil, ScopeOK
  <1>3. mutexOwner = t /\ mutexCount = depth[t]
    BY <1>1 DEF IInv, MutexOK
  <1>4. tsMain
    BY <1>1 DEF IInv, StageOK, RunningOK
  <1> QED
    BY <1>2, <1>3, <1>4

\* PythonNeedsLocks is an invariant: it follows from IInv.
THEOREM PythonIsLocked == Spec => []PythonNeedsLocks
  BY Invariance, IInvLocks, PTL

\* Nobody who waits for the GIL with the mutex held waits for another thread.
LEMMA IInvGil == IInv => GilNeverContended
  <1> SUFFICES ASSUME IInv, NEW t \in Threads,
                      at[t] \in {"wantgil", "yielded", "stopgil"}, gil # NoThread
               PROVE  FALSE
    BY DEF GilNeverContended
  <1>1. CASE at[t] = "stopgil"
    BY <1>1 DEF IInv, GilOK
  <1>2. CASE at[t] \in {"wantgil", "yielded"}
    <2>1. depth[t] > 0 /\ Held(t) > 0 /\ ~HoldsGil(t) /\ plugin = "running"
      BY <1>2 DEF IInv, StageOK, OpStages, Held, HoldsGil, ScopeOK, Scopes
    <2>2. gil \in Threads /\ HoldsGil(gil)
      BY <2>1 DEF IInv, TypeOK, GilOK
    <2>3. Held(gil) > 0
      BY <2>2 DEF IInv, TypeOK, HoldsGil, Held, ScopeOK, Scopes, StageOK, OpStages
    <2>4. mutexOwner = t /\ mutexOwner = gil
      BY <2>1, <2>2, <2>3 DEF IInv, MutexOK
    <2> QED
      BY <2>1, <2>2, <2>4
  <1> QED
    BY <1>1, <1>2

\* GilNeverContended is an invariant: the mutex and the GIL do not deadlock.
THEOREM GilIsFree == Spec => []GilNeverContended
  BY Invariance, IInvGil, PTL

\* An operation that has returned has given everything back.
LEMMA IInvIdle == IInv => NothingHeldWhenIdle
  <1> SUFFICES ASSUME IInv, NEW t \in Threads, at[t] = "idle"
               PROVE  /\ mutexOwner # t /\ depth[t] = 0 /\ refct[t] = 0 /\ live[t] = 0
                      /\ plugin = "running" => gil # t
    BY DEF NothingHeldWhenIdle
  <1>1. depth[t] = 0 /\ refct[t] = 0 /\ Held(t) = 0 /\ ~HoldsGil(t)
    BY DEF IInv, TypeOK, StageOK, OpStages, ScopeOK, Scopes, Held, HoldsGil
  <1>2. live[t] = 0
    BY <1>1 DEF IInv, ScopeOK
  <1>3. mutexOwner # t
    BY <1>1 DEF IInv, MutexOK
  <1>4. plugin = "running" => gil # t
    BY <1>1 DEF IInv, GilOK
  <1> QED
    BY <1>1, <1>2, <1>3, <1>4

\* NothingHeldWhenIdle is an invariant: every path out of an operation cleans up.
THEOREM IdleHoldsNothing == Spec => []NothingHeldWhenIdle
  BY Invariance, IInvIdle, PTL

-----------------------------------------------------------------------------
\* The end of a nested operation takes neither the thread state nor the GIL
\* from the rule that called back.
LEMMA StepScope == IInv /\ [Next]_vars => [NestedEndKeepsScope]_vars
  <1> SUFFICES ASSUME IInv, Next, NEW t \in Threads, at[t] = "leave", depth[t] > 1
               PROVE  live'[t] = live[t] /\ gil' = t
    BY DEF NestedEndKeepsScope
  <1>1. refct[t] > 1 /\ gil = t /\ mutexOwner = t /\ plugin = "running"
    <2>1. depth[t] \in Nat /\ refct[t] = depth[t] /\ Held(t) = depth[t]
      BY DEF IInv, TypeOK, ScopeOK, Scopes, Held
    <2> QED
      BY <2>1 DEF IInv, StageOK, GilOK, HoldsGil, MutexOK
  <1>2. ASSUME NEW u \in Threads, Lifecycle(u) PROVE live'[t] = live[t] /\ gil' = t
    BY <1>1, <1>2
       DEF IInv, StageOK, LifecycleAlone, StartStages, Quiet, Lifecycle, Start, StartLock,
           StartPython, StartRaises, StartUnlock, Configure, Stop, StopGil
  <1>3. ASSUME NEW u \in Threads, Operation(u) PROVE live'[t] = live[t] /\ gil' = t
    <2>1. CASE u = t
      BY <1>1, <1>3, <2>1
         DEF Operation, Call, CallBack, Lock, Enter, TakeGil, Yield, Regain, Finish, Leave, Unlock
    <2>2. CASE u # t
      <3>1. Held(u) = 0 \/ at[u] = "lock"
        BY <1>1, <2>2 DEF IInv, TypeOK, MutexOK, Held
      <3>2. at[u] \in {"idle", "lock"}
        BY <1>1, <3>1, <2>2 DEF IInv, TypeOK, Stages, StageOK, LifecycleAlone, OpStages, StartStages, Held
      <3> QED
        BY <1>1, <1>3, <2>2, <3>2
           DEF Operation, Call, CallBack, Lock, Enter, TakeGil, Yield, Regain, Finish, Leave, Unlock
    <2> QED
      BY <2>1, <2>2
  <1>4. CASE Halted
    BY <1>1, <1>4 DEF Halted, vars
  <1> QED
    BY <1>2, <1>3, <1>4 DEF Next

\* OuterScopeSurvives: a nested operation never takes the outer one's scope away.
THEOREM ScopeSurvives == Spec => OuterScopeSurvives
  BY Invariance, StepScope, PTL DEF Spec, OuterScopeSurvives

-----------------------------------------------------------------------------
\* The protocol implements exclusive nested use: the initial states map to the
\* abstract one and every step to an abstract step or a stutter.
LEMMA InitRefines == Init => Abstract!Init
  BY DEF Init, Abstract!Init

\* A thread about to enter finds every other thread outside.
LEMMA OthersOutside ==
    ASSUME IInv, NEW t \in Threads, at[t] \in {"enter", "wantgil"}, NEW u \in Threads, u # t
    PROVE  refct[u] = 0
  <1>1. Held(t) > 0
    BY DEF IInv, StageOK, OpStages, Held
  <1>2. Held(u) <= 0
    BY <1>1 DEF IInv, TypeOK, MutexOK, Held
  <1> QED
    BY <1>2 DEF IInv, TypeOK, StageOK, OpStages, ScopeOK, Scopes, Held

\* When every thread is idle, the abstract interpreter is empty.
LEMMA QuietIsEmpty == IInv /\ Quiet => Abstract!Empty
  <1> SUFFICES ASSUME IInv, Quiet, NEW t \in Threads PROVE refct[t] = 0
    BY DEF Abstract!Empty
  <1>1. at[t] = "idle" /\ depth[t] = 0
    BY DEF IInv, TypeOK, StageOK, OpStages, Quiet
  <1> QED
    BY <1>1 DEF IInv, ScopeOK, Scopes

\* Every step is a step of the abstract interpreter or a stutter.
LEMMA StepRefines == IInv /\ [Next]_vars => [Abstract!Next]_(Abstract!vars)
  <1> SUFFICES ASSUME IInv, Next PROVE Abstract!Next \/ UNCHANGED Abstract!vars
    BY DEF vars, Abstract!vars
  <1> USE DEF Abstract!Next, Abstract!vars
  <1>1. ASSUME NEW t \in Threads, Lifecycle(t) PROVE Abstract!Next \/ UNCHANGED Abstract!vars
    <2>1. CASE Stop(t)
      BY <2>1, QuietIsEmpty DEF Stop, Abstract!Close
    <2>2. CASE Configure(t)
      <3>1. Abstract!Empty /\ plugin = "starting"
        BY <2>2 DEF Configure, IInv, StageOK, LifecycleAlone, StartStages, OpStages,
                    TypeOK, ScopeOK, Scopes, Abstract!Empty
      <3> QED
        BY <2>2, <3>1 DEF Configure, Abstract!Open
    <2>3. CASE Start(t) \/ StartLock(t) \/ StartPython(t) \/ StartRaises(t) \/ StartUnlock(t) \/ StopGil(t)
      BY <2>3 DEF Start, StartLock, StartPython, StartRaises, StartUnlock, StopGil, IInv, StageOK
    <2> QED
      BY <1>1, <2>1, <2>2, <2>3 DEF Lifecycle
  <1>2. ASSUME NEW t \in Threads, Operation(t) PROVE Abstract!Next \/ UNCHANGED Abstract!vars
    <2>1. CASE Enter(t) /\ refct[t] # 0
      <3>1. refct[t] < MaxDepth /\ plugin = "running"
        BY <2>1 DEF Enter, IInv, TypeOK, StageOK, OpStages, ScopeOK, Scopes
      <3>2. Abstract!Enter(t)
        BY <2>1, <3>1, OthersOutside DEF Enter, Abstract!Enter
      <3> QED
        BY <3>2
    <2>2. CASE TakeGil(t)
      <3>1. refct[t] < MaxDepth /\ plugin = "running"
        BY <2>2 DEF TakeGil, IInv, TypeOK, StageOK, OpStages, ScopeOK, Scopes
      <3>2. Abstract!Enter(t)
        BY <2>2, <3>1, OthersOutside DEF TakeGil, Abstract!Enter
      <3> QED
        BY <3>2
    <2>3. CASE Leave(t)
      <3>1. refct[t] > 0
        BY <2>3 DEF Leave, IInv, StageOK, OpStages, ScopeOK, Scopes
      <3>2. Abstract!Leave(t)
        BY <2>3, <3>1 DEF Leave, Abstract!Leave
      <3> QED
        BY <3>2
    <2>4. CASE \/ Call(t) \/ CallBack(t) \/ Lock(t) \/ (Enter(t) /\ refct[t] = 0)
               \/ Yield(t) \/ Regain(t) \/ Finish(t) \/ Unlock(t)
      BY <2>4 DEF Call, CallBack, Lock, Enter, Yield, Regain, Finish, Unlock
    <2> QED
      BY <1>2, <2>1, <2>2, <2>3, <2>4 DEF Operation
  <1>3. CASE Halted
    BY <1>3 DEF Halted, vars
  <1> QED
    BY <1>1, <1>2, <1>3 DEF Next

\* The plug-in implements ExclusiveInterpreter.
THEOREM Refinement == Spec => Serialised
  BY Invariance, InitRefines, StepRefines, PTL DEF Spec, Serialised, Abstract!Spec
=============================================================================
