------------------------- MODULE PythonInterpreter -------------------------
(***************************************************************************)
(* The plug-in's access to the embedded CPython interpreter (main.cpp):    *)
(* the recursive python_mutex every operation takes first, the GIL, and    *)
(* the per-thread PyThreadState with its nesting count that                *)
(* python_thread_state_scope manages, together with start() and stop().    *)
(*                                                                         *)
(* An operation (exec_rule, rule_exists, ...) is a sequence of stages:     *)
(*                                                                         *)
(*   idle -> lock -> enter [-> wantgil] -> python -> leave -> unlock       *)
(*                                                                         *)
(* and at "python" a rule may call back into the server, which may call    *)
(* the plug-in again on the same thread.  CPython itself may hand the GIL  *)
(* over while Python code runs ("yielded"): on blocking I/O, or at a       *)
(* switch interval when another thread asks for it.                        *)
(*                                                                         *)
(* PyThreadState_Swap is not visible here: RestoreThread has just made     *)
(* ts_thread current, so Swap stores ts_thread itself in ts_thread_old and *)
(* the destructor's Swap changes nothing either.                           *)
(***************************************************************************)
EXTENDS Naturals

CONSTANTS Threads,      \* agent threads
          NoThread,     \* "nobody" as holder of the mutex or of the GIL
          MaxDepth      \* bound: deepest nesting of operations on a thread

ASSUME NoThreadAssumption == NoThread \notin Threads
ASSUME DepthAssumption == MaxDepth \in Nat \ {0}

VARIABLES
    plugin,       \* life cycle of the plug-in as the host sees it
    tsMain,       \* python_state::ts_main is a thread state (not nullptr)
    mutexOwner,   \* the thread that holds python_mutex
    mutexCount,   \* how many times it has locked it
    gil,          \* the thread that holds the GIL
    at,           \* at[t]: the stage of t's innermost operation
    op,           \* op[t]: its kind
    depth,        \* depth[t]: operations of t that have begun and not returned
    refct,        \* python_state::ts_thread_refct of t
    live          \* live[t]: thread states allocated for t and not deleted

locks == <<mutexOwner, mutexCount>>
vars == <<plugin, tsMain, mutexOwner, mutexCount, gil, at, op, depth, refct, live>>

OpStages == {"lock", "enter", "wantgil", "python", "yielded", "leave", "unlock"}
StartStages == {"startlock", "startpython", "startunlock", "configure"}
Stages == {"idle", "stopgil"} \cup StartStages \cup OpStages

\* "rule" runs policy code, which may call back (exec_rule, exec_rule_text,
\* exec_rule_expression); "query" only looks at core.py (rule_exists,
\* list_rules).
Kinds == {"rule", "query"}

Init ==
    /\ plugin = "unloaded"
    /\ tsMain = FALSE
    /\ mutexOwner = NoThread
    /\ mutexCount = 0
    /\ gil = NoThread
    /\ at = [t \in Threads |-> "idle"]
    /\ op = [t \in Threads |-> "rule"]
    /\ depth = [t \in Threads |-> 0]
    /\ refct = [t \in Threads |-> 0]
    /\ live = [t \in Threads |-> 0]

Goto(t, stage) == at' = [at EXCEPT ![t] = stage]

Quiet == \A t \in Threads : at[t] = "idle"

-----------------------------------------------------------------------------
\* python_mutex.  A recursive mutex lets its owner in again.

AcquireMutex(t) ==
    /\ mutexOwner \in {NoThread, t}
    /\ mutexOwner' = t
    /\ mutexCount' = mutexCount + 1

ReleaseMutex(t) ==
    /\ mutexOwner' = IF mutexCount = 1 THEN NoThread ELSE t
    /\ mutexCount' = mutexCount - 1

-----------------------------------------------------------------------------
\* The life cycle of the plug-in.

\* The host loads the plug-in and calls start(), which clears ts_main before
\* it takes the mutex.
Start(t) ==
    /\ plugin = "unloaded"
    /\ Quiet
    /\ plugin' = "starting"
    /\ tsMain' = FALSE
    /\ Goto(t, "startlock")
    /\ UNCHANGED <<locks, gil, op, depth, refct, live>>

\* Py_InitializeEx leaves the caller holding the GIL on the main state.
StartLock(t) ==
    /\ at[t] = "startlock"
    /\ AcquireMutex(t)
    /\ gil' = t
    /\ Goto(t, "startpython")
    /\ UNCHANGED <<plugin, tsMain, op, depth, refct, live>>

\* Variant: the start-up code forgets PyEval_SaveThread.
StartPythonKeepingGil(t) ==
    /\ at[t] = "startpython"
    /\ tsMain' = TRUE
    /\ Goto(t, "startunlock")
    /\ UNCHANGED <<plugin, locks, gil, op, depth, refct, live>>

\* The modules import and PyEval_SaveThread gives the GIL back ...
StartPython(t) ==
    /\ at[t] = "startpython"
    /\ tsMain' = TRUE
    /\ gil' = NoThread
    /\ Goto(t, "startunlock")
    /\ UNCHANGED <<plugin, locks, op, depth, refct, live>>

\* ... or an import raises and start() returns with the GIL still held and
\* ts_main still null.
StartRaises(t) ==
    /\ at[t] = "startpython"
    /\ plugin' = "failed"
    /\ Goto(t, "startunlock")
    /\ UNCHANGED <<tsMain, locks, gil, op, depth, refct, live>>

StartUnlock(t) ==
    /\ at[t] = "startunlock"
    /\ ReleaseMutex(t)
    /\ Goto(t, IF plugin = "failed" THEN "idle" ELSE "configure")
    /\ UNCHANGED <<plugin, tsMain, gil, op, depth, refct, live>>

\* The plug-in's entry in server_config is found and well formed, or not.
Configure(t) ==
    /\ at[t] = "configure"
    /\ plugin' \in {"running", "failed"}
    /\ Goto(t, "idle")
    /\ UNCHANGED <<tsMain, locks, gil, op, depth, refct, live>>

\* The host stops a plug-in whose operations have all returned.
Stop(t) ==
    /\ plugin = "running"
    /\ Quiet
    /\ plugin' = "stopped"
    /\ Goto(t, "stopgil")
    /\ UNCHANGED <<tsMain, locks, gil, op, depth, refct, live>>

\* PyEval_RestoreThread(ts_main): the GIL is never given back, Py_Finalize is
\* never called.
StopGil(t) ==
    /\ at[t] = "stopgil"
    /\ gil = NoThread
    /\ gil' = t
    /\ Goto(t, "idle")
    /\ UNCHANGED <<plugin, tsMain, locks, op, depth, refct, live>>

-----------------------------------------------------------------------------
\* One plug-in operation on one thread.

\* The host calls the plug-in on a thread that is in no operation.
Call(t) ==
    /\ plugin = "running"
    /\ at[t] = "idle"
    /\ depth' = [depth EXCEPT ![t] = 1]
    /\ op' \in {[op EXCEPT ![t] = k] : k \in Kinds}
    /\ Goto(t, "lock")
    /\ UNCHANGED <<plugin, tsMain, locks, gil, refct, live>>

\* A rule calls a microservice or a rule through callback; the server calls
\* the plug-in again.  The GIL stays with the thread: RuleCallWrapper::call
\* does not release it.
CallBack(t) ==
    /\ at[t] = "python"
    /\ op[t] = "rule"
    /\ depth[t] < MaxDepth
    /\ depth' = [depth EXCEPT ![t] = @ + 1]
    /\ op' \in {[op EXCEPT ![t] = k] : k \in Kinds}
    /\ Goto(t, "lock")
    /\ UNCHANGED <<plugin, tsMain, locks, gil, refct, live>>

\* Variant: no lock_guard, the operation only notes that it is the user.
LockUnchecked(t) ==
    /\ at[t] = "lock"
    /\ mutexOwner' = t
    /\ mutexCount' = mutexCount + 1
    /\ Goto(t, "enter")
    /\ UNCHANGED <<plugin, tsMain, gil, op, depth, refct, live>>

\* std::lock_guard<std::recursive_mutex> lock{python_mutex}
Lock(t) ==
    /\ at[t] = "lock"
    /\ AcquireMutex(t)
    /\ Goto(t, "enter")
    /\ UNCHANGED <<plugin, tsMain, gil, op, depth, refct, live>>

\* Variant: the constructor does not test ts_thread_refct.
EnterAlwaysNew(t) ==
    /\ at[t] = "enter"
    /\ live' = [live EXCEPT ![t] = @ + 1]
    /\ Goto(t, "wantgil")
    /\ UNCHANGED <<plugin, tsMain, locks, gil, op, depth, refct>>

\* python_thread_state_scope(): the outermost operation of a thread allocates
\* a thread state and has still to take the GIL; a nested one only counts.
Enter(t) ==
    /\ at[t] = "enter"
    /\ \/ /\ refct[t] = 0
          /\ live' = [live EXCEPT ![t] = @ + 1]
          /\ Goto(t, "wantgil")
          /\ UNCHANGED refct
       \/ /\ refct[t] # 0
          /\ refct' = [refct EXCEPT ![t] = @ + 1]
          /\ Goto(t, "python")
          /\ UNCHANGED live
    /\ UNCHANGED <<plugin, tsMain, locks, gil, op, depth>>

\* PyEval_RestoreThread(ts_thread) waits for the GIL.
TakeGil(t) ==
    /\ at[t] = "wantgil"
    /\ gil = NoThread
    /\ gil' = t
    /\ refct' = [refct EXCEPT ![t] = @ + 1]
    /\ Goto(t, "python")
    /\ UNCHANGED <<plugin, tsMain, locks, op, depth, live>>

\* CPython gives the GIL up while Python code of t runs, and t, inside the
\* evaluation loop, waits to have it back.
Yield(t) ==
    /\ at[t] = "python"
    /\ gil' = NoThread
    /\ Goto(t, "yielded")
    /\ UNCHANGED <<plugin, tsMain, locks, op, depth, refct, live>>

Regain(t) ==
    /\ at[t] = "yielded"
    /\ gil = NoThread
    /\ gil' = t
    /\ Goto(t, "python")
    /\ UNCHANGED <<plugin, tsMain, locks, op, depth, refct, live>>

\* The body returns, raises, or is turned into an error: the scope ends alike.
Finish(t) ==
    /\ at[t] = "python"
    /\ Goto(t, "leave")
    /\ UNCHANGED <<plugin, tsMain, locks, gil, op, depth, refct, live>>

\* Variant: the destructor deletes the state without releasing the GIL
\* (PyThreadState_Delete for PyThreadState_DeleteCurrent).
LeaveKeepingGil(t) ==
    /\ at[t] = "leave"
    /\ live' = [live EXCEPT ![t] = IF refct[t] = 1 THEN @ - 1 ELSE @]
    /\ refct' = [refct EXCEPT ![t] = @ - 1]
    /\ Goto(t, "unlock")
    /\ UNCHANGED <<plugin, tsMain, locks, gil, op, depth>>

\* Variant: the destructor releases the GIL and forgets the state.
LeaveKeepingState(t) ==
    /\ at[t] = "leave"
    /\ gil' = IF refct[t] = 1 THEN NoThread ELSE gil
    /\ refct' = [refct EXCEPT ![t] = @ - 1]
    /\ Goto(t, "unlock")
    /\ UNCHANGED <<plugin, tsMain, locks, op, depth, live>>

\* Variant: the destructor does not test ts_thread_refct.
LeaveAlways(t) ==
    /\ at[t] = "leave"
    /\ gil' = NoThread
    /\ live' = [live EXCEPT ![t] = @ - 1]
    /\ refct' = [refct EXCEPT ![t] = @ - 1]
    /\ Goto(t, "unlock")
    /\ UNCHANGED <<plugin, tsMain, locks, op, depth>>

\* ~python_thread_state_scope(): the outermost scope deletes the state, which
\* releases the GIL (PyThreadState_DeleteCurrent).
Leave(t) ==
    /\ at[t] = "leave"
    /\ \/ /\ refct[t] = 1
          /\ gil' = NoThread
          /\ live' = [live EXCEPT ![t] = @ - 1]
       \/ /\ refct[t] # 1
          /\ UNCHANGED <<gil, live>>
    /\ refct' = [refct EXCEPT ![t] = @ - 1]
    /\ Goto(t, "unlock")
    /\ UNCHANGED <<plugin, tsMain, locks, op, depth>>

\* Variant: a path that ends the operation without the guard's unlock.
UnlockKeepingMutex(t) ==
    /\ at[t] = "unlock"
    /\ UNCHANGED locks
    /\ depth' = [depth EXCEPT ![t] = @ - 1]
    /\ Goto(t, IF depth[t] = 1 THEN "idle" ELSE "python")
    /\ op' = [op EXCEPT ![t] = "rule"]
    /\ UNCHANGED <<plugin, tsMain, gil, refct, live>>

\* The guard is destroyed after the scope.  A nested operation returns to the
\* rule that called back.
Unlock(t) ==
    /\ at[t] = "unlock"
    /\ ReleaseMutex(t)
    /\ depth' = [depth EXCEPT ![t] = @ - 1]
    /\ Goto(t, IF depth[t] = 1 THEN "idle" ELSE "python")
    /\ op' = [op EXCEPT ![t] = "rule"]
    /\ UNCHANGED <<plugin, tsMain, gil, refct, live>>

-----------------------------------------------------------------------------
Lifecycle(t) ==
    \/ Start(t) \/ StartLock(t) \/ StartPython(t) \/ StartRaises(t)
    \/ StartUnlock(t) \/ Configure(t) \/ Stop(t) \/ StopGil(t)

Operation(t) ==
    \/ Call(t) \/ CallBack(t) \/ Lock(t) \/ Enter(t) \/ TakeGil(t)
    \/ Yield(t) \/ Regain(t) \/ Finish(t) \/ Leave(t) \/ Unlock(t)

\* A plug-in that failed to start or was stopped has nothing left to do.
Halted ==
    /\ plugin \in {"failed", "stopped"}
    /\ Quiet
    /\ UNCHANGED vars

Next == Halted \/ \E t \in Threads : Lifecycle(t) \/ Operation(t)

Spec == Init /\ [][Next]_vars

\* A thread that can take its next step takes it, and a rule body ends: at
\* each depth Finish is not refused for ever.  Nothing is assumed of Call, of
\* Stop, or of who gets the mutex next (std::recursive_mutex is not fair).
Fairness ==
    \A t \in Threads :
        /\ WF_vars(Lock(t)) /\ WF_vars(Enter(t)) /\ WF_vars(TakeGil(t))
        /\ WF_vars(Regain(t)) /\ WF_vars(Leave(t)) /\ WF_vars(Unlock(t))
        /\ WF_vars(StartLock(t)) /\ WF_vars(StartUnlock(t))
        /\ WF_vars(StartPython(t) \/ StartRaises(t))
        /\ \A d \in 1..MaxDepth : SF_vars(depth[t] = d /\ Finish(t))

FairSpec == Spec /\ Fairness

-----------------------------------------------------------------------------
\* The type invariant.  That live[t] is at most 1 says that a thread never
\* owns two Python thread states.
TypeOK ==
    /\ plugin \in {"unloaded", "starting", "running", "failed", "stopped"}
    /\ tsMain \in BOOLEAN
    /\ mutexOwner \in Threads \cup {NoThread}
    /\ mutexCount \in Nat
    /\ gil \in Threads \cup {NoThread}
    /\ at \in [Threads -> Stages]
    /\ op \in [Threads -> Kinds]
    /\ depth \in [Threads -> 0..MaxDepth]
    /\ refct \in [Threads -> 0..MaxDepth]
    /\ live \in [Threads -> 0..1]

\* Python code of a rule runs only on a thread that holds the GIL, the mutex
\* as often as it has operations open, and one live thread state, and ts_main
\* is set (the constructor reads ts_main->interp).
PythonNeedsLocks ==
    \A t \in Threads : at[t] = "python" =>
        /\ gil = t
        /\ mutexOwner = t
        /\ mutexCount = depth[t]
        /\ live[t] = 1
        /\ tsMain

\* The GIL is always free for a thread that waits for it with the mutex
\* held: the two locks cannot be waited for in opposite orders, whatever
\* hand-overs CPython makes meanwhile.
GilNeverContended ==
    \A t \in Threads : at[t] \in {"wantgil", "yielded", "stopgil"} => gil = NoThread

\* A thread that has returned from its last operation keeps nothing: no
\* mutex, no thread state, no count, and, while the plug-in runs, no GIL.
NothingHeldWhenIdle ==
    \A t \in Threads : at[t] = "idle" =>
        /\ mutexOwner # t
        /\ depth[t] = 0
        /\ refct[t] = 0
        /\ live[t] = 0
        /\ plugin = "running" => gil # t

\* The end of a nested operation leaves the enclosing rule the thread state
\* and the GIL it goes on to use.
NestedEndKeepsScope ==
    \A t \in Threads : (at[t] = "leave" /\ depth[t] > 1) =>
        live'[t] = live[t] /\ gil' = t

OuterScopeSurvives == [][NestedEndKeepsScope]_vars

\* The mutex protocol gives exclusive, nested use of the interpreter.
Abstract == INSTANCE ExclusiveInterpreter
                WITH level <- refct, open <- (plugin = "running")

Serialised == Abstract!Spec

\* Whoever holds python_mutex gives it back, however deeply the rule nests.
MutexReleased ==
    \A t \in Threads : (mutexOwner = t) ~> (mutexOwner # t)
=============================================================================
