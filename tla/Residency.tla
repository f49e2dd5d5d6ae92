------------------------------- MODULE Residency -------------------------------
(***************************************************************************)
(* ResidencyManager (vllm_mlx/lifecycle.py): one model that is loaded when *)
(* a request needs it, shared by the requests that hold it, unloaded when  *)
(* idle, and stopped at shutdown.                                          *)
(*                                                                         *)
(* Everything runs on one event loop.  No block under the manager's lock   *)
(* awaits anything, so the lock never makes anybody wait: a coroutine runs *)
(* in one action from one await that suspends it to the next.  Loads and   *)
(* unloads are tasks; they are numbered in the order they are created, and *)
(* a load's number is also the name of the engine it makes (0 is None).    *)
(*                                                                         *)
(* The engine is outside: it takes its time to be made, prepared, started  *)
(* and stopped, and any of these may raise.                                *)
(***************************************************************************)
EXTENDS Integers, Sequences, FiniteSets

CONSTANTS
  Handlers,       \* the request handlers; each acquires and releases once
  MaxUnloads,     \* bound: idle unloads
  MaxCancels,     \* bound: handlers cancelled while they wait for the engine
  Faults,         \* what may raise: "load", "hook" and "stop" of an unload
  MaxFaults,      \* bound: how often
  WithShutdown,   \* whether shutdown() is called
  CancelAt,       \* the phases of a load in which a cancellation reaches it
  RecancelSticks  \* Python 3.11 and 3.12: uncancel() leaves a cancellation due

Live  == {"new", "factory", "prepare", "start", "hook", "failing", "undo"}
Ended == {"returned", "failed", "cancelled"}

ASSUME ConstantsAssumption ==
  /\ IsFiniteSet(Handlers)
  /\ MaxUnloads \in Nat /\ MaxCancels \in Nat /\ MaxFaults \in Nat
  /\ Faults \subseteq {"load", "hook", "stop"}
  /\ WithShutdown \in BOOLEAN /\ RecancelSticks \in BOOLEAN
  /\ CancelAt \subseteq Live

VARIABLES
  \* ResidentModel
  state,       \* state
  engine,      \* engine: the number of the load that made it, or 0
  active,      \* active_requests
  loading,     \* _loading_task
  waiters,     \* _load_waiters
  waiterTask,  \* _load_waiter_task
  abandoned,   \* _abandoned_loading_task
  unloading,   \* _unloading_task
  \* the tasks
  loads,       \* each load: where it is, a cancellation due, its engine
  unloads,     \* how many unload tasks were created
  unloadAt,    \* where the last one is
  \* the callers
  pc,          \* what each handler is doing
  on,          \* the load, unload or engine that is about
  sd, sdOn,    \* the same for shutdown()
  \* the bounds
  cancels, faults, idleUnloads

counts    == <<active, waiters, waiterTask>>
taskVars  == <<loading, abandoned, unloading>>
unloadVars == <<unloads, unloadAt, idleUnloads>>
callVars  == <<pc, on>>
sdVars    == <<sd, sdOn>>
vars == <<state, engine, counts, taskVars, loads, unloadVars, callVars, sdVars,
          cancels, faults>>

Loads == 1..Len(loads)
NewLoad == [at |-> "new", cancel |-> FALSE, engine |-> "none"]
Waiting == {"awaitUnload", "awaitLoad", "stopping"}

TypeOK ==
  /\ state \in {"unloaded", "loading", "loaded", "unloading", "failed"}
  /\ loads \in Seq([at : Live \cup Ended, cancel : BOOLEAN,
                    engine : {"none", "made", "started", "stopping", "stopped"}])
  /\ {engine, loading, waiterTask, abandoned} \subseteq Loads \cup {0}
  /\ active \in Nat /\ waiters \in Nat /\ unloads \in Nat
  /\ unloading \in {0, unloads}
  /\ unloadAt \in {"none", "new", "hook", "stop"}
  /\ pc \in [Handlers -> Waiting \cup
               {"idle", "holding", "done", "cancelled", "failed", "inherited"}]
  /\ on \in [Handlers -> Nat]
  /\ sd \in {"off", "awaitLoad", "awaitUnload", "done"} /\ sdOn \in Nat
  /\ cancels \in Nat /\ faults \in Nat /\ idleUnloads \in Nat

Init ==
  /\ state = "unloaded" /\ engine = 0 /\ active = 0
  /\ loading = 0 /\ waiters = 0 /\ waiterTask = 0 /\ abandoned = 0
  /\ unloading = 0 /\ loads = <<>> /\ unloads = 0 /\ unloadAt = "none"
  /\ pc = [h \in Handlers |-> "idle"] /\ on = [h \in Handlers |-> 0]
  /\ sd = "off" /\ sdOn = 0
  /\ cancels = 0 /\ faults = 0 /\ idleUnloads = 0

Strike(kind) ==
  /\ kind \in Faults /\ faults < MaxFaults
  /\ faults' = faults + 1

--------------------------------------------------------------------------------
(* The handlers: acquire() and release().                                    *)

\* Mutant: whoever comes while a load is under way starts another.
NeedsLoad_Always == TRUE

NeedsLoad == loading = 0

\* Mutant: the waiter is dropped from whatever load is current.
DropsFrom_Any(l) == waiters > 0

\* _release_load_waiter counts down only for the load that is being counted.
DropsFrom(l) == waiterTask = l /\ waiters > 0

WaitersLess(l) == IF DropsFrom(l) THEN waiters - 1 ELSE waiters
TaskLess(l) == IF DropsFrom(l) /\ waiters = 1 THEN 0 ELSE waiterTask

\* One turn of ensure_loaded, and of acquire around it, up to an await; w and t
\* are the waiters and their task as the previous turn left them.
Resides == state = "loaded" /\ engine # 0

GetsEngine(h, w, t) ==
  /\ Resides
  /\ active' = active + 1
  /\ pc' = [pc EXCEPT ![h] = "holding"] /\ on' = [on EXCEPT ![h] = engine]
  /\ waiters' = w /\ waiterTask' = t
  /\ UNCHANGED <<state, loading, abandoned, loads>>

AwaitsUnload(h, w, t) ==
  /\ ~Resides /\ unloading # 0
  /\ pc' = [pc EXCEPT ![h] = "awaitUnload"]
  /\ on' = [on EXCEPT ![h] = unloading]
  /\ waiters' = w /\ waiterTask' = t
  /\ UNCHANGED <<state, active, loading, abandoned, loads>>

StartsLoad(h) ==
  /\ ~Resides /\ unloading = 0 /\ NeedsLoad
  /\ state' = "loading"
  /\ loads' = Append(loads, NewLoad)
  /\ loading' = Len(loads) + 1 /\ abandoned' = 0
  /\ waiters' = 1 /\ waiterTask' = Len(loads) + 1
  /\ pc' = [pc EXCEPT ![h] = "awaitLoad"]
  /\ on' = [on EXCEPT ![h] = Len(loads) + 1]
  /\ UNCHANGED active

JoinsLoad(h, w) ==
  /\ ~Resides /\ unloading = 0 /\ ~NeedsLoad
  /\ waiters' = w + 1 /\ waiterTask' = loading
  /\ pc' = [pc EXCEPT ![h] = "awaitLoad"] /\ on' = [on EXCEPT ![h] = loading]
  /\ UNCHANGED <<state, active, loading, abandoned, loads>>

Enter(h, w, t) ==
  GetsEngine(h, w, t) \/ AwaitsUnload(h, w, t) \/ StartsLoad(h) \/ JoinsLoad(h, w)

\* The handler is through, in one way or another.
End(h, how) ==
  /\ pc' = [pc EXCEPT ![h] = how]
  /\ on' = [on EXCEPT ![h] = 0]

Acquire(h) ==
  /\ pc[h] = "idle"
  /\ Enter(h, waiters, waiterTask)
  /\ UNCHANGED <<engine, unloading, unloadVars, sdVars, cancels, faults>>

\* The unload it waited for is over, however it ended.
UnloadAwaited(h) ==
  /\ pc[h] = "awaitUnload" /\ unloading # on[h]
  /\ Enter(h, waiters, waiterTask)
  /\ UNCHANGED <<engine, unloading, unloadVars, sdVars, cancels, faults>>

\* The load has returned; by now its engine may be gone again, and then acquire
\* goes round once more.  A load cancelled because everybody else had left is
\* retried by whoever finds the marker.
LoadAwaited(h) ==
  /\ pc[h] = "awaitLoad"
  /\ \/ loads[on[h]].at = "returned"
     \/ loads[on[h]].at = "cancelled" /\ abandoned = on[h]
  /\ Enter(h, WaitersLess(on[h]), TaskLess(on[h]))
  /\ UNCHANGED <<engine, unloading, unloadVars, sdVars, cancels, faults>>

\* The error of the load, or its cancellation, ends the handler too.
LoadRefused(h) ==
  /\ pc[h] = "awaitLoad"
  /\ \/ loads[on[h]].at = "failed" /\ End(h, "failed")
     \/ /\ loads[on[h]].at = "cancelled" /\ abandoned # on[h]
        /\ End(h, "inherited")
  /\ waiters' = WaitersLess(on[h]) /\ waiterTask' = TaskLess(on[h])
  /\ UNCHANGED <<state, engine, active, taskVars, loads, unloadVars, sdVars, cancels,
                 faults>>

\* The handler is cancelled (its client has left) while it waits.  The last one
\* to leave a load that is under way cancels it and waits for it to unwind; by
\* then the load has begun, its task was made ready before the handler was.
Leave(h) ==
  /\ pc[h] = "awaitLoad" /\ cancels < MaxCancels
  /\ LET l    == on[h]
         last == DropsFrom(l) /\ waiters = 1
         stop == last /\ loading = l /\ loads[l].at \in Live
     IN /\ stop => loads[l].at \in CancelAt \ {"new"}
        /\ abandoned' = IF stop THEN l ELSE abandoned
        /\ loads' = IF stop THEN [loads EXCEPT ![l].cancel = TRUE] ELSE loads
        /\ IF stop THEN pc' = [pc EXCEPT ![h] = "stopping"] /\ UNCHANGED on
           ELSE End(h, "cancelled")
        /\ waiters' = WaitersLess(l) /\ waiterTask' = TaskLess(l)
  /\ cancels' = cancels + 1
  /\ UNCHANGED <<state, engine, active, loading, unloading, unloadVars, sdVars, faults>>

LeaveUnload(h) ==
  /\ pc[h] = "awaitUnload" /\ cancels < MaxCancels
  /\ End(h, "cancelled")
  /\ cancels' = cancels + 1
  /\ UNCHANGED <<state, engine, counts, taskVars, loads, unloadVars, sdVars, faults>>

LoadStopped(h) ==
  /\ pc[h] = "stopping" /\ loads[on[h]].at \in Ended
  /\ End(h, "cancelled")
  /\ UNCHANGED <<state, engine, counts, taskVars, loads, unloadVars, sdVars, cancels,
                 faults>>

\* Mutant: the request is counted out twice.
AfterRelease_Twice == active - 2

AfterRelease == IF active > 0 THEN active - 1 ELSE active

Release(h) ==
  /\ pc[h] = "holding"
  /\ End(h, "done")
  /\ active' = AfterRelease
  /\ UNCHANGED <<state, engine, waiters, waiterTask, taskVars, loads, unloadVars,
                 sdVars, cancels, faults>>

--------------------------------------------------------------------------------
(* A load task: _load_engine().                                              *)

\* Mutant: the engine of a cancelled load is not stopped.
AfterUndo_Running(l) == loads[l].engine

AfterUndo(l) == IF loads[l].engine = "none" THEN "none" ELSE "stopped"

\* _cleanup_cancelled_load, once the engine is stopped.  The marker stays.
Unwind(l) ==
  /\ state' = "unloaded" /\ engine' = 0 /\ loading' = 0
  /\ loads' = [loads EXCEPT ![l].at = "cancelled", ![l].cancel = FALSE,
                            ![l].engine = AfterUndo(l)]
  /\ UNCHANGED abandoned

\* Mutant: a failed load stays the current one.
Settle_KeepsTask(l) ==
  /\ state' = "failed" /\ abandoned' = 0
  /\ loads' = [loads EXCEPT ![l].at = "failed", ![l].cancel = FALSE,
                            ![l].engine = AfterUndo(l)]
  /\ UNCHANGED <<engine, loading>>

\* The end of the handler of _load_engine, once the engine is stopped.
Settle(l) ==
  /\ state' = "failed" /\ abandoned' = 0 /\ loading' = 0
  /\ loads' = [loads EXCEPT ![l].at = "failed", ![l].cancel = FALSE,
                            ![l].engine = AfterUndo(l)]
  /\ UNCHANGED engine

\* Making, preparing and starting the engine goes on.
LoadGoesOn(l) ==
  /\ ~loads[l].cancel
  /\ \/ loads[l].at = "new" /\ loads' = [loads EXCEPT ![l].at = "factory"]
     \/ /\ loads[l].at = "factory"
        /\ loads' = [loads EXCEPT ![l].at = "prepare", ![l].engine = "made"]
     \/ loads[l].at = "prepare" /\ loads' = [loads EXCEPT ![l].at = "start"]
     \/ /\ loads[l].at = "start"
        /\ loads' = [loads EXCEPT ![l].at = "hook", ![l].engine = "started"]
  /\ UNCHANGED <<state, engine, loading, abandoned, faults>>

LoadReturns(l) ==
  /\ loads[l].at = "hook" /\ ~loads[l].cancel
  /\ loads' = [loads EXCEPT ![l].at = "returned"]
  /\ state' = "loaded" /\ engine' = l /\ loading' = 0 /\ abandoned' = 0
  /\ UNCHANGED faults

\* Something raises, perhaps in answer to the cancellation.  prepare_for_start
\* cannot: its error is dropped once a cancellation is due.
LoadRaises(l) ==
  /\ loads[l].at \in {"factory", "prepare", "start", "hook"}
  /\ loads[l].at = "prepare" => ~loads[l].cancel
  /\ Strike("load")
  /\ LET next == IF abandoned = l THEN "undo" ELSE "failing"
     IN IF loads[l].engine # "none"
        THEN /\ loads' = [loads EXCEPT ![l].at = next, ![l].cancel = FALSE]
             /\ UNCHANGED <<state, engine, loading, abandoned>>
        ELSE IF abandoned = l THEN Unwind(l) ELSE Settle(l)

\* The failed load's engine is stopped.
LoadFails(l) ==
  /\ loads[l].at = "failing" /\ ~loads[l].cancel
  /\ Settle(l)
  /\ UNCHANGED faults

\* A cancellation reaches the task.  Before its first step its body never runs;
\* prepare_for_start runs to its end first.
LoadCancelled(l) ==
  /\ loads[l].cancel
  /\ \/ /\ loads[l].at = "new"
        /\ loads' = [loads EXCEPT ![l].at = "cancelled", ![l].cancel = FALSE]
        /\ UNCHANGED <<state, engine, loading, abandoned>>
     \/ loads[l].at = "factory" /\ Unwind(l)
     \/ /\ loads[l].at \in {"prepare", "start", "hook"}
        /\ loads' = [loads EXCEPT
                       ![l].at = "undo",
                       ![l].cancel = (loads[l].at = "prepare" /\ RecancelSticks)]
        /\ UNCHANGED <<state, engine, loading, abandoned>>
  /\ UNCHANGED faults

\* The cancelled load's engine is stopped.
LoadUnwinds(l) ==
  /\ loads[l].at = "undo" /\ ~loads[l].cancel
  /\ Unwind(l)
  /\ UNCHANGED faults

\* A cancellation reaches the task while it stops the engine: what is left of
\* either clean-up is skipped.
CleanupCancelled(l) ==
  /\ loads[l].at \in {"failing", "undo"} /\ loads[l].cancel
  /\ loads' = [loads EXCEPT ![l].at = "cancelled", ![l].cancel = FALSE]
  /\ UNCHANGED <<state, engine, loading, abandoned, faults>>

LoadStep(l) ==
  /\ \/ LoadGoesOn(l) \/ LoadReturns(l)
     \/ LoadFails(l) \/ LoadCancelled(l) \/ LoadUnwinds(l) \/ CleanupCancelled(l)
  /\ UNCHANGED <<counts, unloading, unloadVars, callVars, sdVars, cancels>>

LoadError(l) ==
  /\ LoadRaises(l)
  /\ UNCHANGED <<counts, unloading, unloadVars, callVars, sdVars, cancels>>

--------------------------------------------------------------------------------
(* Unloading: unload_if_idle() and _unload_engine().                         *)

CreateUnload ==
  /\ state' = "unloading"
  /\ unloads' = unloads + 1 /\ unloading' = unloads + 1 /\ unloadAt' = "new"

\* Mutant: the requests that hold the engine are not looked at.
Idle_WhileHeld ==
  loading = 0 /\ unloading = 0 /\ state = "loaded" /\ engine # 0

\* Idle for longer than the threshold: time is not modelled.
Idle ==
  loading = 0 /\ unloading = 0 /\ state = "loaded" /\ engine # 0 /\ active = 0

UnloadIfIdle ==
  /\ Idle /\ idleUnloads < MaxUnloads
  /\ CreateUnload
  /\ idleUnloads' = idleUnloads + 1
  /\ UNCHANGED <<engine, counts, loading, abandoned, loads, callVars, sdVars, cancels,
                 faults>>

\* The unloading hook, then stop().
UnloadGoesOn ==
  /\ unloading # 0
  /\ \/ unloadAt = "new" /\ unloadAt' = "hook" /\ UNCHANGED loads
     \/ /\ unloadAt = "hook" /\ unloadAt' = "stop"
        /\ loads' = [loads EXCEPT ![engine].engine = "stopping"]
  /\ UNCHANGED <<state, engine, counts, taskVars, unloads, idleUnloads, callVars,
                 sdVars, cancels, faults>>

\* Mutant: the task stays the current unload, and those who wait for it wait on.
UnloadEnds_KeepsTask ==
  /\ unloading # 0 /\ unloadAt = "stop"
  /\ loads' = [loads EXCEPT ![engine].engine = "stopped"]
  /\ unloadAt' = "none"
  /\ state' = "unloaded" /\ engine' = 0
  /\ UNCHANGED <<counts, taskVars, unloads, idleUnloads, callVars, sdVars, cancels,
                 faults>>

UnloadEnds ==
  /\ unloading # 0 /\ unloadAt = "stop"
  /\ loads' = [loads EXCEPT ![engine].engine = "stopped"]
  /\ unloadAt' = "none" /\ unloading' = 0
  /\ state' = "unloaded" /\ engine' = 0
  /\ UNCHANGED <<counts, loading, abandoned, unloads, idleUnloads, callVars, sdVars,
                 cancels, faults>>

\* The hook or stop() raises: the resident is loaded as before.
UnloadRaises ==
  /\ unloading # 0
  /\ unloadAt \in {"hook", "stop"} /\ Strike(unloadAt)
  /\ unloadAt' = "none" /\ unloading' = 0
  /\ state' = "loaded"
  /\ UNCHANGED <<engine, counts, loading, abandoned, loads, unloads, idleUnloads,
                 callVars, sdVars, cancels>>

--------------------------------------------------------------------------------
(* shutdown().                                                               *)

\* One turn of its loop: cancel a load and wait for it, or unload what is loaded
\* (whoever holds it) and wait for that, or nothing is left to do.
ShutdownTurn ==
  /\ \/ sd = "off" /\ WithShutdown
     \/ sd = "awaitLoad" /\ loads[sdOn].at \in {"returned", "cancelled"}
  /\ \/ /\ loading # 0
        /\ loads[loading].at \in Live => loads[loading].at \in CancelAt
        /\ loads' = IF loads[loading].at \in Live
                    THEN [loads EXCEPT ![loading].cancel = TRUE] ELSE loads
        /\ sd' = "awaitLoad" /\ sdOn' = loading
        /\ UNCHANGED <<state, unloading, unloads, unloadAt>>
     \/ /\ loading = 0 /\ (engine = 0 \/ state = "unloaded")
        /\ sd' = "done" /\ sdOn' = 0
        /\ UNCHANGED <<loads, state, unloading, unloads, unloadAt>>
     \/ /\ loading = 0 /\ ~(engine = 0 \/ state = "unloaded")
        /\ IF unloading = 0 THEN CreateUnload
           ELSE UNCHANGED <<state, unloading, unloads, unloadAt>>
        /\ sd' = "awaitUnload" /\ sdOn' = unloading'
        /\ UNCHANGED loads
  /\ UNCHANGED <<engine, counts, loading, abandoned, idleUnloads, callVars, cancels,
                 faults>>

\* The unload is over, however it ended, or the load it waited for raised.
ShutdownReturns ==
  /\ \/ sd = "awaitUnload" /\ unloading # sdOn
     \/ sd = "awaitLoad" /\ loads[sdOn].at = "failed"
  /\ sd' = "done" /\ sdOn' = 0
  /\ UNCHANGED <<state, engine, counts, taskVars, loads, unloadVars, callVars, cancels,
                 faults>>

--------------------------------------------------------------------------------
HandlerStep(h) ==
  \/ UnloadAwaited(h) \/ LoadAwaited(h) \/ LoadRefused(h) \/ LoadStopped(h)
  \/ Release(h)

Shutdown == ShutdownTurn \/ ShutdownReturns

Next ==
  \/ \E h \in Handlers :
       Acquire(h) \/ HandlerStep(h) \/ Leave(h) \/ LeaveUnload(h)
  \/ \E l \in Loads : LoadStep(l) \/ LoadError(l)
  \/ UnloadIfIdle \/ UnloadGoesOn \/ UnloadEnds \/ UnloadRaises
  \/ Shutdown

Spec == Init /\ [][Next]_vars

\* Tasks go on: the engine's calls return or raise, a request that holds the
\* engine ends, and a coroutine whose await is over runs.  shutdown(), once
\* called, goes on.  Nothing has to be asked for, cancelled or idle.
Fairness ==
  /\ \A h \in Handlers : WF_vars(HandlerStep(h))
  /\ WF_vars(\E l \in Loads : LoadStep(l))
  /\ WF_vars(UnloadGoesOn \/ UnloadEnds)
  /\ WF_vars(sd # "off" /\ Shutdown)

FairSpec == Spec /\ Fairness

--------------------------------------------------------------------------------
(* Safety.                                                                   *)

\* Single flight: at most one load is under way, it is the current one, and the
\* engine is not being unloaded meanwhile.
OneLoadAtATime ==
  /\ {l \in Loads : loads[l].at \in Live} \subseteq {loading}
  /\ loading # 0 => unloading = 0

\* The current load is under way.  A finished task left in _loading_task would
\* make every later ensure_loaded await it, find it cancelled and try again.
LoadTaskLive == loading # 0 => loads[loading].at \in Live

\* The counters say how many handlers wait for the load and hold the engine: a
\* load is cancelled when nobody waits for it, and idle means held by nobody.
CountsExact ==
  /\ active = Cardinality({h \in Handlers : pc[h] = "holding"})
  /\ waiters = Cardinality({h \in Handlers : pc[h] = "awaitLoad" /\ on[h] = waiterTask})

\* The engine a request holds is the resident one, started and not being
\* stopped, until shutdown() is called.
HeldEngineLives ==
  sd = "off" => \A h \in Handlers : pc[h] = "holding" =>
                   on[h] = engine /\ loads[engine].engine = "started"

\* An engine that was made and not stopped is the resident one or its load is
\* still under way: no model stays in memory without a name.
NoStrayEngine ==
  \A l \in Loads : loads[l].engine \in {"made", "started", "stopping"} =>
    l = engine \/ loads[l].at \in Live

--------------------------------------------------------------------------------
(* Liveness.                                                                 *)

\* Whoever asks for the engine gets it or is told otherwise.
EveryAcquireEnds == \A h \in Handlers : pc[h] \in Waiting ~> pc[h] \notin Waiting

\* shutdown() returns.
ShutdownEnds == sd # "off" ~> sd = "done"

================================================================================
