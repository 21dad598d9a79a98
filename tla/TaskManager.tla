---------------------------- MODULE TaskManager -----------------------------
(***************************************************************************)
(* task_manager.go with main.go: TaskManager.Start and shutdown, which     *)
(* call the groups of RunnableGroup, and the three tasks of the agent.     *)
(* Late tasks are handed to AddTask by other goroutines at any time.       *)
(***************************************************************************)
EXTENDS RunnableGroup

CONSTANTS
  Runner, Cache, Pump,  \* the tasks of the agent
  Late                  \* further tasks; the code promises to take them at any time

ASSUME ManagerAssumption ==
  /\ {Runner, Cache, Pump} \union Late = Tasks
  /\ KindOf[Runner] = "bpfRunner" /\ KindOf[Cache] = "hasCache" /\ KindOf[Pump] = "pumpRunner"
  /\ Late \intersect {Runner, Cache, Pump} = {}
  /\ \A r \in Late : KindOf[r] = "bpfRunner"

VARIABLES
  mgr,        \* main and TaskManager.Start
  rd,         \* the perf reader
  ctxDone,    \* a signal has come
  closer,     \* the drain goroutine of shutdown
  stopping,   \* the goroutine of shutdown that stops the groups
  expired,    \* the 5 seconds of shutdownCtx are over
  informers   \* client-go: started, and later synced

managerVars == <<mgr, rd, ctxDone, closer, stopping, expired, informers>>
vars == <<groupVars, managerVars>>

MgrPcs == {"addRunner", "addCache", "newReader", "addPump", "startPumps", "startBpfPrograms",
           "startCaches", "select", "defer", "shutdown", "returned", "crashed"}

\* Tasks exist and are added in this order; groups are started in this order.
Adds == [addRunner |-> Runner, addCache |-> Cache, addPump |-> Pump]
AfterAdd == [addRunner |-> "addCache", addCache |-> "newReader", addPump |-> "startPumps"]
Starts == [startPumps |-> "Pumps", startBpfPrograms |-> "BpfPrograms", startCaches |-> "Caches"]
AfterStart == [startPumps |-> "startBpfPrograms", startBpfPrograms |-> "startCaches",
               startCaches |-> "select"]

\* The process is there.
Alive == ~panicked /\ mgr \notin {"returned", "crashed"}

Init ==
  /\ GroupInit
  /\ mgr = "addRunner"
  /\ rd = "nil"
  /\ ctxDone = FALSE
  /\ closer = "none"
  /\ stopping = "none"
  /\ expired = FALSE
  /\ informers = "none"

-----------------------------------------------------------------------------
(* TaskManager.Start                                                       *)

\* Nobody has stopped a group yet, so that Add does not fail.
MgrAdd ==
  /\ mgr \in DOMAIN Adds
  /\ \/ AddTest(Adds[mgr]) /\ UNCHANGED mgr
     \/ AddQueue(Adds[mgr]) /\ mgr' = AfterAdd[mgr]
  /\ UNCHANGED <<rd, ctxDone, closer, stopping, expired, informers>>

MgrNewReader ==
  /\ mgr = "newReader"
  /\ \/ rd' = "open" /\ mgr' = "addPump"
     \/ UNCHANGED rd /\ mgr' = "defer"
  /\ UNCHANGED <<groupVars, ctxDone, closer, stopping, expired, informers>>

MgrStart ==
  /\ mgr \in DOMAIN Starts
  /\ \/ StartCall(Starts[mgr]) /\ UNCHANGED mgr
     \/ /\ starter[Starts[mgr]] = "done"
        /\ mgr' = AfterStart[mgr]
        /\ UNCHANGED groupVars
  /\ UNCHANGED <<rd, ctxDone, closer, stopping, expired, informers>>

\* case <-ctx.Done()
MgrSignalled ==
  /\ mgr = "select" /\ ctxDone
  /\ mgr' = "defer"
  /\ UNCHANGED <<groupVars, rd, ctxDone, closer, stopping, expired, informers>>

\* case err := <-tm.errCh
MgrError(r) ==
  /\ mgr = "select"
  /\ ErrorTaken(r)
  /\ mgr' = "defer"
  /\ UNCHANGED <<rd, ctxDone, closer, stopping, expired, informers>>

\* shutdown makes its context and starts its two goroutines.
MgrShutdown ==
  /\ mgr = "defer"
  /\ mgr' = "shutdown"
  /\ closer' = "close"
  /\ stopping' = "Caches"
  /\ UNCHANGED <<groupVars, rd, ctxDone, expired, informers>>

\* <-tm.shutdownCtx.Done()
ShutdownOver == expired \/ stopping = "over"

MgrReturn ==
  /\ mgr = "shutdown" /\ ShutdownOver
  /\ mgr' = "returned"
  /\ UNCHANGED <<groupVars, rd, ctxDone, closer, stopping, expired, informers>>

-----------------------------------------------------------------------------
(* The goroutines of shutdown                                              *)

\* closeOnce: rd.Close() dereferences rd, which is nil if NewReader failed.
Close ==
  /\ closer = "close"
  /\ IF rd = "nil" THEN mgr' = "crashed" /\ UNCHANGED rd ELSE rd' = "closed" /\ UNCHANGED mgr
  /\ closer' = "drain"
  /\ UNCHANGED <<groupVars, ctxDone, stopping, expired, informers>>

\* A slip: errors are read only after the groups have been stopped.
DrainLate(r) ==
  /\ closer = "drain" /\ stopping = "over"
  /\ ErrorTaken(r) \/ Drop(r)
  /\ UNCHANGED managerVars

\* A slip: only one error is read.
DrainOnce(r) ==
  /\ closer = "drain"
  /\ ErrorTaken(r) \/ Drop(r)
  /\ closer' = "none"
  /\ UNCHANGED <<mgr, rd, ctxDone, stopping, expired, informers>>

\* Errors are read from the start, for a worker and reconcile wait for their reader.
Drain(r) ==
  /\ closer = "drain"
  /\ ErrorTaken(r) \/ Drop(r)
  /\ UNCHANGED managerVars

\* The groups are stopped one after the other.
AfterStop == [Caches |-> "BpfPrograms", BpfPrograms |-> "Pumps", Pumps |-> "over"]

\* A slip: the next group is stopped while this one still waits.
StopBegun(g) == stopper[g] \in {"wait", "stopped", "expired"}

StopReturned(g) == stopper[g] \in {"stopped", "expired"}

StopNext ==
  /\ stopping \in Groups
  /\ \/ StopCall(stopping) /\ UNCHANGED stopping
     \/ /\ StopReturned(stopping)
        /\ stopping' = AfterStop[stopping]
        /\ UNCHANGED groupVars
  /\ UNCHANGED <<mgr, rd, ctxDone, closer, expired, informers>>

\* StopAndWait gives up on its group only once its context has ended.
GiveUp(g) == expired /\ StopExpired(g)

StopStep(g) ==
  /\ \/ StopStart(g) \/ StopStarted(g) \/ StopLock(g) \/ StopCancel(g) \/ StopDone(g)
     \/ GiveUp(g)
  /\ UNCHANGED managerVars

-----------------------------------------------------------------------------
(* The groups' own goroutines and the tasks                                *)

StartStep(g) ==
  /\ FeedDone(g) \/ Test(g) \/ Exit(g)
  /\ UNCHANGED managerVars

Reconcile(r) ==
  /\ Receive(r) \/ Admit(r) \/ Ready(r)
  /\ UNCHANGED managerVars

\* WaitForCacheSync looks at the informers that were started before it: none, when
\* the check runs ahead of the worker.  It returns false, a fatal error, only when its
\* group is cancelled; SyncNotCutShort says that this does not happen.
CheckReturns(r) ==
  /\ r = Cache => informers \in {"none", "synced"}
  /\ CheckTrue(r)
  /\ UNCHANGED managerVars

\* informerCache.Start returns at once.
CacheReturns ==
  /\ Finish(Cache)
  /\ informers' = "started"
  /\ UNCHANGED <<mgr, rd, ctxDone, closer, stopping, expired>>

\* The pump's reader was closed or its queue failed; a late task may fail as it likes.
TaskFails(r) ==
  /\ r \in Late \union {Pump}
  /\ Fail(r)
  /\ UNCHANGED managerVars

\* Start of the runner, or of a pump whose context ended before its reader did.
ContextEnds(r) ==
  /\ r # Cache /\ Cancelled(GroupOf(r))
  /\ Finish(r)
  /\ UNCHANGED managerVars

LateAdd(r) ==
  /\ r \in Late
  /\ AddTest(r) \/ AddQueue(r) \/ AddSend(r)
  /\ UNCHANGED managerVars

\* Add of a late task sends on a channel that StopAndWait has closed.
LatePanic(r) ==
  /\ PanicSend(r)
  /\ UNCHANGED managerVars

-----------------------------------------------------------------------------
(* What comes from outside                                                 *)

Signal ==
  /\ ~ctxDone
  /\ ctxDone' = TRUE
  /\ UNCHANGED <<groupVars, mgr, rd, closer, stopping, expired, informers>>

Deadline ==
  /\ mgr = "shutdown" /\ ~expired
  /\ expired' = TRUE
  /\ UNCHANGED <<groupVars, mgr, rd, ctxDone, closer, stopping, informers>>

Synced ==
  /\ informers = "started" /\ ~Cancelled("Caches")
  /\ informers' = "synced"
  /\ UNCHANGED <<groupVars, mgr, rd, ctxDone, closer, stopping, expired>>

Manager ==
  \/ MgrAdd \/ MgrNewReader \/ MgrStart \/ MgrSignalled \/ MgrShutdown \/ MgrReturn
  \/ \E r \in Tasks : MgrError(r)

\* What happens by itself: the steps of the agent's goroutines.
Scheduled ==
  \/ Manager \/ Close \/ StopNext \/ CacheReturns
  \/ \E g \in Groups : StopStep(g) \/ StartStep(g)
  \/ \E r \in Tasks : Drain(r) \/ Reconcile(r) \/ CheckReturns(r) \/ LatePanic(r)

\* What need not happen: a signal, the deadline, a synced cache, a new task, the end
\* of a task.
Unscheduled ==
  \/ Signal \/ Deadline \/ Synced
  \/ \E r \in Tasks : LateAdd(r) \/ TaskFails(r) \/ ContextEnds(r)

Next == Alive /\ (Scheduled \/ Unscheduled)

Spec == Init /\ [][Next]_vars

\* Nothing here is done twice (a task goes through its life once, and so do the
\* goroutines), so a behaviour is finite and this is fairness of every goroutine.
Fairness == WF_vars(Alive /\ Scheduled)

FairSpec == Spec /\ Fairness

-----------------------------------------------------------------------------
\* The states of the manager (task_manager.go).
TypeOK ==
  /\ GroupTypeOK
  /\ mgr \in MgrPcs
  /\ rd \in {"nil", "open", "closed"}
  /\ ctxDone \in BOOLEAN /\ expired \in BOOLEAN
  /\ closer \in {"none", "close", "drain"}
  /\ stopping \in Groups \union {"none", "over"}
  /\ informers \in {"none", "started", "synced"}

\* The check of the cache ends the process if its context ends first
\* (runnable.go:60-64): StopAndWait cancels the group only after the check is through,
\* even when shutdown has to start the group itself.
SyncNotCutShort == Cancelled("Caches") => check[Cache] # "checking"

\* Start returns when "all runnables have returned or timeout on stop request"
\* (task_manager.go:97): without a timeout nothing runs any more, nor does an error
\* wait for its reader.
GracefulExit ==
  mgr = "returned" /\ ~expired => \A r \in Tasks : ~Working(r)

\* The runner is told to stop only when the informers that call its handlers are, and
\* the pump, which prints what its probes record, has ended or the deadline passed: the
\* groups are stopped in this order, one StopAndWait after the other (184-189).
RunnerStopsLast ==
  Cancelled("BpfPrograms") => Cancelled("Caches") /\ (expired \/ ~Working(Pump))

\* StopAndWait does not wait for ever on one that waits for a reader of errCh: when
\* reconcile holds up the lock with an error in hand, or no worker is left but those
\* that have one, errors are being read (159-182).
ShutdownNotStuck ==
  \A g \in Groups :
    /\ stopper[g] = "lock" => ~Reader(g) \/ reconciler[g] = "admit" \/ closer # "none"
    /\ stopper[g] = "wait" /\ wg[g] # 0 =>
         \E r \in Tasks :
           GroupOf(r) = g /\ (life[r] = "running" \/ (life[r] = "failing" /\ closer # "none"))

\* In the end each task told to stop has returned, or the deadline has passed.
StopHeeded ==
  <>[](expired \/ \A r \in Tasks : Cancelled(GroupOf(r)) => life[r] # "running")

\* A shutdown comes to an end: by itself when the tasks return once they are told to,
\* whatever errors and additions come in (the drain of task_manager.go:159-182), and
\* at its deadline when one does not.
ShutdownEnds == StopHeeded => ((mgr = "defer") ~> ~Alive)

\* A signal ends the agent, provided that the check of the cache comes back: Start of
\* the group waits for it without looking at its context (runnable_group.go:138-160).
SignalEnds ==
  StopHeeded /\ []<>(check[Cache] # "checking") => (ctxDone ~> ~Alive)

\* A task that Add has accepted is run, or dropped with an error, and no caller of Add
\* and no goroutine is left waiting for the group (runnable_group.go:73-115, 168-191).
AcceptedIsSettled ==
  \A r \in Tasks : (life[r] \in {"queued", "sending", "inHand"})
                     ~> (life[r] \in {"dropped", "running", "failing", "finished"} \/ ~Alive)

\* "Add should return an error when called during StopAndWait" (runnable_group.go:72,
\* runnable.go:49): it returns, rather than panic on a channel closed under its hands.
AddNeverPanics == ~panicked

\* "Start blocks until the context is closed or an error occurs"
\* (runnable_group.go:15): a signal ends the agent without further conditions.
SignalAlwaysEnds == StopHeeded => (ctxDone ~> ~Alive)

=============================================================================
