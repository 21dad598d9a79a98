------------------------- MODULE TaskManagerProofs --------------------------
(***************************************************************************)
(* Theorems about the manager, for any late tasks: it uses its groups as   *)
(* GroupSpec allows, so that what is proved of the groups holds in it.     *)
(***************************************************************************)
EXTENDS TaskManager, RunnableGroupProofs

LEMMA AgentTasks == {Runner, Cache, Pump} \subseteq Tasks /\ Late \subseteq Tasks /\ Cache \notin Late
BY ManagerAssumption

LEMMA CacheGroup == GroupOf(Cache) = "Caches" /\ "Caches" \in Groups
BY ManagerAssumption DEF GroupOf, Groups

\* What a step of the manager's world is to its groups.
LEMMA StepOfGroups == Next => [GroupNext]_groupVars
<1> SUFFICES ASSUME Next PROVE [GroupNext]_groupVars OBVIOUS
<1>1. ~panicked BY DEF Next, Alive
<1>2. \A r \in Tasks : TaskStep(r) => GroupNext BY <1>1 DEF GroupNext
<1>3. \A g \in Groups : GroupStep(g) => GroupNext BY <1>1 DEF GroupNext
<1>4. CASE MgrAdd
  <2>1. Adds[mgr] \in Tasks BY <1>4, AgentTasks DEF MgrAdd, Adds
  <2> QED BY <1>2, <1>4, <2>1 DEF MgrAdd, TaskStep
<1>5. CASE MgrStart
  <2>1. Starts[mgr] \in Groups BY <1>5 DEF MgrStart, Starts, Groups
  <2> QED BY <1>3, <1>5, <2>1 DEF MgrStart, GroupStep
<1>6. CASE MgrNewReader \/ MgrSignalled \/ MgrShutdown \/ MgrReturn
  BY <1>6 DEF MgrNewReader, MgrSignalled, MgrShutdown, MgrReturn
<1>7. ASSUME NEW r \in Tasks, MgrError(r) PROVE GroupNext
  BY <1>2, <1>7 DEF MgrError, TaskStep
<1>8. CASE Close \/ Deadline \/ Signal \/ Synced
  BY <1>8 DEF Close, Deadline, Signal, Synced
<1>9. CASE StopNext BY <1>3, <1>9 DEF StopNext, GroupStep
<1>10. CASE CacheReturns BY <1>2, <1>10, AgentTasks DEF CacheReturns, TaskStep
<1>11. ASSUME NEW g \in Groups, StopStep(g) \/ StartStep(g) PROVE GroupNext
  BY <1>3, <1>11 DEF StopStep, StartStep, GiveUp, GroupStep
<1>12. ASSUME NEW r \in Tasks, Drain(r) \/ Reconcile(r) \/ CheckReturns(r) \/ LatePanic(r)
       PROVE  GroupNext
  BY <1>2, <1>12 DEF Drain, Reconcile, CheckReturns, LatePanic, TaskStep
<1>13. ASSUME NEW r \in Tasks, LateAdd(r) \/ TaskFails(r) \/ ContextEnds(r) PROVE GroupNext
  BY <1>2, <1>13 DEF LateAdd, TaskFails, ContextEnds, TaskStep
<1> QED BY <1>4, <1>5, <1>6, <1>7, <1>8, <1>9, <1>10, <1>11, <1>12, <1>13
        DEF Next, Scheduled, Unscheduled, Manager

\* The manager, its shutdown and the tasks keep the protocol of the groups
\* (task_manager.go:94-190 as the caller of runnable_group.go).
THEOREM ManagerUsesGroups == Spec => GroupSpec
<1>1. Init => GroupInit BY DEF Init
<1>2. [Next]_vars => [GroupNext]_groupVars BY StepOfGroups DEF vars
<1> QED BY <1>1, <1>2, PTL DEF Spec, GroupSpec

\* Whatever tasks are added late, and whenever the shutdown begins, its groups wait for
\* their workers and Start for its queue (runnable_group.go:71-246).
THEOREM ManagedGroupsAreSafe ==
  Spec => /\ [](StoppedIsStill /\ StartWaitsForAll /\ StartNotStranded /\ NoLateSignal)
          /\ NoAddAfterWait
          /\ KeepsPromise
BY ManagerUsesGroups, StopLeavesNoWorker, StartIsPatient, StartIsNotStranded,
   NoSignalTooLate, WaitGroupClosed,
   PromiseKept, PTL

-----------------------------------------------------------------------------
(* The inductive invariant                                                 *)

\* The cache is in the queue of its group before anybody starts it.
CacheInv ==
  /\ mgr \in {"addRunner", "addCache"} =>
       starter["Caches"] = "none" /\ stopping = "none"
  /\ stopping = "none" => stopper["Caches"] = "none" /\ closer = "none"
  /\ mgr \notin {"defer", "shutdown", "returned", "crashed"} => stopping = "none"
  /\ life[Cache] \in {"new", "tested"} => mgr \in {"addRunner", "addCache"}
  /\ life[Cache] \notin {"sending", "refused"}
  /\ Cache \in signalReady \/ life[Cache] \in {"new", "tested", "queued"}

\* The groups are stopped in their order, and given up only after the deadline.
OrderInv ==
  /\ \A g \in Groups : stopper[g] = "expired" => expired
  /\ stopping \in {"BpfPrograms", "Pumps", "over"} => StopReturned("Caches")
  /\ stopping \in {"Pumps", "over"} => StopReturned("BpfPrograms")
  /\ stopping = "over" => StopReturned("Pumps")
  /\ mgr = "returned" => ShutdownOver

IInv == GroupInv /\ TypeOK /\ CacheInv /\ OrderInv

LEMMA IInvInit == Init => IInv
<1> SUFFICES ASSUME Init PROVE IInv OBVIOUS
<1> USE DEF Init, GroupInit
<1>1. GroupInv BY GroupInvInit
<1>2. TypeOK BY <1>1 DEF TypeOK, GroupInv, MgrPcs
<1>3. CacheInv BY AgentTasks, CacheGroup DEF CacheInv
<1>4. OrderInv BY DEF OrderInv
<1> QED BY <1>1, <1>2, <1>3, <1>4 DEF IInv

LEMMA TypeNext == IInv /\ Next /\ GroupInv' => TypeOK'
<1> SUFFICES ASSUME IInv, Next, GroupInv' PROVE TypeOK' OBVIOUS
<1> USE DEF IInv, TypeOK, MgrPcs
<1>1. GroupTypeOK' BY DEF GroupInv
<1>2. CASE MgrAdd BY <1>1, <1>2 DEF MgrAdd, Adds, AfterAdd
<1>3. CASE MgrStart BY <1>1, <1>3 DEF MgrStart, Starts, AfterStart
<1>4. CASE MgrNewReader \/ MgrSignalled \/ MgrShutdown \/ MgrReturn
  BY <1>1, <1>4 DEF MgrNewReader, MgrSignalled, MgrShutdown, MgrReturn, Groups
<1>5. ASSUME NEW r \in Tasks, MgrError(r) PROVE TypeOK' BY <1>1, <1>5 DEF MgrError
<1>6. CASE Close \/ Deadline \/ Signal \/ Synced
  BY <1>1, <1>6 DEF Close, Deadline, Signal, Synced
<1>7. CASE StopNext
  <2>1. stopping' \in Groups \union {"over"} BY <1>7 DEF StopNext, AfterStop, Groups
  <2> QED BY <1>1, <1>7, <2>1 DEF StopNext
<1>8. CASE CacheReturns BY <1>1, <1>8 DEF CacheReturns
<1>9. CASE UNCHANGED managerVars BY <1>1, <1>9 DEF managerVars
<1> QED BY <1>2, <1>3, <1>4, <1>5, <1>6, <1>7, <1>8, <1>9
        DEF Next, Scheduled, Unscheduled, Manager, StopStep, StartStep, Drain, Reconcile,
            CheckReturns, LatePanic, LateAdd, TaskFails, ContextEnds

LEMMA CacheNext == IInv /\ Next => CacheInv'
<1> SUFFICES ASSUME IInv, Next PROVE CacheInv' OBVIOUS
<1> USE AgentTasks, CacheGroup DEF IInv, CacheInv, GroupInv, GroupTypeOK, TypeOK
<1>1. CASE MgrAdd
  <2>1. mgr \in {"addRunner", "addCache", "addPump"} BY <1>1 DEF MgrAdd, Adds
  <2>2. stopping = "none" /\ stopper["Caches"] = "none" BY <2>1
  <2>3. UNCHANGED <<stopping, closer, stopper, starter, signalReady>>
    BY <1>1 DEF MgrAdd, AddTest, AddQueue
  <2>4. Adds[mgr] \in Tasks /\ (Adds[mgr] = Cache <=> mgr = "addCache")
    BY <2>1, ManagerAssumption DEF Adds
  <2>5. CASE AddTest(Adds[mgr]) /\ UNCHANGED mgr
    <3>1. life'[Cache] = life[Cache] \/ (life[Cache] = "new" /\ life'[Cache] = "tested")
      BY <2>2, <2>4, <2>5 DEF AddTest, Stopped
    <3>2. life'[Cache] \in {"new", "tested"} => mgr' \in {"addRunner", "addCache"}
      BY <2>5, <3>1
    <3>3. /\ life'[Cache] \notin {"sending", "refused"}
          /\ Cache \in signalReady \/ life'[Cache] \in {"new", "tested", "queued"}
      BY <3>1
    <3> QED BY <2>2, <2>3, <2>5, <3>2, <3>3
  <2>6. CASE AddQueue(Adds[mgr]) /\ mgr' = AfterAdd[mgr]
    <3>1. life'[Cache] = IF mgr = "addCache" THEN "queued" ELSE life[Cache]
      BY <2>4, <2>6 DEF AddQueue
    <3>2. mgr' = IF mgr = "addRunner" THEN "addCache"
                 ELSE IF mgr = "addCache" THEN "newReader" ELSE "startPumps"
      BY <2>1, <2>6 DEF AfterAdd
    <3>3. life'[Cache] \in {"new", "tested"} => mgr' = "addCache"
      BY <2>1, <3>1, <3>2
    <3>4. /\ life'[Cache] \notin {"sending", "refused"}
          /\ Cache \in signalReady \/ life'[Cache] \in {"new", "tested", "queued"}
      BY <3>1
    <3>5. mgr' \in {"addRunner", "addCache"} => starter["Caches"] = "none"
      BY <2>1, <3>2
    <3> QED BY <2>2, <2>3, <3>3, <3>4, <3>5
  <2> QED BY <1>1, <2>5, <2>6 DEF MgrAdd
<1>2. CASE MgrStart
  <2>1. UNCHANGED <<life, stopper, signalReady, stopping, closer>>
    BY <1>2 DEF MgrStart, StartCall, groupVars
  <2>2. mgr \in DOMAIN Starts /\ (mgr' = mgr \/ mgr' = AfterStart[mgr]) BY <1>2 DEF MgrStart
  <2>3. /\ mgr \notin {"addRunner", "addCache", "defer", "shutdown", "returned", "crashed"}
        /\ mgr' \notin {"addRunner", "addCache", "defer", "shutdown", "returned", "crashed"}
    BY <2>2 DEF Starts, AfterStart
  <2> QED BY <2>1, <2>3
<1>3. CASE MgrNewReader \/ MgrSignalled \/ MgrReturn
  BY <1>3 DEF MgrNewReader, MgrSignalled, MgrReturn, groupVars
<1>4. CASE MgrShutdown BY <1>4 DEF MgrShutdown, groupVars
<1>5. CASE Close \/ Deadline \/ Signal \/ Synced
  BY <1>5 DEF Close, Deadline, Signal, Synced, groupVars
<1>6. CASE StopNext
  <2>1. UNCHANGED <<life, signalReady, starter, mgr, closer>> BY <1>6 DEF StopNext, StopCall, groupVars
  <2>2. stopping \in Groups /\ stopping' # "none"
    BY <1>6 DEF StopNext, AfterStop, Groups
  <2> QED BY <2>1, <2>2 DEF Groups
<1>7. ASSUME NEW r \in Tasks, MgrError(r) PROVE CacheInv'
  BY <1>7 DEF MgrError, ErrorTaken
<1>8. CASE CacheReturns BY <1>8 DEF CacheReturns, Finish
<1>9. ASSUME NEW g \in Groups, StartStep(g) PROVE CacheInv'
  <2>1. UNCHANGED <<life, stopper, signalReady, managerVars>>
    BY <1>9 DEF StartStep, FeedDone, Test, Exit
  <2>2. starter["Caches"] = "none" => starter'["Caches"] = "none"
    BY <1>9 DEF StartStep, FeedDone, Test, Exit
  <2> QED BY <2>1, <2>2 DEF managerVars
<1>10. ASSUME NEW g \in Groups, StopStep(g) PROVE CacheInv'
  <2>1. UNCHANGED <<life, signalReady, managerVars>>
    BY <1>10 DEF StopStep, StopStart, StopStarted, StopLock, StopCancel, StopDone, GiveUp, StopExpired
  <2>2. stopper[g] # "none"
    BY <1>10 DEF StopStep, StopStart, StopStarted, StopLock, StopCancel, StopDone, GiveUp, StopExpired
  <2>3. stopper["Caches"] = "none" =>
          stopper'["Caches"] = "none" /\ starter'["Caches"] = starter["Caches"]
    BY <1>10, <2>2 DEF StopStep, StopStart, StartBody, StopStarted, StopLock, StopCancel, StopDone,
                       GiveUp, StopExpired
  <2> QED BY <2>1, <2>3 DEF managerVars
<1>11. ASSUME NEW r \in Tasks, Drain(r) \/ CheckReturns(r) \/ LatePanic(r) \/ TaskFails(r)
                               \/ ContextEnds(r)
       PROVE  CacheInv'
  <2>1. UNCHANGED <<signalReady, stopper, starter, managerVars>>
    BY <1>11 DEF Drain, CheckReturns, LatePanic, TaskFails, ContextEnds, ErrorTaken, Drop,
                 CheckTrue, PanicSend, Fail, Finish
  <2>2. \/ life'[Cache] = life[Cache]
        \/ /\ life[Cache] \in {"failing", "inHand", "running"}
           /\ life'[Cache] \in {"finished", "dropped", "failing"}
    BY <1>11 DEF Drain, CheckReturns, LatePanic, TaskFails, ContextEnds, ErrorTaken, Drop,
                 CheckTrue, PanicSend, Fail, Finish
  <2> QED BY <2>1, <2>2 DEF managerVars
<1>12. ASSUME NEW r \in Tasks, Reconcile(r) PROVE CacheInv'
  <2>1. UNCHANGED <<stopper, managerVars>> BY <1>12 DEF Reconcile, Receive, Admit, Ready
  <2>2. starter["Caches"] = "none" => starter'["Caches"] = "none"
    BY <1>12, GroupOfType DEF Reconcile, Receive, Admit, Ready
  <2>3. \/ life'[Cache] = life[Cache] /\ signalReady \subseteq signalReady'
        \/ /\ life'[Cache] \in {"inHand", "running"} /\ Cache \in signalReady'
           /\ life[Cache] \notin {"new", "tested"}
    BY <1>12 DEF Reconcile, Receive, Admit, Ready
  <2> QED BY <2>1, <2>2, <2>3 DEF managerVars
<1>13. ASSUME NEW r \in Tasks, LateAdd(r) PROVE CacheInv'
  BY <1>13 DEF LateAdd, AddTest, AddQueue, AddSend, managerVars
<1> QED BY <1>1, <1>2, <1>3, <1>4, <1>5, <1>6, <1>7, <1>8, <1>9, <1>10, <1>11, <1>12, <1>13
        DEF Next, Scheduled, Unscheduled, Manager

LEMMA OrderNext == IInv /\ Next => OrderInv'
<1> SUFFICES ASSUME IInv, Next PROVE OrderInv' OBVIOUS
<1> USE DEF IInv, OrderInv, GroupInv, GroupTypeOK, TypeOK, StopReturned, ShutdownOver
<1>1. CASE UNCHANGED <<stopper, stopping, expired>> /\ (mgr' = "returned" => mgr = "returned")
  BY <1>1
<1>2. CASE MgrReturn BY <1>2 DEF MgrReturn, groupVars
<1>3. CASE MgrShutdown
  <2>1. mgr = "defer" /\ stopping' = "Caches" /\ mgr' = "shutdown" BY <1>3 DEF MgrShutdown
  <2>2. UNCHANGED <<stopper, expired>> BY <1>3 DEF MgrShutdown, groupVars
  <2> QED BY <2>1, <2>2
<1>4. CASE Deadline BY <1>4 DEF Deadline, groupVars
<1>5. CASE StopNext
  <2>1. stopping \in Groups /\ UNCHANGED <<mgr, expired>> BY <1>5 DEF StopNext
  <2>2. CASE StopCall(stopping) /\ UNCHANGED stopping
    <3>1. \A g \in Groups : stopper'[g] \in {"stopped", "expired"} <=> stopper[g] \in {"stopped", "expired"}
      BY <2>1, <2>2 DEF StopCall
    <3>2. \A g \in Groups : stopper'[g] = "expired" => stopper[g] = "expired"
      BY <2>1, <2>2 DEF StopCall
    <3> QED BY <2>1, <2>2, <3>1, <3>2 DEF Groups
  <2>3. CASE StopReturned(stopping) /\ stopping' = AfterStop[stopping] /\ UNCHANGED groupVars
    <3>1. stopper' = stopper BY <2>3 DEF groupVars
    <3>2. CASE stopping = "Caches" BY <2>1, <2>3, <3>1, <3>2 DEF AfterStop
    <3>3. CASE stopping = "BpfPrograms" BY <2>1, <2>3, <3>1, <3>3 DEF AfterStop
    <3>4. CASE stopping = "Pumps" BY <2>1, <2>3, <3>1, <3>4 DEF AfterStop
    <3> QED BY <2>1, <3>2, <3>3, <3>4 DEF Groups
  <2> QED BY <1>5, <2>2, <2>3 DEF StopNext
<1>6. ASSUME NEW g \in Groups, StopStep(g) PROVE OrderInv'
  <2>1. UNCHANGED <<mgr, stopping, expired>> BY <1>6 DEF StopStep, managerVars
  <2>2. \A h \in Groups : stopper[h] \in {"stopped", "expired"} => stopper'[h] \in {"stopped", "expired"}
    BY <1>6 DEF StopStep, StopStart, StopStarted, StopLock, StopCancel, StopDone, GiveUp, StopExpired
  <2>3. \A h \in Groups : stopper'[h] = "expired" => stopper[h] = "expired" \/ expired
    BY <1>6 DEF StopStep, StopStart, StopStarted, StopLock, StopCancel, StopDone, GiveUp, StopExpired
  <2> QED BY <2>1, <2>2, <2>3 DEF Groups
<1>7. CASE MgrNewReader \/ MgrSignalled \/ Signal \/ Synced \/ CacheReturns
  BY <1>1, <1>7 DEF MgrNewReader, MgrSignalled, Signal, Synced, CacheReturns, Finish, groupVars
<1>8. CASE Close BY <1>1, <1>8 DEF Close, groupVars
<1>9. CASE MgrAdd
  <2>1. mgr' = "returned" => mgr = "returned" BY <1>9 DEF MgrAdd, Adds, AfterAdd
  <2>2. UNCHANGED <<stopper, stopping, expired>> BY <1>9 DEF MgrAdd, AddTest, AddQueue
  <2> QED BY <1>1, <2>1, <2>2
<1>10. CASE MgrStart
  <2>1. mgr' = "returned" => mgr = "returned" BY <1>10 DEF MgrStart, Starts, AfterStart
  <2>2. UNCHANGED <<stopper, stopping, expired>>
    BY <1>10 DEF MgrStart, StartCall, groupVars
  <2> QED BY <1>1, <2>1, <2>2
<1>11. ASSUME NEW r \in Tasks, MgrError(r) PROVE OrderInv'
  BY <1>1, <1>11 DEF MgrError, ErrorTaken
<1>12. ASSUME NEW g \in Groups, StartStep(g) PROVE OrderInv'
  BY <1>1, <1>12 DEF StartStep, FeedDone, Test, Exit, managerVars
<1>13. ASSUME NEW r \in Tasks,
              \/ Drain(r) \/ Reconcile(r) \/ CheckReturns(r) \/ LatePanic(r)
              \/ LateAdd(r) \/ TaskFails(r) \/ ContextEnds(r)
       PROVE  OrderInv'
  <2>1. UNCHANGED <<stopper, managerVars>>
    BY <1>13 DEF Drain, Reconcile, CheckReturns, LatePanic, LateAdd, TaskFails, ContextEnds,
                 ErrorTaken, Drop, Receive, Admit, Ready, CheckTrue, PanicSend, AddTest, AddQueue,
                 AddSend, Fail, Finish
  <2> QED BY <1>1, <2>1 DEF managerVars
<1> QED BY <1>2, <1>3, <1>4, <1>5, <1>6, <1>7, <1>8, <1>9, <1>10, <1>11, <1>12, <1>13
        DEF Next, Scheduled, Unscheduled, Manager

LEMMA IInvStutter == IInv /\ UNCHANGED vars => IInv'
<1> SUFFICES ASSUME IInv, UNCHANGED vars PROVE IInv' OBVIOUS
<1>1. UNCHANGED groupVars /\ UNCHANGED managerVars BY DEF vars
<1>2. GroupInv' BY <1>1, GroupInvStutter DEF IInv
<1>3. TypeOK' BY <1>1, <1>2 DEF IInv, TypeOK, GroupInv, managerVars
<1>4. CacheInv' BY <1>1 DEF IInv, CacheInv, groupVars, managerVars
<1>5. OrderInv' BY <1>1 DEF IInv, OrderInv, StopReturned, ShutdownOver, groupVars, managerVars
<1> QED BY <1>2, <1>3, <1>4, <1>5 DEF IInv

THEOREM ManagerInvariant == Spec => []IInv
<1>1. IInv /\ Next => IInv'
  <2> SUFFICES ASSUME IInv, Next PROVE IInv' OBVIOUS
  <2>1. GroupInv' BY StepOfGroups, GroupInvNext DEF IInv
  <2>2. TypeOK' BY <2>1, TypeNext
  <2> QED BY <2>1, <2>2, CacheNext, OrderNext DEF IInv
<1>2. IInv /\ [Next]_vars => IInv' BY <1>1, IInvStutter
<1> QED BY <1>2, IInvInit, PTL DEF Spec

-----------------------------------------------------------------------------
(* The properties                                                          *)

\* Manager and groups keep their types, for any late tasks (task_manager.go).
THEOREM ManagerTypeCorrect == Spec => []TypeOK
<1>1. IInv => TypeOK BY DEF IInv
<1> QED BY <1>1, ManagerInvariant, PTL

\* The check of the cache is never cut short by the end of its context, so that the
\* fatal error of runnable.go:62 stays out of reach: its group is cancelled only when
\* Start has seen the check through.
THEOREM SyncIsNotCutShort == Spec => []SyncNotCutShort
<1>1. IInv => SyncNotCutShort
  <2> SUFFICES ASSUME IInv, Cancelled("Caches"), check[Cache] = "checking" PROVE FALSE
    BY DEF SyncNotCutShort
  <2>1. starter["Caches"] = "done" BY CacheGroup DEF IInv, GroupInv, StartedInv, Cancelled
  <2>2. life[Cache] \notin {"new", "tested", "queued"}
    BY AgentTasks DEF IInv, GroupInv, FeedInv
  <2>3. Cache \in signalReady BY <2>2 DEF IInv, CacheInv
  <2>4. Cache \in startQueue["Caches"] BY <2>3, AgentTasks, CacheGroup DEF IInv, GroupInv, FeedInv
  <2> QED BY <2>1, <2>4, CacheGroup DEF IInv, GroupInv, QueueInv
<1> QED BY <1>1, ManagerInvariant, PTL

\* A shutdown that ends before its deadline leaves no task at work (152-203).
THEOREM ExitIsGraceful == Spec => []GracefulExit
<1>1. IInv => GracefulExit
  <2> SUFFICES ASSUME IInv, mgr = "returned", ~expired, NEW r \in Tasks PROVE ~Working(r)
    BY DEF GracefulExit
  <2>1. \A g \in Groups : stopper[g] \in {"stopped", "expired"}
    BY DEF IInv, OrderInv, ShutdownOver, StopReturned, Groups
  <2>2. stopper[GroupOf(r)] = "stopped" BY <2>1, GroupOfType DEF IInv, OrderInv
  <2> QED BY <2>2 DEF IInv, GroupInv, StillInv
<1> QED BY <1>1, ManagerInvariant, PTL

-----------------------------------------------------------------------------
(* Shutdown                                                                *)

\* Who calls StopAndWait, and that errors are read from then on.
CallInv ==
  /\ stopping # "none" => closer # "none"
  /\ \A g \in Groups : stopper[g] # "none" => stopping # "none"
  /\ stopper["BpfPrograms"] # "none" => stopping \in {"BpfPrograms", "Pumps", "over"}
  /\ mgr = "defer" => stopping = "none"

LEMMA CallNext == IInv /\ CallInv /\ Next => CallInv'
<1> SUFFICES ASSUME IInv, CallInv, Next PROVE CallInv' OBVIOUS
<1> USE DEF CallInv
<1>1. CASE UNCHANGED <<stopper, stopping, closer>>
           /\ (mgr' = "defer" => mgr = "defer" \/ stopping = "none")
  BY <1>1
<1>2. CASE MgrShutdown
  <2>1. mgr = "defer" /\ closer' = "close" /\ stopping' = "Caches" /\ stopper' = stopper
    BY <1>2 DEF MgrShutdown, groupVars
  <2>2. \A g \in Groups : stopper[g] = "none" BY <2>1
  <2>3. mgr' # "defer" BY <1>2 DEF MgrShutdown
  <2> QED BY <2>1, <2>2, <2>3 DEF Groups
<1>3. CASE Close
  <2>1. closer' # "none" /\ UNCHANGED <<stopper, stopping>> /\ (mgr' = "defer" => mgr = "defer")
    BY <1>3 DEF Close, groupVars
  <2> QED BY <2>1
<1>4. CASE StopNext
  <2>1. stopping \in Groups /\ closer' = closer /\ mgr' = mgr /\ mgr # "defer"
    BY <1>4 DEF StopNext, Groups
  <2>2. CASE StopCall(stopping) /\ UNCHANGED stopping
    <3>1. stopping # "none" /\ \A g \in Groups : g # stopping => stopper'[g] = stopper[g]
      BY <2>1, <2>2 DEF StopCall, Groups, IInv, TypeOK, GroupTypeOK
    <3> QED BY <2>1, <2>2, <3>1 DEF Groups
  <2>3. CASE stopping' = AfterStop[stopping] /\ UNCHANGED groupVars
    <3>1. /\ stopping' # "none" /\ stopper' = stopper
          /\ stopping' \in {"BpfPrograms", "Pumps", "over"}
      BY <2>1, <2>3 DEF AfterStop, Groups, groupVars
    <3> QED BY <2>1, <3>1 DEF Groups
  <2> QED BY <1>4, <2>2, <2>3 DEF StopNext
<1>5. ASSUME NEW g \in Groups, StopStep(g) PROVE CallInv'
  <2>1. /\ UNCHANGED <<stopping, closer, mgr>>
        /\ \A h \in Groups : stopper'[h] # "none" => stopper[h] # "none"
    BY <1>5 DEF StopStep, StopStart, StopStarted, StopLock, StopCancel, StopDone, GiveUp,
                StopExpired, managerVars, IInv, TypeOK, GroupTypeOK
  <2> QED BY <2>1 DEF Groups
<1>6. CASE MgrAdd BY <1>1, <1>6 DEF MgrAdd, Adds, AfterAdd, AddTest, AddQueue
<1>7. CASE MgrStart BY <1>1, <1>7 DEF MgrStart, Starts, AfterStart, StartCall, groupVars
<1>8. CASE MgrNewReader \/ MgrSignalled \/ MgrReturn \/ Deadline \/ Signal \/ Synced
           \/ CacheReturns
  <2>1. mgr \in {"newReader", "select"} => stopping = "none" BY DEF IInv, CacheInv
  <2> QED BY <1>1, <1>8, <2>1
          DEF MgrNewReader, MgrSignalled, MgrReturn, Deadline, Signal, Synced, CacheReturns,
              Finish, groupVars
<1>9. ASSUME NEW r \in Tasks, MgrError(r) PROVE CallInv'
  <2>1. mgr = "select" => stopping = "none" BY DEF IInv, CacheInv
  <2> QED BY <1>1, <1>9, <2>1 DEF MgrError, ErrorTaken
<1>10. ASSUME NEW g \in Groups, StartStep(g) PROVE CallInv'
  BY <1>1, <1>10 DEF StartStep, FeedDone, Test, Exit, managerVars
<1>11. ASSUME NEW r \in Tasks,
              \/ Drain(r) \/ Reconcile(r) \/ CheckReturns(r) \/ LatePanic(r)
              \/ LateAdd(r) \/ TaskFails(r) \/ ContextEnds(r)
       PROVE  CallInv'
  BY <1>1, <1>11 DEF Drain, Reconcile, CheckReturns, LatePanic, LateAdd, TaskFails, ContextEnds,
         ErrorTaken, Drop, Receive, Admit, Ready, CheckTrue, PanicSend, AddTest, AddQueue,
         AddSend, Fail, Finish, managerVars
<1> QED BY <1>2, <1>3, <1>4, <1>5, <1>6, <1>7, <1>8, <1>9, <1>10, <1>11
        DEF Next, Scheduled, Unscheduled, Manager

LEMMA CallInvariant == Spec => [](IInv /\ CallInv)
<1>1. Init => CallInv BY DEF Init, GroupInit, CallInv, Groups
<1>2. IInv /\ CallInv /\ UNCHANGED vars => CallInv'
  BY DEF CallInv, vars, groupVars, managerVars
<1>3. IInv /\ CallInv /\ [Next]_vars => CallInv' BY <1>2, CallNext
<1> QED BY <1>1, <1>3, ManagerInvariant, PTL DEF Spec

\* The runner outlives the informers and, deadline aside, the pump (184-189): BpfRunner
\* assumes as much of its environment.
THEOREM RunnerIsStoppedLast == Spec => []RunnerStopsLast
<1>1. IInv /\ CallInv => RunnerStopsLast
  <2> SUFFICES ASSUME IInv, CallInv, Cancelled("BpfPrograms")
               PROVE  Cancelled("Caches") /\ (expired \/ ~Working(Pump))
    BY DEF RunnerStopsLast
  <2>1. StopReturned("Caches") BY DEF CallInv, Cancelled, IInv, OrderInv
  <2>2. GroupOf(Pump) = "Caches" /\ Pump \in Tasks BY AgentTasks, ManagerAssumption DEF GroupOf
  <2>3. stopper["Caches"] = "expired" => expired BY DEF IInv, OrderInv, Groups
  <2>4. stopper["Caches"] = "stopped" => ~Working(Pump) BY <2>2 DEF IInv, GroupInv, StillInv
  <2> QED BY <2>1, <2>3, <2>4 DEF StopReturned, Cancelled
<1> QED BY <1>1, CallInvariant, PTL

\* Whatever errors come in at whatever time, StopAndWait does not wait for ever on one
\* that has no reader: the drain of 159-182 is there before any group is stopped.
THEOREM ShutdownIsNotStuck == Spec => []ShutdownNotStuck
<1>1. IInv /\ CallInv => ShutdownNotStuck
  <2> SUFFICES ASSUME IInv, CallInv, NEW g \in Groups
               PROVE  /\ stopper[g] = "lock" =>
                           ~Reader(g) \/ reconciler[g] = "admit" \/ closer # "none"
                      /\ stopper[g] = "wait" /\ wg[g] # 0 =>
                           \E r \in Tasks :
                             /\ GroupOf(r) = g
                             /\ \/ life[r] = "running"
                                \/ life[r] = "failing" /\ closer # "none"
    BY DEF ShutdownNotStuck
  <2>1. stopper[g] # "none" => closer # "none" BY DEF CallInv
  <2>2. CASE stopper[g] = "wait" /\ wg[g] # 0
    <3>1. Cardinality(Workers(g)) # 0 BY <2>2 DEF IInv, GroupInv, CountInv
    <3>2. Workers(g) # {} BY <3>1, FS_EmptySet
    <3>3. PICK r \in Tasks : GroupOf(r) = g /\ Working(r) BY <3>2 DEF Workers
    <3> QED BY <2>1, <2>2, <3>3 DEF Working
  <2> QED BY <2>1, <2>2
<1> QED BY <1>1, CallInvariant, PTL

=============================================================================
