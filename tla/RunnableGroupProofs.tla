------------------------ MODULE RunnableGroupProofs -------------------------
(***************************************************************************)
(* Theorems about the runnable groups, for any tasks.                      *)
(***************************************************************************)
EXTENDS RunnableGroup, FiniteSetTheorems, TLAPS

\* The workers of a group, which its wait group counts.
Workers(g) == {r \in Tasks : GroupOf(r) = g /\ Working(r)}

CountInv == \A g \in Groups : wg[g] = Cardinality(Workers(g))

\* The lock keeps the test of stopped and wg.Add together.
AdmitInv == \A g \in Groups : Stopped(g) => reconciler[g] # "admit"

\* A task that Start feeds stays in its queue until it is ready.
FeedInv ==
  \A r \in Tasks :
    /\ life[r] = "queued" => r \in startQueue[GroupOf(r)] /\ starter[GroupOf(r)] \in {"none", "feed"}
    /\ life[r] \in {"new", "tested", "queued", "sending", "refused", "inHand", "dropped"} =>
         check[r] = "none"
    /\ check[r] = "signal" => r \in signalReady
    /\ r \in signalReady =>
         /\ r \in startQueue[GroupOf(r)] \/ check[r] = "ready"
         /\ starter[GroupOf(r)] # "none"
         /\ life[r] \notin {"new", "tested", "queued", "sending", "refused"}

QueueInv == \A g \in Groups : starter[g] = "done" => startQueue[g] = {}

StillInv == \A r \in Tasks : stopper[GroupOf(r)] = "stopped" => ~Working(r)

\* StopAndWait goes on when Start is through.
StartedInv == \A g \in Groups : stopper[g] \notin {"none", "start"} => starter[g] = "done"

GroupInv ==
  GroupTypeOK /\ CountInv /\ AdmitInv /\ FeedInv /\ QueueInv /\ StillInv /\ StartedInv

LEMMA GroupOfType == \A r \in Tasks : GroupOf(r) \in Groups
BY DEF GroupOf, Groups

LEMMA WorkersFinite == \A g \in Groups : IsFiniteSet(Workers(g)) /\ Cardinality(Workers(g)) \in Nat
<1> SUFFICES ASSUME NEW g \in Groups
             PROVE  IsFiniteSet(Workers(g)) /\ Cardinality(Workers(g)) \in Nat
  OBVIOUS
<1>1. Workers(g) \in SUBSET Tasks BY DEF Workers
<1> QED BY <1>1, RunnablesAssumption, FS_Subset, FS_CardinalityType

LEMMA GroupInvInit == GroupInit => GroupInv
<1> SUFFICES ASSUME GroupInit PROVE GroupInv OBVIOUS
<1> USE DEF GroupInit
<1>1. GroupTypeOK BY DEF GroupTypeOK, Lives, ReconcilerPcs, StopperPcs
<1>2. CountInv
  <2>1. \A g \in Groups : Workers(g) = {} BY DEF Workers, Working
  <2> QED BY <2>1, FS_EmptySet DEF CountInv
<1>3. AdmitInv BY DEF AdmitInv, Stopped
<1>4. FeedInv BY GroupOfType DEF FeedInv
<1>5. QueueInv BY DEF QueueInv
<1>6. StillInv BY GroupOfType DEF StillInv
<1>7. StartedInv BY DEF StartedInv
<1> QED BY <1>1, <1>2, <1>3, <1>4, <1>5, <1>6, <1>7 DEF GroupInv

LEMMA GroupInvStutter == GroupInv /\ UNCHANGED groupVars => GroupInv'
BY DEF GroupInv, groupVars, GroupTypeOK, CountInv, Workers, Working, AdmitInv, Stopped, FeedInv,
       QueueInv, StillInv, StartedInv

-----------------------------------------------------------------------------
(* The counter of the wait group                                           *)

\* A step that neither starts nor ends a worker leaves the count as it is.
LEMMA CountUnchanged ==
  ASSUME CountInv, wg' = wg, \A r \in Tasks : Working(r)' = Working(r)
  PROVE  CountInv'
<1>1. \A g \in Groups : Workers(g)' = Workers(g) BY DEF Workers
<1> QED BY <1>1 DEF CountInv

\* A worker that begins is one more in its own group.
LEMMA CountBegin ==
  ASSUME GroupTypeOK, CountInv, NEW r \in Tasks, ~Working(r), life' = [life EXCEPT ![r] = "running"],
         wg' = [wg EXCEPT ![GroupOf(r)] = @ + 1]
  PROVE  CountInv'
<1> SUFFICES ASSUME NEW g \in Groups PROVE wg'[g] = Cardinality(Workers(g)') BY DEF CountInv
<1>1. GroupOf(r) \in Groups BY GroupOfType
<1>2. wg[g] = Cardinality(Workers(g)) BY DEF CountInv
<1>3. CASE g = GroupOf(r)
  <2>1. Workers(g)' = Workers(g) \union {r} /\ r \notin Workers(g)
    BY <1>3 DEF Workers, Working, GroupTypeOK
  <2>2. Cardinality(Workers(g)') = Cardinality(Workers(g)) + 1
    BY <2>1, WorkersFinite, FS_AddElement
  <2>3. wg'[g] = wg[g] + 1 BY <1>3, <1>1 DEF GroupTypeOK
  <2> QED BY <1>2, <2>2, <2>3
<1>4. CASE g # GroupOf(r)
  <2>1. Workers(g)' = Workers(g) BY <1>4 DEF Workers, Working, GroupTypeOK
  <2>2. wg'[g] = wg[g] BY <1>4, <1>1 DEF GroupTypeOK
  <2> QED BY <1>2, <2>1, <2>2
<1> QED BY <1>3, <1>4

\* A worker that ends was counted.
LEMMA CountEnd ==
  ASSUME GroupTypeOK, CountInv, NEW r \in Tasks, Working(r), life' = [life EXCEPT ![r] = "finished"],
         wg' = [wg EXCEPT ![GroupOf(r)] = @ - 1]
  PROVE  CountInv' /\ wg' \in [Groups -> Nat]
<1>1. GroupOf(r) \in Groups BY GroupOfType
<1>2. \A g \in Groups : wg[g] = Cardinality(Workers(g)) /\ wg[g] \in Nat
  BY DEF CountInv, GroupTypeOK
<1>3. /\ Workers(GroupOf(r))' = Workers(GroupOf(r)) \ {r}
      /\ r \in Workers(GroupOf(r))
  BY DEF Workers, Working, GroupTypeOK
<1>4. /\ Cardinality(Workers(GroupOf(r))') = Cardinality(Workers(GroupOf(r))) - 1
      /\ Cardinality(Workers(GroupOf(r))') \in Nat
  <2>1. IsFiniteSet(Workers(GroupOf(r))) BY <1>1, WorkersFinite
  <2>2. Cardinality(Workers(GroupOf(r)) \ {r}) = Cardinality(Workers(GroupOf(r))) - 1
    BY <1>3, <2>1, FS_RemoveElement
  <2>3. Cardinality(Workers(GroupOf(r)) \ {r}) \in Nat
    BY <2>1, FS_RemoveElement, FS_CardinalityType
  <2> QED BY <1>3, <2>2, <2>3
<1>5. wg'[GroupOf(r)] = wg[GroupOf(r)] - 1 BY <1>1 DEF GroupTypeOK
<1>6. \A g \in Groups \ {GroupOf(r)} : wg'[g] = wg[g] /\ Workers(g)' = Workers(g)
  BY <1>1 DEF Workers, Working, GroupTypeOK
<1>7. wg'[GroupOf(r)] = Cardinality(Workers(GroupOf(r))') BY <1>1, <1>2, <1>4, <1>5
<1>8. \A g \in Groups : wg'[g] = Cardinality(Workers(g)') /\ wg'[g] \in Nat
  BY <1>2, <1>4, <1>6, <1>7
<1>9. DOMAIN wg' = Groups BY DEF GroupTypeOK
<1> QED BY <1>8, <1>9 DEF CountInv, GroupTypeOK

-----------------------------------------------------------------------------
(* The steps                                                               *)

\* Steps that neither begin nor end a worker.
Quiet(r) ==
  \/ AddTest(r) \/ AddQueue(r) \/ AddSend(r) \/ PanicSend(r) \/ Receive(r) \/ Drop(r)
  \/ CheckTrue(r) \/ CheckFalse(r) \/ Ready(r) \/ Fail(r)

LEMMA TypeTask ==
  ASSUME GroupInv, NEW r \in Tasks, TaskStep(r)
  PROVE  GroupTypeOK'
<1> USE GroupOfType DEF GroupInv, GroupTypeOK, Lives, ReconcilerPcs
<1>1. CASE AddTest(r) BY <1>1 DEF AddTest
<1>2. CASE AddQueue(r) BY <1>2 DEF AddQueue
<1>3. CASE AddSend(r) BY <1>3 DEF AddSend
<1>4. CASE PanicSend(r) BY <1>4 DEF PanicSend
<1>5. CASE Receive(r) BY <1>5 DEF Receive
<1>6. CASE Admit(r) BY <1>6 DEF Admit
<1>7. CASE Drop(r) BY <1>7 DEF Drop
<1>8. CASE CheckTrue(r) BY <1>8 DEF CheckTrue
<1>9. CASE CheckFalse(r) BY <1>9 DEF CheckFalse
<1>10. CASE Ready(r) BY <1>10 DEF Ready
<1>11. CASE Finish(r)
  <2>1. wg' \in [Groups -> Nat] BY <1>11, CountEnd DEF Finish, Working
  <2> QED BY <1>11, <2>1 DEF Finish
<1>12. CASE Fail(r) BY <1>12 DEF Fail
<1>13. CASE ErrorTaken(r)
  <2>1. wg' \in [Groups -> Nat] BY <1>13, CountEnd DEF ErrorTaken, Working
  <2> QED BY <1>13, <2>1 DEF ErrorTaken
<1> QED BY <1>1, <1>2, <1>3, <1>4, <1>5, <1>6, <1>7, <1>8, <1>9, <1>10, <1>11, <1>12, <1>13
        DEF TaskStep

LEMMA CountTask ==
  ASSUME GroupInv, NEW r \in Tasks, TaskStep(r)
  PROVE  CountInv'
<1> USE DEF GroupInv
<1>1. CASE Admit(r)
  <2>1. ~Working(r) BY <1>1 DEF Admit, Working
  <2> QED BY <1>1, <2>1, CountBegin DEF Admit
<1>2. CASE Finish(r) BY <1>2, CountEnd DEF Finish, Working
<1>3. CASE ErrorTaken(r) BY <1>3, CountEnd DEF ErrorTaken, Working
<1>4. CASE Quiet(r)
  <2>1. wg' = wg
    BY <1>4 DEF Quiet, AddTest, AddQueue, AddSend, PanicSend, Receive, Drop, CheckTrue, CheckFalse,
                Ready, Fail
  <2>2. \A q \in Tasks : Working(q)' = Working(q)
    BY <1>4 DEF Quiet, AddTest, AddQueue, AddSend, PanicSend, Receive, Drop, CheckTrue, CheckFalse,
                Ready, Fail, GroupTypeOK, Working
  <2> QED BY <2>1, <2>2, CountUnchanged
<1> QED BY <1>1, <1>2, <1>3, <1>4 DEF TaskStep, Quiet

\* Only reconcile admits, and never when the group is stopped.
LEMMA AdmitTask ==
  ASSUME GroupInv, NEW r \in Tasks, TaskStep(r)
  PROVE  AdmitInv'
<1>1. \A g \in Groups : reconciler'[g] = "admit" => reconciler[g] = "admit"
  BY GroupOfType DEF TaskStep, AddTest, AddQueue, AddSend, PanicSend, Receive, Admit, Drop,
        CheckTrue, CheckFalse, Ready, Finish, Fail, ErrorTaken, GroupInv, GroupTypeOK
<1>2. stopper' = stopper
  BY DEF TaskStep, AddTest, AddQueue, AddSend, PanicSend, Receive, Admit, Drop,
         CheckTrue, CheckFalse, Ready, Finish, Fail, ErrorTaken
<1> QED BY <1>1, <1>2 DEF AdmitInv, Stopped, GroupInv

LEMMA StillTask ==
  ASSUME GroupInv, NEW r \in Tasks, TaskStep(r)
  PROVE  StillInv'
<1> USE DEF GroupInv, GroupTypeOK, StillInv, Working
<1>1. stopper' = stopper
  BY DEF TaskStep, AddTest, AddQueue, AddSend, PanicSend, Receive, Admit, Drop,
         CheckTrue, CheckFalse, Ready, Finish, Fail, ErrorTaken
<1>2. CASE Admit(r)
  <2>1. stopper[GroupOf(r)] # "stopped" BY <1>2, GroupOfType DEF Admit, AdmitInv, Stopped
  <2> QED BY <1>1, <1>2, <2>1 DEF Admit
<1>3. CASE Finish(r) \/ ErrorTaken(r) BY <1>1, <1>3 DEF Finish, ErrorTaken
<1>4. CASE Quiet(r)
  <2>1. \A q \in Tasks : Working(q)' = Working(q)
    BY <1>4 DEF Quiet, AddTest, AddQueue, AddSend, PanicSend, Receive, Drop, CheckTrue, CheckFalse,
                Ready, Fail
  <2> QED BY <1>1, <2>1
<1> QED BY <1>2, <1>3, <1>4 DEF TaskStep, Quiet

LEMMA FeedTask ==
  ASSUME GroupInv, NEW r \in Tasks, TaskStep(r)
  PROVE  FeedInv' /\ QueueInv'
<1> USE GroupOfType DEF GroupInv, GroupTypeOK, FeedInv, QueueInv
<1>1. CASE AddTest(r) BY <1>1 DEF AddTest
<1>2. CASE AddQueue(r) BY <1>2 DEF AddQueue
<1>3. CASE AddSend(r) BY <1>3 DEF AddSend
<1>4. CASE PanicSend(r) BY <1>4 DEF PanicSend
<1>5. CASE Receive(r) BY <1>5 DEF Receive
<1>6. CASE Admit(r) BY <1>6 DEF Admit
<1>7. CASE Drop(r) BY <1>7 DEF Drop
<1>8. CASE CheckTrue(r) BY <1>8 DEF CheckTrue
<1>9. CASE CheckFalse(r) BY <1>9 DEF CheckFalse
<1>10. CASE Ready(r) BY <1>10 DEF Ready
<1>11. CASE Finish(r) BY <1>11 DEF Finish
<1>12. CASE Fail(r) BY <1>12 DEF Fail
<1>13. CASE ErrorTaken(r) BY <1>13 DEF ErrorTaken
<1> QED BY <1>1, <1>2, <1>3, <1>4, <1>5, <1>6, <1>7, <1>8, <1>9, <1>10, <1>11, <1>12, <1>13
        DEF TaskStep

\* The body of Start ends for good, and StopAndWait passes it only then.
LEMMA StartedTask ==
  ASSUME GroupInv, NEW r \in Tasks, TaskStep(r)
  PROVE  StartedInv'
<1> USE DEF GroupInv, GroupTypeOK
<1>1. stopper' = stopper
  BY DEF TaskStep, AddTest, AddQueue, AddSend, PanicSend, Receive, Admit, Drop,
         CheckTrue, CheckFalse, Ready, Finish, Fail, ErrorTaken
<1>2. \A g \in Groups : starter[g] = "done" => starter'[g] = "done"
  BY GroupOfType
     DEF TaskStep, AddTest, AddQueue, AddSend, PanicSend, Receive, Admit, Drop,
         CheckTrue, CheckFalse, Ready, Finish, Fail, ErrorTaken
<1> QED BY <1>1, <1>2 DEF StartedInv

LEMMA StartedGroup ==
  ASSUME GroupInv, NEW h \in Groups, GroupStep(h)
  PROVE  StartedInv'
<1> USE DEF GroupInv, GroupTypeOK, GroupStep, StartCall, FeedDone, Test, Exit, StopCall, StopStart,
            StartBody, StopStarted, StopLock, StopCancel, StopDone, StopExpired
<1>1. \A g \in Groups : starter[g] = "done" => starter'[g] = "done" OBVIOUS
<1>2. \A g \in Groups : stopper'[g] \notin {"none", "start"} =>
        stopper[g] \notin {"none", "start"} \/ starter[g] = "done"
  OBVIOUS
<1> QED BY <1>1, <1>2 DEF StartedInv

LEMMA GroupInvTask == ASSUME GroupInv, NEW r \in Tasks, TaskStep(r) PROVE GroupInv'
BY TypeTask, CountTask, AdmitTask, StillTask, FeedTask, StartedTask DEF GroupInv

\* The steps of Start, reconcile and StopAndWait move no task.
LEMMA GroupInvGroup == ASSUME GroupInv, NEW g \in Groups, GroupStep(g) PROVE GroupInv'
<1> USE DEF GroupInv
<1>1. UNCHANGED <<life, check, signalReady, startQueue, wg, panicked>>
  BY DEF GroupStep, StartCall, FeedDone, Test, Exit, StopCall, StopStart, StopStarted, StopLock,
         StopCancel, StopDone, StopExpired
<1>2. CountInv' /\ StartedInv' BY <1>1, CountUnchanged, StartedGroup DEF Working
<1> USE DEF GroupTypeOK
<1>3. CASE StartCall(g) \/ StopStart(g)
  <2>1. /\ starter' = [starter EXCEPT ![g] = "feed"] /\ starter[g] = "none"
        /\ reconciler' = [reconciler EXCEPT ![g] = "recv"] /\ stopper' = stopper
    BY <1>3 DEF StartCall, StopStart, StartBody
  <2>2. GroupTypeOK' BY <1>1, <2>1 DEF ReconcilerPcs
  <2>3. AdmitInv' BY <2>1 DEF AdmitInv, Stopped
  <2>4. FeedInv' /\ QueueInv' BY <1>1, <2>1, GroupOfType DEF FeedInv, QueueInv
  <2>5. StillInv' BY <1>1, <2>1 DEF StillInv, Working
  <2> QED BY <1>2, <2>2, <2>3, <2>4, <2>5
<1>4. CASE FeedDone(g)
  <2>1. GroupTypeOK' BY <1>4 DEF FeedDone
  <2>2. AdmitInv' BY <1>4 DEF FeedDone, AdmitInv, Stopped
  <2>3. FeedInv' /\ QueueInv' BY <1>4, GroupOfType DEF FeedDone, FeedInv, QueueInv
  <2>4. StillInv' BY <1>4 DEF FeedDone, StillInv, Working
  <2> QED BY <1>2, <2>1, <2>2, <2>3, <2>4
<1>5. CASE Test(g) \/ Exit(g)
  <2>1. UNCHANGED <<starter, stopper>> BY <1>5 DEF Test, Exit
  <2>2. GroupTypeOK' BY <1>1, <1>5, <2>1 DEF Test, Exit, ReconcilerPcs
  <2>3. AdmitInv' BY <1>5 DEF Test, Exit, AdmitInv, Stopped
  <2>4. FeedInv' /\ QueueInv' BY <1>1, <2>1 DEF FeedInv, QueueInv
  <2>5. StillInv' BY <1>1, <2>1 DEF StillInv, Working
  <2> QED BY <1>2, <2>2, <2>3, <2>4, <2>5
<1>6. CASE StopCall(g) \/ StopStarted(g) \/ StopLock(g) \/ StopCancel(g) \/ StopExpired(g)
  <2>1. UNCHANGED <<starter, reconciler>>
    BY <1>6 DEF StopCall, StopStarted, StopLock, StopCancel, StopExpired
  <2>2. GroupTypeOK'
    BY <1>1, <1>6, <2>1 DEF StopCall, StopStarted, StopLock, StopCancel, StopExpired, StopperPcs
  <2>3. AdmitInv'
    BY <1>6, <2>1 DEF StopCall, StopStarted, StopLock, StopCancel, StopExpired, AdmitInv, Stopped,
                      Reader
  <2>4. FeedInv' /\ QueueInv' BY <1>1, <2>1 DEF FeedInv, QueueInv
  <2>5. \A h \in Groups : stopper'[h] = "stopped" => stopper[h] = "stopped"
    BY <1>6 DEF StopCall, StopStarted, StopLock, StopCancel, StopExpired
  <2>6. StillInv' BY <1>1, <2>5, GroupOfType DEF StillInv, Working
  <2> QED BY <1>2, <2>2, <2>3, <2>4, <2>6
<1>7. CASE StopDone(g)
  <2>1. UNCHANGED <<starter, reconciler>> BY <1>7 DEF StopDone
  <2>2. GroupTypeOK' BY <1>1, <1>7, <2>1 DEF StopDone, StopperPcs
  <2>3. AdmitInv' BY <1>7, <2>1 DEF StopDone, AdmitInv, Stopped
  <2>4. FeedInv' /\ QueueInv' BY <1>1, <2>1 DEF FeedInv, QueueInv
  <2>5. StillInv'
    <3>1. Workers(g) = {} BY <1>7, WorkersFinite, FS_EmptySet DEF StopDone, CountInv
    <3>2. \A r \in Tasks : GroupOf(r) = g => ~Working(r) BY <3>1 DEF Workers
    <3> QED BY <1>1, <1>7, <3>2 DEF StopDone, StillInv, Working
  <2> QED BY <1>2, <2>2, <2>3, <2>4, <2>5
<1> QED BY <1>3, <1>4, <1>5, <1>6, <1>7 DEF GroupStep

LEMMA GroupInvNext == GroupInv /\ [GroupNext]_groupVars => GroupInv'
BY GroupInvTask, GroupInvGroup, GroupInvStutter DEF GroupNext

THEOREM GroupInvariant == GroupSpec => []GroupInv
BY GroupInvInit, GroupInvNext, PTL DEF GroupSpec

-----------------------------------------------------------------------------
(* The properties                                                          *)

LEMMA GroupInvImplies == GroupInv => StoppedIsStill /\ StartWaitsForAll /\ NoLateSignal
<1> SUFFICES ASSUME GroupInv PROVE StoppedIsStill /\ StartWaitsForAll /\ NoLateSignal OBVIOUS
<1> USE GroupOfType DEF GroupInv
<1>1. StoppedIsStill BY DEF StoppedIsStill, StillInv, AdmitInv, Stopped
<1>2. StartWaitsForAll BY DEF StartWaitsForAll, FeedInv, QueueInv
<1>3. NoLateSignal BY DEF NoLateSignal, FeedInv, QueueInv, GroupTypeOK
<1> QED BY <1>1, <1>2, <1>3

\* A wait group grows at Admit only, which needs a group that is not stopped.
LEMMA NoAddStep ==
  ASSUME GroupInv, [GroupNext]_groupVars, NEW g \in Groups, Cancelled(g)
  PROVE  wg'[g] <= wg[g]
<1> USE DEF GroupInv, GroupTypeOK
<1>1. CASE UNCHANGED groupVars BY <1>1 DEF groupVars
<1>2. ASSUME NEW r \in Tasks, TaskStep(r) PROVE wg'[g] <= wg[g]
  <2>1. CASE Admit(r)
    <3>1. GroupOf(r) # g BY <2>1, GroupOfType DEF Admit, AdmitInv, Stopped, Cancelled
    <3> QED BY <2>1, <3>1 DEF Admit
  <2>2. CASE Finish(r) \/ ErrorTaken(r) BY <2>2, GroupOfType DEF Finish, ErrorTaken
  <2>3. CASE Quiet(r)
    BY <2>3 DEF Quiet, AddTest, AddQueue, AddSend, PanicSend, Receive, Drop, CheckTrue,
                CheckFalse, Ready, Fail
  <2> QED BY <1>2, <2>1, <2>2, <2>3 DEF TaskStep, Quiet
<1>3. ASSUME NEW h \in Groups, GroupStep(h) PROVE wg'[g] <= wg[g]
  BY <1>3 DEF GroupStep, StartCall, FeedDone, Test, Exit, StopCall, StopStart, StopStarted,
              StopLock, StopCancel, StopDone, StopExpired
<1> QED BY <1>1, <1>2, <1>3 DEF GroupNext

\* The states of the groups keep their types: in particular, a wait group never goes
\* below zero (runnable_group.go:188, 205).
THEOREM GroupTypeCorrect == GroupSpec => []GroupTypeOK
<1>1. GroupInv => GroupTypeOK BY DEF GroupInv
<1> QED BY <1>1, GroupInvariant, PTL

\* Once StopAndWait waits, nothing is added to its wait group (170-187), for any number
\* of tasks and whenever Add is called.
THEOREM WaitGroupClosed == GroupSpec => NoAddAfterWait
<1>1. GroupInv /\ [GroupNext]_groupVars
        => [\A g \in Groups : Cancelled(g) => wg'[g] <= wg[g]]_groupVars
  BY NoAddStep
<1> QED BY <1>1, GroupInvariant, PTL DEF GroupSpec, NoAddAfterWait

\* StopAndWait leaves no worker behind unless it gives up (216-246).
THEOREM StopLeavesNoWorker == GroupSpec => []StoppedIsStill
BY GroupInvariant, GroupInvImplies, PTL

\* Start is through only when what it found in its queue is fed and ready (112-163).
THEOREM StartIsPatient == GroupSpec => []StartWaitsForAll
BY GroupInvariant, GroupInvImplies, PTL

\* No check sends to startReadyCh once Start has closed it (119, 195-200).
THEOREM NoSignalTooLate == GroupSpec => []NoLateSignal
BY GroupInvariant, GroupInvImplies, PTL

-----------------------------------------------------------------------------
(* What Start waits for.                                                   *)

\* reconcile begins with Start and drops nothing as long as the group is not stopped.
LoopInv ==
  \A g \in Groups :
    /\ reconciler[g] = "drop" => Stopped(g)
    /\ starter[g] = "none" => reconciler[g] = "none"

\* It has one task in hand.
HandInv ==
  /\ \A r \in Tasks : life[r] = "inHand" => reconciler[GroupOf(r)] \in {"test", "admit", "drop"}
  /\ \A q, r \in Tasks :
       life[q] = "inHand" /\ life[r] = "inHand" /\ GroupOf(q) = GroupOf(r) => q = r

\* What is in the queue of Start waits to be fed, or was fed and can still report.
ReportInv ==
  /\ \A r \in Tasks :
       /\ check[r] = "none" => life[r] \notin {"running", "failing", "finished"}
       /\ r \in signalReady => life[r] # "dropped"
  /\ \A g \in Groups : \A r \in startQueue[g] :
       /\ r \in Tasks /\ GroupOf(r) = g
       /\ \/ r \in signalReady /\ check[r] # "ready"
          \/ life[r] = "queued" /\ starter[g] # "wait"

LEMMA LoopTask == ASSUME GroupInv, LoopInv, NEW r \in Tasks, TaskStep(r) PROVE LoopInv'
<1>1. stopper' = stopper
  BY DEF TaskStep, AddTest, AddQueue, AddSend, PanicSend, Receive, Admit, Drop,
         CheckTrue, CheckFalse, Ready, Finish, Fail, ErrorTaken
<1>2. \A g \in Groups : starter'[g] = "none" => starter[g] = "none"
  BY GroupOfType DEF TaskStep, AddTest, AddQueue, AddSend, PanicSend, Receive, Admit, Drop,
         CheckTrue, CheckFalse, Ready, Finish, Fail, ErrorTaken, GroupInv, GroupTypeOK
<1>3. \A g \in Groups :
        \/ reconciler'[g] = reconciler[g]
        \/ reconciler[g] # "none" /\ reconciler'[g] \in {"test", "recv"}
  BY GroupOfType DEF TaskStep, AddTest, AddQueue, AddSend, PanicSend, Receive, Admit, Drop,
         CheckTrue, CheckFalse, Ready, Finish, Fail, ErrorTaken, GroupInv, GroupTypeOK
<1> QED BY <1>1, <1>2, <1>3 DEF LoopInv, Stopped

LEMMA LoopGroup == ASSUME GroupInv, LoopInv, NEW g \in Groups, GroupStep(g) PROVE LoopInv'
<1> USE DEF GroupInv, GroupTypeOK, LoopInv
<1>1. \A h \in Groups : Stopped(h) => Stopped(h)'
  BY DEF GroupStep, StartCall, FeedDone, Test, Exit, StopCall, StopStart, StopStarted, StopLock,
         StopCancel, StopDone, StopExpired, Stopped
<1>2. \A h \in Groups : starter'[h] = "none" => starter[h] = "none"
  BY DEF GroupStep, StartCall, FeedDone, Test, Exit, StopCall, StopStart, StartBody, StopStarted,
         StopLock, StopCancel, StopDone, StopExpired
<1>3. CASE StartCall(g) \/ StopStart(g)
  <2>1. /\ starter' = [starter EXCEPT ![g] = "feed"]
        /\ reconciler' = [reconciler EXCEPT ![g] = "recv"]
    BY <1>3 DEF StartCall, StopStart, StartBody
  <2> QED BY <1>1, <1>2, <2>1
<1>4. CASE Test(g)
  <2>1. /\ reconciler[g] = "test" /\ starter' = starter
        /\ reconciler' = [reconciler EXCEPT ![g] = IF Stopped(g) THEN "drop" ELSE "admit"]
    BY <1>4 DEF Test
  <2> QED BY <1>1, <1>2, <2>1
<1>5. CASE Exit(g)
  <2>1. /\ reconciler[g] = "recv" /\ starter' = starter
        /\ reconciler' = [reconciler EXCEPT ![g] = "exit"]
    BY <1>5 DEF Exit
  <2> QED BY <1>1, <1>2, <2>1
<1>6. CASE UNCHANGED reconciler BY <1>1, <1>2, <1>6
<1> QED BY <1>3, <1>4, <1>5, <1>6
        DEF GroupStep, FeedDone, StopCall, StopStarted, StopLock, StopCancel, StopDone, StopExpired

LEMMA HandTask == ASSUME GroupInv, HandInv, NEW r \in Tasks, TaskStep(r) PROVE HandInv'
<1> USE GroupOfType DEF GroupInv, GroupTypeOK, HandInv
<1>1. CASE Receive(r)
  <2>1. /\ reconciler[GroupOf(r)] = "recv"
        /\ reconciler' = [reconciler EXCEPT ![GroupOf(r)] = "test"]
        /\ life' = [life EXCEPT ![r] = "inHand"]
    BY <1>1 DEF Receive
  <2>2. \A q \in Tasks : life[q] = "inHand" => GroupOf(q) # GroupOf(r) BY <2>1
  <2> QED BY <2>1, <2>2
<1>2. CASE Admit(r) \/ Drop(r)
  <2>1. /\ life[r] = "inHand"
        /\ reconciler' = [reconciler EXCEPT ![GroupOf(r)] = "recv"]
        /\ life'[r] # "inHand" /\ \A q \in Tasks : q # r => life'[q] = life[q]
    BY <1>2 DEF Admit, Drop
  <2> QED BY <2>1
<1>3. CASE UNCHANGED reconciler /\ \A q \in Tasks : life'[q] = "inHand" => life[q] = "inHand"
  BY <1>3
<1> QED BY <1>1, <1>2, <1>3
        DEF TaskStep, AddTest, AddQueue, AddSend, PanicSend, CheckTrue, CheckFalse, Ready, Finish,
            Fail, ErrorTaken

LEMMA HandGroup == ASSUME GroupInv, LoopInv, HandInv, NEW g \in Groups, GroupStep(g) PROVE HandInv'
<1> USE GroupOfType DEF GroupInv, GroupTypeOK
<1>1. UNCHANGED life
  BY DEF GroupStep, StartCall, FeedDone, Test, Exit, StopCall, StopStart, StopStarted, StopLock,
         StopCancel, StopDone, StopExpired
<1>2. \A h \in Groups : reconciler[h] \in {"test", "admit", "drop"}
                         => reconciler'[h] \in {"test", "admit", "drop"}
  <2>1. CASE StartCall(g) \/ StopStart(g)
    <3>1. starter[g] = "none" /\ reconciler' = [reconciler EXCEPT ![g] = "recv"]
      BY <2>1 DEF StartCall, StopStart, StartBody
    <3>2. reconciler[g] = "none" BY <3>1 DEF LoopInv
    <3> QED BY <3>1, <3>2
  <2>2. CASE Test(g) \/ Exit(g) BY <2>2 DEF Test, Exit
  <2>3. CASE UNCHANGED reconciler BY <2>3
  <2> QED BY <2>1, <2>2, <2>3
          DEF GroupStep, FeedDone, StopCall, StopStarted, StopLock, StopCancel, StopDone,
              StopExpired
<1> QED BY <1>1, <1>2 DEF HandInv

LEMMA ReportTask ==
  ASSUME GroupInv, LoopInv, ReportInv, NEW r \in Tasks, TaskStep(r)
  PROVE  ReportInv'
<1> USE GroupOfType DEF GroupInv, GroupTypeOK, ReportInv
<1>1. CASE AddTest(r) \/ AddSend(r) \/ PanicSend(r)
  <2>1. /\ UNCHANGED <<check, signalReady, startQueue, starter>>
        /\ \A q \in Tasks : \/ life'[q] = life[q]
                           \/ /\ life[q] \in {"new", "tested"}
                              /\ life'[q] \in {"tested", "refused", "sending"}
    BY <1>1 DEF AddTest, AddSend, PanicSend
  <2> QED BY <2>1
<1>2. CASE AddQueue(r)
  <2>1. /\ UNCHANGED <<check, signalReady, starter>>
        /\ starter[GroupOf(r)] = "none"
        /\ life' = [life EXCEPT ![r] = "queued"]
        /\ startQueue' = [startQueue EXCEPT ![GroupOf(r)] = @ \union {r}]
    BY <1>2 DEF AddQueue
  <2> QED BY <2>1
<1>3. CASE Receive(r)
  <2>1. /\ UNCHANGED <<check, startQueue, starter>>
        /\ life' = [life EXCEPT ![r] = "inHand"]
        /\ signalReady \subseteq signalReady' /\ signalReady' \subseteq signalReady \union {r}
        /\ life[r] = "sending" \/ r \in signalReady'
        /\ life[r] \in {"sending", "queued"}
    BY <1>3 DEF Receive
  <2>2. check[r] = "none" BY <2>1 DEF FeedInv
  <2>3. \A g \in Groups : r \in startQueue[g] => r \in signalReady' BY <2>1
  <2> QED BY <2>1, <2>2, <2>3
<1>4. CASE Admit(r)
  <2>1. /\ life' = [life EXCEPT ![r] = "running"] /\ life[r] = "inHand"
        /\ check' = [check EXCEPT ![r] = "checking"]
        /\ UNCHANGED <<signalReady, startQueue, starter>>
    BY <1>4 DEF Admit
  <2> QED BY <2>1
<1>5. CASE Drop(r)
  <2>1. /\ life' = [life EXCEPT ![r] = "dropped"] /\ life[r] = "inHand"
        /\ reconciler[GroupOf(r)] = "drop"
        /\ UNCHANGED <<check, signalReady, startQueue, starter>>
    BY <1>5 DEF Drop
  <2>2. stopper[GroupOf(r)] \notin {"none", "start"} BY <2>1 DEF LoopInv, Stopped
  <2>3. starter[GroupOf(r)] = "done" BY <2>2 DEF StartedInv
  <2>4. r \notin signalReady BY <2>1, <2>3 DEF FeedInv, QueueInv
  <2> QED BY <2>1, <2>4
<1>6. CASE CheckTrue(r) \/ CheckFalse(r)
  <2>1. /\ check[r] = "checking"
        /\ check'[r] \in {"signal", "ready", "unready"}
        /\ check'[r] = "ready" => r \notin signalReady
        /\ \A q \in Tasks : q # r => check'[q] = check[q]
        /\ UNCHANGED <<life, signalReady, startQueue, starter>>
    BY <1>6 DEF CheckTrue, CheckFalse
  <2>2. life[r] # "queued" BY <2>1 DEF FeedInv
  <2> QED BY <2>1, <2>2
<1>7. CASE Ready(r)
  <2>1. /\ check' = [check EXCEPT ![r] = "ready"]
        /\ startQueue' = [startQueue EXCEPT ![GroupOf(r)] = @ \ {r}]
        /\ \A g \in Groups : starter[g] # "wait" => starter'[g] # "wait"
        /\ UNCHANGED <<life, signalReady>>
    BY <1>7 DEF Ready
  <2>2. \A g \in Groups : \A q \in startQueue'[g] : q \in startQueue[g] /\ q # r BY <2>1
  <2> QED BY <2>1, <2>2
<1>8. CASE Finish(r) \/ Fail(r) \/ ErrorTaken(r)
  <2>1. /\ life[r] \in {"running", "failing"}
        /\ life'[r] \in {"finished", "failing"}
        /\ \A q \in Tasks : q # r => life'[q] = life[q]
        /\ UNCHANGED <<check, signalReady, startQueue, starter>>
    BY <1>8 DEF Finish, Fail, ErrorTaken
  <2> QED BY <2>1
<1> QED BY <1>1, <1>2, <1>3, <1>4, <1>5, <1>6, <1>7, <1>8 DEF TaskStep

LEMMA ReportGroup == ASSUME GroupInv, ReportInv, NEW g \in Groups, GroupStep(g) PROVE ReportInv'
<1>1. UNCHANGED <<life, check, signalReady, startQueue>>
  BY DEF GroupStep, StartCall, FeedDone, Test, Exit, StopCall, StopStart, StopStarted, StopLock,
         StopCancel, StopDone, StopExpired
<1>2. \A h \in Groups : \A r \in startQueue[h] : life[r] = "queued" /\ starter[h] # "wait"
                         => starter'[h] # "wait"
  BY DEF GroupStep, StartCall, FeedDone, Test, Exit, StopCall, StopStart, StartBody, StopStarted,
         StopLock, StopCancel, StopDone, StopExpired, GroupInv, GroupTypeOK, ReportInv
<1> QED BY <1>1, <1>2 DEF ReportInv

\* All of it.
PatienceInv == LoopInv /\ HandInv /\ ReportInv

LEMMA PatienceNext == GroupInv /\ PatienceInv /\ [GroupNext]_groupVars => PatienceInv'
<1>1. PatienceInv /\ UNCHANGED groupVars => PatienceInv'
  BY DEF groupVars, PatienceInv, LoopInv, HandInv, ReportInv, Stopped
<1>2. ASSUME GroupInv, PatienceInv, NEW r \in Tasks, TaskStep(r) PROVE PatienceInv'
  BY <1>2, LoopTask, HandTask, ReportTask DEF PatienceInv
<1>3. ASSUME GroupInv, PatienceInv, NEW g \in Groups, GroupStep(g) PROVE PatienceInv'
  BY <1>3, LoopGroup, HandGroup, ReportGroup DEF PatienceInv
<1> QED BY <1>1, <1>2, <1>3 DEF GroupNext

\* Start never waits in vain for a task that was dropped or got lost (112-163), even
\* when StopAndWait is called meanwhile.
THEOREM StartIsNotStranded == GroupSpec => []StartNotStranded
<1>1. GroupInit => PatienceInv
  BY GroupOfType DEF GroupInit, PatienceInv, LoopInv, HandInv, ReportInv
<1>2. GroupInv /\ PatienceInv => StartNotStranded
  <2> SUFFICES ASSUME GroupInv, PatienceInv, NEW g \in Groups, starter[g] = "wait",
                      NEW r \in startQueue[g]
               PROVE  \/ life[r] = "inHand" /\ reconciler[g] \in {"test", "admit"}
                      \/ check[r] \in {"checking", "signal", "unready"}
    BY DEF StartNotStranded
  <2>1. r \in Tasks /\ GroupOf(r) = g /\ r \in signalReady /\ check[r] # "ready"
    BY DEF PatienceInv, ReportInv
  <2>2. ~Stopped(g) BY DEF GroupInv, StartedInv, Stopped
  <2>3. CASE life[r] = "inHand" BY <2>1, <2>2, <2>3 DEF PatienceInv, LoopInv, HandInv
  <2>4. CASE life[r] # "inHand"
    <3>1. life[r] \in {"running", "failing", "finished"}
      BY <2>1, <2>4 DEF GroupInv, GroupTypeOK, Lives, FeedInv, PatienceInv, ReportInv
    <3> QED BY <2>1, <3>1 DEF PatienceInv, ReportInv, GroupInv, GroupTypeOK
  <2> QED BY <2>3, <2>4
<1> QED BY <1>1, <1>2, GroupInvInit, GroupInvNext, PatienceNext, PTL DEF GroupSpec

-----------------------------------------------------------------------------
(* The promise                                                             *)

LEMMA PromiseInit == GroupInit => Promise!Init
BY DEF GroupInit, Promise!Init, Phases, Phase, First, Begun, AtWork, Working

\* A task that has passed its check has begun.
LEMMA ReadyBegun ==
  ASSUME GroupInv, NEW r \in Tasks, check[r] # "none"
  PROVE  r \in Begun
BY DEF GroupInv, GroupTypeOK, FeedInv, Lives, Begun

\* Phases follow from the two goroutines they are made of.
LEMMA PhasesUnchanged ==
  ASSUME stopper' = stopper, \A g \in Groups : starter[g] = "done" <=> starter'[g] = "done"
  PROVE  Phases' = Phases
BY DEF Phases, Phase

LEMMA UpGroup ==
  ASSUME GroupInv, NEW g \in Groups, starter[g] # "done", starter' = [starter EXCEPT ![g] = "done"],
         UNCHANGED <<life, signalReady, stopper>>,
         \A r \in First : GroupOf(r) = g => r \in Begun
  PROVE  Promise!Up(g)
<1>1. stopper[g] \in {"none", "start"} BY DEF GroupInv, StartedInv
<1>2. Phases[g] = "fresh" BY <1>1 DEF Phases, Phase
<1>3. Phases' = [Phases EXCEPT ![g] = "up"]
  BY <1>1 DEF GroupInv, GroupTypeOK, Phases, Phase
<1>4. UNCHANGED <<First, Begun, AtWork>> BY DEF First, Begun, AtWork, Working
<1>5. \A r \in First : [q \in Tasks |-> GroupOf(q)][r] = g => r \in Begun BY DEF First
<1> QED BY <1>2, <1>3, <1>4, <1>5 DEF Promise!Up, Promise!MoveTo

LEMMA PromiseTask ==
  ASSUME GroupInv, NEW r \in Tasks, TaskStep(r)
  PROVE  [Promise!Next]_Promise!vars
<1> USE GroupOfType DEF GroupInv, GroupTypeOK
<1>1. stopper' = stopper
  BY DEF TaskStep, AddTest, AddQueue, AddSend, PanicSend, Receive, Admit, Drop,
         CheckTrue, CheckFalse, Ready, Finish, Fail, ErrorTaken
<1>2. [q \in Tasks |-> GroupOf(q)][r] = GroupOf(r) OBVIOUS
<1>3. CASE AddQueue(r)
  <2>1. Phases' = Phases BY <1>1, <1>3, PhasesUnchanged DEF AddQueue
  <2>2. Phases[GroupOf(r)] = "fresh" BY <1>3 DEF AddQueue, Phases, Phase, StartedInv
  <2>3. r \notin Begun \union First BY <1>3 DEF AddQueue, Begun, First, FeedInv
  <2>4. First' = First \union {r} BY <1>3 DEF AddQueue, First
  <2>5. Begun' = Begun /\ AtWork' = AtWork BY <1>3 DEF AddQueue, Begun, AtWork, Working
  <2>6. Promise!AddFirst(r) BY <1>2, <2>1, <2>2, <2>3, <2>4, <2>5 DEF Promise!AddFirst
  <2> QED BY <2>6 DEF Promise!Next
<1>4. CASE Admit(r)
  <2>1. Phases' = Phases BY <1>1, <1>4, PhasesUnchanged DEF Admit
  <2>2. Phases[GroupOf(r)] \in {"fresh", "up"}
    BY <1>4 DEF Admit, Phases, Phase, AdmitInv, Stopped
  <2>3. r \notin Begun BY <1>4 DEF Admit, Begun
  <2>4. First' = First BY <1>4 DEF Admit, First
  <2>5. Begun' = Begun \union {r} /\ AtWork' = AtWork \union {r}
    BY <1>4 DEF Admit, Begun, AtWork, Working
  <2>6. Promise!Begin(r) BY <1>2, <2>1, <2>2, <2>3, <2>4, <2>5 DEF Promise!Begin
  <2> QED BY <2>6 DEF Promise!Next
<1>5. CASE Finish(r) \/ ErrorTaken(r)
  <2>1. Phases' = Phases BY <1>1, <1>5, PhasesUnchanged DEF Finish, ErrorTaken
  <2>2. r \in AtWork BY <1>5 DEF Finish, ErrorTaken, AtWork, Working
  <2>3. First' = First /\ Begun' = Begun BY <1>5 DEF Finish, ErrorTaken, First, Begun
  <2>4. AtWork' = AtWork \ {r} BY <1>5 DEF Finish, ErrorTaken, AtWork, Working
  <2>5. Promise!End(r) BY <2>1, <2>2, <2>3, <2>4 DEF Promise!End
  <2> QED BY <2>5 DEF Promise!Next
<1>6. CASE Ready(r)
  <2> DEFINE g == GroupOf(r)
  <2>1. /\ check[r] = "signal" /\ starter[g] = "wait"
        /\ UNCHANGED <<life, signalReady, stopper>>
    BY <1>6 DEF Ready
  <2>2. CASE startQueue[g] \subseteq {r}
    <3>1. starter' = [starter EXCEPT ![g] = "done"] BY <1>6, <2>2 DEF Ready
    <3>2. ASSUME NEW q \in First, GroupOf(q) = g PROVE q \in Begun
      <4>1. q \in Tasks /\ check[q] \in {"ready", "signal"}
        BY <2>1, <2>2, <3>2 DEF First, FeedInv
      <4> QED BY <4>1, ReadyBegun
    <3>3. Promise!Up(g) BY <2>1, <3>1, <3>2, UpGroup
    <3> QED BY <3>3 DEF Promise!Next
  <2>3. CASE ~(startQueue[g] \subseteq {r})
    <3>1. starter' = starter BY <1>6, <2>1, <2>3 DEF Ready
    <3>2. Phases' = Phases BY <2>1, <3>1, PhasesUnchanged
    <3> QED BY <2>1, <3>2 DEF Promise!vars, First, Begun, AtWork, Working
  <2> QED BY <2>2, <2>3
<1>7. CASE AddTest(r) \/ AddSend(r) \/ PanicSend(r) \/ Receive(r) \/ Drop(r) \/ CheckTrue(r)
             \/ CheckFalse(r) \/ Fail(r)
  <2>1. starter' = starter
    BY <1>7 DEF AddTest, AddSend, PanicSend, Receive, Drop, CheckTrue, CheckFalse, Fail
  <2>2. Phases' = Phases BY <1>1, <2>1, PhasesUnchanged
  <2>3. First' = First
    BY <1>7 DEF AddTest, AddSend, PanicSend, Receive, Drop, CheckTrue, CheckFalse, Fail, First
  <2>4. Begun' = Begun /\ AtWork' = AtWork
    BY <1>7 DEF AddTest, AddSend, PanicSend, Receive, Drop, CheckTrue, CheckFalse, Fail, Begun,
                AtWork, Working
  <2> QED BY <2>2, <2>3, <2>4 DEF Promise!vars
<1> QED BY <1>3, <1>4, <1>5, <1>6, <1>7 DEF TaskStep

LEMMA PromiseGroup ==
  ASSUME GroupInv, NEW g \in Groups, GroupStep(g)
  PROVE  [Promise!Next]_Promise!vars
<1> USE DEF GroupInv, GroupTypeOK
<1>1. UNCHANGED <<life, signalReady>>
  BY DEF GroupStep, StartCall, FeedDone, Test, Exit, StopCall, StopStart, StopStarted, StopLock,
         StopCancel, StopDone, StopExpired
<1>2. UNCHANGED <<First, Begun, AtWork>> BY <1>1 DEF First, Begun, AtWork, Working
<1>3. CASE StartCall(g) \/ StopStart(g) \/ Test(g) \/ Exit(g)
  <2>1. stopper' = stopper /\ \A h \in Groups : starter[h] = "done" <=> starter'[h] = "done"
    BY <1>3 DEF StartCall, StopStart, StartBody, Test, Exit
  <2> QED BY <1>2, <2>1, PhasesUnchanged DEF Promise!vars
<1>4. CASE StopCall(g) \/ StopStarted(g) \/ StopLock(g)
  <2>1. Phases' = Phases
    BY <1>4 DEF StopCall, StopStarted, StopLock, Phases, Phase
  <2> QED BY <1>2, <2>1 DEF Promise!vars
<1>5. CASE FeedDone(g)
  <2>1. CASE startQueue[g] = {}
    <3>1. starter[g] # "done" /\ starter' = [starter EXCEPT ![g] = "done"] /\ stopper' = stopper
      BY <1>5, <2>1 DEF FeedDone
    <3>2. ASSUME NEW q \in First, GroupOf(q) = g PROVE q \in Begun
      <4>1. q \in Tasks /\ check[q] = "ready" BY <2>1, <3>2 DEF First, FeedInv
      <4> QED BY <4>1, ReadyBegun
    <3>3. Promise!Up(g) BY <1>1, <3>1, <3>2, UpGroup
    <3> QED BY <3>3 DEF Promise!Next
  <2>2. CASE startQueue[g] # {}
    <3>1. stopper' = stopper /\ \A h \in Groups : starter[h] = "done" <=> starter'[h] = "done"
      BY <1>5, <2>2 DEF FeedDone
    <3> QED BY <1>2, <3>1, PhasesUnchanged DEF Promise!vars
  <2> QED BY <2>1, <2>2
<1>6. CASE StopCancel(g)
  <2>1. Phases[g] = "up" BY <1>6 DEF StopCancel, Phases, Phase, StartedInv
  <2>2. Phases' = [Phases EXCEPT ![g] = "closing"] BY <1>6 DEF StopCancel, Phases, Phase
  <2>3. Promise!Close(g) BY <1>2, <2>1, <2>2 DEF Promise!Close, Promise!MoveTo
  <2> QED BY <2>3 DEF Promise!Next
<1>7. CASE StopDone(g)
  <2>1. Phases[g] = "closing" BY <1>7 DEF StopDone, Phases, Phase
  <2>2. Phases' = [Phases EXCEPT ![g] = "closed"] BY <1>7 DEF StopDone, Phases, Phase
  <2>3. Workers(g) = {} BY <1>7, WorkersFinite, FS_EmptySet DEF StopDone, CountInv
  <2>4. \A r \in AtWork : [q \in Tasks |-> GroupOf(q)][r] # g BY <2>3 DEF Workers, AtWork
  <2>5. Promise!Closed(g) BY <1>2, <2>1, <2>2, <2>4 DEF Promise!Closed, Promise!MoveTo
  <2> QED BY <2>5 DEF Promise!Next
<1>8. CASE StopExpired(g)
  <2>1. Phases[g] = "closing" BY <1>8 DEF StopExpired, Phases, Phase
  <2>2. Phases' = [Phases EXCEPT ![g] = "abandoned"] BY <1>8 DEF StopExpired, Phases, Phase
  <2>3. Promise!Abandon(g) BY <1>2, <2>1, <2>2 DEF Promise!Abandon, Promise!MoveTo
  <2> QED BY <2>3 DEF Promise!Next
<1> QED BY <1>3, <1>4, <1>5, <1>6, <1>7, <1>8 DEF GroupStep

\* The groups implement what TaskGroups promises, for any tasks and whatever their
\* callers do (all of runnable_group.go).
THEOREM PromiseKept == GroupSpec => KeepsPromise
<1>1. GroupInv /\ [GroupNext]_groupVars => [Promise!Next]_Promise!vars
  <2> SUFFICES ASSUME GroupInv, [GroupNext]_groupVars PROVE [Promise!Next]_Promise!vars OBVIOUS
  <2>1. CASE UNCHANGED groupVars
    BY <2>1 DEF groupVars, Promise!vars, Phases, Phase, First, Begun, AtWork, Working
  <2> QED BY <2>1, PromiseTask, PromiseGroup DEF GroupNext
<1> QED BY <1>1, PromiseInit, GroupInvariant, PTL DEF GroupSpec, KeepsPromise, Promise!Spec

=============================================================================
