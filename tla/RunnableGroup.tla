--------------------------- MODULE RunnableGroup ----------------------------
(***************************************************************************)
(* runnable_group.go: each group has callers of Add, one body of Start     *)
(* (sync.Once), the reconcile goroutine, a worker and a check goroutine    *)
(* per task, and one StopAndWait.  The channels are unbuffered: a send and *)
(* its reception are one step.                                             *)
(*                                                                         *)
(* GroupNext leaves open who calls and when, which errors tasks return,    *)
(* when somebody reads errChan and when the context of StopAndWait ends.   *)
(***************************************************************************)
EXTENDS Runnables

VARIABLES
  life,        \* how far each task has come
  check,       \* where its check is
  signalReady, \* the tasks that tell Start that they are ready
  startQueue,  \* the tasks Start has to feed, then to wait for
  starter,     \* the body of Start, in each group
  reconciler,  \* the reconcile goroutine
  wg,          \* the counter of the wait group
  stopper,     \* StopAndWait
  panicked     \* a goroutine has sent on a closed channel

groupVars == <<life, check, signalReady, startQueue, starter, reconciler, wg, stopper, panicked>>

\* Add: "new" (not called), "tested" (not stopped at the time), "queued", "sending",
\* "refused"; reconcile: "inHand", "dropped"; the worker: "running", "failing" (it
\* sends its error), "finished".
Lives == {"new", "tested", "queued", "sending", "refused", "inHand", "dropped",
          "running", "failing", "finished"}

\* "test" and "admit" lie before and after the test of stopped; at "admit" and at
\* "drop" (it sends an error) reconcile holds the read lock.
ReconcilerPcs == {"none", "recv", "test", "admit", "drop", "exit"}

\* "lock" waits for the write lock, "cancel" comes before r.cancel, "wait" is the
\* select; "stopped" and "expired" are its two ways out.
StopperPcs == {"none", "start", "lock", "cancel", "wait", "stopped", "expired"}

Stopped(g)   == stopper[g] \in {"cancel", "wait", "stopped", "expired"}
Cancelled(g) == stopper[g] \in {"wait", "stopped", "expired"}
ChClosed(g)  == stopper[g] \in {"stopped", "expired"}
Working(r)   == life[r] \in {"running", "failing"}

GroupInit ==
  /\ life = [r \in Tasks |-> "new"]
  /\ check = [r \in Tasks |-> "none"]
  /\ signalReady = {}
  /\ startQueue = [g \in Groups |-> {}]
  /\ starter = [g \in Groups |-> "none"]
  /\ reconciler = [g \in Groups |-> "none"]
  /\ wg = [g \in Groups |-> 0]
  /\ stopper = [g \in Groups |-> "none"]
  /\ panicked = FALSE

-----------------------------------------------------------------------------
(* Add                                                                     *)

AddTest(r) ==
  /\ life[r] = "new"
  /\ life' = [life EXCEPT ![r] = IF Stopped(GroupOf(r)) THEN "refused" ELSE "tested"]
  /\ UNCHANGED <<check, signalReady, startQueue, starter, reconciler, wg, stopper, panicked>>

\* r.start is free, as Start holds it only while it feeds.
AddQueue(r) ==
  /\ life[r] = "tested" /\ starter[GroupOf(r)] = "none"
  /\ life' = [life EXCEPT ![r] = "queued"]
  /\ startQueue' = [startQueue EXCEPT ![GroupOf(r)] = @ \union {r}]
  /\ UNCHANGED <<check, signalReady, starter, reconciler, wg, stopper, panicked>>

AddSend(r) ==
  /\ life[r] = "tested" /\ starter[GroupOf(r)] \in {"wait", "done"}
  /\ life' = [life EXCEPT ![r] = "sending"]
  /\ UNCHANGED <<check, signalReady, startQueue, starter, reconciler, wg, stopper, panicked>>

\* r.ch <- readyRunnable, on a channel that StopAndWait has closed meanwhile.
PanicSend(r) ==
  /\ life[r] = "sending" /\ ChClosed(GroupOf(r))
  /\ panicked' = TRUE
  /\ UNCHANGED <<life, check, signalReady, startQueue, starter, reconciler, wg, stopper>>

-----------------------------------------------------------------------------
(* Start.  The order in which it feeds its queue is left open, as each     *)
(* task runs in goroutines of its own.                                     *)

StartBody(g) ==
  /\ starter[g] = "none"
  /\ starter' = [starter EXCEPT ![g] = "feed"]
  /\ reconciler' = [reconciler EXCEPT ![g] = "recv"]

StartCall(g) ==
  /\ StartBody(g)
  /\ UNCHANGED <<life, check, signalReady, startQueue, wg, stopper, panicked>>

\* A slip: the body is left although tasks are not ready.
FeedDoneEarly(g) ==
  /\ starter[g] = "feed" /\ \A r \in startQueue[g] : life[r] # "queued"
  /\ starter' = [starter EXCEPT ![g] = "done"]
  /\ UNCHANGED <<life, check, signalReady, startQueue, reconciler, wg, stopper, panicked>>

\* A slip: it waits although it had nothing to feed.
FeedDoneWaits(g) ==
  /\ starter[g] = "feed" /\ \A r \in startQueue[g] : life[r] # "queued"
  /\ starter' = [starter EXCEPT ![g] = "wait"]
  /\ UNCHANGED <<life, check, signalReady, startQueue, reconciler, wg, stopper, panicked>>

FeedDone(g) ==
  /\ starter[g] = "feed" /\ \A r \in startQueue[g] : life[r] # "queued"
  /\ starter' = [starter EXCEPT ![g] = IF startQueue[g] = {} THEN "done" ELSE "wait"]
  /\ UNCHANGED <<life, check, signalReady, startQueue, reconciler, wg, stopper, panicked>>

\* rn := <-r.startReadyCh.  The end of the caller's context does not end the loop.
Ready(r) ==
  LET g == GroupOf(r)
  IN  /\ check[r] = "signal" /\ starter[g] = "wait"
      /\ check' = [check EXCEPT ![r] = "ready"]
      /\ startQueue' = [startQueue EXCEPT ![g] = @ \ {r}]
      /\ starter' = [starter EXCEPT ![g] = IF startQueue[g] \subseteq {r} THEN "done" ELSE "wait"]
      /\ UNCHANGED <<life, signalReady, reconciler, wg, stopper, panicked>>

-----------------------------------------------------------------------------
(* reconcile, the workers and the checks                                   *)

\* runnable := range r.ch, from Add or from Start, which marks what it feeds.
Receive(r) ==
  LET g == GroupOf(r)
  IN  /\ reconciler[g] = "recv" /\ ~ChClosed(g)
      /\ \/ life[r] = "sending" /\ UNCHANGED signalReady
         \/ /\ life[r] = "queued" /\ starter[g] = "feed"
            /\ signalReady' = signalReady \union {r}
      /\ life' = [life EXCEPT ![r] = "inHand"]
      /\ reconciler' = [reconciler EXCEPT ![g] = "test"]
      /\ UNCHANGED <<check, startQueue, starter, wg, stopper, panicked>>

\* A slip: reconcile does not look whether the group is stopped.
TestNothing(g) ==
  /\ reconciler[g] = "test"
  /\ reconciler' = [reconciler EXCEPT ![g] = "admit"]
  /\ UNCHANGED <<life, check, signalReady, startQueue, starter, wg, stopper, panicked>>

Test(g) ==
  /\ reconciler[g] = "test"
  /\ reconciler' = [reconciler EXCEPT ![g] = IF Stopped(g) THEN "drop" ELSE "admit"]
  /\ UNCHANGED <<life, check, signalReady, startQueue, starter, wg, stopper, panicked>>

\* A slip: wg.Add is forgotten (or left to the goroutine it should announce).
AdmitUncounted(r) ==
  LET g == GroupOf(r)
  IN  /\ reconciler[g] = "admit" /\ life[r] = "inHand"
      /\ life' = [life EXCEPT ![r] = "running"]
      /\ check' = [check EXCEPT ![r] = "checking"]
      /\ reconciler' = [reconciler EXCEPT ![g] = "recv"]
      /\ UNCHANGED <<signalReady, startQueue, starter, wg, stopper, panicked>>

\* wg.Add(1), then a worker and its check.
Admit(r) ==
  LET g == GroupOf(r)
  IN  /\ reconciler[g] = "admit" /\ life[r] = "inHand"
      /\ wg' = [wg EXCEPT ![g] = @ + 1]
      /\ life' = [life EXCEPT ![r] = "running"]
      /\ check' = [check EXCEPT ![r] = "checking"]
      /\ reconciler' = [reconciler EXCEPT ![g] = "recv"]
      /\ UNCHANGED <<signalReady, startQueue, starter, stopper, panicked>>

\* Somebody takes errRunnableGroupStopped from errChan.
Drop(r) ==
  LET g == GroupOf(r)
  IN  /\ reconciler[g] = "drop" /\ life[r] = "inHand"
      /\ life' = [life EXCEPT ![r] = "dropped"]
      /\ reconciler' = [reconciler EXCEPT ![g] = "recv"]
      /\ UNCHANGED <<check, signalReady, startQueue, starter, wg, stopper, panicked>>

Exit(g) ==
  /\ reconciler[g] = "recv" /\ ChClosed(g)
  /\ reconciler' = [reconciler EXCEPT ![g] = "exit"]
  /\ UNCHANGED <<life, check, signalReady, startQueue, starter, wg, stopper, panicked>>

\* A slip: a check reports to Start whoever its task is.
SignalAll(r) ==
  /\ check[r] = "checking"
  /\ check' = [check EXCEPT ![r] = "signal"]
  /\ UNCHANGED <<life, signalReady, startQueue, starter, reconciler, wg, stopper, panicked>>

CheckTrue(r) ==
  /\ check[r] = "checking"
  /\ check' = [check EXCEPT ![r] = IF r \in signalReady THEN "signal" ELSE "ready"]
  /\ UNCHANGED <<life, signalReady, startQueue, starter, reconciler, wg, stopper, panicked>>

CheckFalse(r) ==
  /\ check[r] = "checking"
  /\ check' = [check EXCEPT ![r] = "unready"]
  /\ UNCHANGED <<life, signalReady, startQueue, starter, reconciler, wg, stopper, panicked>>

\* rn.Start returns nil, and wg.Done.
Finish(r) ==
  /\ life[r] = "running"
  /\ life' = [life EXCEPT ![r] = "finished"]
  /\ wg' = [wg EXCEPT ![GroupOf(r)] = @ - 1]
  /\ UNCHANGED <<check, signalReady, startQueue, starter, reconciler, stopper, panicked>>

\* rn.Start returns an error: the worker counts until somebody has taken it.
Fail(r) ==
  /\ life[r] = "running"
  /\ life' = [life EXCEPT ![r] = "failing"]
  /\ UNCHANGED <<check, signalReady, startQueue, starter, reconciler, wg, stopper, panicked>>

ErrorTaken(r) ==
  /\ life[r] = "failing"
  /\ life' = [life EXCEPT ![r] = "finished"]
  /\ wg' = [wg EXCEPT ![GroupOf(r)] = @ - 1]
  /\ UNCHANGED <<check, signalReady, startQueue, starter, reconciler, stopper, panicked>>

-----------------------------------------------------------------------------
(* StopAndWait                                                             *)

\* It calls Start, whose body it runs or waits for.
StopCall(g) ==
  /\ stopper[g] = "none"
  /\ stopper' = [stopper EXCEPT ![g] = "start"]
  /\ UNCHANGED <<life, check, signalReady, startQueue, starter, reconciler, wg, panicked>>

StopStart(g) ==
  /\ stopper[g] = "start" /\ StartBody(g)
  /\ UNCHANGED <<life, check, signalReady, startQueue, wg, stopper, panicked>>

\* A slip: StopAndWait leaves the call of Start to a goroutine.
StopStartedEarly(g) ==
  /\ stopper[g] = "start" /\ starter[g] # "none"
  /\ stopper' = [stopper EXCEPT ![g] = "lock"]
  /\ UNCHANGED <<life, check, signalReady, startQueue, starter, reconciler, wg, panicked>>

StopStarted(g) ==
  /\ stopper[g] = "start" /\ starter[g] = "done"
  /\ stopper' = [stopper EXCEPT ![g] = "lock"]
  /\ UNCHANGED <<life, check, signalReady, startQueue, starter, reconciler, wg, panicked>>

\* A slip: reconcile gives the read lock back right after its test.
NoReader(g) == FALSE

Reader(g) == reconciler[g] \in {"admit", "drop"}

StopLock(g) ==
  /\ stopper[g] = "lock" /\ ~Reader(g)
  /\ stopper' = [stopper EXCEPT ![g] = "cancel"]
  /\ UNCHANGED <<life, check, signalReady, startQueue, starter, reconciler, wg, panicked>>

\* r.cancel(), and a goroutine begins wg.Wait.
StopCancel(g) ==
  /\ stopper[g] = "cancel"
  /\ stopper' = [stopper EXCEPT ![g] = "wait"]
  /\ UNCHANGED <<life, check, signalReady, startQueue, starter, reconciler, wg, panicked>>

\* The wait group is done, and r.ch is closed.
StopDone(g) ==
  /\ stopper[g] = "wait" /\ wg[g] = 0
  /\ stopper' = [stopper EXCEPT ![g] = "stopped"]
  /\ UNCHANGED <<life, check, signalReady, startQueue, starter, reconciler, wg, panicked>>

\* The caller's context has ended, and r.ch is closed.
StopExpired(g) ==
  /\ stopper[g] = "wait"
  /\ stopper' = [stopper EXCEPT ![g] = "expired"]
  /\ UNCHANGED <<life, check, signalReady, startQueue, starter, reconciler, wg, panicked>>

-----------------------------------------------------------------------------
TaskStep(r) ==
  \/ AddTest(r) \/ AddQueue(r) \/ AddSend(r) \/ PanicSend(r)
  \/ Receive(r) \/ Admit(r) \/ Drop(r)
  \/ CheckTrue(r) \/ CheckFalse(r) \/ Ready(r)
  \/ Finish(r) \/ Fail(r) \/ ErrorTaken(r)

GroupStep(g) ==
  \/ StartCall(g) \/ FeedDone(g) \/ Test(g) \/ Exit(g)
  \/ StopCall(g) \/ StopStart(g) \/ StopStarted(g) \/ StopLock(g) \/ StopCancel(g)
  \/ StopDone(g) \/ StopExpired(g)

GroupNext ==
  /\ ~panicked
  /\ \/ \E r \in Tasks : TaskStep(r)
     \/ \E g \in Groups : GroupStep(g)

GroupSpec == GroupInit /\ [][GroupNext]_groupVars

-----------------------------------------------------------------------------
\* The states of the groups (all of runnable_group.go).
GroupTypeOK ==
  /\ life \in [Tasks -> Lives]
  /\ check \in [Tasks -> {"none", "checking", "signal", "ready", "unready"}]
  /\ signalReady \subseteq Tasks
  /\ startQueue \in [Groups -> SUBSET Tasks]
  /\ starter \in [Groups -> {"none", "feed", "wait", "done"}]
  /\ reconciler \in [Groups -> ReconcilerPcs]
  /\ wg \in [Groups -> Nat]
  /\ stopper \in [Groups -> StopperPcs]
  /\ panicked \in BOOLEAN

\* "Wait() panics if Add() is called after it" (runnable_group.go:170-187): once
\* StopAndWait waits, no task is admitted any more, whatever Add and reconcile were
\* doing when it took the lock.
NoAddAfterWait == [][\A g \in Groups : Cancelled(g) => wg'[g] <= wg[g]]_groupVars

\* "StopAndWait waits for all the runnables to finish before returning": unless it
\* gave up, no task of the group works afterwards, nor is one about to be admitted.
StoppedIsStill ==
  \A r \in Tasks : stopper[GroupOf(r)] = "stopped" =>
    ~Working(r) /\ reconciler[GroupOf(r)] # "admit"

\* "Start starts the group and waits for all initially registered runnables to
\* start": when it is through, each of them was fed and its check said yes.
StartWaitsForAll ==
  \A r \in Tasks : starter[GroupOf(r)] = "done" =>
    /\ life[r] # "queued"
    /\ r \in signalReady => check[r] = "ready"

\* Start, which looks at no context while it waits, does not wait for a task that cannot
\* report any more: none of those it has fed is dropped, whenever StopAndWait is called,
\* and each of them is with reconcile, under check, or found not ready.
StartNotStranded ==
  \A g \in Groups : starter[g] = "wait" =>
    \A r \in startQueue[g] :
      \/ life[r] = "inHand" /\ reconciler[g] \in {"test", "admit"}
      \/ check[r] \in {"checking", "signal", "unready"}

\* Start closes startReadyCh when it ends; no check sends to it then.
NoLateSignal ==
  \A r \in Tasks : check[r] = "signal" => starter[GroupOf(r)] \in {"feed", "wait"}

\* The groups seen from outside (refinement to TaskGroups).
Phase(g) ==
  CASE stopper[g] = "wait" -> "closing"
    [] stopper[g] = "stopped" -> "closed"
    [] stopper[g] = "expired" -> "abandoned"
    [] OTHER -> IF starter[g] = "done" THEN "up" ELSE "fresh"

Phases == [g \in Groups |-> Phase(g)]
First  == {r \in Tasks : life[r] = "queued" \/ r \in signalReady}
Begun  == {r \in Tasks : life[r] \in {"running", "failing", "finished"}}
AtWork == {r \in Tasks : Working(r)}

Promise == INSTANCE TaskGroups WITH
  Home <- [r \in Tasks |-> GroupOf(r)],
  phase <- Phases, first <- First, begun <- Begun, working <- AtWork

\* The groups keep the promise of TaskGroups: a task works at most once and only in a
\* group that is not closing, Start waits until the first tasks have begun, and
\* StopAndWait until all have ended (all of runnable_group.go).
KeepsPromise == Promise!Spec

=============================================================================
