# A verification project for eDGuard

eDGuard audits the MySQL servers of a Kubernetes node without touching them. An
agent in Go watches the node's pods, finds the `mysqld` process of each database
container, and attaches two eBPF programs to the binary it runs: one at the entry
of `dispatch_command`, one at its return. The programs collect who sent which
query, to which effect, and hand the records over kernel maps to the agent, which
prints them.

This directory holds TLA+ models of the parts where the order of steps matters,
TLC configurations that check them on small instances, and proofs for every value
of the constants, checked by TLAPS. Every definition is translated from `src/`;
`PROJECT.json` says from which lines, which mutation of the code each property
detects, and which hazards of the code each property is aimed at.

    tlc -config audit_backlog.cfg MCAuditPath     # a run
    tlapm AuditPathProofs.tla                     # the proofs

## 1. The system

| component | source | state | operations |
|---|---|---|---|
| eBPF maps | `mysqld_probe.c:68-103` | `clusters` (pid → cluster, 1024), `thread_db_ctx_hash` (tid → record, 1024), `db_ctx_queue` (FIFO, 5120), `events` (one perf ring of a page per CPU) | update, lookup, delete, push, pop, perf output |
| mysqld probes | `mysqld_probe.c:107-256` | none but the maps | `mysql57_query` at the entry, `mysql57_query_return` at the return |
| event pump | `task/pump/pump.go` | its local `dbCtx`, the reader | `Start`: read a sample, pop a record, print it |
| BPF runner | `task/bpf_runner/mysql/mysql.go` | `Instances`, `clusters`, `program.Attached`, two unbuffered channels, a lock, a wait group | `Start`, `onPodUpdate`, `onPodDelete`, `attachInstance`, `detachInstance`, `attach` |
| runnable group | `manager/runnable_group.go` | queue of runnables, `started`, `stopped`, two channels, a wait group | `Add`, `Start`, `reconcile`, `StopAndWait` |
| task manager | `manager/task_manager.go`, `manager/runnable.go`, `main.go` | three groups, the error channel, the reader | `AddTask`, `Start`, `shutdown` |
| informer cache | `task/cache/cache.go` | client-go's shared informers | `Start`, sync check |
| container runtime clients | `pkg/cri` | a connection | `GetContainerPid`, `Close` |
| tools | `pkg/tool` | none | names, identifiers, `/proc`, ELF offsets |

How they interact:

    Kubernetes --notifications--> BPF runner --Update/Delete--> clusters
                                      |                            | read
                                      +--attach, close--> probes --+--> thread_db_ctx_hash
    mysqld --enters, leaves dispatch_command-----------------^     |
                                                                   v
      log <--print-- event pump <--Read-- perf rings <--output-- probes
                          ^--LookupAndDelete-- db_ctx_queue <--push--+

    task manager: starts and stops pump, runner and cache, each in a runnable group

What is hard here:

* A record and the sample that announces it travel through two buffers nothing
  ties together. Each loses things in its own way: a full queue drops its oldest
  record, a full ring its newest sample.
* The return program may run several times for one return (several uretprobes on
  one binary), or not at all (attached between entry and return, process killed,
  process unregistered), and the per-thread entries are never deleted.
* The BPF runner is shared by the informer's handler, the loop of `Start` and the
  attach goroutines. They exchange instances and errors over unbuffered channels
  that one goroutine reads, and some of the sends are made with the lock held or by
  that very goroutine.
* The tables are keyed differently: `Instances` by container, `clusters` by process
  identifier, which the kernel uses again.
* The shutdown cancels contexts, closes the reader and waits for three groups,
  while any of the above goes on.

What makes each component correct: the pump prints every record once, in order,
and never an old one again; a record speaks of one command; a sample lost is a
record late, not a record mixed up; `Instances` and `clusters` agree; a mysqld that
stays is audited in the end and a deleted one is forgotten; `Start` of a runnable
returns when its context ends; channels are closed when nobody sends any more.

## 2. The modules

| module | models | of |
|---|---|---|
| `KernelMaps` | the four maps, their capacities and what a full one does | `mysqld_probe.c` |
| `MysqldProbe` | threads of mysqld in `dispatch_command`, both programs, the opening and closing of probes, registration | `mysqld_probe.c`, `mysql.go` |
| `EventPump` | `eventPump.Start` | `pump.go`, `task_manager.go` |
| `AuditPath` | the composition of the three; its properties | |
| `AuditLog` | abstract: what the log and the table of threads promise, with no probe, map or pump | |
| `AuditPathProofs` | the theorems about `AuditPath` | |
| `BpfRunner` | handlers, loop and attach goroutines of the BPF runner; its properties | `mysql.go` |
| `AuditService` | abstract: what the runner promises of the audit, with no goroutine, channel or lock | |
| `BpfRunnerProofs` | the theorems about `BpfRunner` | |
| `Runnables` | the tasks and the groups they are put in | `runnable.go` |
| `RunnableGroup` | `Add`, `Start`, `reconcile`, workers, checks and `StopAndWait` of each group; its properties | `runnable_group.go` |
| `TaskGroups` | abstract: what the groups promise, with no goroutine, channel or lock | |
| `RunnableGroupProofs` | the theorems about `RunnableGroup` | |
| `TaskManager` | `Start` and `shutdown` over the groups, the agent's three tasks and late ones; its properties | `task_manager.go`, `runnable.go`, `cache.go`, `main.go` |
| `TaskManagerProofs` | the theorems about `TaskManager` | |
| `MCAuditPath`, `MCBpfRunner`, `MCTaskManager` | values of the constants for TLC | |

Some definitions are preceded by a *slip*: the same operator the way a plausible
bug would have it. Nothing uses the slips; each shows, put in the place of the
definition, that a property of a run can fail.

### The audit path

State. `clusters` is the set of registered processes. `threadDbCtx[t]` is the
entry of a thread, reduced to the command it describes (0: none) and the mark
`processed`. `dbCtxQueue` holds finished records: `query` is the command whose text
the entry program stored, `result` the one whose counts the return program read, so
that a mix-up shows. `ring` is the slots of each CPU's ring (free, a sample, or the
kernel's report of lost ones), `ringLost` the losses a ring has still to report.
`link[k]` is one pair of probes as `attach` opens and closes it; `pc`, `armed`
(the kernel hijacked the return address at entry) and `left` (programs still to run
at this return) belong to a thread. `pumpPc`, `dbCtx` and `log` are the pump's.
`lostSamples`, `overwritten` and `missed` are history variables: no guard reads them.

Steps. `Enter` is a whole run of the entry program: it touches one map others see.
The return program pushes and then signals, and another CPU or the pump may come
between, so it is `ReturnPush` and `ReturnOutput` (`onCpu` holds the program in
between, as it is not preempted), with the early returns in `ReturnSkip`. The
pump's steps are `PumpSelect`, `PumpRead`, `PumpReadError`, `PumpPop`,
`PumpPopError`: `PumpPop` is `LookupAndDelete` and `Print`, and prints the old
`dbCtx` when the queue is empty, as the code does.

Abstracted: the fields read out of `THD`, numbers for commands, cluster names
(what is registered is a set), the printed text, the order of records between the
rings of different CPUs (the reader may take any). `AuditLog` says what is left: a
thread gets a place in a bounded table for good, or its command is not recorded; open a
record, close it into a bounded backlog that drops its oldest, write the oldest.

### The BPF runner

State. `instances` and `clusters` are the keys of the two tables; `pidOf` gives each
container the identifier of its mysqld, which may have been that of a dead one.
`hPc`, `hC` are the informer's handler and the container it works on; `lPc`, `lC`
the loop of `Start`; `att` counts the attach goroutines in each place, as they are
alike; `wg` is the counter of `r.wg`, raised and lowered where the code calls `Add` and
`Done`; `mu` tells who holds `r.mu`. `notes` is the listener's queue in client-go;
`crashed` tells that the agent has panicked. `overtaken` and `stranded` are history
variables: containers whose deletion came while the loop was about to attach them,
and processes that were registered when an attach failed, with none since.

Steps. `TakeUpdate` and `TakeDelete` run a handler up to the unlocked look into
`Instances`; `Inspect` asks the runtime and `/proc`; `LoopInstance`, `LoopErrorOfH`
and `LoopErrorOfAttach` are the rendezvous on the two channels; `AttachLock`,
`AttachWrite`, `AttachUpdate` are `attachInstance`, cut where others can look;
`Detach` is `detachInstance`; `CloseChannels` is the deferred function of `Start`, which
looks at `wg` and nothing else.
A goroutine that would wait for ever has no step: `lPc = "stuck"` is the loop
sending to the channel only it reads. `SendOnClosed`, `TakeUnknown` and the second
disjunct of `TakeUpdate` and `TakeDelete` are the panics and the fatal error of the
runtime the code can meet.

Environment: containers get ready, die, are restarted in their pod; pods are deleted,
with a proper notification or, after a missed one, with client-go's
`DeletedFinalStateUnknown`; the informer delivers its cache again on every resync;
the informers stop first, then the runner (`task_manager.go:185-186`), and of what
waits for the handler then, some may still reach it.

Abstracted: the filters of the handlers (only containers that pass them exist), pods
with several mysqld containers, the version table (one program), what else may run
under a reused identifier. `Attached` is read and written without a lock; a store
becomes visible at once in the model. The probes sit on the executable of the first
container and are taken to serve all of its version, as `Attached` does; that holds for
containers of one image, which share the file.

`AuditService` is the promise: registration within the room there is, probes opening
or open from the first registration on, processes left unserved only by a failure to
open them, probes that stay until the runner is told to stop.

### The runnable groups

State. For each task, `life` is how far it has come, from the call of `Add` over the
queue or the channel, the hands of `reconcile` and the worker to its end; `check` is
its check goroutine, and `signalReady` the flag `Start` sets. For each group,
`startQueue`, `starter` (the body of `Start`, run once), `reconciler`, `wg`, and
`stopper` (`StopAndWait`), from whose place `stopped`, the cancelled context and the
closed channel follow (`Stopped`, `Cancelled`, `ChClosed`). `panicked`: somebody has
sent on a closed channel.

Steps. `Add` is cut where its locks are: `AddTest` looks at `stopped`, then `AddQueue`
or `AddSend`, then the task is taken or `PanicSend`. A channel is unbuffered, so a
send and its reception are one step: `Receive` (of `ch`), `Ready` (of `startReadyCh`),
`ErrorTaken` and `Drop` (of `errChan`; the other end belongs to whoever composes the
group). `reconcile` holds the read lock at `admit` and at `drop`, between its `Test`
and `Admit` or `Drop`, and `StopLock`, which takes the write lock, waits for it.
`StopAndWait` runs the body of `Start` itself if nobody has (`StopStart`), or waits for
it (`StopStarted`); then `StopLock`, `StopCancel`, and `StopDone` or `StopExpired`.

`GroupSpec` leaves open who calls, which error is read when, and when a deadline
passes. Abstracted: the order in which `Start` feeds its queue (any), the moment at which
a worker's goroutine gets to run after `Admit`. The loop of `Start` looks at its context
and goes on, so the context does not occur.

`TaskGroups` is the promise: a group is fresh, up, closing, then closed or abandoned;
a task works at most once, begins only while its group is not closing, holds up the
start when it was there first, and the close while it works.

### The task manager

State. `mgr` is the place of `main` and `TaskManager.Start`; `rd` the perf reader;
`closer` and `stopping` the two goroutines of `shutdown`, `expired` its deadline;
`informers` what client-go has done. `mgr = "crashed"` is `rd.Close()` on the nil
reader of a `Start` that failed early (`task_manager.go:170`).

Steps. `MgrAdd`, `MgrNewReader`, `MgrStart`, then the `select` (`MgrSignalled`,
`MgrError`), then `MgrShutdown`, which starts `Close`/`Drain` and `StopNext`, and
`MgrReturn`. All other steps are those of the groups, composed with what the tasks do:
the cache returns at once, the runner when its context has ended, the pump also with an
error, and nothing forces a task to return. `LateAdd` is another goroutine's call of
`AddTask`; the agent makes none, its interface and the comments of `Add` allow it.
The check of the cache (`CheckReturns`) may look before any informer was started
(`runnable.go:60` runs beside `cache.go:15`), and is satisfied then.

What the other modules assume of the manager is in this one: the reader is closed
while the pump may be blocked in it, the informers' group is stopped before the
runner's, and the pump sits in the group of the informers (`runnable.go:70`), so that it
starts last and has its context cancelled first.

Abstracted: the wiring in `NewTaskManager`, logging, `criClient.Close`. `HttpServers` is
made and never used.

## 3. The runs

| run | instance | properties |
|---|---|---|
| `audit_attribution` | 2 threads of a process, 2 pairs of probes, 1 CPU, ring 1, queue 3, hash 1, 3 commands | `NoDuplicateReport`, `Attribution`, `KeepsPromise` |
| `audit_backlog` | 1 thread, 1 pair, ring 2, queue 4, 6 commands | `TypeOK`, `PopFindsRecord`, `QueueBalance`, `DropsOnlyAfterLoss`, `KeepsPromise` |
| `audit_liveness` | 2 threads, 1 pair, ring 1, queue 2, hash 2, 3 commands | `RecordedIsLogged`, `CloseStopsPump` |
| `runner_tables` | 2 pods, one restarted, 2 identifiers, room for 2 | `TablesAgree`, `NoStaleInstance`, `ClosedAfterAttachers`, `StuckOnlyByErrors` |
| `runner_reuse` | 2 pods, 2 identifiers, room for 1 | `TypeOK`, `TablesAgree`, `ServingIsRegistered` |
| `runner_liveness` | 1 pod restarted, 2 identifiers, room for 2 | `AuditedUnlessFailed`, `KeepsPromise`, `ServingIsRegistered`, `StopsUnlessAttachFails` |
| `runner_stop_attach` | 1 container | `StopsWhenCancelled`, violated |
| `runner_stop_full` | 1 pod restarted, room for 1 | `StopsUnlessAttachFails`, violated |
| `runner_stop_reuse` | 2 pods, 1 identifier | `StopsUnlessAttachFails`, violated |
| `manager_shutdown` | runner, cache, pump, 1 late task | `TypeOK`, `StoppedIsStill`, `StartWaitsForAll`, `NoLateSignal`, `SyncNotCutShort`, `GracefulExit`, `StartNotStranded`, `RunnerStopsLast`, `ShutdownNotStuck`, `KeepsPromise`, `NoAddAfterWait`, `ShutdownEnds`, `SignalEnds`, `AcceptedIsSettled` |
| `manager_late_add` | as before | `AddNeverPanics`, violated |
| `manager_signal` | runner, cache, pump | `SignalAlwaysEnds`, violated |

What they show.

* `NoDuplicateReport`: the mark `processed` is enough to report a command once,
  however many uretprobes see its return. `Attribution`: a record with the results
  of another command exists only for a command whose own return no uretprobe of a
  registered process saw. Two threads compete for one entry of the hash, and the
  second pair of probes opens and closes at any moment, so that the entry program
  runs without the return program and the other way round. Three commands are what a
  mix-up takes: one missed, one that inherits its entry, one more.
* `QueueBalance` counts: the queue holds one record per sample on its way and one
  more per lost sample, less the dropped ones. So after a loss the pump prints every
  later record one sample late, for good: a fact of the design rather than a mistake
  of the model, and the reason why a dropped record never leaves a sample without
  one. With six commands a ring of two loses samples until the queue of four
  overflows. `DropsOnlyAfterLoss`: never are more records dropped than samples were
  lost, so a burst alone drops none. `KeepsPromise`: through all of this the log stays
  in order; and with a table too small for the threads (`audit_attribution`), those in
  it keep their places and their records.
* `PopFindsRecord` and `NoDuplicateReport` need `RoomForBacklog`: the queue holds
  more than all rings and CPUs together. The rings have a page of 4096 bytes, a
  sample takes 24, so a machine has about 170 slots per CPU, and 5120 records are
  enough for up to 29 CPUs. On a larger machine, with all rings full, the pump can
  meet an empty queue and print its last record again.
* `TablesAgree`, `NoStaleInstance`: the two tables agree except while the loop is
  between its two writes, or for an instance whose twin, a container that had the same
  identifier, was deleted with its pod (`TwinDeleted`). That an identifier is used again
  does no harm by itself, nor does the death of the first process; the deletion of its
  pod does. Deleted pods leave nothing behind except in the cases the property names,
  which are the code's: the deletion overtakes the container on its way to the loop, the
  container was replaced in its pod before, or its twin was deleted. One notification in
  the queue beside the one at work and the one with the loop is enough for the races
  between the three; two identifiers for three containers make reuse happen.
* `ServingIsRegistered`: a mysqld that stays gets registered, and gets registered again
  whenever it is not; failed inspections are made up for by the resync. There are two
  exceptions. The loop may be stuck with an error (`Overflown`, `DeletedTwice`). And
  the deletion of a twin may have taken the entry along (`TakenAlong`), which the code
  never makes good: c1 of one pod dies, c2 of another pod gets its identifier and
  is registered, the pod of c1 is deleted, `detachInstance` removes the entry both
  share (`mysql.go:147`), and c2, still in `Instances`, is passed over by every resync
  (226-228). `runner_reuse` reaches this case and the full map: without either of these two
  exceptions TLC finds the property violated there. `DeletedTwice` would take a third
  container in that run, as two are deleted when the loop gets stuck that way;
  `runner_stop_reuse` shows the stuck loop itself.
  No sentence of the source says that a live mysqld stays registered, so this
  stands here as a limit of the code and not among the disagreements below.
* `ClosedAfterAttachers`: `Start` closes its channels when the counter of the wait group
  is zero, and the property is about the goroutines: none is left that has a send before
  it or probes open. It holds as `wg.Add` comes before `go` and `wg.Done` is deferred past
  the sends; a `Done` before the error is sent (`OpenFailsDone`) breaks it. The handlers
  of the informer are not in the wait group, and one that is still at work when `Start`
  has returned panics (`SendOnClosed`): `StopAndWait` of the informers' group does not wait
  for them, and nothing in the source says that it does.
* `AuditedUnlessFailed`: to be registered is to be audited, or to have one's probes
  being opened. It takes the wait group and the two stores of `Attached` for that: a
  second instance may find the program not attached yet, and a first attach may still
  fail when the second has succeeded. What is left is what the code does not make good:
  an attach that fails is tried again only when another instance comes, so `stranded`
  is in the property. `KeepsPromise` says the same step by step, and that the probes
  outlive the registrations.
* `StuckOnlyByErrors`: while `Start` has not returned, the loop can go on, or what it
  waits for can, except in three cases, and each has the cause given there. The
  violated runs below show all three; this property says there is no fourth.

* `NoAddAfterWait`, `StoppedIsStill`: the read lock that `reconcile` holds from its
  test to `wg.Add` is what keeps `Add` and `Wait` of a wait group apart (the comments at
  170-173 and 183-187); without it (`NoReader`) both fail. `KeepsPromise` says the same
  and more of each task, by a step simulation of `TaskGroups`.
* `StartWaitsForAll`, `NoLateSignal`: `Start` leaves its loop only when what it fed is
  ready, and no check is on its way to `startReadyCh` when it closes that channel.
* `SyncNotCutShort`: the fatal error of `runnable.go:62` is not met in a shutdown, as
  `StopAndWait` waits for `Start`, and `Start` for the check, before it cancels.
  The price is `manager_signal`.
* `GracefulExit`: the agent leaves a task at work only after its deadline.
* `StartNotStranded`: `Start`, which waits without looking at its context, waits for
  nobody who was dropped. The danger is `StopAndWait` during `Start`: it waits for
  `Start` before it sets `stopped`, else `reconcile` would drop what `Start` has fed
  (`StopStartedEarly`).
* `RunnerStopsLast`: when the runner is told to stop, the informers have been and the
  pump has ended or the deadline has passed. `BpfRunner` assumes the first of the two.
* `ShutdownNotStuck`: a group that waits for the lock or for its workers does not wait
  for a goroutine with an error nobody reads.
* `ShutdownEnds`: with tasks that return when told to, a shutdown ends without the help
  of its deadline, whatever is added or fails meanwhile; it takes the drain of `errCh`
  for that. With a task that does not return, the deadline ends it. `SignalEnds`: so does
  a signal end the agent, provided the check of the cache comes back.
* `AcceptedIsSettled`: no task is lost between `Add` and the worker, and neither a caller
  of `Add` nor `reconcile` waits for ever while the agent runs.

In `manager_shutdown` one late task is enough: a second one only repeats the race of
`Add` with `reconcile` and `StopAndWait`, and the group of the caches already holds two
tasks. Every interleaving of the goroutines is there, including a reader that cannot be
made, which leads to the shutdown of groups that were never started.

Four of the violations are about one sentence of `runnable_group.go:14-16`: a component
"will stop running when the context is closed. Start blocks until the context is
closed or an error occurs". `Start` of the BPF runner may not return:

1. `runner_stop_attach`: the loop has left for `wg.Wait`; an attach goroutine fails
   and sends its error to `internalErrChan`, which only the loop read (`mysql.go:165`).
2. `runner_stop_full`: `clusters.Update` fails as the map is full, and the loop sends
   the error to itself (`mysql.go:132`). Restarts leave old entries behind.
3. `runner_stop_reuse`: a failed `clusters.Delete` is reported with `r.mu` held
   (`mysql.go:148`) while the loop waits for `r.mu`. It fails when another instance
   of the same identifier was deleted first and took the entry with it.

In the second and third case the runner also stops registering containers long
before anybody cancels it. The wait in the shutdown ends after 5 seconds
(`task_manager.go:156`).

4. `manager_signal` is the same sentence, for `TaskManager.Start`: its call of
   `Caches.Start` goes round in a loop (`runnable_group.go:140-159`) that notes the end
   of the context and does not leave. While an informer does not synchronise, neither a
   signal nor the error of another task is heard.

The last one, `manager_late_add`, is about "Add should return an error when called
during StopAndWait" (`runnable_group.go:72`). A call that has passed its test of
`stopped` sends on the channel `StopAndWait` closes, and panics. It takes a caller of
`AddTask` beside those in the agent, who all add before they start.

Deadlock is not checked: the audit path comes to rest when its commands are used up
and the pump has stopped, the runner when it has returned or crashed, the manager when
the process is gone or waits for a signal, and what must not come to rest is stated as
liveness.

### Fairness

* `AuditPath!Fairness`: mysqld finishes commands, programs of the kernel run on, the
  pump's goroutine is scheduled. Strong fairness for `PumpRead`: `rd.Read` may fail
  again and again, not for ever while records wait. No fairness for new commands,
  registration, attaching, kills or the shutdown.
* `BpfRunner!Fairness`: each kind of goroutine moves if it can. Strong fairness for a
  pod's resync (a timer of 30 seconds that comes whatever else is delivered) and for
  a successful inspection (the runtime does not fail for ever). Which ready case a
  `select` takes, who gets the lock, whether an attach succeeds and everything the
  cluster does is left open.
* `TaskManager!Fairness`: the goroutines of manager and groups move if they can. A task
  goes through its life once and so does each goroutine, so behaviours are finite, and
  one weak fairness condition on all these steps says that none of them is left
  undone. No fairness for signals, the deadline, the synchronisation of the cache, late
  tasks and the return of a task: where a property needs one, it says so
  (`StopHeeded`, the antecedent of `SignalEnds`).

## 4. The proofs

`AuditPathProofs`, for any machine, capacities, number of threads, probes and
commands, under the assumptions named in the modules (`MapsAssumption`,
`ProbeAssumption`, `PumpAssumption`):

* `TypeCorrect`, `AttributionCorrect`: no further assumption.
* `RecordsMatchSamples`, `NoDropWithoutLoss`, `PumpNeverRepeats`, `ReportedOnce`,
  `PromiseKept`: under `RoomForBacklog`.

The argument. `TypeInv` strengthens `TypeOK` with what the program in between push
and signal knows (it runs for a thread in return, whose entry is marked). For the
balance, each step that adds a record adds a waking CPU, each output turns a waking
CPU into a sample or a lost one, each read a sample into a pop. The balance alone is
not inductive: a pop of an empty queue would break it. `DropsOnlyAfterLoss` (no more
records dropped than samples lost, as long as the pump runs) closes the circle: with room for
the backlog a record is dropped only when the queue holds more than what is on its
way, that is, after a loss; hence a sample always finds a record. Attribution rests on
an invariant that relates each entry that is not yet handled to the command its
thread is in or to `missed`; single reporting on one that keeps the commands of
entries, queue and log apart and below `nextCall`. `PromiseKept` is the step
simulation of `AuditLog`, with `OpenCalls`, `Queries` of the queue and of the log and the
threads that have an entry as the mapping; `TableInv` bounds these by the capacity.

`BpfRunnerProofs`, for any pods, containers, identifiers, capacity and number of
notifications, under `RunnerAssumption`:

* `RunnerTypeCorrect`, `TablesAlwaysAgree`, `ClosedAfterAttachersLeft`,
  `DeletedLeavesNothing`, `RegisteredIsAudited`, `ServiceKept`, `NoOtherWayStuck`.

`PlaceInv` says what a goroutine knows where it is: whose identifier is set, who
holds `r.mu`; `CountInv` that the wait group counts the attach goroutines, wherever they
are, from which `ClosedAfterAttachersLeft` follows. The agreement of the tables needs
`WriteInv` (between the two writes of `attachInstance` nobody takes the instance away,
because of `r.mu`) and `NoticeInv` (what H is about to detach was deleted with its pod, so
that an entry is only ever taken along by a twin that was deleted; `TwinStays`: which it
remains). For
`NoStaleInstance` the invariant has to follow a container through every place it can be
in: once its deletion has been dealt with and none of the named races met it, it is
in no notification, with neither goroutine and in no table (`Forgotten => Gone`);
that in turn rests on the deletion being the container's last notification
(`DeletionIsLast`), and on `TablesAgree`, by which a failing `clusters.Delete` is a sign
of a deleted twin or of the loop at work.

`RegisteredIsAudited` is not inductive as it stands: `ServiceInv` adds what `Attached`
tells (until the context ends it is set exactly while an attach goroutine has its
probes open; when it is not set, one is opening them or all that is registered is
stranded), so that a registration that starts no goroutine finds probes. `ServiceKept`
is the step simulation of `AuditService` on top of it. `NoOtherWayStuck` needs
`WedgeInv`: `detachInstance` finds its instance, so that a failing `clusters.Delete`
means that a twin was deleted; the loop is stuck only with a full map; it
leaves only when the context has ended.

`RunnableGroupProofs`, for any tasks of any kind, under `RunnablesAssumption`
(finitely many tasks), whatever the callers of the groups do:

* `GroupTypeCorrect`, `WaitGroupClosed`, `StopLeavesNoWorker`, `StartIsPatient`,
  `NoSignalTooLate`, `StartIsNotStranded`, `PromiseKept`.

`GroupInv` counts: the wait group of a group is the number of its workers
(`CountInv`), which gives both that it never falls below zero and that `StopDone` leaves
nobody. `AdmitInv` is the lock: a stopped group has no `reconcile` between its test and
`wg.Add`. `FeedInv` and `QueueInv` follow a task that `Start` feeds from the queue to its
signal. `PromiseKept` is the step simulation of `TaskGroups`; `StartedInv` (a group
closes only when it is up) completes the invariant for it. `StartIsNotStranded` rests on
`PatienceInv`, which follows a task from `Start` to its signal: `reconcile` has one task
in hand (`HandInv`) and drops it only in a stopped group (`LoopInv`), and a fed task is in
hand, under check or found not ready (`ReportInv`).

`TaskManagerProofs`, under `ManagerAssumption` (the agent's tasks, any late ones):

* `ManagerUsesGroups`: `Spec => GroupSpec`, so all of the above holds in the agent
  (`ManagedGroupsAreSafe`).
* `ManagerTypeCorrect`, `SyncIsNotCutShort`, `ExitIsGraceful`: `CacheInv` follows the
  cache, which is in its queue before anybody starts the group, so that its check is one
  `Start` waits for; `OrderInv` follows the order of the three calls of `StopAndWait`.
* `RunnerIsStoppedLast`, `ShutdownIsNotStuck`: `CallInv` adds who may have called what (no
  group is stopped before `shutdown` drains `errCh`, the runner's only after the
  informers'). The first is the assumption `BpfRunner` makes of its environment.

Left to TLC: the liveness properties, as the prover knows neither fairness nor
`ENABLED`. Induction over data and recursive operators are out of its reach as well;
no module here has one.

Every safety property of a passing run is proved; only the liveness properties are
model-checked alone.

## 5. Not modelled

* The fields of a record. Both programs copy them out of `THD` at offsets that belong
  to a build of mysqld (`bpf/constrains.go`), and `Print` formats them; the model keeps
  which command they speak of. Worth knowing for a reader of the log:
  `mysqld_probe.c:145` and `:153` read the cluster name and the length of the query from
  the kernel's own memory (a map value, the program's stack) with
  `bpf_probe_read_user`, which reads "from user space address" only
  (`headers/bpf_helper_defs.h`) and clears its destination when it fails.
* `pkg/tool`: pure functions over strings, ELF files and `/proc`. They keep no state;
  the runner only tells an identifier from an error, which `Inspect` does.
* The transports of `pkg/cri` and the connection of `pkg/k8s`: remote calls.
* `bpf_bpfel_x86.go` is generated. `headers/` is libbpf's, declarations and macros of the
  kernel's interface: `bpf_helper_defs.h`, `bpf_tracing.h`, `bpf_helpers.h`,
  `bpf_endian.h` and `common.h` hold nineteen of twenty lines of C here, and none of
  the agent's behaviour. Of `mysqld_probe.c`, the program itself, what is left out are
  the offsets' names and the limits of the record's fields.
* `BpfRunner` and the probes are separate models: `Register`, `Unregister` and
  `AttachStep` of `MysqldProbe` may come in any order, which is more than `BpfRunner`
  does, so what is shown of the probes holds with it.
* Several mysqld containers in one pod, several versions of mysqld, and the use of a
  dead process's identifier by something other than a mysqld.
