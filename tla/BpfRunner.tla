----------------------------- MODULE BpfRunner -----------------------------
(***************************************************************************)
(* BpfRunner keeps the map clusters in step with the mysqld containers of  *)
(* the node.  Three kinds of goroutines share it:                          *)
(*                                                                         *)
(*   H    the informer's handler: onPodUpdate and onPodDelete, one         *)
(*        notification at a time;                                          *)
(*   L    the loop of Start, only reader of ch and internalErrChan;        *)
(*   A    the runs of attach, one for each instance that found its program *)
(*        not attached yet; they are alike, so att counts those in each    *)
(*        place.                                                           *)
(*                                                                         *)
(* The channels are unbuffered.  Only containers that pass the filters of  *)
(* the handlers (managed-by label, image, known version) are modelled, at  *)
(* most one per pod at a time.  The process identifier of a container is   *)
(* given at its birth and may have been that of a dead one.                *)
(***************************************************************************)
EXTENDS Integers, Sequences, FiniteSets

CONSTANTS
  Pods,
  Containers,       \* every container that is ever started
  PodOf,            \* [Containers -> Pods]
  Pids,
  NoPid, NoContainer,
  ClustersCap,      \* max_entries of clusters
  MaxNotes          \* bound: notifications waiting for H

ASSUME RunnerAssumption ==
  /\ PodOf \in [Containers -> Pods]
  /\ IsFiniteSet(Pids)
  /\ NoPid \notin Pids /\ NoContainer \notin Containers
  /\ ClustersCap \in Nat /\ MaxNotes \in Nat

VARIABLES
  pidOf,        \* identifier of each container's mysqld, NoPid before its birth
  live,         \* containers whose process exists
  current,      \* the container in each pod's status
  deleted,      \* pods deleted from the API server
  notes,        \* notifications of the informer, oldest first
  informing,    \* the informers run
  ctxDone,      \* the context of Start is cancelled
  crashed,      \* the agent has panicked
  hPc, hC,      \* H and the container it works on
  lPc, lC,      \* L and the container it attaches
  att,          \* how many attach goroutines are in each place
  wg,           \* the counter of r.wg
  mu,           \* who holds r.mu
  instances,    \* keys of r.Instances
  clusters,     \* keys of the eBPF map clusters
  attached,     \* program.Attached
  overtaken,    \* history: containers deleted while L was about to attach them
  stranded      \* history: processes registered when an attach failed, none since

envVars == <<pidOf, live, current, deleted, notes, informing, ctxDone>>
history == <<overtaken, stranded>>
agentVars == <<crashed, hPc, hC, lPc, lC, att, wg, mu, instances, clusters, attached, history>>
vars == <<envVars, agentVars>>

\* Opening the executable and its probes; sending the error to
\* internalErrChan; attached, waiting for the end of the context.
Places == {"open", "err", "attached"}

Note == [kind : {"update", "delete", "unknown"}, c : Containers]

Init ==
  /\ pidOf = [c \in Containers |-> NoPid]
  /\ live = {}
  /\ current = [p \in Pods |-> NoContainer]
  /\ deleted = {}
  /\ notes = <<>>
  /\ informing = TRUE
  /\ ctxDone = FALSE
  /\ crashed = FALSE
  /\ hPc = "idle" /\ hC = NoContainer
  /\ lPc = "loop" /\ lC = NoContainer
  /\ att = [w \in Places |-> 0]
  /\ wg = 0
  /\ mu = "free"
  /\ instances = {}
  /\ clusters = {}
  /\ attached = FALSE
  /\ overtaken = {}
  /\ stranded = {}

-----------------------------------------------------------------------------
(* The cluster and the shutdown of the manager.                            *)

Notify(kind, c) == notes' = Append(notes, [kind |-> kind, c |-> c])
RoomForNote == informing /\ Len(notes) < MaxNotes

\* A container gets ready in its pod, the first one or a restarted one.
Ready(c, i) ==
  LET p == PodOf[c]
  IN  /\ pidOf[c] = NoPid
      /\ p \notin deleted
      /\ current[p] \notin live
      /\ \A d \in live : pidOf[d] # i
      /\ RoomForNote
      /\ pidOf' = [pidOf EXCEPT ![c] = i]
      /\ live' = live \union {c}
      /\ current' = [current EXCEPT ![p] = c]
      /\ Notify("update", c)
      /\ UNCHANGED <<deleted, informing, ctxDone, agentVars>>

Die(c) ==
  /\ c \in live
  /\ live' = live \ {c}
  /\ UNCHANGED <<pidOf, current, deleted, notes, informing, ctxDone, agentVars>>

\* A pod is deleted.  An informer that missed the watch event makes up for it
\* with a cache.DeletedFinalStateUnknown ("unknown").
DeletePod(p, kind) ==
  /\ kind \in {"delete", "unknown"}
  /\ p \notin deleted
  /\ current[p] # NoContainer
  /\ RoomForNote
  /\ deleted' = deleted \union {p}
  /\ live' = live \ {current[p]}
  /\ Notify(kind, current[p])
  /\ UNCHANGED <<pidOf, current, informing, ctxDone, agentVars>>

\* The informer delivers what its cache holds again, every 30 seconds.
Resync(p) ==
  /\ notes = <<>>
  /\ RoomForNote
  /\ p \notin deleted
  /\ current[p] # NoContainer
  /\ Notify("update", current[p])
  /\ UNCHANGED <<pidOf, live, current, deleted, informing, ctxDone, agentVars>>

\* The group of the informers is stopped before the group of the runner; what
\* waits for the handler may or may not reach it any more.
StopInformers ==
  /\ informing
  /\ informing' = FALSE
  /\ \E n \in 0..Len(notes) : notes' = SubSeq(notes, 1, n)
  /\ UNCHANGED <<pidOf, live, current, deleted, ctxDone, agentVars>>

Cancel ==
  /\ ~informing /\ ~ctxDone
  /\ ctxDone' = TRUE
  /\ UNCHANGED <<pidOf, live, current, deleted, notes, informing, agentVars>>

-----------------------------------------------------------------------------
(* H: the handlers.                                                        *)

Taken(kind) == notes # <<>> /\ Head(notes).kind = kind /\ notes' = Tail(notes)
HGoto(label) == hPc' = label
ChannelsOpen == lPc # "returned"

\* A slip: a container is taken for known once the handler has seen it.
KnownEager(c) == c \in instances \/ c = hC

\* _, exists := r.Instances[id], without r.mu.
Known(c) == c \in instances

\* onPodUpdate up to the look into r.Instances.  A map read while L writes is
\* a fatal error of the Go runtime, when the runtime notices.
TakeUpdate ==
  /\ hPc = "idle" /\ ~crashed
  /\ Taken("update")
  /\ LET c == Head(notes).c
     IN  \/ /\ hPc' = IF Known(c) THEN "idle" ELSE "inspect"
            /\ hC' = c
            /\ UNCHANGED crashed
         \/ /\ lPc = "write"
            /\ crashed' = TRUE
            /\ UNCHANGED <<hPc, hC>>
  /\ UNCHANGED <<pidOf, live, current, deleted, informing, ctxDone, lPc, lC, att, wg, mu,
                 instances, clusters, attached, history>>

\* GetContainerPid and GetChildPid.  The second reads /proc of whatever process
\* has the identifier by then, so both outcomes are open for a dead container.
Inspect(outcome) ==
  /\ hPc = "inspect" /\ ~crashed
  /\ HGoto(outcome)
  /\ UNCHANGED <<envVars, crashed, hC, lPc, lC, att, wg, mu, instances, clusters, attached, history>>

\* A slip: only ready containers, as in onPodUpdate.
KnownAndReady(c) == c \in instances /\ c \in live

\* _, exists := r.Instances[id] in onPodDelete, without r.mu.
KnownToDelete(c) == c \in instances

\* onPodDelete up to the look into r.Instances.
TakeDelete ==
  /\ hPc = "idle" /\ ~crashed
  /\ Taken("delete")
  /\ LET c == Head(notes).c
     IN  \/ /\ hPc' = IF KnownToDelete(c) THEN "lock" ELSE "idle"
            /\ hC' = c
            /\ overtaken' = overtaken \union (({c} \ instances) \intersect {lC})
            /\ UNCHANGED crashed
         \/ /\ lPc = "write"
            /\ crashed' = TRUE
            /\ UNCHANGED <<hPc, hC, overtaken>>
  /\ UNCHANGED <<pidOf, live, current, deleted, informing, ctxDone, lPc, lC, att, wg, mu,
                 instances, clusters, attached, stranded>>

\* obj.(*corev1.Pod) of a DeletedFinalStateUnknown.
TakeUnknown ==
  /\ hPc = "idle" /\ ~crashed
  /\ Taken("unknown")
  /\ crashed' = TRUE
  /\ UNCHANGED <<pidOf, live, current, deleted, informing, ctxDone, hPc, hC, lPc, lC, att, wg, mu,
                 instances, clusters, attached, history>>

\* A slip: the identifier leaves clusters, the instance stays.
DetachedHalf(c) == instances

\* delete(r.Instances, id)
Detached(c) == instances \ {c}

\* detachInstance, under r.mu.  The instance is still there, as only H removes
\* any.  A failed Delete (the identifier is not in the map) is sent to
\* internalErrChan before r.mu is given back.
Detach ==
  /\ hPc = "lock" /\ mu = "free" /\ ~crashed
  /\ IF pidOf[hC] \in clusters
     THEN /\ clusters' = clusters \ {pidOf[hC]}
          /\ instances' = Detached(hC)
          /\ HGoto("idle")
          /\ UNCHANGED mu
     ELSE /\ mu' = "H"
          /\ HGoto("errLocked")
          /\ UNCHANGED <<clusters, instances>>
  /\ overtaken' = overtaken \union ({hC} \intersect {lC})
  /\ UNCHANGED <<envVars, crashed, hC, lPc, lC, att, wg, attached, stranded>>

\* Any send of H after Start has closed the channels.
SendOnClosed ==
  /\ hPc \in {"send", "err", "errLocked"} /\ ~crashed
  /\ ~ChannelsOpen
  /\ crashed' = TRUE
  /\ UNCHANGED <<envVars, hPc, hC, lPc, lC, att, wg, mu, instances, clusters, attached, history>>

-----------------------------------------------------------------------------
(* L: the loop of Start.                                                   *)

LoopDone ==
  /\ lPc = "loop" /\ ~crashed
  /\ ctxDone
  /\ lPc' = "wait"
  /\ UNCHANGED <<envVars, crashed, hPc, hC, lC, att, wg, mu, instances, clusters, attached, history>>

\* case t := <-r.ch
LoopInstance ==
  /\ lPc = "loop" /\ hPc = "send" /\ ~crashed
  /\ lPc' = "lock" /\ lC' = hC
  /\ HGoto("idle")
  /\ UNCHANGED <<envVars, crashed, hC, att, wg, mu, instances, clusters, attached, history>>

\* case err := <-r.internalErrChan, from H ...
LoopErrorOfH ==
  /\ lPc = "loop" /\ hPc \in {"err", "errLocked"} /\ ~crashed
  /\ HGoto("idle")
  /\ mu' = IF hPc = "errLocked" THEN "free" ELSE mu
  /\ UNCHANGED <<envVars, crashed, hC, lPc, lC, att, wg, instances, clusters, attached, history>>

\* ... or from an attach goroutine, which returns then (the deferred wg.Done).
LoopErrorOfAttach ==
  /\ lPc = "loop" /\ att["err"] > 0 /\ ~crashed
  /\ att' = [att EXCEPT !["err"] = @ - 1]
  /\ wg' = wg - 1
  /\ UNCHANGED <<envVars, crashed, hPc, hC, lPc, lC, mu, instances, clusters, attached, history>>

\* attachInstance: r.mu, then the write to r.Instances, which takes its time.
AttachLock ==
  /\ lPc = "lock" /\ mu = "free" /\ ~crashed
  /\ mu' = "L"
  /\ lPc' = "write"
  /\ UNCHANGED <<envVars, crashed, hPc, hC, lC, att, wg, instances, clusters, attached, history>>

AttachWrite ==
  /\ lPc = "write" /\ ~crashed
  /\ instances' = instances \union {lC}
  /\ lPc' = "update"
  /\ UNCHANGED <<envVars, crashed, hPc, hC, lC, att, wg, mu, clusters, attached, history>>

\* A slip: no limit.
RoomForAll(i) == TRUE

\* A slip: ebpf.UpdateNoExist.
RoomForNew(i) == i \notin clusters /\ Cardinality(clusters) < ClustersCap

RoomFor(i) == i \in clusters \/ Cardinality(clusters) < ClustersCap

\* A slip: the first instance stands for all.
NothingRegistered == clusters = {}

\* !bpfProgram.Attached
NotAttached == ~attached

\* clusters.Update; a new key needs a free entry.  An error is sent to
\* internalErrChan, which only L reads: lPc = "stuck" has no next step.
AttachUpdate ==
  /\ lPc = "update" /\ ~crashed
  /\ IF RoomFor(pidOf[lC])
     THEN /\ clusters' = clusters \union {pidOf[lC]}
          /\ IF NotAttached
             THEN att' = [att EXCEPT !["open"] = @ + 1] /\ wg' = wg + 1
             ELSE UNCHANGED <<att, wg>>
          /\ stranded' = stranded \ {pidOf[lC]}
          /\ mu' = "free"
          /\ lPc' = "loop" /\ lC' = NoContainer
     ELSE /\ lPc' = "stuck"
          /\ UNCHANGED <<clusters, att, wg, mu, lC, stranded>>
  /\ UNCHANGED <<envVars, crashed, hPc, hC, instances, attached, overtaken>>

\* The deferred calls of Start: wg.Wait, then both channels are closed.
CloseChannels ==
  /\ lPc = "wait" /\ ~crashed
  /\ wg = 0
  /\ lPc' = "returned"
  /\ UNCHANGED <<envVars, crashed, hPc, hC, lC, att, wg, mu, instances, clusters, attached, history>>

-----------------------------------------------------------------------------
(* A: attach.                                                              *)

\* A slip: wg.Done before the error is sent.
OpenFailsDone ==
  /\ att["open"] > 0 /\ ~crashed
  /\ att' = [att EXCEPT !["open"] = @ - 1, !["err"] = @ + 1]
  /\ wg' = wg - 1
  /\ stranded' = IF attached THEN stranded ELSE clusters
  /\ UNCHANGED <<envVars, crashed, hPc, hC, lPc, lC, mu, instances, clusters, attached,
                 overtaken>>

\* OpenExecutable, Uprobe or Uretprobe fails.
OpenFails ==
  /\ att["open"] > 0 /\ ~crashed
  /\ att' = [att EXCEPT !["open"] = @ - 1, !["err"] = @ + 1]
  /\ UNCHANGED wg
  /\ stranded' = IF attached THEN stranded ELSE clusters
  /\ UNCHANGED <<envVars, crashed, hPc, hC, lPc, lC, mu, instances, clusters, attached,
                 overtaken>>

Open ==
  /\ att["open"] > 0 /\ ~crashed
  /\ att' = [att EXCEPT !["open"] = @ - 1, !["attached"] = @ + 1]
  /\ attached' = TRUE
  /\ stranded' = {}
  /\ UNCHANGED wg
  /\ UNCHANGED <<envVars, crashed, hPc, hC, lPc, lC, mu, instances, clusters, overtaken>>

\* A slip: attach is given a context of its own.
ContextOfItsOwn == FALSE

\* A slip: attach is given the context of the informers.
ContextOfInformers == ~informing

\* r.internalContext is a child of the context of Start.
InternalContextDone == ctxDone

\* <-ctx.Done(); the deferred calls close the probes, then count the goroutine out.
Unattach ==
  /\ att["attached"] > 0 /\ ~crashed
  /\ InternalContextDone
  /\ att' = [att EXCEPT !["attached"] = @ - 1]
  /\ wg' = wg - 1
  /\ UNCHANGED <<envVars, crashed, hPc, hC, lPc, lC, mu, instances, clusters, attached, history>>

-----------------------------------------------------------------------------
Environment ==
  \/ \E c \in Containers : (\E i \in Pids : Ready(c, i)) \/ Die(c)
  \/ \E p \in Pods : (\E kind \in {"delete", "unknown"} : DeletePod(p, kind)) \/ Resync(p)
  \/ StopInformers
  \/ Cancel

HNext ==
  \/ TakeUpdate \/ Inspect("send") \/ Inspect("err")
  \/ TakeDelete \/ TakeUnknown \/ Detach \/ SendOnClosed

LNext ==
  \/ LoopDone \/ LoopInstance \/ LoopErrorOfH \/ LoopErrorOfAttach
  \/ AttachLock \/ AttachWrite \/ AttachUpdate \/ CloseChannels

ANext == OpenFails \/ Open \/ Unattach

Next == Environment \/ HNext \/ LNext \/ ANext

Spec == Init /\ [][Next]_vars

\* Goroutines that can run do run; which ready case select takes is left open.
\* The informer's timer comes for every pod, whatever else it delivers.  The
\* inspection of a container succeeds if it is tried again and again.
Fairness ==
  /\ WF_vars(HNext) /\ WF_vars(LNext) /\ WF_vars(ANext)
  /\ SF_vars(Inspect("send"))
  /\ \A p \in Pods : SF_vars(Resync(p))

FairSpec == Spec /\ Fairness

-----------------------------------------------------------------------------
(* Properties.                                                             *)

\* The variables hold what the code can put there.
TypeOK ==
  /\ pidOf \in [Containers -> Pids \union {NoPid}]
  /\ live \subseteq Containers
  /\ current \in [Pods -> Containers \union {NoContainer}]
  /\ deleted \subseteq Pods
  /\ notes \in Seq(Note) /\ Len(notes) <= MaxNotes
  /\ informing \in BOOLEAN /\ ctxDone \in BOOLEAN
  /\ crashed \in BOOLEAN
  /\ hPc \in {"idle", "inspect", "send", "err", "lock", "errLocked"}
  /\ hC \in Containers \union {NoContainer}
  /\ lPc \in {"loop", "lock", "write", "update", "stuck", "wait", "returned"}
  /\ lC \in Containers \union {NoContainer}
  /\ att \in [Places -> Nat]
  /\ wg \in Nat
  /\ mu \in {"free", "H", "L"}
  /\ instances \subseteq Containers
  /\ clusters \subseteq Pids /\ Cardinality(clusters) <= ClustersCap
  /\ attached \in BOOLEAN
  /\ overtaken \subseteq Containers
  /\ stranded \subseteq Pids

\* The pod of c is deleted, and c was its container to the end.
LastOfDeleted(c) == PodOf[c] \in deleted /\ current[PodOf[c]] = c

\* A container that was deleted with its pod has had the identifier of c: clusters is
\* keyed by it, so its deletion takes the entry of c along (mysql.go:147).
TwinDeleted(c) == \E d \in Containers \ {c} : LastOfDeleted(d) /\ pidOf[d] = pidOf[c]

\* L has written c to r.Instances and not yet to the eBPF map.
BetweenWrites(c) == lC = c /\ lPc \in {"update", "stuck"}

\* r.Instances and the eBPF map tell the same story (attachInstance and
\* detachInstance change both under r.mu): a registered process belongs to an
\* instance, and an instance is registered unless L is between its two writes or
\* the deletion of another container with its identifier took its entry along; that
\* the identifier was used again does no harm before.
TablesAgree ==
  /\ \A i \in clusters : \E c \in instances : pidOf[c] = i
  /\ \A c \in instances :
       pidOf[c] \in clusters \/ TwinDeleted(c) \/ BetweenWrites(c)

\* H has yet to deal with the deletion of c.
DeletePending(c) ==
  \/ \E j \in 1..Len(notes) : notes[j].kind # "update" /\ notes[j].c = c
  \/ hPc = "lock" /\ hC = c

\* A deleted pod leaves no instance behind (onPodDelete), except when the deletion
\* met the container on its way through L, when the container was not the pod's
\* last, when its twin was deleted, or when the informers stopped.
NoStaleInstance ==
  \A c \in instances :
    PodOf[c] \in deleted /\ informing /\ ~crashed
      => DeletePending(c) \/ c \in overtaken \/ current[PodOf[c]] # c \/ TwinDeleted(c)

\* Start closes its channels only when no attach goroutine is left that could send on
\* them or still has its probes open: what Start waits for is a counter (91), which
\* attachInstance raises before it starts the goroutine (137) and which attach lowers
\* when it is past its last send and its probes (156).
ClosedAfterAttachers == lPc = "returned" => \A w \in Places : att[w] = 0

\* A registered process is audited, or its probes are being opened, as long as Start
\* is to go on.  The exception is what attach does not make good (mysql.go:163): when
\* it fails with no probes open, the processes registered by then wait for another
\* instance to come.
AuditedUnlessFailed ==
  ~ctxDone => \A i \in clusters : att["open"] > 0 \/ att["attached"] > 0 \/ i \in stranded

\* The three ways to get stuck, and no other, all of them with an error in hand: L
\* sends one to itself, and then clusters is full; H sends one that L, waiting for the
\* lock H holds, does not take, and then a twin was deleted; an attach
\* goroutine sends one after L has left its loop.
Overflown == lPc = "stuck" /\ Cardinality(clusters) >= ClustersCap
DeletedTwice == lPc = "lock" /\ hPc = "errLocked" /\ TwinDeleted(hC)
AttachFailedLate == lPc = "wait" /\ att["err"] > 0

\* Otherwise L, or what L waits for, goes on until Start has returned.
StuckOnlyByErrors ==
  lPc # "returned" =>
    \/ Overflown \/ DeletedTwice \/ AttachFailedLate
    \/ lPc \in {"loop", "write", "update"}
    \/ lPc = "lock" /\ mu = "free"
    \/ lPc = "wait" /\ \/ wg = 0
                       \/ att["open"] > 0
                       \/ att["attached"] > 0 /\ InternalContextDone

\* Some pair of probes is open, or else being opened.
Probes == IF att["attached"] > 0 THEN "on" ELSE IF att["open"] > 0 THEN "opening" ELSE "off"

Promise == INSTANCE AuditService WITH
  Ids <- Pids,
  Tables <- {S \in SUBSET Pids : Cardinality(S) <= ClustersCap},
  registered <- clusters, probes <- Probes, unserved <- stranded, told <- ctxDone

\* Handlers, loop and attach goroutines together keep the promise of AuditService.
KeepsPromise == Promise!Spec

\* The container serves and the agent can learn of it.
Serving(c) == c \in live /\ informing /\ ~crashed

\* The entry of c is gone with its twin's, and for good: onPodUpdate passes over what is
\* an instance (227).
TakenAlong(c) == c \in instances /\ TwinDeleted(c) /\ ~BetweenWrites(c)

\* A mysqld that stays is registered in the end, and whenever it is not, again, however
\* inspections went (the informer's resync calls onPodUpdate again).  What the code
\* does not make good: the loop is stuck with an error, or the deletion of another
\* container with the same identifier has taken the entry along.
ServingIsRegistered ==
  \A c \in Containers :
    Serving(c) ~> (pidOf[c] \in clusters \/ ~Serving(c) \/ TakenAlong(c) \/ Overflown \/ DeletedTwice)

\* Once its context is cancelled Start returns, if no attach fails.
StopsUnlessAttachFails == ctxDone ~> (lPc = "returned" \/ att["err"] > 0 \/ crashed)

\* What Runnable says of Start: it stops when the context is closed.
StopsWhenCancelled == ctxDone ~> (lPc = "returned" \/ crashed)

=============================================================================
