----------------------------- MODULE AuditPath -----------------------------
(***************************************************************************)
(* The path of an audit record, from dispatch_command in mysqld to the log *)
(* of the agent: the probes (MysqldProbe) and the pump (EventPump) over    *)
(* the maps they share (KernelMaps).                                       *)
(***************************************************************************)
EXTENDS MysqldProbe, EventPump

vars == <<mapVars, probeVars, pumpVars>>

Init == MapsInit /\ ProbeInit /\ PumpInit

Next ==
  \/ ProbeNext /\ UNCHANGED pumpVars
  \/ PumpNext /\ UNCHANGED probeVars

Spec == Init /\ [][Next]_vars

\* mysqld finishes the commands it started and the kernel the programs it
\* runs.  The pump's goroutine is scheduled; rd.Read may fail now and then,
\* not for ever while records wait.
Fairness ==
  /\ \A t \in Threads :
       /\ WF_vars(Return(t) /\ UNCHANGED pumpVars)
       /\ WF_vars((ReturnSkip(t) \/ \E c \in CPUs : ReturnPush(t, c)) /\ UNCHANGED pumpVars)
  /\ \A c \in CPUs : WF_vars(ReturnOutput(c) /\ UNCHANGED pumpVars)
  /\ WF_vars(PumpSelect /\ UNCHANGED probeVars)
  /\ WF_vars(PumpPop /\ UNCHANGED probeVars)
  /\ SF_vars(PumpRead /\ UNCHANGED probeVars)
  /\ WF_vars(PumpReadError /\ rdClosed /\ UNCHANGED probeVars)

FairSpec == Spec /\ Fairness

-----------------------------------------------------------------------------
(* What the invariants count.                                              *)

Samples == {s \in RingSlots : ring[s] = "sample"}
Waking == {c \in CPUs : onCpu[c] # NoThread}
Popping == IF pumpPc = "pop" THEN 1 ELSE 0

\* The queue outlasts every sample that can be on its way: those in the rings,
\* one about to be written on each CPU and the one the pump holds.
RoomForBacklog == QueueCap > Cardinality(RingSlots) + Cardinality(CPUs)

Reported == log \o dbCtxQueue
InLog(n) == \E i \in DOMAIN log : log[i] # ZeroCtx /\ log[i].query = n

OpenCalls == [t \in Threads |-> IF threadDbCtx[t].processed THEN 0 ELSE threadDbCtx[t].call]
Queries(s) == [i \in DOMAIN s |-> s[i].query]

\* The promise of AuditLog, read off the maps and the log.
Promise == INSTANCE AuditLog WITH
  Tables <- {S \in SUBSET Threads : Cardinality(S) <= HashCap},
  tracked <- {t \in Threads : HasEntry(t)},
  Capacity <- QueueCap,
  next <- nextCall,
  open <- OpenCalls,
  backlog <- Queries(dbCtxQueue),
  out <- Queries(log)

-----------------------------------------------------------------------------
(* Properties.                                                             *)

\* Type correctness of the maps, the probes and the pump.
TypeOK == MapsTypeOK /\ ProbeTypeOK /\ PumpTypeOK

\* pump.go ignores ErrKeyNotExist and prints dbCtx all the same: with an empty
\* queue the previous record would be logged twice.  Whenever the pump holds a
\* sample the queue has a record for it, if the queue has room for a backlog.
PopFindsRecord == pumpPc = "pop" => dbCtxQueue # <<>>

\* Records and samples travel separately and are never matched.  The queue
\* holds one record for each sample that is on its way plus one for each
\* sample a full ring lost, less those a full queue dropped: after a loss the
\* pump stays behind by as many records for good.
QueueBalance ==
  pumpPc # "stopped" =>
    Len(dbCtxQueue) + overwritten
      = Cardinality(Samples) + Cardinality(Waking) + Popping + lostSamples

\* A record is dropped from a full queue only to make up for a lost sample: while the
\* pump runs, a burst alone costs no record, if the queue has room for a backlog.
DropsOnlyAfterLoss == pumpPc # "stopped" => overwritten <= lostSamples

\* However many uretprobes see one return (attach() may run twice for one
\* program), a command reaches the log or the queue once.
NoDuplicateReport ==
  \A i, j \in DOMAIN Reported :
    i # j => Reported[i] = ZeroCtx \/ Reported[j] = ZeroCtx
               \/ Reported[i].query # Reported[j].query

\* A record pairs the text of one command with the results of another only if
\* no uretprobe of a registered process saw the first command return: it was
\* entered between attach's Uprobe and Uretprobe, its process was killed or
\* was unregistered in the meantime.
Attribution ==
  \A i \in DOMAIN Reported :
    Reported[i] # ZeroCtx /\ Reported[i].query # Reported[i].result
      => Reported[i].query \in missed

\* Probes, maps, rings and pump together keep the promise of AuditLog: a lossy
\* first-in first-out path in the order the commands were finished, for the threads
\* that got into thread_db_ctx_hash, which are never more than it holds and never
\* leave it.
KeepsPromise == Promise!Spec

\* A command whose record the uprobe stored gets into the log, unless its
\* return was missed, a sample or record was lost to a full buffer, or the
\* pump has stopped.
RecordedIsLogged ==
  \A n \in Call :
    (\E t \in Threads : threadDbCtx[t].call = n)
      ~> (InLog(n) \/ n \in missed \/ lostSamples + overwritten > 0 \/ pumpPc = "stopped")

\* Closing the perf reader stops the pump: without it a pump blocked in Read
\* would never look at its context again.
CloseStopsPump == rdClosed ~> pumpPc = "stopped"

=============================================================================
