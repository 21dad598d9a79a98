----------------------------- MODULE EventPump -----------------------------
(***************************************************************************)
(* The loop of eventPump.Start: every perf sample makes it pop one record  *)
(* off db_ctx_queue and print it.  The sample itself is not looked at, so  *)
(* nothing ties it to the record that is popped.                           *)
(***************************************************************************)
EXTENDS KernelMaps

CONSTANT ZeroCtx    \* the initial value of the variable dbCtx

ASSUME PumpAssumption == ZeroCtx \notin DbCtx

VARIABLES
  pumpPc,     \* "loop": at the select; "read": in rd.Read; "pop": has a sample;
              \* "stopped": Start has returned
  dbCtx,      \* the local variable the popped record is copied to
  log,        \* the records printed, oldest first
  ctxDone,    \* the context of the pump's group is cancelled
  rdClosed    \* the manager has closed the perf reader

pumpVars == <<pumpPc, dbCtx, log, ctxDone, rdClosed>>

PumpInit ==
  /\ pumpPc = "loop"
  /\ dbCtx = ZeroCtx
  /\ log = <<>>
  /\ ctxDone = FALSE
  /\ rdClosed = FALSE

\* select { case <-ctx.Done(): return nil; default: .. }
PumpSelect ==
  /\ pumpPc = "loop"
  /\ pumpPc' = IF ctxDone THEN "stopped" ELSE "read"
  /\ UNCHANGED <<mapVars, dbCtx, log, ctxDone, rdClosed>>

\* A slip: a report of lost samples is taken for a sample.
AfterReadNoLostCheck(what) == "pop"

\* record.LostSamples != 0 sends the loop round; a sample goes on to the pop.
AfterRead(what) == IF what = "sample" THEN "pop" ELSE "loop"

\* rd.Read returns a record.
PumpRead ==
  /\ pumpPc = "read"
  /\ ~rdClosed
  /\ \E s \in RingSlots :
       /\ ring[s] # "free"
       /\ ring' = [ring EXCEPT ![s] = "free"]
       /\ pumpPc' = AfterRead(ring[s])
  /\ UNCHANGED <<clusters, threadDbCtx, dbCtxQueue, ringLost, lostSamples, overwritten,
                 dbCtx, log, ctxDone, rdClosed>>

\* A slip: only the context ends the loop.
ReadFailedRetryAlways == "loop"

\* rd.Read fails: ErrClosed ends the pump, any other error sends it round.
ReadFailed == IF rdClosed THEN "stopped" ELSE "loop"

PumpReadError ==
  /\ pumpPc = "read"
  /\ pumpPc' = ReadFailed
  /\ UNCHANGED <<mapVars, dbCtx, log, ctxDone, rdClosed>>

\* LookupAndDelete, then Print.  On an empty queue (ErrKeyNotExist) dbCtx
\* keeps its value, which is printed again.
PumpPop ==
  /\ pumpPc = "pop"
  /\ pumpPc' = "loop"
  /\ IF dbCtxQueue = <<>>
     THEN UNCHANGED <<dbCtx, dbCtxQueue>>
     ELSE /\ dbCtx' = Head(dbCtxQueue)
          /\ dbCtxQueue' = Tail(dbCtxQueue)
  /\ log' = Append(log, dbCtx')
  /\ UNCHANGED <<clusters, threadDbCtx, ring, ringLost, lostSamples, overwritten,
                 ctxDone, rdClosed>>

\* LookupAndDelete fails in another way: Start returns the error.
PumpPopError ==
  /\ pumpPc = "pop"
  /\ pumpPc' = "stopped"
  /\ UNCHANGED <<mapVars, dbCtx, log, ctxDone, rdClosed>>

\* The manager's shutdown, in either order: the group's context is cancelled
\* by StopAndWait, the reader is closed by the goroutine that drains errors.
CancelPump ==
  /\ ~ctxDone
  /\ ctxDone' = TRUE
  /\ UNCHANGED <<mapVars, pumpPc, dbCtx, log, rdClosed>>

CloseReader ==
  /\ ~rdClosed
  /\ rdClosed' = TRUE
  /\ UNCHANGED <<mapVars, pumpPc, dbCtx, log, ctxDone>>

PumpNext ==
  PumpSelect \/ PumpRead \/ PumpReadError \/ PumpPop \/ PumpPopError \/ CancelPump \/ CloseReader

PumpTypeOK ==
  /\ pumpPc \in {"loop", "read", "pop", "stopped"}
  /\ dbCtx \in DbCtx \union {ZeroCtx}
  /\ log \in Seq(DbCtx \union {ZeroCtx})
  /\ ctxDone \in BOOLEAN
  /\ rdClosed \in BOOLEAN

=============================================================================
