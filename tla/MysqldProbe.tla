---------------------------- MODULE MysqldProbe ----------------------------
(***************************************************************************)
(* mysqld threads executing dispatch_command, and the two eBPF programs    *)
(* attached to it: mysql57_query at its entry (uprobe) and                 *)
(* mysql57_query_return at its return (uretprobe).                         *)
(*                                                                         *)
(* A program runs to completion on its CPU, unpreempted.  Programs of      *)
(* different CPUs and the pump interleave: mysql57_query touches one map   *)
(* that others see (thread_db_ctx_hash, for its free entries), so it is    *)
(* one step; mysql57_query_return pushes to db_ctx_queue and then wakes    *)
(* the pump, so it is two.                                                 *)
(***************************************************************************)
EXTENDS KernelMaps

CONSTANTS
  Links,      \* pairs of uprobe and uretprobe that attach() may open
  NoThread

ASSUME ProbeAssumption == IsFiniteSet(Links) /\ NoThread \notin Threads

VARIABLES
  link,       \* state of each pair of probes
  pc,         \* where each thread is in dispatch_command
  call,       \* the command it executes, or the last one
  armed,      \* its return address is hijacked: a uretprobe existed at entry
  left,       \* uretprobes it has still to run
  onCpu,      \* on each CPU, the thread between the push and the wake-up
  nextCall,   \* number of the next command
  missed      \* history: commands no uretprobe of a registered process saw

probeVars == <<link, pc, call, armed, left, onCpu, nextCall, missed>>

UprobeOpen == \E k \in Links : link[k] \in {"up", "both", "closing"}
Uretprobes == {k \in Links : link[k] = "both"}

ProbeInit ==
  /\ link = [k \in Links |-> "off"]
  /\ pc = [t \in Threads |-> "idle"]
  /\ call = [t \in Threads |-> 0]
  /\ armed = [t \in Threads |-> FALSE]
  /\ left = [t \in Threads |-> 0]
  /\ onCpu = [c \in CPUs |-> NoThread]
  /\ nextCall = 1
  /\ missed = {}

-----------------------------------------------------------------------------
(* User space: what BpfRunner does to the kernel.                          *)

\* attachInstance: clusters.Update.
Register(p) ==
  /\ clusters' = clusters \union {p}
  /\ UNCHANGED <<threadDbCtx, dbCtxQueue, ring, ringLost, lostSamples, overwritten, probeVars>>

\* detachInstance: clusters.Delete.
Unregister(p) ==
  /\ p \in clusters
  /\ clusters' = clusters \ {p}
  /\ UNCHANGED <<threadDbCtx, dbCtxQueue, ring, ringLost, lostSamples, overwritten, probeVars>>

\* attach: Uprobe, then Uretprobe; the deferred calls close them in the
\* opposite order, and a failed Uretprobe leaves only the uprobe to close.
AttachStep(k) ==
  /\ \E s \in {<<"off", "up">>, <<"up", "both">>, <<"up", "closed">>,
               <<"both", "closing">>, <<"closing", "closed">>} :
       link[k] = s[1] /\ link' = [link EXCEPT ![k] = s[2]]
  /\ UNCHANGED <<mapVars, pc, call, armed, left, onCpu, nextCall, missed>>

-----------------------------------------------------------------------------
(* The program at the entry.                                               *)

\* A slip: the mark 0xf is set only on a fresh entry.
mysql57_query_keepMark(t, n) ==
  IF ProcOf[t] \in clusters
  THEN UpdateDbCtx(t, [call |-> n, processed |-> HasEntry(t)])
  ELSE UNCHANGED threadDbCtx

\* For a COM_QUERY of a registered process: the record of command n, marked
\* unhandled, replaces what the thread's entry held.  With several uprobes
\* attached it runs once for each, and the second run writes the same entry.
mysql57_query(t, n) ==
  IF ProcOf[t] \in clusters
  THEN UpdateDbCtx(t, [call |-> n, processed |-> FALSE])
  ELSE UNCHANGED threadDbCtx

\* Thread t enters dispatch_command, isQuery telling COM_QUERY from any other
\* command.  The kernel hijacks the return address only if some uretprobe is
\* attached now.
Enter(t, isQuery) ==
  /\ pc[t] = "idle"
  /\ nextCall <= MaxCalls
  /\ pc' = [pc EXCEPT ![t] = "body"]
  /\ call' = [call EXCEPT ![t] = nextCall]
  /\ nextCall' = nextCall + 1
  /\ armed' = [armed EXCEPT ![t] = Uretprobes # {}]
  /\ missed' = IF Uretprobes = {} THEN missed \union {nextCall} ELSE missed
  /\ IF isQuery /\ UprobeOpen THEN mysql57_query(t, nextCall) ELSE UNCHANGED threadDbCtx
  /\ UNCHANGED <<clusters, dbCtxQueue, ring, ringLost, lostSamples, overwritten,
                 link, left, onCpu>>

-----------------------------------------------------------------------------
(* The program at the return, once for each uretprobe attached by then.    *)

\* Thread t returns from dispatch_command.
Return(t) ==
  /\ pc[t] = "body"
  /\ IF armed[t] /\ Uretprobes # {}
     THEN /\ pc' = [pc EXCEPT ![t] = "return"]
          /\ left' = [left EXCEPT ![t] = Cardinality(Uretprobes)]
          /\ UNCHANGED missed
     ELSE /\ pc' = [pc EXCEPT ![t] = "idle"]
          /\ missed' = missed \union {call[t]}
          /\ UNCHANGED left
  /\ UNCHANGED <<mapVars, link, call, armed, onCpu, nextCall>>

Running(t) == \E c \in CPUs : onCpu[c] = t

\* The program is about to run for thread t.
AtProgram(t) == pc[t] = "return" /\ left[t] > 0 /\ ~Running(t)

\* One run of the program is over.
EndProgram(t) ==
  /\ left' = [left EXCEPT ![t] = @ - 1]
  /\ pc' = IF left[t] = 1 THEN [pc EXCEPT ![t] = "idle"] ELSE pc

\* A slip: the lookup of the thread's entry without the test of processed.
UnhandledAnyEntry(t) == ProcOf[t] \in clusters /\ HasEntry(t)

\* The three tests of mysql57_query_return: the process is registered, its
\* thread has an entry, and the entry is still marked 0xf.
Unhandled(t) ==
  /\ ProcOf[t] \in clusters
  /\ HasEntry(t)
  /\ ~threadDbCtx[t].processed

\* One of the early returns.
ReturnSkip(t) ==
  /\ AtProgram(t)
  /\ ~Unhandled(t)
  /\ missed' = IF ProcOf[t] \in clusters THEN missed ELSE missed \union {call[t]}
  /\ EndProgram(t)
  /\ UNCHANGED <<mapVars, link, call, armed, onCpu, nextCall>>

\* A slip: db_ctx->processed is not reset.
MarkProcessedForgotten(t) == UNCHANGED threadDbCtx

\* db_ctx->processed = 0
MarkProcessed(t) == threadDbCtx' = [threadDbCtx EXCEPT ![t].processed = TRUE]

\* The results are read into the thread's entry, the entry is marked handled
\* and its copy is queued.
ReturnPush(t, c) ==
  /\ AtProgram(t)
  /\ onCpu[c] = NoThread
  /\ Unhandled(t)
  /\ MarkProcessed(t)
  /\ PushElem([query |-> threadDbCtx[t].call, result |-> call[t]])
  /\ onCpu' = [onCpu EXCEPT ![c] = t]
  /\ UNCHANGED <<clusters, ring, ringLost, lostSamples,
                 link, pc, call, armed, left, nextCall, missed>>

\* ... and the pump is woken through the perf ring of this CPU.
ReturnOutput(c) ==
  /\ onCpu[c] # NoThread
  /\ PerfOutput(c)
  /\ EndProgram(onCpu[c])
  /\ onCpu' = [onCpu EXCEPT ![c] = NoThread]
  /\ UNCHANGED <<clusters, threadDbCtx, dbCtxQueue, overwritten,
                 link, call, armed, nextCall, missed>>

-----------------------------------------------------------------------------
\* A mysqld process dies with commands in execution.  Its thread numbers, and
\* the entries under them, wait for whatever gets these numbers next.
Kill(p) ==
  LET victims == {t \in Threads : ProcOf[t] = p /\ pc[t] = "body"}
  IN  /\ victims # {}
      /\ \A t \in Threads : ProcOf[t] = p => pc[t] # "return"
      /\ pc' = [t \in Threads |-> IF t \in victims THEN "idle" ELSE pc[t]]
      /\ missed' = missed \union {call[t] : t \in victims}
      /\ UNCHANGED <<mapVars, link, call, armed, left, onCpu, nextCall>>

ProbeNext ==
  \/ \E p \in Procs : Register(p) \/ Unregister(p) \/ Kill(p)
  \/ \E k \in Links : AttachStep(k)
  \/ \E t \in Threads :
       \/ \E isQuery \in BOOLEAN : Enter(t, isQuery)
       \/ Return(t)
       \/ ReturnSkip(t)
       \/ \E c \in CPUs : ReturnPush(t, c)
  \/ \E c \in CPUs : ReturnOutput(c)

ProbeTypeOK ==
  /\ link \in [Links -> {"off", "up", "both", "closing", "closed"}]
  /\ pc \in [Threads -> {"idle", "body", "return"}]
  /\ call \in [Threads -> 0..MaxCalls]
  /\ armed \in [Threads -> BOOLEAN]
  /\ left \in [Threads -> Nat]
  /\ onCpu \in [CPUs -> Threads \union {NoThread}]
  /\ nextCall \in 1..(MaxCalls + 1)
  /\ missed \subseteq Call

=============================================================================
