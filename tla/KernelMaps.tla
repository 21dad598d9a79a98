----------------------------- MODULE KernelMaps -----------------------------
(***************************************************************************)
(* The eBPF maps of mysqld_probe.c that more than one program touches:     *)
(*                                                                         *)
(*   clusters            which mysqld processes are registered for audit;  *)
(*   thread_db_ctx_hash  one open or finished record per OS thread;        *)
(*   db_ctx_queue        the finished records, oldest first;               *)
(*   events              one perf ring per CPU that wakes the pump.        *)
(*                                                                         *)
(* A record is abstracted to the command it describes.  A command is a     *)
(* number, unique to one execution of dispatch_command.                    *)
(***************************************************************************)
EXTENDS Integers, Sequences, FiniteSets

CONSTANTS
  Procs,      \* mysqld processes (tgid, the upper half of gtid)
  Threads,    \* their OS threads (tid, the lower half of gtid)
  ProcOf,     \* [Threads -> Procs]
  CPUs,       \* one perf ring each
  HashCap,    \* max_entries of thread_db_ctx_hash
  QueueCap,   \* max_entries of db_ctx_queue
  RingCap,    \* records that fit one perf ring (one page, 24 bytes a record)
  MaxCalls    \* bound: commands executed in a behaviour

ASSUME MapsAssumption ==
  /\ ProcOf \in [Threads -> Procs]
  /\ IsFiniteSet(Threads)
  /\ IsFiniteSet(CPUs)
  /\ HashCap \in Nat /\ QueueCap \in Nat \ {0} /\ RingCap \in Nat \ {0}
  /\ MaxCalls \in Nat

VARIABLES
  clusters,         \* the registered processes
  threadDbCtx,      \* thread_db_ctx_hash
  dbCtxQueue,       \* db_ctx_queue
  ring,             \* what each slot of each perf ring holds
  ringLost,         \* losses of each ring that it has not reported yet
  lostSamples,      \* history: samples that found their ring full
  overwritten       \* history: records pushed out of a full db_ctx_queue

mapVars == <<clusters, threadDbCtx, dbCtxQueue, ring, ringLost, lostSamples, overwritten>>

Call == 1..MaxCalls

\* An entry of thread_db_ctx_hash: call is 0 where the thread has no entry, and
\* processed tells 0xf (the uretprobe still has to handle it) from 0.
DbCtxEntry == [call : 0..MaxCalls, processed : BOOLEAN]
NoEntry == [call |-> 0, processed |-> TRUE]
HasEntry(t) == threadDbCtx[t].call # 0

\* A finished record: the command whose text, user and database the uprobe
\* stored, and the command whose row counts and errno the uretprobe stored.
DbCtx == [query : Call, result : Call]

RingSlots == CPUs \X (1..RingCap)
FreeSlots(c) == {s \in {c} \X (1..RingCap) : ring[s] = "free"}

MapsInit ==
  /\ clusters = {}
  /\ threadDbCtx = [t \in Threads |-> NoEntry]
  /\ dbCtxQueue = <<>>
  /\ ring = [s \in RingSlots |-> "free"]
  /\ ringLost = [c \in CPUs |-> 0]
  /\ lostSamples = 0
  /\ overwritten = 0

-----------------------------------------------------------------------------
(* Plausible slips in the map operations, for the mutants of PROJECT.json. *)

\* max_entries ignored: the oldest record makes room for a new one too early.
PushElemTooSmall(rec) ==
  /\ dbCtxQueue' = <<rec>>
  /\ overwritten' = overwritten + Len(dbCtxQueue)

\* max_entries ignored: the queue grows without bound.
PushElemUnbounded(rec) ==
  /\ dbCtxQueue' = Append(dbCtxQueue, rec)
  /\ UNCHANGED overwritten

\* A last-in first-out map (BPF_MAP_TYPE_STACK) in place of the queue.
PushElemStack(rec) ==
  /\ dbCtxQueue' = <<rec>> \o dbCtxQueue
  /\ UNCHANGED overwritten

\* A map of type BPF_MAP_TYPE_LRU_HASH: a full one lets another entry go.
UpdateDbCtxEvicts(t, entry) ==
  IF HasEntry(t) \/ Cardinality({u \in Threads : HasEntry(u)}) < HashCap
  THEN threadDbCtx' = [threadDbCtx EXCEPT ![t] = entry]
  ELSE \E u \in Threads :
         HasEntry(u) /\ threadDbCtx' = [threadDbCtx EXCEPT ![t] = entry, ![u] = NoEntry]

-----------------------------------------------------------------------------
\* bpf_map_update_elem(&thread_db_ctx_hash, .., BPF_ANY): a new key needs a
\* free entry, and no entry is ever deleted.
UpdateDbCtx(t, entry) ==
  IF HasEntry(t) \/ Cardinality({u \in Threads : HasEntry(u)}) < HashCap
  THEN threadDbCtx' = [threadDbCtx EXCEPT ![t] = entry]
  ELSE UNCHANGED threadDbCtx

\* bpf_map_push_elem(&db_ctx_queue, .., BPF_EXIST): a full queue drops its
\* oldest record.
PushElem(rec) ==
  IF Len(dbCtxQueue) = QueueCap
  THEN /\ dbCtxQueue' = Append(Tail(dbCtxQueue), rec)
       /\ overwritten' = overwritten + 1
  ELSE /\ dbCtxQueue' = Append(dbCtxQueue, rec)
       /\ UNCHANGED overwritten

\* bpf_perf_event_output(.., &events, BPF_F_CURRENT_CPU, ..): a ring that has
\* lost samples reports them in a record of its own ahead of the next sample,
\* so it then needs two free slots.
PerfOutput(c) ==
  LET free == FreeSlots(c)
  IN  \/ /\ ringLost[c] = 0
         /\ \E s \in free : ring' = [ring EXCEPT ![s] = "sample"]
         /\ UNCHANGED <<ringLost, lostSamples>>
      \/ /\ ringLost[c] > 0
         /\ \E s, l \in free :
              /\ s # l
              /\ ring' = [ring EXCEPT ![s] = "sample", ![l] = "lost"]
         /\ ringLost' = [ringLost EXCEPT ![c] = 0]
         /\ UNCHANGED lostSamples
      \/ /\ IF ringLost[c] = 0 THEN free = {} ELSE \A s, l \in free : s = l
         /\ ringLost' = [ringLost EXCEPT ![c] = @ + 1]
         /\ lostSamples' = lostSamples + 1
         /\ UNCHANGED ring

MapsTypeOK ==
  /\ clusters \subseteq Procs
  /\ threadDbCtx \in [Threads -> DbCtxEntry]
  /\ dbCtxQueue \in Seq(DbCtx)
  /\ Len(dbCtxQueue) <= QueueCap
  /\ ring \in [RingSlots -> {"free", "sample", "lost"}]
  /\ ringLost \in [CPUs -> Nat]
  /\ lostSamples \in Nat
  /\ overwritten \in Nat

=============================================================================
