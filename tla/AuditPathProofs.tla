-------------------------- MODULE AuditPathProofs --------------------------
(***************************************************************************)
(* Proofs about AuditPath, for every number of processes, threads, CPUs,   *)
(* probes and commands and every capacity of the maps.                     *)
(***************************************************************************)
EXTENDS AuditPath, FiniteSetTheorems, TLAPS

-----------------------------------------------------------------------------
(* Type correctness.                                                       *)

\* What the types need of the control state: a thread in dispatch_command
\* executes a command, and a program between its push and its wake-up belongs
\* to one returning thread, whose entry it has marked.
ProgramInv ==
  /\ \A t \in Threads : pc[t] # "idle" => call[t] \in Call
  /\ \A c \in CPUs : onCpu[c] # NoThread =>
       /\ onCpu[c] \in Threads
       /\ pc[onCpu[c]] = "return"
       /\ left[onCpu[c]] > 0
       /\ threadDbCtx[onCpu[c]].processed
  /\ \A c, d \in CPUs : onCpu[c] # NoThread /\ onCpu[c] = onCpu[d] => c = d

TypeInv == TypeOK /\ ProgramInv

LEMMA CallType == Call \subseteq 0..MaxCalls /\ \A n \in Call : n # 0
BY MapsAssumption DEF Call

\* BPF_ANY on thread_db_ctx_hash keeps it a table of entries and touches the
\* entry of one thread only.
LEMMA UpdateDbCtxType ==
  ASSUME threadDbCtx \in [Threads -> DbCtxEntry],
         NEW t \in Threads, NEW entry \in DbCtxEntry, UpdateDbCtx(t, entry)
  PROVE  /\ threadDbCtx' \in [Threads -> DbCtxEntry]
         /\ \A u \in Threads \ {t} : threadDbCtx'[u] = threadDbCtx[u]
         /\ threadDbCtx'[t] \in {threadDbCtx[t], entry}
BY DEF UpdateDbCtx

\* The uprobe program writes at most the entry of its own thread.
LEMMA QueryProgramType ==
  ASSUME threadDbCtx \in [Threads -> DbCtxEntry],
         NEW t \in Threads, NEW n \in Call, mysql57_query(t, n)
  PROVE  /\ threadDbCtx' \in [Threads -> DbCtxEntry]
         /\ \A u \in Threads \ {t} : threadDbCtx'[u] = threadDbCtx[u]
         /\ threadDbCtx'[t] \in {threadDbCtx[t], [call |-> n, processed |-> FALSE]}
<1> DEFINE entry == [call |-> n, processed |-> FALSE]
<1>1. entry \in DbCtxEntry BY CallType DEF DbCtxEntry
<1>2. CASE ProcOf[t] \in clusters
  <2>1. UpdateDbCtx(t, entry) BY <1>2 DEF mysql57_query
  <2> QED BY <1>1, <2>1, UpdateDbCtxType
<1>3. CASE ProcOf[t] \notin clusters BY <1>3 DEF mysql57_query
<1> QED BY <1>2, <1>3

\* A push keeps the queue within max_entries.
LEMMA PushElemType ==
  ASSUME dbCtxQueue \in Seq(DbCtx), Len(dbCtxQueue) <= QueueCap, overwritten \in Nat,
         NEW rec \in DbCtx, PushElem(rec)
  PROVE  /\ dbCtxQueue' \in Seq(DbCtx)
         /\ Len(dbCtxQueue') <= QueueCap
         /\ overwritten' \in Nat
         /\ Len(dbCtxQueue') + overwritten' = Len(dbCtxQueue) + overwritten + 1
<1>1. CASE Len(dbCtxQueue) = QueueCap
  <2>1. dbCtxQueue # <<>> BY <1>1, MapsAssumption
  <2>2. Tail(dbCtxQueue) \in Seq(DbCtx) /\ Len(Tail(dbCtxQueue)) = Len(dbCtxQueue) - 1
    BY <2>1
  <2>3. dbCtxQueue' = Append(Tail(dbCtxQueue), rec) /\ overwritten' = overwritten + 1
    BY <1>1 DEF PushElem
  <2>4. Append(Tail(dbCtxQueue), rec) \in Seq(DbCtx) BY <2>2
  <2>5. Len(Append(Tail(dbCtxQueue), rec)) = Len(dbCtxQueue) - 1 + 1 BY <2>2
  <2>6. Len(dbCtxQueue') = Len(dbCtxQueue) BY <2>3, <2>5
  <2> QED BY <2>3, <2>4, <2>6
<1>2. CASE Len(dbCtxQueue) # QueueCap
  <2>1. dbCtxQueue' = Append(dbCtxQueue, rec) /\ overwritten' = overwritten
    BY <1>2 DEF PushElem
  <2>2. Append(dbCtxQueue, rec) \in Seq(DbCtx) OBVIOUS
  <2>3. Len(Append(dbCtxQueue, rec)) = Len(dbCtxQueue) + 1 OBVIOUS
  <2>4. Len(dbCtxQueue) \in Nat OBVIOUS
  <2>5. Len(dbCtxQueue) + 1 <= QueueCap BY <1>2, <2>4, MapsAssumption
  <2>6. Len(dbCtxQueue') = Len(dbCtxQueue) + 1 BY <2>1, <2>3
  <2> QED BY <2>1, <2>2, <2>4, <2>5, <2>6, MapsAssumption
<1> QED BY <1>1, <1>2

\* A wake-up takes a free slot or is counted as lost.
LEMMA PerfOutputType ==
  ASSUME ring \in [RingSlots -> {"free", "sample", "lost"}], ringLost \in [CPUs -> Nat],
         lostSamples \in Nat, NEW c \in CPUs, PerfOutput(c)
  PROVE  /\ ring' \in [RingSlots -> {"free", "sample", "lost"}]
         /\ ringLost' \in [CPUs -> Nat]
         /\ lostSamples' \in Nat
BY DEF PerfOutput

LEMMA NoThreadType == \A t \in Threads : t # NoThread
BY ProbeAssumption

LEMMA LinksFinite == Cardinality(Uretprobes) \in Nat
<1>1. Uretprobes \in SUBSET Links BY DEF Uretprobes
<1> QED BY <1>1, ProbeAssumption, FS_Subset, FS_CardinalityType

LEMMA TypeInit == Init => TypeInv
<1> SUFFICES ASSUME Init PROVE TypeInv OBVIOUS
<1> USE DEF Init, MapsInit, ProbeInit, PumpInit
<1>1. MapsTypeOK BY MapsAssumption DEF MapsTypeOK, DbCtxEntry, NoEntry
<1>2. ProbeTypeOK BY MapsAssumption DEF ProbeTypeOK
<1>3. PumpTypeOK
  <2>1. log \in Seq(DbCtx \union {ZeroCtx}) BY DEF PumpInit
  <2>2. ctxDone \in BOOLEAN /\ rdClosed \in BOOLEAN BY DEF PumpInit
  <2> QED BY <2>1, <2>2 DEF PumpTypeOK
<1>4. ProgramInv BY DEF ProgramInv
<1> QED BY <1>1, <1>2, <1>3, <1>4 DEF TypeInv, TypeOK

LEMMA MapsUnchanged == MapsTypeOK /\ UNCHANGED mapVars => MapsTypeOK'
BY DEF MapsTypeOK, mapVars, FreeSlots

LEMMA ProbeUnchanged == ProbeTypeOK /\ UNCHANGED probeVars => ProbeTypeOK'
BY DEF ProbeTypeOK, probeVars

LEMMA PumpUnchanged == PumpTypeOK /\ UNCHANGED pumpVars => PumpTypeOK'
BY DEF PumpTypeOK, pumpVars

LEMMA ProgramUnchanged ==
  ProgramInv /\ UNCHANGED <<pc, call, left, onCpu, threadDbCtx>> => ProgramInv'
BY DEF ProgramInv

\* The steps of mysqld and the probes keep the types.
LEMMA TypeProbeNext == TypeInv /\ ProbeNext /\ UNCHANGED pumpVars => TypeInv'
<1> SUFFICES ASSUME TypeInv, ProbeNext, UNCHANGED pumpVars PROVE TypeInv' OBVIOUS
<1> USE DEF TypeInv, TypeOK
<1>pump. PumpTypeOK' BY PumpUnchanged
<1>1. ASSUME NEW p \in Procs, Register(p) \/ Unregister(p) PROVE TypeInv'
  <2>1. MapsTypeOK' BY <1>1 DEF Register, Unregister, MapsTypeOK
  <2>2. UNCHANGED probeVars /\ UNCHANGED threadDbCtx BY <1>1 DEF Register, Unregister
  <2>3. ProbeTypeOK' BY <2>2, ProbeUnchanged
  <2>4. ProgramInv' BY <2>2, ProgramUnchanged DEF probeVars
  <2> QED BY <1>pump, <2>1, <2>3, <2>4
<1>2. ASSUME NEW k \in Links, AttachStep(k) PROVE TypeInv'
  <2>1. MapsTypeOK' BY <1>2, MapsUnchanged DEF AttachStep
  <2>2. ProbeTypeOK' BY <1>2 DEF AttachStep, ProbeTypeOK
  <2>3. ProgramInv' BY <1>2, ProgramUnchanged DEF AttachStep, mapVars
  <2> QED BY <1>pump, <2>1, <2>2, <2>3
<1>3. ASSUME NEW t \in Threads, NEW isQuery \in BOOLEAN, Enter(t, isQuery) PROVE TypeInv'
  <2> USE <1>3 DEF Enter
  <2>1. nextCall \in Call BY MapsAssumption DEF ProbeTypeOK, Call
  <2>2. /\ threadDbCtx' \in [Threads -> DbCtxEntry]
        /\ \A u \in Threads \ {t} : threadDbCtx'[u] = threadDbCtx[u]
    <3>1. CASE isQuery /\ UprobeOpen BY <2>1, <3>1, QueryProgramType DEF MapsTypeOK
    <3>2. CASE ~(isQuery /\ UprobeOpen) BY <3>2 DEF MapsTypeOK
    <3> QED BY <3>1, <3>2
  <2>3. MapsTypeOK' BY <2>2 DEF MapsTypeOK
  <2>4. ProbeTypeOK'
    <3>1. call' \in [Threads -> 0..MaxCalls] BY <2>1, CallType DEF ProbeTypeOK
    <3>2. nextCall' \in 1..(MaxCalls + 1) BY <2>1, MapsAssumption DEF Call
    <3>3. missed' \subseteq Call BY <2>1 DEF ProbeTypeOK
    <3>4. armed' \in [Threads -> BOOLEAN] BY DEF ProbeTypeOK
    <3> QED BY <3>1, <3>2, <3>3, <3>4 DEF ProbeTypeOK
  <2>5. \A c \in CPUs : onCpu[c] # t BY NoThreadType DEF ProgramInv
  <2>6. ProgramInv' BY <2>1, <2>2, <2>5 DEF ProgramInv, ProbeTypeOK
  <2> QED BY <1>pump, <2>3, <2>4, <2>6
<1>4. ASSUME NEW t \in Threads, Return(t) PROVE TypeInv'
  <2> USE <1>4 DEF Return
  <2>1. MapsTypeOK' BY MapsUnchanged
  <2>2. ProbeTypeOK' BY LinksFinite DEF ProbeTypeOK, ProgramInv
  <2>3. \A c \in CPUs : onCpu[c] # t BY NoThreadType DEF ProgramInv
  <2>4. ProgramInv' BY <2>3 DEF ProgramInv, ProbeTypeOK, mapVars
  <2> QED BY <1>pump, <2>1, <2>2, <2>4
<1>5. ASSUME NEW t \in Threads, ReturnSkip(t) PROVE TypeInv'
  <2> USE <1>5 DEF ReturnSkip
  <2>1. MapsTypeOK' BY MapsUnchanged
  <2>2. ProbeTypeOK' BY DEF ProbeTypeOK, ProgramInv, AtProgram, EndProgram
  <2>3. \A c \in CPUs : onCpu[c] # t BY DEF AtProgram, Running
  <2>4. ProgramInv' BY <2>3 DEF ProgramInv, ProbeTypeOK, mapVars, EndProgram, AtProgram
  <2> QED BY <1>pump, <2>1, <2>2, <2>4
<1>6. ASSUME NEW t \in Threads, NEW c \in CPUs, ReturnPush(t, c) PROVE TypeInv'
  <2> USE <1>6 DEF ReturnPush
  <2> DEFINE rec == [query |-> threadDbCtx[t].call, result |-> call[t]]
  <2>1. rec \in DbCtx
    BY CallType DEF MapsTypeOK, DbCtxEntry, DbCtx, Unhandled, HasEntry, Call, ProgramInv, AtProgram
  <2>2. threadDbCtx' \in [Threads -> DbCtxEntry]
    BY DEF MarkProcessed, MapsTypeOK, DbCtxEntry
  <2>3. MapsTypeOK' BY <2>1, <2>2, PushElemType DEF MapsTypeOK
  <2>4. ProbeTypeOK' BY DEF ProbeTypeOK
  <2>5. \A d \in CPUs : onCpu[d] # t BY DEF AtProgram, Running
  <2>6. \A u \in Threads : threadDbCtx[u].processed => threadDbCtx'[u].processed
    BY DEF MarkProcessed, MapsTypeOK, DbCtxEntry
  <2>7. threadDbCtx'[t].processed BY DEF MarkProcessed, MapsTypeOK, DbCtxEntry
  <2>8. ProgramInv' BY <2>5, <2>6, <2>7, NoThreadType DEF ProgramInv, ProbeTypeOK, AtProgram
  <2> QED BY <1>pump, <2>3, <2>4, <2>8
<1>7. ASSUME NEW c \in CPUs, ReturnOutput(c) PROVE TypeInv'
  <2> USE <1>7 DEF ReturnOutput
  <2> DEFINE t == onCpu[c]
  <2>1. t \in Threads /\ pc[t] = "return" /\ left[t] > 0 BY DEF ProgramInv
  <2>2. MapsTypeOK' BY PerfOutputType DEF MapsTypeOK
  <2>3. ProbeTypeOK' BY <2>1 DEF ProbeTypeOK, EndProgram
  <2>4. \A d \in CPUs \ {c} : onCpu[d] # t BY <2>1, NoThreadType DEF ProgramInv
  <2>5. ProgramInv' BY <2>1, <2>4 DEF ProgramInv, ProbeTypeOK, EndProgram
  <2> QED BY <1>pump, <2>2, <2>3, <2>5
<1>8. ASSUME NEW p \in Procs, Kill(p) PROVE TypeInv'
  <2> USE <1>8 DEF Kill
  <2>1. MapsTypeOK' BY MapsUnchanged
  <2>2. ProbeTypeOK' BY DEF ProbeTypeOK, ProgramInv
  <2>3. ProgramInv' BY DEF ProgramInv, ProbeTypeOK, mapVars
  <2> QED BY <1>pump, <2>1, <2>2, <2>3
<1> QED BY <1>1, <1>2, <1>3, <1>4, <1>5, <1>6, <1>7, <1>8 DEF ProbeNext

\* The steps of the pump keep the types.
LEMMA TypePumpNext == TypeInv /\ PumpNext /\ UNCHANGED probeVars => TypeInv'
<1> SUFFICES ASSUME TypeInv, PumpNext, UNCHANGED probeVars PROVE TypeInv' OBVIOUS
<1> USE DEF TypeInv, TypeOK
<1>probe. ProbeTypeOK' BY ProbeUnchanged
<1>program. UNCHANGED threadDbCtx => ProgramInv' BY ProgramUnchanged DEF probeVars
<1>1. CASE PumpSelect \/ PumpReadError \/ PumpPopError \/ CancelPump \/ CloseReader
  <2>1. UNCHANGED mapVars
    BY <1>1 DEF PumpSelect, PumpReadError, PumpPopError, CancelPump, CloseReader
  <2>2. MapsTypeOK' BY <2>1, MapsUnchanged
  <2>3. UNCHANGED <<dbCtx, log>>
    BY <1>1 DEF PumpSelect, PumpReadError, PumpPopError, CancelPump, CloseReader
  <2>4. pumpPc' \in {"loop", "read", "pop", "stopped"}
    BY <1>1 DEF PumpSelect, PumpReadError, PumpPopError, CancelPump, CloseReader,
                ReadFailed, PumpTypeOK
  <2>5. ctxDone' \in BOOLEAN /\ rdClosed' \in BOOLEAN
    BY <1>1 DEF PumpSelect, PumpReadError, PumpPopError, CancelPump, CloseReader, PumpTypeOK
  <2>6. PumpTypeOK' BY <2>3, <2>4, <2>5 DEF PumpTypeOK
  <2> QED BY <1>probe, <1>program, <2>1, <2>2, <2>6 DEF mapVars
<1>2. CASE PumpRead
  <2> USE <1>2 DEF PumpRead
  <2>1. MapsTypeOK' BY DEF MapsTypeOK
  <2>2. PumpTypeOK' BY DEF PumpTypeOK, AfterRead
  <2> QED BY <1>probe, <1>program, <2>1, <2>2
<1>3. CASE PumpPop
  <2> USE <1>3 DEF PumpPop
  <2>1. MapsTypeOK' /\ dbCtx' \in DbCtx \union {ZeroCtx}
    <3>1. CASE dbCtxQueue = <<>> BY <3>1 DEF MapsTypeOK, PumpTypeOK
    <3>2. CASE dbCtxQueue # <<>>
      <4>1. /\ Head(dbCtxQueue) \in DbCtx
            /\ Tail(dbCtxQueue) \in Seq(DbCtx)
            /\ Len(Tail(dbCtxQueue)) <= Len(dbCtxQueue)
        BY <3>2 DEF MapsTypeOK
      <4>2. dbCtx' = Head(dbCtxQueue) /\ dbCtxQueue' = Tail(dbCtxQueue) BY <3>2
      <4>3. Len(dbCtxQueue') <= QueueCap BY <4>1, <4>2, MapsAssumption DEF MapsTypeOK
      <4> QED BY <4>1, <4>2, <4>3 DEF MapsTypeOK
    <3> QED BY <3>1, <3>2
  <2>2. log' \in Seq(DbCtx \union {ZeroCtx}) BY <2>1 DEF PumpTypeOK
  <2>3. ctxDone' \in BOOLEAN /\ rdClosed' \in BOOLEAN BY DEF PumpTypeOK
  <2>4. PumpTypeOK' BY <2>1, <2>2, <2>3 DEF PumpTypeOK
  <2> QED BY <1>probe, <1>program, <2>1, <2>4
<1> QED BY <1>1, <1>2, <1>3 DEF PumpNext

LEMMA TypeNext == TypeInv /\ [Next]_vars => TypeInv'
<1> SUFFICES ASSUME TypeInv, [Next]_vars PROVE TypeInv' OBVIOUS
<1>1. CASE Next BY <1>1, TypeProbeNext, TypePumpNext DEF Next
<1>2. CASE UNCHANGED vars
  BY <1>2, MapsUnchanged, ProbeUnchanged, PumpUnchanged, ProgramUnchanged
  DEF vars, TypeInv, TypeOK, mapVars, probeVars
<1> QED BY <1>1, <1>2

LEMMA TypeInvariant == Spec => []TypeInv
BY TypeInit, TypeNext, PTL DEF Spec

\* The maps, the probes and the pump only ever hold values of their types: no
\* program of the kernel or step of the pump reaches a table, queue or ring
\* outside its bounds.
THEOREM TypeCorrect == Spec => []TypeOK
<1>1. TypeInv => TypeOK BY DEF TypeInv
<1> QED BY <1>1, TypeInvariant, PTL

-----------------------------------------------------------------------------
(* Records against samples.                                                *)

LEMMA RingSlotsFinite == IsFiniteSet(RingSlots) /\ Cardinality(RingSlots) \in Nat
<1>1. IsFiniteSet(1..RingCap) BY MapsAssumption, FS_Interval
<1> QED BY <1>1, MapsAssumption, FS_Product, FS_CardinalityType DEF RingSlots

LEMMA CPUsFinite == Cardinality(CPUs) \in Nat
BY MapsAssumption, FS_CardinalityType

\* The counts of QueueBalance are numbers, bounded by the hardware.
LEMMA Counts ==
  /\ IsFiniteSet(Samples) /\ Cardinality(Samples) \in Nat
  /\ IsFiniteSet(Waking) /\ Cardinality(Waking) \in Nat
  /\ Cardinality(Samples) <= Cardinality(RingSlots)
  /\ Cardinality(Waking) <= Cardinality(CPUs)
<1>1. Samples \in SUBSET RingSlots /\ Waking \in SUBSET CPUs BY DEF Samples, Waking
<1>2. IsFiniteSet(Samples) /\ Cardinality(Samples) <= Cardinality(RingSlots)
  BY <1>1, RingSlotsFinite, FS_Subset
<1>3. IsFiniteSet(Waking) /\ Cardinality(Waking) <= Cardinality(CPUs)
  BY <1>1, MapsAssumption, FS_Subset
<1> QED BY <1>2, <1>3, RingSlotsFinite, CPUsFinite, FS_CardinalityType

\* A wake-up adds one sample to the rings or to the losses.
LEMMA PerfOutputCounts ==
  ASSUME MapsTypeOK, NEW c \in CPUs, PerfOutput(c)
  PROVE  Cardinality(Samples') + lostSamples' = Cardinality(Samples) + lostSamples + 1
<1> USE Counts DEF MapsTypeOK
<1>1. ASSUME NEW s \in RingSlots, ring[s] = "free",
             \A u \in RingSlots : ring'[u] = "sample" <=> (ring[u] = "sample" \/ u = s)
      PROVE  Cardinality(Samples') = Cardinality(Samples) + 1
  <2>1. Samples' = Samples \union {s} BY <1>1 DEF Samples
  <2>2. s \notin Samples BY <1>1 DEF Samples
  <2> QED BY <2>1, <2>2, FS_AddElement
<1>2. CASE /\ \E s \in FreeSlots(c) : ring' = [ring EXCEPT ![s] = "sample"]
           /\ UNCHANGED lostSamples
  <2>1. PICK s \in FreeSlots(c) : ring' = [ring EXCEPT ![s] = "sample"] BY <1>2
  <2>2. s \in RingSlots /\ ring[s] = "free" BY DEF FreeSlots, RingSlots
  <2>3. \A u \in RingSlots : ring'[u] = "sample" <=> (ring[u] = "sample" \/ u = s)
    BY <2>1, <2>2
  <2> QED BY <1>1, <1>2, <2>2, <2>3
<1>3. CASE /\ \E s, l \in FreeSlots(c) :
                s # l /\ ring' = [ring EXCEPT ![s] = "sample", ![l] = "lost"]
           /\ UNCHANGED lostSamples
  <2>1. PICK s, l \in FreeSlots(c) :
               s # l /\ ring' = [ring EXCEPT ![s] = "sample", ![l] = "lost"] BY <1>3
  <2>2. /\ s \in RingSlots /\ ring[s] = "free"
        /\ l \in RingSlots /\ ring[l] = "free"
    BY DEF FreeSlots, RingSlots
  <2>3. \A u \in RingSlots : ring'[u] = "sample" <=> (ring[u] = "sample" \/ u = s)
    BY <2>1, <2>2
  <2> QED BY <1>1, <1>3, <2>2, <2>3
<1>4. CASE lostSamples' = lostSamples + 1 /\ UNCHANGED ring
  BY <1>4 DEF Samples
<1> QED BY <1>2, <1>3, <1>4 DEF PerfOutput

\* Losses grow by at most this one.
LEMMA LossesGrow ==
  ASSUME MapsTypeOK, NEW c \in CPUs, PerfOutput(c)
  PROVE  lostSamples' \in {lostSamples, lostSamples + 1}
BY DEF PerfOutput, MapsTypeOK

LEMMA StoppedStays == pumpPc = "stopped" /\ [Next]_vars => pumpPc' = "stopped"
BY DEF Next, vars, pumpVars, PumpNext, PumpSelect, PumpRead, PumpReadError, PumpPop,
       PumpPopError, CancelPump, CloseReader

\* The balance is a sum; these three lemmas are the arithmetic of its steps.
LEMMA SumGrows ==
  ASSUME NEW s \in Int, NEW w \in Int, NEW p \in Int, NEW l \in Int
  PROVE  s + (w + 1) + p + l = s + w + p + l + 1
OBVIOUS

LEMMA SumSwaps ==
  ASSUME NEW s \in Int, NEW w \in Int, NEW p \in Int, NEW l \in Int
  PROVE  s + w + p + l = (s + l) + w + p
OBVIOUS

LEMMA SumShifts ==
  ASSUME NEW s \in Int, NEW w \in Int, NEW p \in Int, NEW l \in Int
  PROVE  (s + l + 1) + (w - 1) + p = s + w + p + l
OBVIOUS

\* Steps that move neither records nor samples.
LEMMA BalanceUnchanged ==
  ASSUME QueueBalance, pumpPc # "stopped",
         UNCHANGED <<dbCtxQueue, overwritten, ring, onCpu, lostSamples>>,
         (pumpPc = "pop") = (pumpPc' = "pop")
  PROVE  QueueBalance'
BY DEF QueueBalance, Samples, Waking, Popping

\* A record and its CPU's obligation to wake the pump come together.
LEMMA BalancePush ==
  ASSUME TypeInv, QueueBalance, UNCHANGED pumpVars, pumpPc # "stopped",
         NEW t \in Threads, NEW c \in CPUs, ReturnPush(t, c)
  PROVE  QueueBalance'
<1> USE DEF TypeInv, TypeOK
<1>1. Waking' = Waking \union {c} /\ c \notin Waking
  BY NoThreadType DEF ReturnPush, Waking, ProbeTypeOK
<1>2. Cardinality(Waking') = Cardinality(Waking) + 1 BY <1>1, Counts, FS_AddElement
<1>3. [query |-> threadDbCtx[t].call, result |-> call[t]] \in DbCtx
  BY CallType DEF ReturnPush, MapsTypeOK, ProbeTypeOK, DbCtxEntry, DbCtx, Unhandled, HasEntry,
                  Call, ProgramInv, AtProgram
<1>4. /\ Len(dbCtxQueue') + overwritten' = Len(dbCtxQueue) + overwritten + 1
      /\ dbCtxQueue' \in Seq(DbCtx) /\ overwritten' \in Nat
  BY <1>3, PushElemType DEF ReturnPush, MapsTypeOK
<1>5. Cardinality(Samples') = Cardinality(Samples)
  BY DEF ReturnPush, Samples
<1>7. Popping' = Popping /\ lostSamples' = lostSamples /\ Popping \in Nat
  BY DEF ReturnPush, Popping, pumpVars
<1>6. Len(dbCtxQueue) + overwritten = Cardinality(Samples) + Cardinality(Waking) + Popping
                                        + lostSamples
  BY DEF QueueBalance
<1>8. Len(dbCtxQueue') + overwritten'
        = Cardinality(Samples') + Cardinality(Waking') + Popping' + lostSamples'
  <2>1. /\ Len(dbCtxQueue) \in Nat /\ overwritten \in Nat /\ lostSamples \in Nat
        /\ Len(dbCtxQueue') \in Nat
    BY <1>4 DEF MapsTypeOK
  <2>2. /\ Cardinality(Samples') \in Nat /\ Cardinality(Waking') \in Nat
        /\ Popping' \in Nat /\ lostSamples' \in Nat
    BY <1>2, <1>5, <1>7, <2>1, Counts
  <2> HIDE DEF TypeInv, TypeOK
  <2>3. Cardinality(Samples) \in Nat /\ Cardinality(Waking) \in Nat BY Counts
  <2> DEFINE q == Len(dbCtxQueue)
             q1 == Len(dbCtxQueue')
             s == Cardinality(Samples)
             w == Cardinality(Waking)
             w1 == Cardinality(Waking')
  <2>4. /\ q + overwritten = s + w + Popping + lostSamples /\ w1 = w + 1
        /\ q1 + overwritten' = q + overwritten + 1
    BY <1>2, <1>4, <1>6
  <2>5. /\ q \in Nat /\ q1 \in Nat /\ s \in Nat /\ w \in Nat /\ w1 \in Nat /\ Popping \in Nat
        /\ overwritten \in Nat /\ overwritten' \in Nat /\ lostSamples \in Nat
    BY <1>4, <1>7, <2>1, <2>2, <2>3
  <2> HIDE DEF q, q1, s, w, w1
  <2>6. s + (w + 1) + Popping + lostSamples = s + w + Popping + lostSamples + 1
    BY <2>5, SumGrows
  <2>7. q1 + overwritten' = s + w1 + Popping + lostSamples BY <2>4, <2>6, Zenon
  <2> QED BY <1>5, <1>7, <2>7 DEF q1, s, w1
<1> QED BY <1>8 DEF QueueBalance

\* The wake-up discharges the obligation with a sample or a loss.
LEMMA BalanceOutput ==
  ASSUME TypeInv, QueueBalance, UNCHANGED pumpVars, pumpPc # "stopped",
         NEW c \in CPUs, ReturnOutput(c)
  PROVE  QueueBalance'
<1> USE DEF TypeInv, TypeOK
<1>1. Waking' = Waking \ {c} /\ c \in Waking
  BY DEF ReturnOutput, Waking, ProbeTypeOK
<1>2. Cardinality(Waking') = Cardinality(Waking) - 1 BY <1>1, Counts, FS_RemoveElement
<1>3. Cardinality(Samples') + lostSamples' = Cardinality(Samples) + lostSamples + 1
  BY PerfOutputCounts DEF ReturnOutput
<1>4. lostSamples' \in Nat /\ Cardinality(Samples') \in Nat
  <2>1. lostSamples' \in Nat BY LossesGrow DEF ReturnOutput, MapsTypeOK
  <2>2. IsFiniteSet(Samples')
    <3>1. Samples' \in SUBSET RingSlots BY DEF Samples
    <3> QED BY <3>1, RingSlotsFinite, FS_Subset
  <2> QED BY <2>1, <2>2, FS_CardinalityType
<1>5. UNCHANGED <<dbCtxQueue, overwritten>> /\ Popping' = Popping /\ Popping \in Nat
  BY DEF ReturnOutput, Popping, pumpVars
<1>6. Len(dbCtxQueue) + overwritten = Cardinality(Samples) + Cardinality(Waking) + Popping
                                        + lostSamples
  BY DEF QueueBalance
<1>7. Len(dbCtxQueue') + overwritten'
        = Cardinality(Samples') + Cardinality(Waking') + Popping' + lostSamples'
  <2>1. Len(dbCtxQueue) \in Nat /\ overwritten \in Nat /\ lostSamples \in Nat
    BY DEF MapsTypeOK
  <2>2. Cardinality(Waking') \in Int BY <1>2, Counts
  <2> HIDE DEF TypeInv, TypeOK
  <2>3. Cardinality(Samples) \in Nat /\ Cardinality(Waking) \in Nat BY Counts
  <2> DEFINE q == Len(dbCtxQueue)
             s == Cardinality(Samples)
             s1 == Cardinality(Samples')
             w == Cardinality(Waking)
             w1 == Cardinality(Waking')
  <2>4. /\ q + overwritten = s + w + Popping + lostSamples /\ w1 = w - 1
        /\ s1 + lostSamples' = s + lostSamples + 1
    BY <1>2, <1>3, <1>6
  <2>5. /\ q \in Nat /\ s \in Nat /\ s1 \in Nat /\ w \in Nat /\ w1 \in Int /\ Popping \in Nat
        /\ overwritten \in Nat /\ lostSamples \in Nat /\ lostSamples' \in Nat
    BY <1>4, <1>5, <2>1, <2>2, <2>3
  <2> HIDE DEF q, s, s1, w, w1
  <2>6. s1 + w1 + Popping + lostSamples' = (s1 + lostSamples') + w1 + Popping
    BY <2>5, SumSwaps
  <2>8. (s + lostSamples + 1) + (w - 1) + Popping = s + w + Popping + lostSamples
    BY <2>5, SumShifts
  <2>7. q + overwritten = s1 + w1 + Popping + lostSamples' BY <2>4, <2>6, <2>8, Zenon
  <2> QED BY <1>5, <2>7 DEF q, s1, w1
<1> QED BY <1>7 DEF QueueBalance

\* The pump turns a sample into an intention to pop; a loss report it skips.
LEMMA BalanceRead ==
  ASSUME TypeInv, QueueBalance, PumpRead, UNCHANGED probeVars
  PROVE  QueueBalance'
<1> USE DEF TypeInv, TypeOK
<1>1. PICK s \in RingSlots : /\ ring[s] # "free"
                            /\ ring' = [ring EXCEPT ![s] = "free"]
                            /\ pumpPc' = AfterRead(ring[s])
  BY DEF PumpRead
<1>2. Samples' = Samples \ {s} BY <1>1 DEF Samples, MapsTypeOK
<1>3. Cardinality(Samples') = IF ring[s] = "sample" THEN Cardinality(Samples) - 1
                                                  ELSE Cardinality(Samples)
  <2>1. s \in Samples <=> ring[s] = "sample" BY DEF Samples
  <2> QED BY <1>2, <2>1, Counts, FS_RemoveElement
<1>4. /\ Popping = 0
      /\ Cardinality(Samples) = Cardinality(Samples') + Popping'
      /\ Cardinality(Samples') \in Nat /\ Popping' \in Nat
  <2>1. CASE ring[s] = "sample"
    <3>1. s \in Samples BY <2>1 DEF Samples
    <3>2. Cardinality(Samples) # 0 BY <3>1, Counts, FS_EmptySet
    <3> QED BY <1>1, <1>3, <2>1, <3>2, Counts DEF PumpRead, Popping, AfterRead
  <2>2. CASE ring[s] # "sample" BY <1>1, <1>3, <2>2, Counts DEF PumpRead, Popping, AfterRead
  <2> QED BY <2>1, <2>2
<1>5. Waking' = Waking BY DEF Waking, probeVars
<1>6. UNCHANGED <<dbCtxQueue, overwritten, lostSamples>> BY DEF PumpRead
<1>7. Len(dbCtxQueue) + overwritten = Cardinality(Samples) + Cardinality(Waking) + Popping
                                        + lostSamples
  BY DEF QueueBalance, PumpRead
<1>8. Len(dbCtxQueue') + overwritten'
        = Cardinality(Samples') + Cardinality(Waking') + Popping' + lostSamples'
  BY <1>4, <1>5, <1>6, <1>7, Counts DEF MapsTypeOK
<1> QED BY <1>8 DEF QueueBalance

\* The pump holds a sample only while a record is queued, if pushes into a full
\* queue were rarer than losses.
LEMMA BacklogNotEmpty == TypeInv /\ QueueBalance /\ DropsOnlyAfterLoss => PopFindsRecord
<1> SUFFICES ASSUME TypeInv, QueueBalance, DropsOnlyAfterLoss, pumpPc = "pop"
             PROVE  dbCtxQueue # <<>>
  BY DEF PopFindsRecord
<1>1. /\ Len(dbCtxQueue) \in Nat /\ overwritten \in Nat /\ lostSamples \in Nat
      /\ Cardinality(Samples) \in Nat /\ Cardinality(Waking) \in Nat
  BY Counts DEF TypeInv, TypeOK, MapsTypeOK
<1>2. Len(dbCtxQueue) + overwritten = Cardinality(Samples) + Cardinality(Waking) + 1
                                        + lostSamples
  BY DEF QueueBalance, Popping
<1>3. overwritten <= lostSamples BY DEF DropsOnlyAfterLoss
<1>4. Len(dbCtxQueue) >= 1 BY <1>1, <1>2, <1>3
<1> QED BY <1>4

\* A pop of a record uses up the sample it was made for.
LEMMA BalancePop ==
  ASSUME TypeInv, QueueBalance, PumpPop, dbCtxQueue # <<>>, UNCHANGED probeVars
  PROVE  QueueBalance'
<1>1. /\ Len(dbCtxQueue) \in Nat /\ overwritten \in Nat /\ lostSamples \in Nat
      /\ Cardinality(Samples) \in Nat /\ Cardinality(Waking) \in Nat
  BY Counts DEF TypeInv, TypeOK, MapsTypeOK
<1>2. Len(dbCtxQueue') = Len(dbCtxQueue) - 1
  BY DEF PumpPop, TypeInv, TypeOK, MapsTypeOK
<1>3. Len(dbCtxQueue) + overwritten = Cardinality(Samples) + Cardinality(Waking) + 1
                                        + lostSamples
  BY DEF QueueBalance, Popping, PumpPop
<1>4. /\ Cardinality(Samples') = Cardinality(Samples)
      /\ Cardinality(Waking') = Cardinality(Waking)
      /\ overwritten' = overwritten /\ lostSamples' = lostSamples
      /\ Popping' = 0
  BY DEF PumpPop, Samples, Waking, Popping, probeVars
<1>5. Len(dbCtxQueue') + overwritten'
        = Cardinality(Samples') + Cardinality(Waking') + Popping' + lostSamples'
  BY <1>1, <1>2, <1>3, <1>4
<1> QED BY <1>5 DEF QueueBalance

\* A queue as long as RoomForBacklog asks for is full only after more losses
\* than drops: what is on its way does not fill it, and this CPU is not waking.
LEMMA DropsPush ==
  ASSUME RoomForBacklog, TypeInv, QueueBalance, DropsOnlyAfterLoss, UNCHANGED pumpVars,
         NEW t \in Threads, NEW c \in CPUs, ReturnPush(t, c)
  PROVE  DropsOnlyAfterLoss'
<1> SUFFICES ASSUME pumpPc # "stopped" PROVE overwritten' <= lostSamples'
  BY DEF DropsOnlyAfterLoss, pumpVars
<1>1. /\ Len(dbCtxQueue) \in Nat /\ overwritten \in Nat /\ lostSamples \in Nat
      /\ Cardinality(Samples) \in Nat /\ Cardinality(Waking) \in Nat
      /\ Cardinality(Samples) <= Cardinality(RingSlots)
      /\ QueueCap \in Nat /\ Cardinality(RingSlots) \in Nat /\ Cardinality(CPUs) \in Nat
  BY Counts, MapsAssumption, RingSlotsFinite, CPUsFinite DEF TypeInv, TypeOK, MapsTypeOK
<1>2. lostSamples' = lostSamples BY DEF ReturnPush
<1>3. overwritten <= lostSamples BY DEF DropsOnlyAfterLoss
<1>4. CASE Len(dbCtxQueue) # QueueCap
  BY <1>2, <1>3, <1>4 DEF ReturnPush, PushElem
<1>5. CASE Len(dbCtxQueue) = QueueCap
  <2>1. overwritten' = overwritten + 1 BY <1>5 DEF ReturnPush, PushElem
  <2>2. Cardinality(Waking) <= Cardinality(CPUs) - 1
    <3>1. Waking \in SUBSET (CPUs \ {c}) BY DEF Waking, ReturnPush
    <3>2. IsFiniteSet(CPUs \ {c}) /\ Cardinality(CPUs \ {c}) = Cardinality(CPUs) - 1
      BY MapsAssumption, FS_RemoveElement
    <3> QED BY <3>1, <3>2, FS_Subset
  <2>3. Popping \in 0..1 BY DEF Popping
  <2>4. Len(dbCtxQueue) + overwritten = Cardinality(Samples) + Cardinality(Waking) + Popping
                                          + lostSamples
    BY DEF QueueBalance
  <2>5. QueueCap > Cardinality(RingSlots) + Cardinality(CPUs) BY DEF RoomForBacklog
  <2>6. overwritten < lostSamples BY <1>1, <1>5, <2>2, <2>3, <2>4, <2>5
  <2> QED BY <1>1, <1>2, <2>1, <2>6
<1> QED BY <1>4, <1>5

BalanceInv == QueueBalance /\ DropsOnlyAfterLoss

LEMMA BalanceInit == Init => BalanceInv
<1> SUFFICES ASSUME Init PROVE BalanceInv OBVIOUS
<1>1. Samples = {} BY DEF Init, MapsInit, Samples
<1>2. Waking = {} BY DEF Init, ProbeInit, Waking
<1>3. Popping = 0 BY DEF Init, PumpInit, Popping
<1> QED BY <1>1, <1>2, <1>3, FS_EmptySet DEF Init, MapsInit, BalanceInv, QueueBalance, DropsOnlyAfterLoss

LEMMA BalanceNext ==
  ASSUME RoomForBacklog, TypeInv, BalanceInv, [Next]_vars
  PROVE  BalanceInv'
<1> USE DEF BalanceInv
<1>1. CASE pumpPc = "stopped"
  BY <1>1, StoppedStays DEF QueueBalance, DropsOnlyAfterLoss
<1>2. CASE pumpPc # "stopped" /\ UNCHANGED <<dbCtxQueue, overwritten, ring, onCpu, lostSamples>>
                               /\ (pumpPc = "pop") = (pumpPc' = "pop")
  BY <1>2, BalanceUnchanged DEF DropsOnlyAfterLoss
<1>3. ASSUME pumpPc # "stopped", ProbeNext, UNCHANGED pumpVars PROVE BalanceInv'
  <2> USE <1>3
  <2>0. UNCHANGED pumpPc BY DEF pumpVars
  <2>1. CASE \E p \in Procs : Register(p) \/ Unregister(p) \/ Kill(p)
    BY <1>2, <2>0, <2>1 DEF Register, Unregister, Kill, probeVars, mapVars
  <2>2. CASE \E k \in Links : AttachStep(k)
    BY <1>2, <2>0, <2>2 DEF AttachStep, mapVars
  <2>3. CASE \E t \in Threads : \/ \E isQuery \in BOOLEAN : Enter(t, isQuery)
                                \/ Return(t)
                                \/ ReturnSkip(t)
    BY <1>2, <2>0, <2>3 DEF Enter, Return, ReturnSkip, mapVars
  <2>4. ASSUME NEW t \in Threads, NEW c \in CPUs, ReturnPush(t, c) PROVE BalanceInv'
    BY <2>4, BalancePush, DropsPush
  <2>5. ASSUME NEW c \in CPUs, ReturnOutput(c) PROVE BalanceInv'
    <3>1. QueueBalance' BY <2>5, BalanceOutput
    <3>2. lostSamples' \in {lostSamples, lostSamples + 1} /\ UNCHANGED overwritten
      BY <2>5, LossesGrow DEF ReturnOutput, TypeInv, TypeOK
    <3>3. DropsOnlyAfterLoss' BY <2>0, <3>2 DEF DropsOnlyAfterLoss, TypeInv, TypeOK, MapsTypeOK
    <3> QED BY <3>1, <3>3
  <2> QED BY <2>1, <2>2, <2>3, <2>4, <2>5 DEF ProbeNext
<1>4. ASSUME pumpPc # "stopped", PumpNext, UNCHANGED probeVars PROVE BalanceInv'
  <2> USE <1>4
  <2>1. CASE PumpSelect \/ PumpReadError \/ CancelPump \/ CloseReader
    BY <1>2, <2>1 DEF PumpSelect, PumpReadError, ReadFailed, CancelPump, CloseReader,
                      mapVars, probeVars
  <2>2. CASE PumpPopError BY <2>2 DEF PumpPopError, QueueBalance, DropsOnlyAfterLoss
  <2>3. CASE PumpRead
    BY <2>3, BalanceRead DEF DropsOnlyAfterLoss, PumpRead
  <2>4. CASE PumpPop
    <3>1. dbCtxQueue # <<>> BY <2>4, BacklogNotEmpty DEF PopFindsRecord, PumpPop
    <3> QED BY <2>4, <3>1, BalancePop DEF DropsOnlyAfterLoss, PumpPop
  <2> QED BY <2>1, <2>2, <2>3, <2>4 DEF PumpNext
<1>5. CASE UNCHANGED vars
  BY <1>1, <1>2, <1>5 DEF vars, mapVars, probeVars, pumpVars
<1> QED BY <1>1, <1>3, <1>4, <1>5 DEF Next

LEMMA BalanceInvariant == ASSUME RoomForBacklog PROVE Spec => [](TypeInv /\ BalanceInv)
<1>1. Init => TypeInv /\ BalanceInv BY TypeInit, BalanceInit
<1>2. TypeInv /\ BalanceInv /\ [Next]_vars => (TypeInv /\ BalanceInv)'
  BY TypeNext, BalanceNext
<1> QED BY <1>1, <1>2, PTL DEF Spec

\* The queue of finished records and the samples in the perf rings never get
\* out of step by anything but the losses of full buffers (QueueBalance).
THEOREM RecordsMatchSamples == ASSUME RoomForBacklog PROVE Spec => []QueueBalance
<1>1. BalanceInv => QueueBalance BY DEF BalanceInv
<1> QED BY <1>1, BalanceInvariant, PTL

\* As long as the pump runs the queue drops no more records than the perf rings lost
\* samples (DropsOnlyAfterLoss): the two losses of the path have one cause.
THEOREM NoDropWithoutLoss == ASSUME RoomForBacklog PROVE Spec => []DropsOnlyAfterLoss
<1>1. BalanceInv => DropsOnlyAfterLoss BY DEF BalanceInv
<1> QED BY <1>1, BalanceInvariant, PTL

\* The pump never finds the queue empty (PopFindsRecord), hence never prints the
\* same record twice.
THEOREM PumpNeverRepeats == ASSUME RoomForBacklog PROVE Spec => []PopFindsRecord
<1>1. TypeInv /\ BalanceInv => PopFindsRecord BY BacklogNotEmpty DEF BalanceInv
<1> QED BY <1>1, BalanceInvariant, PTL

-----------------------------------------------------------------------------
(* What is reported, and of which command.                                 *)

\* The log and the queue as one sequence: a pop moves its boundary, a push
\* extends it, a push into a full queue also takes out one element.
LEMMA ConcatMove ==
  ASSUME NEW S, NEW a \in Seq(S), NEW b \in Seq(S), b # <<>>
  PROVE  Append(a, Head(b)) \o Tail(b) = a \o b
OBVIOUS

LEMMA ConcatAppend ==
  ASSUME NEW S, NEW a \in Seq(S), NEW b \in Seq(S), NEW r \in S
  PROVE  a \o Append(b, r) = Append(a \o b, r)
OBVIOUS

LEMMA ConcatEvict ==
  ASSUME NEW S, NEW a \in Seq(S), NEW b \in Seq(S), b # <<>>, NEW r \in S
  PROVE  LET new == a \o Append(Tail(b), r)
             old == a \o b
         IN  /\ Len(new) = Len(old)
             /\ new[Len(new)] = r
             /\ \A i \in 1..Len(a) : new[i] = old[i]
             /\ \A i \in (Len(a) + 1)..(Len(new) - 1) : new[i] = old[i + 1]
OBVIOUS

Printable == DbCtx \union {ZeroCtx}

LEMMA ReportedType ==
  TypeInv => /\ log \in Seq(Printable) /\ dbCtxQueue \in Seq(Printable)
             /\ Reported \in Seq(Printable) /\ dbCtx \in Printable
<1> SUFFICES ASSUME TypeInv PROVE /\ log \in Seq(Printable) /\ dbCtxQueue \in Seq(Printable)
                                  /\ dbCtx \in Printable
  BY DEF Reported
<1>1. \A s \in Seq(DbCtx) : s \in Seq(Printable) BY DEF Printable
<1> QED BY <1>1 DEF TypeInv, TypeOK, PumpTypeOK, MapsTypeOK, Printable

RecordOf(t) == [query |-> threadDbCtx[t].call, result |-> call[t]]

\* A push reports the thread's record last, and takes out at most the k+1st of
\* the others.
LEMMA ReportedPush ==
  ASSUME TypeInv, UNCHANGED pumpVars, NEW t \in Threads, NEW c \in CPUs, ReturnPush(t, c)
  PROVE  /\ RecordOf(t) \in DbCtx
         /\ Len(Reported') >= 1
         /\ Reported'[Len(Reported')] = RecordOf(t)
         /\ \E k \in Nat : \A i \in 1..(Len(Reported') - 1) :
              LET j == IF i <= k THEN i ELSE i + 1
              IN  j \in DOMAIN Reported /\ Reported'[i] = Reported[j]
<1>1. RecordOf(t) \in DbCtx
  BY CallType DEF TypeInv, TypeOK, ReturnPush, MapsTypeOK, ProbeTypeOK, DbCtxEntry, DbCtx,
                  Unhandled, HasEntry, Call, ProgramInv, AtProgram, RecordOf
<1>2. RecordOf(t) \in Printable BY <1>1 DEF Printable
<1>3. log' = log BY DEF pumpVars
<1>4. CASE Len(dbCtxQueue) # QueueCap
  <2>1. dbCtxQueue' = Append(dbCtxQueue, RecordOf(t)) BY <1>4 DEF ReturnPush, PushElem, RecordOf
  <2>2. Reported' = Append(Reported, RecordOf(t))
    BY <1>2, <1>3, <2>1, ReportedType, ConcatAppend DEF Reported
  <2>3. /\ Len(Reported') = Len(Reported) + 1
        /\ Reported'[Len(Reported')] = RecordOf(t)
        /\ \A i \in 1..Len(Reported) : Reported'[i] = Reported[i]
    BY <1>2, <2>2, ReportedType
  <2>4. Len(Reported) \in Nat /\ DOMAIN Reported = 1..Len(Reported) BY ReportedType
  <2>5. \E k \in Nat : \A i \in 1..(Len(Reported') - 1) :
              LET j == IF i <= k THEN i ELSE i + 1
              IN  j \in DOMAIN Reported /\ Reported'[i] = Reported[j]
    <3> Len(Reported) \in Nat BY ReportedType
    <3> WITNESS Len(Reported) \in Nat
    <3> QED BY <2>3, <2>4
  <2> Len(Reported') >= 1 BY <2>3, <2>4
  <2> QED BY <1>1, <2>3, <2>5
<1>5. CASE Len(dbCtxQueue) = QueueCap
  <2>1. dbCtxQueue' = Append(Tail(dbCtxQueue), RecordOf(t))
    BY <1>5 DEF ReturnPush, PushElem, RecordOf
  <2>2. dbCtxQueue # <<>> BY <1>5, MapsAssumption
  <2>3. Reported' = log \o Append(Tail(dbCtxQueue), RecordOf(t)) BY <1>3, <2>1 DEF Reported
  <2>4. /\ Len(Reported') = Len(Reported)
        /\ Reported'[Len(Reported')] = RecordOf(t)
        /\ \A i \in 1..Len(log) : Reported'[i] = Reported[i]
        /\ \A i \in (Len(log) + 1)..(Len(Reported') - 1) : Reported'[i] = Reported[i + 1]
    BY <1>2, <2>2, <2>3, ReportedType, ConcatEvict DEF Reported
  <2>5. /\ Len(Reported) \in Nat /\ DOMAIN Reported = 1..Len(Reported) /\ Len(log) \in Nat
        /\ Len(Reported) = Len(log) + Len(dbCtxQueue) /\ Len(dbCtxQueue) >= 1
    BY <2>2, ReportedType DEF Reported
  <2>6. \E k \in Nat : \A i \in 1..(Len(Reported') - 1) :
              LET j == IF i <= k THEN i ELSE i + 1
              IN  j \in DOMAIN Reported /\ Reported'[i] = Reported[j]
    <3> Len(log) \in Nat BY ReportedType
    <3> WITNESS Len(log) \in Nat
    <3> QED BY <2>4, <2>5
  <2> Len(Reported') >= 1 BY <2>4, <2>5
  <2> QED BY <1>1, <2>4, <2>6
<1> QED BY <1>4, <1>5

\* A pop moves a record from the queue to the log.
LEMMA ReportedPop ==
  ASSUME TypeInv, PumpPop, dbCtxQueue # <<>>
  PROVE  Reported' = Reported /\ \E i \in DOMAIN Reported : dbCtx' = Reported[i]
<1>1. /\ log' = Append(log, Head(dbCtxQueue)) /\ dbCtxQueue' = Tail(dbCtxQueue)
      /\ dbCtx' = Head(dbCtxQueue)
  BY DEF PumpPop
<1>2. Reported' = Reported BY <1>1, ReportedType, ConcatMove DEF Reported
<1>3. /\ Len(log) + 1 \in DOMAIN Reported
      /\ Reported[Len(log) + 1] = Head(dbCtxQueue)
  BY ReportedType DEF Reported
<1> QED BY <1>1, <1>2, <1>3

\* A pop of nothing prints the previous record again.
LEMMA ReportedAgain ==
  ASSUME TypeInv, PumpPop, dbCtxQueue = <<>>
  PROVE  Reported' = Append(Reported, dbCtx) /\ UNCHANGED dbCtx
BY ReportedType DEF PumpPop, Reported

LEMMA PushLeavesPump ==
  ASSUME [Next]_vars, NEW t \in Threads, NEW c \in CPUs, ReturnPush(t, c), TypeInv
  PROVE  UNCHANGED pumpVars
<1>1. onCpu' # onCpu
  BY NoThreadType DEF ReturnPush, TypeInv, TypeOK, ProbeTypeOK
<1> QED BY <1>1 DEF Next, vars, probeVars

LEMMA ReportedSame ==
  ASSUME [Next]_vars, ~PumpPop, \A t \in Threads, c \in CPUs : ~ReturnPush(t, c)
  PROVE  Reported' = Reported /\ UNCHANGED dbCtx
<1>1. UNCHANGED <<dbCtxQueue, log, dbCtx>>
  BY DEF Next, vars, ProbeNext, PumpNext, mapVars, probeVars, pumpVars, Register, Unregister,
         Kill, AttachStep, Enter, Return, ReturnSkip, ReturnOutput, PumpSelect, PumpRead,
         PumpReadError, PumpPopError, CancelPump, CloseReader
<1> QED BY <1>1 DEF Reported

\* An entry still marked 0xf is the command its thread executes, or one whose
\* return was missed.
EntryInv ==
  \A t \in Threads : HasEntry(t) /\ ~threadDbCtx[t].processed =>
    \/ threadDbCtx[t].call \in missed
    \/ pc[t] # "idle" /\ call[t] = threadDbCtx[t].call

Sound(r) == r # ZeroCtx /\ r.query # r.result => r.query \in missed

AttributionInv ==
  /\ EntryInv
  /\ Sound(dbCtx)
  /\ \A i \in DOMAIN Reported : Sound(Reported[i])

LEMMA MissedGrows == [Next]_vars => missed \subseteq missed'
BY DEF Next, vars, ProbeNext, PumpNext, mapVars, probeVars, pumpVars, Register, Unregister,
       Kill, AttachStep, Enter, Return, ReturnSkip, ReturnPush, ReturnOutput

LEMMA EntryNext == TypeInv /\ EntryInv /\ [Next]_vars => EntryInv'
<1> SUFFICES ASSUME TypeInv, EntryInv, [Next]_vars PROVE EntryInv' OBVIOUS
<1> USE MissedGrows DEF TypeInv, TypeOK, HasEntry
<1>1. CASE UNCHANGED <<threadDbCtx, pc, call>> BY <1>1 DEF EntryInv
<1>2. CASE \E p \in Procs : Register(p) \/ Unregister(p)
  BY <1>1, <1>2 DEF Register, Unregister, probeVars
<1>3. CASE \E k \in Links : AttachStep(k) BY <1>1, <1>3 DEF AttachStep, mapVars
<1>4. ASSUME NEW t \in Threads, NEW isQuery \in BOOLEAN, Enter(t, isQuery) PROVE EntryInv'
  <2> USE <1>4 DEF Enter
  <2>1. nextCall \in Call BY MapsAssumption DEF ProbeTypeOK, Call
  <2>2. /\ \A u \in Threads \ {t} : threadDbCtx'[u] = threadDbCtx[u]
        /\ threadDbCtx'[t] \in {threadDbCtx[t], [call |-> nextCall, processed |-> FALSE]}
    <3>1. CASE isQuery /\ UprobeOpen BY <2>1, <3>1, QueryProgramType DEF MapsTypeOK
    <3>2. CASE ~(isQuery /\ UprobeOpen) BY <3>2 DEF MapsTypeOK
    <3> QED BY <3>1, <3>2
  <2>3. /\ call'[t] = nextCall /\ pc'[t] = "body"
        /\ \A u \in Threads \ {t} : call'[u] = call[u] /\ pc'[u] = pc[u]
    BY DEF ProbeTypeOK
  <2> QED BY <2>2, <2>3 DEF EntryInv
<1>5. ASSUME NEW t \in Threads, Return(t) PROVE EntryInv'
  BY <1>5 DEF Return, EntryInv, ProbeTypeOK, mapVars
<1>6. ASSUME NEW t \in Threads, ReturnSkip(t) PROVE EntryInv'
  BY <1>6 DEF ReturnSkip, EndProgram, Unhandled, EntryInv, ProbeTypeOK, mapVars
<1>7. ASSUME NEW t \in Threads, NEW c \in CPUs, ReturnPush(t, c) PROVE EntryInv'
  BY <1>7 DEF ReturnPush, MarkProcessed, EntryInv, ProbeTypeOK, MapsTypeOK, DbCtxEntry
<1>8. ASSUME NEW c \in CPUs, ReturnOutput(c) PROVE EntryInv'
  BY <1>8 DEF ReturnOutput, EndProgram, EntryInv, ProbeTypeOK, ProgramInv
<1>9. ASSUME NEW p \in Procs, Kill(p) PROVE EntryInv'
  BY <1>9 DEF Kill, EntryInv, ProbeTypeOK, mapVars
<1>10. CASE UNCHANGED probeVars /\ PumpNext
  <2>1. UNCHANGED threadDbCtx
    BY <1>10 DEF PumpNext, PumpSelect, PumpRead, PumpReadError, PumpPop, PumpPopError,
                 CancelPump, CloseReader, mapVars
  <2> QED BY <1>1, <1>10, <2>1 DEF probeVars
<1> QED BY <1>1, <1>2, <1>3, <1>4, <1>5, <1>6, <1>7, <1>8, <1>9, <1>10
        DEF Next, ProbeNext, vars, probeVars, mapVars

LEMMA AttributionNext == TypeInv /\ AttributionInv /\ [Next]_vars => AttributionInv'
<1> SUFFICES ASSUME TypeInv, AttributionInv, [Next]_vars PROVE AttributionInv' OBVIOUS
<1>1. EntryInv' BY EntryNext DEF AttributionInv
<1>2. \A r : Sound(r) => Sound(r)' BY MissedGrows DEF Sound
<1>3. CASE Reported' = Reported /\ \/ UNCHANGED dbCtx
                                   \/ \E i \in DOMAIN Reported : dbCtx' = Reported[i]
  BY <1>1, <1>3, MissedGrows DEF AttributionInv, Sound
<1>4. ASSUME NEW t \in Threads, NEW c \in CPUs, ReturnPush(t, c), UNCHANGED pumpVars
      PROVE  AttributionInv'
  <2>1. PICK k \in Nat : \A i \in 1..(Len(Reported') - 1) :
              LET j == IF i <= k THEN i ELSE i + 1
              IN  j \in DOMAIN Reported /\ Reported'[i] = Reported[j]
    BY <1>4, ReportedPush
  <2>2. /\ Len(Reported') >= 1 /\ Reported'[Len(Reported')] = RecordOf(t)
    BY <1>4, ReportedPush
  <2>3. DOMAIN Reported' = 1..Len(Reported') /\ Len(Reported') \in Nat
    BY TypeNext, ReportedType
  <2>4. threadDbCtx[t].call # call[t] => threadDbCtx[t].call \in missed
    BY <1>4 DEF ReturnPush, Unhandled, AttributionInv, EntryInv
  <2>5. RecordOf(t).query # RecordOf(t).result => RecordOf(t).query \in missed
    BY <2>4 DEF RecordOf
  <2>6. ASSUME NEW i \in DOMAIN Reported' PROVE Sound(Reported[i])'
    <3>1. CASE i = Len(Reported') BY <2>2, <2>5, <3>1, MissedGrows DEF Sound
    <3>2. CASE i # Len(Reported')
      <4>1. i \in 1..(Len(Reported') - 1) BY <2>3, <3>2
      <4>2. PICK j \in DOMAIN Reported : Reported'[i] = Reported[j] BY <2>1, <4>1
      <4> QED BY <4>2, MissedGrows DEF AttributionInv, Sound
    <3> QED BY <3>1, <3>2
  <2>7. Sound(dbCtx)' BY <1>4, MissedGrows DEF AttributionInv, Sound, pumpVars
  <2> QED BY <1>1, <2>6, <2>7 DEF AttributionInv
<1>5. CASE PumpPop
  <2>1. CASE dbCtxQueue # <<>> BY <1>3, <1>5, <2>1, ReportedPop
  <2>2. CASE dbCtxQueue = <<>>
    <3>1. Reported' = Append(Reported, dbCtx) /\ UNCHANGED dbCtx
      BY <1>5, <2>2, ReportedAgain
    <3>2. \A i \in DOMAIN Reported' : Reported'[i] = dbCtx \/ \E j \in DOMAIN Reported :
                                                                Reported'[i] = Reported[j]
      BY <3>1, ReportedType
    <3> QED BY <1>1, <3>1, <3>2, MissedGrows DEF AttributionInv, Sound
  <2> QED BY <2>1, <2>2
<1>6. CASE ~PumpPop /\ \A t \in Threads, c \in CPUs : ~ReturnPush(t, c)
  BY <1>3, <1>6, ReportedSame
<1>7. ASSUME NEW t \in Threads, NEW c \in CPUs, ReturnPush(t, c) PROVE UNCHANGED pumpVars
  BY <1>7, PushLeavesPump
<1> QED BY <1>4, <1>5, <1>6, <1>7

\* Whatever the interleaving of threads, probes, registrations and kills, a
\* record that joins the text of one command to the results of another names a
\* command whose return no uretprobe of a registered process saw (Attribution).
THEOREM AttributionCorrect == Spec => []Attribution
<1>1. Init => TypeInv /\ AttributionInv
  <2>1. Init => AttributionInv
    BY DEF Init, MapsInit, PumpInit, AttributionInv, EntryInv, HasEntry, NoEntry, Sound, Reported
  <2> QED BY <2>1, TypeInit
<1>2. TypeInv /\ AttributionInv /\ [Next]_vars => (TypeInv /\ AttributionInv)'
  BY TypeNext, AttributionNext
<1>3. AttributionInv => Attribution BY DEF AttributionInv, Attribution, Sound
<1> QED BY <1>1, <1>2, <1>3, PTL DEF Spec

\* Every entry is of a command already begun, and of one thread only.
EntryFresh ==
  /\ \A t \in Threads : threadDbCtx[t].call < nextCall
  /\ \A t, u \in Threads : t # u /\ HasEntry(t) => threadDbCtx[t].call # threadDbCtx[u].call

\* A record was pushed from an entry that has been marked handled since.
ReportFresh ==
  \A i \in DOMAIN Reported : Reported[i] # ZeroCtx =>
    /\ Reported[i].query < nextCall
    /\ \A t \in Threads : HasEntry(t) /\ ~threadDbCtx[t].processed =>
         Reported[i].query # threadDbCtx[t].call

FreshInv == EntryFresh /\ ReportFresh /\ NoDuplicateReport

\* Only Enter changes what the entries record and what command comes next.
LEMMA EntriesChange ==
  ASSUME TypeInv, [Next]_vars,
         \A t \in Threads, isQuery \in BOOLEAN : ~Enter(t, isQuery)
  PROVE  /\ UNCHANGED nextCall
         /\ \A t \in Threads : /\ threadDbCtx'[t].call = threadDbCtx[t].call
                               /\ threadDbCtx[t].processed => threadDbCtx'[t].processed
<1> USE DEF TypeInv, TypeOK
<1>1. UNCHANGED nextCall
  BY DEF Next, vars, ProbeNext, probeVars, Register, Unregister, AttachStep, Return,
         ReturnSkip, ReturnPush, ReturnOutput, Kill
<1>2. ASSUME NEW t \in Threads, NEW c \in CPUs, ReturnPush(t, c)
      PROVE  \A u \in Threads : /\ threadDbCtx'[u].call = threadDbCtx[u].call
                                /\ threadDbCtx[u].processed => threadDbCtx'[u].processed
  BY <1>2 DEF ReturnPush, MarkProcessed, MapsTypeOK, DbCtxEntry
<1>3. CASE \A t \in Threads, c \in CPUs : ~ReturnPush(t, c)
  <2>1. UNCHANGED threadDbCtx
    BY <1>3 DEF Next, vars, ProbeNext, PumpNext, mapVars, Register, Unregister, AttachStep,
           Return, ReturnSkip, ReturnOutput, Kill, PumpSelect, PumpRead, PumpReadError, PumpPop,
           PumpPopError, CancelPump, CloseReader
  <2> QED BY <1>1, <2>1
<1> QED BY <1>1, <1>2, <1>3

LEMMA EnterFresh ==
  ASSUME TypeInv, FreshInv, NEW t \in Threads, NEW isQuery \in BOOLEAN, Enter(t, isQuery),
         UNCHANGED pumpVars
  PROVE  FreshInv'
<1> USE DEF TypeInv, TypeOK, Enter, HasEntry
<1>1. nextCall \in Call /\ nextCall' = nextCall + 1 /\ nextCall \in Nat
  BY MapsAssumption DEF ProbeTypeOK, Call
<1>2. /\ \A u \in Threads \ {t} : threadDbCtx'[u] = threadDbCtx[u]
      /\ threadDbCtx'[t] \in {threadDbCtx[t], [call |-> nextCall, processed |-> FALSE]}
  <2>1. CASE isQuery /\ UprobeOpen BY <1>1, <2>1, QueryProgramType DEF MapsTypeOK
  <2>2. CASE ~(isQuery /\ UprobeOpen) BY <2>2 DEF MapsTypeOK
  <2> QED BY <2>1, <2>2
<1>3. \A u \in Threads : threadDbCtx[u].call \in Int BY CallType DEF MapsTypeOK, DbCtxEntry
<1>4. Reported' = Reported BY DEF Reported, pumpVars
<1>5. EntryFresh' BY <1>1, <1>2, <1>3 DEF FreshInv, EntryFresh
<1>6. \A i \in DOMAIN Reported : Reported[i] # ZeroCtx => Reported[i].query \in Int
  BY ReportedType DEF Printable, DbCtx, Call
<1>7. ReportFresh' BY <1>1, <1>2, <1>3, <1>4, <1>6 DEF FreshInv, ReportFresh
<1>8. NoDuplicateReport' BY <1>4 DEF FreshInv, NoDuplicateReport
<1> QED BY <1>5, <1>7, <1>8 DEF FreshInv

LEMMA PushFresh ==
  ASSUME TypeInv, FreshInv, [Next]_vars, NEW t \in Threads, NEW c \in CPUs, ReturnPush(t, c),
         UNCHANGED pumpVars,
         \A u \in Threads, isQuery \in BOOLEAN : ~Enter(u, isQuery)
  PROVE  FreshInv'
<1> DEFINE new == Reported'  rec == RecordOf(t)
<1>1. PICK k \in Nat : \A i \in 1..(Len(new) - 1) :
              LET j == IF i <= k THEN i ELSE i + 1
              IN  j \in DOMAIN Reported /\ new[i] = Reported[j]
  BY ReportedPush
<1>2. Len(new) >= 1 /\ new[Len(new)] = rec BY ReportedPush
<1>3. DOMAIN new = 1..Len(new) /\ Len(new) \in Nat BY TypeNext, ReportedType
<1>4. HasEntry(t) /\ ~threadDbCtx[t].processed /\ rec.query = threadDbCtx[t].call
  BY DEF ReturnPush, Unhandled, RecordOf
<1>5. threadDbCtx'[t].processed
  BY DEF ReturnPush, MarkProcessed, TypeInv, TypeOK, MapsTypeOK, DbCtxEntry
<1>6. EntryFresh' BY EntriesChange DEF FreshInv, EntryFresh, HasEntry
<1>7. ReportFresh'
  <2> SUFFICES ASSUME NEW i \in DOMAIN new, new[i] # ZeroCtx
               PROVE  /\ new[i].query < nextCall'
                      /\ \A u \in Threads : HasEntry(u)' /\ ~threadDbCtx'[u].processed =>
                           new[i].query # threadDbCtx'[u].call
    BY DEF ReportFresh
  <2>1. CASE i = Len(new)
    <3>1. rec.query < nextCall' BY <1>4, EntriesChange DEF FreshInv, EntryFresh
    <3>2. ASSUME NEW u \in Threads, HasEntry(u)', ~threadDbCtx'[u].processed
          PROVE  rec.query # threadDbCtx'[u].call
      <4>1. u # t BY <1>5, <3>2
      <4> QED BY <1>4, <4>1, EntriesChange DEF FreshInv, EntryFresh
    <3> QED BY <1>2, <2>1, <3>1, <3>2
  <2>2. CASE i # Len(new)
    <3>1. i \in 1..(Len(new) - 1) BY <1>3, <2>2
    <3>2. PICK j \in DOMAIN Reported : new[i] = Reported[j] BY <1>1, <3>1
    <3>3. /\ Reported[j].query < nextCall
          /\ \A u \in Threads : HasEntry(u) /\ ~threadDbCtx[u].processed =>
               Reported[j].query # threadDbCtx[u].call
      BY <3>2 DEF FreshInv, ReportFresh
    <3> QED BY <3>2, <3>3, EntriesChange DEF HasEntry
  <2> QED BY <2>1, <2>2
<1>8. NoDuplicateReport'
  <2>1. \A i \in 1..(Len(new) - 1) : new[i] # ZeroCtx => new[i].query # rec.query
    BY <1>1, <1>4 DEF FreshInv, ReportFresh
  <2>2. \A i, j \in 1..(Len(new) - 1) : i # j =>
          new[i] = ZeroCtx \/ new[j] = ZeroCtx \/ new[i].query # new[j].query
    BY <1>1, <1>3 DEF FreshInv, NoDuplicateReport
  <2> SUFFICES ASSUME NEW i \in DOMAIN new, NEW j \in DOMAIN new, i # j
               PROVE  new[i] = ZeroCtx \/ new[j] = ZeroCtx \/ new[i].query # new[j].query
    BY DEF NoDuplicateReport
  <2>3. CASE i = Len(new) BY <1>2, <1>3, <2>1, <2>3
  <2>4. CASE j = Len(new) BY <1>2, <1>3, <2>1, <2>4
  <2>5. CASE i # Len(new) /\ j # Len(new) BY <1>3, <2>2, <2>5
  <2> QED BY <2>3, <2>4, <2>5
<1> QED BY <1>6, <1>7, <1>8 DEF FreshInv

LEMMA FreshNext ==
  ASSUME RoomForBacklog, TypeInv, BalanceInv, FreshInv, [Next]_vars
  PROVE  FreshInv'
<1>1. ASSUME NEW t \in Threads, NEW isQuery \in BOOLEAN, Enter(t, isQuery) PROVE FreshInv'
  <2>1. nextCall' # nextCall BY <1>1 DEF Enter, TypeInv, TypeOK, ProbeTypeOK
  <2>2. UNCHANGED pumpVars BY <2>1 DEF Next, vars, probeVars
  <2> QED BY <1>1, <2>2, EnterFresh
<1> SUFFICES ASSUME \A t \in Threads, isQuery \in BOOLEAN : ~Enter(t, isQuery) PROVE FreshInv'
  BY <1>1
<1>2. ASSUME NEW t \in Threads, NEW c \in CPUs, ReturnPush(t, c) PROVE FreshInv'
  BY <1>2, PushLeavesPump, PushFresh
<1>3. ASSUME Reported' = Reported PROVE FreshInv'
  <2>1. EntryFresh' BY EntriesChange DEF FreshInv, EntryFresh, HasEntry
  <2>2. ReportFresh' BY <1>3, EntriesChange DEF FreshInv, ReportFresh, HasEntry
  <2> QED BY <1>3, <2>1, <2>2 DEF FreshInv, NoDuplicateReport
<1>4. CASE PumpPop
  <2>1. dbCtxQueue # <<>> BY <1>4, BacklogNotEmpty DEF BalanceInv, PopFindsRecord, PumpPop
  <2> QED BY <1>3, <1>4, <2>1, ReportedPop
<1>5. CASE ~PumpPop /\ \A t \in Threads, c \in CPUs : ~ReturnPush(t, c)
  BY <1>3, <1>5, ReportedSame
<1> QED BY <1>2, <1>4, <1>5

\* A command is reported at most once, in the log or the queue, however many
\* pairs of probes see it return and whatever is lost, as long as the queue has
\* room for the backlog of samples (NoDuplicateReport).
THEOREM ReportedOnce == ASSUME RoomForBacklog PROVE Spec => []NoDuplicateReport
<1> DEFINE Inv == TypeInv /\ BalanceInv /\ FreshInv
<1>1. Init => Inv
  <2>1. Init => FreshInv
    BY DEF Init, MapsInit, ProbeInit, PumpInit, FreshInv, EntryFresh, ReportFresh,
           NoDuplicateReport, HasEntry, NoEntry, Reported
  <2> QED BY <2>1, TypeInit, BalanceInit
<1>2. Inv /\ [Next]_vars => Inv' BY TypeNext, BalanceNext, FreshNext
<1>3. Inv => NoDuplicateReport BY DEF FreshInv
<1> QED BY <1>1, <1>2, <1>3, PTL DEF Spec

-----------------------------------------------------------------------------
(* The refinement of AuditLog.                                             *)

\* The threads in thread_db_ctx_hash, as many as it holds.
Tracked == {t \in Threads : HasEntry(t)}
TableInv == Cardinality(Tracked) <= HashCap

LEMMA TrackedFinite == IsFiniteSet(Tracked) /\ Cardinality(Tracked) \in Nat
BY FS_Subset, FS_CardinalityType, MapsAssumption DEF Tracked

\* What entering dispatch_command does to the table: nothing, or else the thread's
\* entry is the new command's and the table still holds no more than it can.
LEMMA EnterTable ==
  ASSUME TypeInv, TableInv, NEW t \in Threads, NEW isQuery \in BOOLEAN, Enter(t, isQuery)
  PROVE  \/ UNCHANGED threadDbCtx
         \/ /\ threadDbCtx' =
                 [threadDbCtx EXCEPT ![t] = [call |-> nextCall, processed |-> FALSE]]
            /\ Tracked' = Tracked \union {t}
            /\ TableInv'
<1> DEFINE entry == [call |-> nextCall, processed |-> FALSE]
<1> SUFFICES ASSUME ~UNCHANGED threadDbCtx
             PROVE  /\ threadDbCtx' = [threadDbCtx EXCEPT ![t] = entry]
                    /\ Tracked' = Tracked \union {t}
                    /\ TableInv'
  OBVIOUS
<1>1. UpdateDbCtx(t, entry) BY DEF Enter, mysql57_query
<1>2. /\ HasEntry(t) \/ Cardinality(Tracked) < HashCap
      /\ threadDbCtx' = [threadDbCtx EXCEPT ![t] = entry]
  BY <1>1 DEF UpdateDbCtx, Tracked
<1>3. nextCall # 0 BY MapsAssumption DEF TypeInv, TypeOK, ProbeTypeOK
<1>4. /\ threadDbCtx'[t].call = nextCall
      /\ \A u \in Threads \ {t} : threadDbCtx'[u] = threadDbCtx[u]
  BY <1>2 DEF TypeInv, TypeOK, MapsTypeOK
<1>5. Tracked' = Tracked \union {t} BY <1>3, <1>4 DEF Tracked, HasEntry
<1>6. CASE t \in Tracked
  <2>1. Tracked' = Tracked BY <1>5, <1>6
  <2> QED BY <1>2, <1>5, <2>1 DEF TableInv
<1>7. CASE t \notin Tracked
  <2>1. Cardinality(Tracked') = Cardinality(Tracked) + 1
    BY <1>5, <1>7, TrackedFinite, FS_AddElement
  <2>2. Cardinality(Tracked) < HashCap BY <1>2, <1>7 DEF Tracked
  <2> QED BY <1>2, <1>5, <2>1, <2>2, TrackedFinite, MapsAssumption DEF TableInv
<1> QED BY <1>6, <1>7

\* Nothing else takes a place in the table or gives one up.
LEMMA TrackedStay ==
  ASSUME TypeInv, [Next]_vars, \A t \in Threads, isQuery \in BOOLEAN : ~Enter(t, isQuery)
  PROVE  Tracked' = Tracked
<1>1. \A t \in Threads : threadDbCtx'[t].call = threadDbCtx[t].call BY EntriesChange
<1> QED BY <1>1 DEF Tracked, HasEntry

LEMMA TableInit == Init => TableInv
<1> SUFFICES ASSUME Init PROVE TableInv OBVIOUS
<1>1. Tracked = {} BY DEF Init, MapsInit, NoEntry, Tracked, HasEntry
<1> QED BY <1>1, FS_EmptySet, MapsAssumption DEF TableInv

LEMMA TableNext == TypeInv /\ TableInv /\ [Next]_vars => TableInv'
<1> SUFFICES ASSUME TypeInv, TableInv, [Next]_vars PROVE TableInv' OBVIOUS
<1>1. ASSUME NEW t \in Threads, NEW isQuery \in BOOLEAN, Enter(t, isQuery) PROVE TableInv'
  <2>1. CASE UNCHANGED threadDbCtx BY <2>1 DEF TableInv, Tracked, HasEntry
  <2> QED BY <1>1, <2>1, EnterTable
<1>2. CASE \A t \in Threads, isQuery \in BOOLEAN : ~Enter(t, isQuery)
  <2>1. Tracked' = Tracked BY <1>2, TrackedStay
  <2> QED BY <2>1 DEF TableInv
<1> QED BY <1>1, <1>2

LEMMA QueriesType ==
  ASSUME NEW s \in Seq(Printable)
  PROVE  /\ Queries(s) \in Seq({r.query : r \in Printable})
         /\ Len(Queries(s)) = Len(s) /\ DOMAIN Queries(s) = DOMAIN s
BY DEF Queries

LEMMA QueriesAppend ==
  ASSUME NEW s \in Seq(Printable), NEW r \in Printable
  PROVE  Queries(Append(s, r)) = Append(Queries(s), r.query)
BY QueriesType DEF Queries

LEMMA QueriesTail ==
  ASSUME NEW s \in Seq(Printable), s # <<>>
  PROVE  /\ Queries(Tail(s)) = Tail(Queries(s))
         /\ Queries(s) # <<>>
         /\ Head(Queries(s)) = Head(s).query
BY QueriesType DEF Queries

\* A step that moves no record is a stutter of AuditLog.
LEMMA PromiseStutter ==
  ASSUME UNCHANGED <<nextCall, threadDbCtx, dbCtxQueue, log>>
  PROVE  UNCHANGED Promise!vars
BY DEF Promise!vars, OpenCalls, Queries, HasEntry

LEMMA PromiseBegin ==
  ASSUME TypeInv, TableInv, NEW t \in Threads, NEW isQuery \in BOOLEAN, Enter(t, isQuery),
         UNCHANGED pumpVars
  PROVE  Promise!Ignore(t) \/ Promise!Begin(t)
<1>1. /\ nextCall <= MaxCalls /\ nextCall' = nextCall + 1
      /\ UNCHANGED <<Queries(dbCtxQueue), Queries(log)>>
  BY DEF Enter, pumpVars, Queries
<1>2. CASE UNCHANGED threadDbCtx
  BY <1>1, <1>2 DEF Promise!Ignore, OpenCalls, HasEntry
<1>3. CASE /\ threadDbCtx' = [threadDbCtx EXCEPT ![t] = [call |-> nextCall, processed |-> FALSE]]
           /\ Tracked' = Tracked \union {t}
           /\ TableInv'
  <2>1. OpenCalls' = [OpenCalls EXCEPT ![t] = nextCall]
    BY <1>3 DEF OpenCalls, TypeInv, TypeOK, MapsTypeOK
  <2>2. Tracked' \in {S \in SUBSET Threads : Cardinality(S) <= HashCap}
    BY <1>3 DEF TableInv, Tracked
  <2> QED BY <1>1, <1>3, <2>1, <2>2 DEF Promise!Begin, Tracked
<1> QED BY <1>2, <1>3, EnterTable

LEMMA PromiseClose ==
  ASSUME TypeInv, NEW t \in Threads, NEW c \in CPUs, ReturnPush(t, c), UNCHANGED pumpVars
  PROVE  Promise!Close(t)
<1> USE DEF TypeInv, TypeOK, ReturnPush
<1>1. OpenCalls[t] = threadDbCtx[t].call /\ OpenCalls[t] # 0
  BY DEF OpenCalls, Unhandled, HasEntry
<1>2. OpenCalls' = [OpenCalls EXCEPT ![t] = 0]
  BY DEF OpenCalls, MarkProcessed, MapsTypeOK, DbCtxEntry
<1>3. RecordOf(t) \in Printable BY ReportedPush DEF Printable
<1>4. dbCtxQueue \in Seq(Printable) BY ReportedType
<1>5. Queries(dbCtxQueue') = Append(IF Len(Queries(dbCtxQueue)) = QueueCap
                                   THEN Tail(Queries(dbCtxQueue)) ELSE Queries(dbCtxQueue),
                                   OpenCalls[t])
  <2>1. CASE Len(dbCtxQueue) = QueueCap
    <3>1. dbCtxQueue # <<>> BY <2>1, MapsAssumption
    <3>2. Tail(dbCtxQueue) \in Seq(Printable) BY <1>4, <3>1
    <3>3. dbCtxQueue' = Append(Tail(dbCtxQueue), RecordOf(t)) BY <2>1 DEF PushElem, RecordOf
    <3> QED BY <1>1, <1>3, <1>4, <2>1, <3>1, <3>2, <3>3, QueriesAppend, QueriesTail, QueriesType
            DEF RecordOf
  <2>2. CASE Len(dbCtxQueue) # QueueCap
    <3>1. dbCtxQueue' = Append(dbCtxQueue, RecordOf(t)) BY <2>2 DEF PushElem, RecordOf
    <3> QED BY <1>1, <1>3, <1>4, <2>2, <3>1, QueriesAppend, QueriesType DEF RecordOf
  <2> QED BY <2>1, <2>2
<1>6. UNCHANGED <<nextCall, log>> BY DEF pumpVars
<1>7. Tracked' = Tracked BY DEF Tracked, HasEntry, MarkProcessed, MapsTypeOK, DbCtxEntry
<1> QED BY <1>1, <1>2, <1>5, <1>6, <1>7 DEF Promise!Close, Queries, Tracked

LEMMA PromiseWrite ==
  ASSUME TypeInv, PumpPop, dbCtxQueue # <<>>, UNCHANGED probeVars
  PROVE  Promise!Write
<1>1. dbCtx' = Head(dbCtxQueue) /\ dbCtxQueue' = Tail(dbCtxQueue)
      /\ log' = Append(log, Head(dbCtxQueue)) /\ UNCHANGED threadDbCtx
  BY DEF PumpPop
<1>2. dbCtxQueue \in Seq(Printable) /\ log \in Seq(Printable) /\ Head(dbCtxQueue) \in Printable
  BY ReportedType
<1>3. Queries(log') = Append(Queries(log), Head(dbCtxQueue).query)
  BY <1>1, <1>2, QueriesAppend
<1> QED BY <1>1, <1>2, <1>3, QueriesTail DEF Promise!Write, OpenCalls, HasEntry, probeVars

LEMMA PromiseNext ==
  ASSUME RoomForBacklog, TypeInv, BalanceInv, TableInv, [Next]_vars
  PROVE  [Promise!Next]_(Promise!vars)
<1>1. CASE UNCHANGED vars
  BY <1>1, PromiseStutter DEF vars, mapVars, probeVars, pumpVars
<1>2. CASE ProbeNext /\ UNCHANGED pumpVars
  <2>1. CASE \E p \in Procs : Register(p) \/ Unregister(p) \/ Kill(p)
    BY <1>2, <2>1, PromiseStutter DEF Register, Unregister, Kill, mapVars, probeVars, pumpVars
  <2>2. CASE \E k \in Links : AttachStep(k)
    BY <1>2, <2>2, PromiseStutter DEF AttachStep, mapVars, pumpVars
  <2>3. CASE \E t \in Threads : Return(t) \/ ReturnSkip(t)
    BY <1>2, <2>3, PromiseStutter DEF Return, ReturnSkip, mapVars, pumpVars
  <2>4. CASE \E c \in CPUs : ReturnOutput(c)
    BY <1>2, <2>4, PromiseStutter DEF ReturnOutput, pumpVars
  <2>5. ASSUME NEW t \in Threads, NEW isQuery \in BOOLEAN, Enter(t, isQuery)
        PROVE  Promise!Next
    BY <1>2, <2>5, PromiseBegin DEF Promise!Next
  <2>6. ASSUME NEW t \in Threads, NEW c \in CPUs, ReturnPush(t, c) PROVE Promise!Next
    BY <1>2, <2>6, PromiseClose DEF Promise!Next
  <2> QED BY <1>2, <2>1, <2>2, <2>3, <2>4, <2>5, <2>6 DEF ProbeNext
<1>3. CASE PumpNext /\ UNCHANGED probeVars
  <2>1. CASE PumpPop
    <3>1. dbCtxQueue # <<>> BY <2>1, BacklogNotEmpty DEF BalanceInv, PopFindsRecord, PumpPop
    <3> QED BY <1>3, <2>1, <3>1, PromiseWrite DEF Promise!Next
  <2>2. CASE ~PumpPop
    BY <1>3, <2>2, PromiseStutter
    DEF PumpNext, PumpSelect, PumpRead, PumpReadError, PumpPopError, CancelPump, CloseReader,
        mapVars, probeVars
  <2> QED BY <2>1, <2>2
<1> QED BY <1>1, <1>2, <1>3 DEF Next

\* The detailed audit path implements AuditLog (KeepsPromise): between a command
\* and its line in the log, records are lost only at a full queue, never
\* reordered, invented or written twice.
THEOREM PromiseKept == ASSUME RoomForBacklog PROVE Spec => KeepsPromise
<1> DEFINE Inv == TypeInv /\ BalanceInv /\ TableInv
<1>1. Init => Promise!Init
  BY DEF Init, MapsInit, ProbeInit, PumpInit, Promise!Init, OpenCalls, NoEntry, HasEntry, Queries
<1>2. Init => Inv BY TypeInit, BalanceInit, TableInit
<1>3. Inv /\ [Next]_vars => Inv' BY TypeNext, BalanceNext, TableNext
<1>4. Inv /\ [Next]_vars => [Promise!Next]_(Promise!vars) BY PromiseNext
<1> QED BY <1>1, <1>2, <1>3, <1>4, PTL DEF Spec, KeepsPromise, Promise!Spec

=============================================================================
