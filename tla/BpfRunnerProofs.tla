-------------------------- MODULE BpfRunnerProofs --------------------------
(***************************************************************************)
(* Proofs about BpfRunner, for any pods, containers and identifiers, any   *)
(* capacity of clusters and any number of waiting notifications.           *)
(***************************************************************************)
EXTENDS BpfRunner, FiniteSetTheorems, TLAPS

USE DEF history

-----------------------------------------------------------------------------
(* Type correctness.                                                       *)

Born(c) == c \in Containers /\ pidOf[c] \in Pids

\* What the goroutines know where they are: H and L work on containers that
\* have been born, L has one exactly while it attaches it, and r.mu is held by
\* L between AttachLock and the return of attachInstance, by H while it
\* reports a failed Delete.
PlaceInv ==
  /\ hPc # "idle" => Born(hC)
  /\ IF lPc \in {"lock", "write", "update", "stuck"} THEN Born(lC) ELSE lC = NoContainer
  /\ mu = "L" <=> lPc \in {"write", "update", "stuck"}
  /\ mu = "H" <=> hPc = "errLocked"
  /\ \A j \in DOMAIN notes : Born(notes[j].c)
  /\ \A p \in Pods : current[p] # NoContainer => Born(current[p]) /\ PodOf[current[p]] = p
  /\ \A c \in instances : Born(c)

\* The wait group counts the attach goroutines, wherever they are.
CountInv == wg = att["open"] + att["err"] + att["attached"]

TypeInv == TypeOK /\ PlaceInv /\ CountInv

LEMMA NotBorn == NoPid \notin Pids /\ NoContainer \notin Containers
BY RunnerAssumption

\* A notification joins the queue ...
LEMMA NotifyType ==
  ASSUME TypeInv, NEW kind \in {"update", "delete", "unknown"}, NEW c \in Containers,
         Len(notes) < MaxNotes, Notify(kind, c)
  PROVE  /\ notes' \in Seq(Note) /\ Len(notes') <= MaxNotes
         /\ \A j \in DOMAIN notes' :
              (j \in DOMAIN notes /\ notes'[j] = notes[j]) \/ notes'[j] = [kind |-> kind, c |-> c]
<1> DEFINE n == [kind |-> kind, c |-> c]
<1>1. n \in Note BY DEF Note
<1>2. notes \in Seq(Note) /\ MaxNotes \in Nat BY RunnerAssumption DEF TypeInv, TypeOK
<1>3. notes' = Append(notes, n) BY DEF Notify
<1> HIDE DEF n
<1>4. notes' \in Seq(Note) /\ Len(notes') = Len(notes) + 1 BY <1>1, <1>2, <1>3
<1>5. \A j \in DOMAIN notes' : (j \in DOMAIN notes /\ notes'[j] = notes[j]) \/ notes'[j] = n
  BY <1>1, <1>2, <1>3
<1> QED BY <1>2, <1>4, <1>5 DEF n

\* ... and leaves it.
LEMMA TakenType ==
  ASSUME TypeInv, NEW kind, Taken(kind)
  PROVE  /\ notes' \in Seq(Note) /\ Len(notes') <= MaxNotes
         /\ Head(notes) = notes[1] /\ notes[1] \in Note /\ Born(notes[1].c)
         /\ \A j \in DOMAIN notes' : j + 1 \in DOMAIN notes /\ notes'[j] = notes[j + 1]
<1>1. notes \in Seq(Note) /\ notes # <<>> /\ notes' = Tail(notes) /\ Len(notes) <= MaxNotes
  BY DEF TypeInv, TypeOK, Taken
<1>2. 1 \in DOMAIN notes /\ notes[1] \in Note /\ Head(notes) = notes[1] BY <1>1
<1>3. notes' \in Seq(Note) /\ Len(notes') = Len(notes) - 1 BY <1>1
<1>4. \A j \in DOMAIN notes' : j + 1 \in DOMAIN notes /\ notes'[j] = notes[j + 1] BY <1>1
<1>5. Len(notes) \in Nat /\ Len(notes) - 1 <= MaxNotes BY <1>1, RunnerAssumption
<1> QED BY <1>2, <1>3, <1>4, <1>5 DEF TypeInv, PlaceInv

LEMMA TypeInit == Init => TypeInv
<1> SUFFICES ASSUME Init PROVE TypeInv OBVIOUS
<1>1. notes \in Seq(Note) /\ Len(notes) <= MaxNotes /\ DOMAIN notes = {}
  BY RunnerAssumption DEF Init
<1>2. Cardinality(clusters) <= ClustersCap BY FS_EmptySet, RunnerAssumption DEF Init
<1>3. TypeOK BY <1>1, <1>2 DEF Init, TypeOK, Places
<1>4. PlaceInv BY <1>1 DEF Init, PlaceInv
<1>5. CountInv
  <2>1. att["open"] = 0 /\ att["err"] = 0 /\ att["attached"] = 0 /\ wg = 0 BY DEF Init, Places
  <2> QED BY <2>1 DEF CountInv
<1> QED BY <1>3, <1>4, <1>5 DEF TypeInv

LEMMA ClustersFinite ==
  ASSUME TypeOK
  PROVE  IsFiniteSet(clusters) /\ Cardinality(clusters) \in Nat
BY FS_Subset, FS_CardinalityType, RunnerAssumption DEF TypeOK

\* The steps of the cluster and the shutdown keep the types.
LEMMA TypeEnvironment == TypeInv /\ Environment => TypeInv'
<1> SUFFICES ASSUME TypeInv, Environment PROVE TypeInv' OBVIOUS
<1> USE NotBorn DEF TypeInv, TypeOK, PlaceInv, CountInv, Born, agentVars
<1>1. ASSUME NEW c \in Containers, NEW i \in Pids, Ready(c, i) PROVE TypeInv'
  <2>1. /\ notes' \in Seq(Note) /\ Len(notes') <= MaxNotes
        /\ \A j \in DOMAIN notes' :
             (j \in DOMAIN notes /\ notes'[j] = notes[j]) \/ notes'[j] = [kind |-> "update", c |-> c]
    BY <1>1, NotifyType DEF Ready, RoomForNote
  <2>2. PodOf[c] \in Pods BY RunnerAssumption
  <2>3. pidOf' = [pidOf EXCEPT ![c] = i] /\ current' = [current EXCEPT ![PodOf[c]] = c]
    BY <1>1 DEF Ready
  <2>4. \A d \in Containers : pidOf[d] \in Pids => pidOf'[d] \in Pids BY <2>3
  <2>5. TypeOK' BY <1>1, <2>1, <2>2, <2>3 DEF Ready
  <2>6. \A j \in DOMAIN notes' : Born(notes[j].c)' BY <2>1, <2>3, <2>4
  <2>7. \A p \in Pods : current'[p] # NoContainer => Born(current[p])' /\ PodOf[current'[p]] = p
    BY <2>2, <2>3, <2>4
  <2> QED BY <1>1, <2>3, <2>4, <2>5, <2>6, <2>7 DEF Ready
<1>2. ASSUME NEW c \in Containers, Die(c) PROVE TypeInv'
  BY <1>2 DEF Die
<1>3. ASSUME NEW p \in Pods, NEW kind \in {"delete", "unknown"}, DeletePod(p, kind) PROVE TypeInv'
  <2>1. current[p] \in Containers BY <1>3 DEF DeletePod
  <2>2. /\ notes' \in Seq(Note) /\ Len(notes') <= MaxNotes
        /\ \A j \in DOMAIN notes' :
             (j \in DOMAIN notes /\ notes'[j] = notes[j])
               \/ notes'[j] = [kind |-> kind, c |-> current[p]]
    BY <1>3, <2>1, NotifyType DEF DeletePod, RoomForNote
  <2>3. UNCHANGED <<pidOf, current, informing, ctxDone, agentVars>>
        /\ deleted' = deleted \union {p} /\ live' = live \ {current[p]}
    BY <1>3 DEF DeletePod
  <2>4. TypeOK' BY <2>2, <2>3
  <2>5. \A j \in DOMAIN notes' : Born(notes[j].c)' BY <1>3, <2>2, <2>3 DEF DeletePod
  <2>6. CountInv' BY <2>3
  <2> QED BY <2>3, <2>4, <2>5, <2>6
<1>4. ASSUME NEW p \in Pods, Resync(p) PROVE TypeInv'
  <2>1. current[p] \in Containers BY <1>4 DEF Resync
  <2>2. /\ notes' \in Seq(Note) /\ Len(notes') <= MaxNotes
        /\ \A j \in DOMAIN notes' :
             (j \in DOMAIN notes /\ notes'[j] = notes[j])
               \/ notes'[j] = [kind |-> "update", c |-> current[p]]
    BY <1>4, <2>1, NotifyType DEF Resync, RoomForNote
  <2> QED BY <1>4, <2>1, <2>2 DEF Resync
<1>5. CASE StopInformers
  <2>1. PICK n \in 0..Len(notes) : notes' = SubSeq(notes, 1, n) BY <1>5 DEF StopInformers
  <2>2. notes' \in Seq(Note) /\ Len(notes') = n BY <2>1
  <2>3. \A j \in DOMAIN notes' : j \in DOMAIN notes /\ notes'[j] = notes[j] BY <2>1
  <2>4. n <= MaxNotes BY RunnerAssumption
  <2>5. notes' \in Seq(Note) /\ Len(notes') <= MaxNotes BY <2>2, <2>4, Zenon
  <2>7. TypeOK'
    <3>1. informing' = FALSE /\ UNCHANGED <<pidOf, live, current, deleted, ctxDone, agentVars>>
      BY <1>5 DEF StopInformers
    <3>2. UNCHANGED <<crashed, hPc, hC, lPc, lC, att, wg, mu, instances, clusters, attached,
                      overtaken, stranded>>
      BY <3>1
    <3> QED BY <2>5, <3>1, <3>2
  <2>6. \A j \in DOMAIN notes' : Born(notes[j].c)' BY <1>5, <2>3 DEF StopInformers
  <2> QED BY <1>5, <2>6, <2>7 DEF StopInformers
<1>6. CASE Cancel BY <1>6 DEF Cancel
<1> HIDE DEF TypeInv
<1> QED BY <1>1, <1>2, <1>3, <1>4, <1>5, <1>6 DEF Environment

\* So do the handlers ...
LEMMA TypeHandlers == TypeInv /\ HNext => TypeInv'
<1> SUFFICES ASSUME TypeInv, HNext PROVE TypeInv' OBVIOUS
<1> USE NotBorn DEF TypeInv, TypeOK, PlaceInv, CountInv, Born, envVars
<1>1. CASE TakeUpdate
  <2>1. /\ notes' \in Seq(Note) /\ Len(notes') <= MaxNotes
        /\ Head(notes) = notes[1] /\ notes[1] \in Note /\ Born(notes[1].c)
        /\ \A j \in DOMAIN notes' : j + 1 \in DOMAIN notes /\ notes'[j] = notes[j + 1]
    BY <1>1, TakenType DEF TakeUpdate
  <2>2. \A j \in DOMAIN notes' : Born(notes[j].c)' BY <1>1, <2>1 DEF TakeUpdate
  <2>3. hC' \in {hC, notes[1].c} /\ hPc' \in {"idle", "inspect", "lock"} /\ hPc # "errLocked"
        /\ (hPc' # "idle" => Born(hC)')
    BY <1>1, <2>1 DEF TakeUpdate
  <2>4. overtaken' \subseteq Containers /\ crashed' \in BOOLEAN BY <1>1, <2>1 DEF TakeUpdate, Note
  <2>5. UNCHANGED <<pidOf, live, current, deleted, informing, ctxDone, lPc, lC, att, wg, mu,
                    instances, clusters, attached, stranded>>
    BY <1>1 DEF TakeUpdate
  <2>6. TypeOK'
    <3>1. hC' \in Containers \union {NoContainer} BY <2>1, <2>3 DEF Note
    <3> QED BY <2>1, <2>3, <2>4, <2>5, <3>1
  <2>7. mu # "H" BY <2>3
  <2> QED BY <2>2, <2>3, <2>5, <2>6, <2>7
<1>2. CASE Inspect("send") \/ Inspect("err") BY <1>2 DEF Inspect, HGoto
<1>3. CASE TakeDelete
  <2>1. /\ notes' \in Seq(Note) /\ Len(notes') <= MaxNotes
        /\ Head(notes) = notes[1] /\ notes[1] \in Note /\ Born(notes[1].c)
        /\ \A j \in DOMAIN notes' : j + 1 \in DOMAIN notes /\ notes'[j] = notes[j + 1]
    BY <1>3, TakenType DEF TakeDelete
  <2>2. \A j \in DOMAIN notes' : Born(notes[j].c)' BY <1>3, <2>1 DEF TakeDelete
  <2>3. hC' \in {hC, notes[1].c} /\ hPc' \in {"idle", "inspect", "lock"} /\ hPc # "errLocked"
        /\ (hPc' # "idle" => Born(hC)')
    BY <1>3, <2>1 DEF TakeDelete
  <2>4. overtaken' \subseteq Containers /\ crashed' \in BOOLEAN
    <3>1. notes[1].c \in Containers BY <2>1
    <3> HIDE DEF TypeOK, PlaceInv
    <3>2. overtaken \subseteq Containers /\ crashed \in BOOLEAN BY DEF TypeOK
    <3> QED BY <1>3, <2>1, <3>1, <3>2 DEF TakeDelete
  <2>5. UNCHANGED <<pidOf, live, current, deleted, informing, ctxDone, lPc, lC, att, wg, mu,
                    instances, clusters, attached, stranded>>
    BY <1>3 DEF TakeDelete
  <2>6. TypeOK'
    <3>1. hC' \in Containers \union {NoContainer} BY <2>1, <2>3 DEF Note
    <3> QED BY <2>1, <2>3, <2>4, <2>5, <3>1
  <2>7. mu # "H" BY <2>3
  <2> QED BY <2>2, <2>3, <2>5, <2>6, <2>7
<1>4. CASE TakeUnknown
  <2>1. /\ notes' \in Seq(Note) /\ Len(notes') <= MaxNotes
        /\ \A j \in DOMAIN notes' : j + 1 \in DOMAIN notes /\ notes'[j] = notes[j + 1]
    BY <1>4, TakenType DEF TakeUnknown
  <2> QED BY <1>4, <2>1 DEF TakeUnknown
<1>5. CASE Detach
  <2>1. \/ clusters' = clusters
        \/ pidOf[hC] \in clusters /\ clusters' = clusters \ {pidOf[hC]}
    BY <1>5 DEF Detach
  <2>2. Cardinality(clusters') <= ClustersCap
    <3>1. \A i \in clusters : Cardinality(clusters \ {i}) = Cardinality(clusters) - 1
      BY ClustersFinite, FS_RemoveElement
    <3>2. CASE clusters' = clusters
      BY <3>2
    <3>3. CASE pidOf[hC] \in clusters /\ clusters' = clusters \ {pidOf[hC]}
      <4>1. Cardinality(clusters') = Cardinality(clusters) - 1 BY <3>1, <3>3
      <4> QED BY <4>1, ClustersFinite, RunnerAssumption
    <3> QED BY <2>1, <3>2, <3>3
  <2> QED BY <1>5, <2>1, <2>2 DEF Detach, Detached, HGoto
<1>6. CASE SendOnClosed BY <1>6 DEF SendOnClosed
<1> QED BY <1>1, <1>2, <1>3, <1>4, <1>5, <1>6 DEF HNext

\* ... the loop of Start ...
LEMMA TypeLoop == TypeInv /\ LNext => TypeInv'
<1> SUFFICES ASSUME TypeInv, LNext PROVE TypeInv' OBVIOUS
<1> USE NotBorn DEF TypeInv, TypeOK, PlaceInv, CountInv, Born, envVars, Places
<1>1. CASE LoopDone BY <1>1 DEF LoopDone
<1>2. CASE LoopInstance BY <1>2 DEF LoopInstance, HGoto
<1>3. CASE LoopErrorOfH BY <1>3 DEF LoopErrorOfH, HGoto
<1>4. CASE LoopErrorOfAttach
  <2>1. /\ att' \in [Places -> Nat] /\ wg' \in Nat
        /\ wg' = att'["open"] + att'["err"] + att'["attached"]
    BY <1>4 DEF LoopErrorOfAttach
  <2> QED BY <1>4, <2>1 DEF LoopErrorOfAttach
<1>5. CASE AttachLock BY <1>5 DEF AttachLock
<1>6. CASE AttachWrite BY <1>6 DEF AttachWrite
<1>7. CASE AttachUpdate
  <2>1. lC \in Containers /\ pidOf[lC] \in Pids BY <1>7 DEF AttachUpdate
  <2>2. CASE RoomFor(pidOf[lC])
    <3>1. clusters' = clusters \union {pidOf[lC]} BY <1>7, <2>2 DEF AttachUpdate
    <3>2. Cardinality(clusters') <= ClustersCap
      <4>1. CASE pidOf[lC] \in clusters
        <5>1. clusters' = clusters BY <3>1, <4>1
        <5> QED BY <5>1
      <4>2. CASE pidOf[lC] \notin clusters
        <5>1. Cardinality(clusters') = Cardinality(clusters) + 1
          BY <3>1, <4>2, ClustersFinite, FS_AddElement
        <5> QED BY <2>2, <4>2, <5>1, ClustersFinite, RunnerAssumption DEF RoomFor
      <4> QED BY <4>1, <4>2
    <3>3. /\ att' \in [Places -> Nat] /\ wg' \in Nat
          /\ wg' = att'["open"] + att'["err"] + att'["attached"]
      BY <1>7, <2>2 DEF AttachUpdate
    <3> QED BY <1>7, <2>1, <2>2, <3>1, <3>2, <3>3 DEF AttachUpdate
  <2>3. CASE ~RoomFor(pidOf[lC]) BY <1>7, <2>3 DEF AttachUpdate
  <2> QED BY <2>2, <2>3
<1>8. CASE CloseChannels BY <1>8 DEF CloseChannels
<1> QED BY <1>1, <1>2, <1>3, <1>4, <1>5, <1>6, <1>7, <1>8 DEF LNext

\* ... and the attach goroutines.
LEMMA TypeAttachers == TypeInv /\ ANext => TypeInv'
<1> SUFFICES ASSUME TypeInv, ANext PROVE TypeInv' OBVIOUS
<1>1. /\ att' \in [Places -> Nat] /\ wg' \in Nat
      /\ wg' = att'["open"] + att'["err"] + att'["attached"]
  <2>1. /\ att \in [Places -> Nat] /\ wg = att["open"] + att["err"] + att["attached"]
        /\ att["open"] \in Nat /\ att["err"] \in Nat /\ att["attached"] \in Nat
    BY DEF TypeInv, TypeOK, CountInv, Places
  <2>2. CASE OpenFails BY <2>1, <2>2 DEF OpenFails, Places
  <2>3. CASE Open BY <2>1, <2>3 DEF Open, Places
  <2>4. CASE Unattach BY <2>1, <2>4 DEF Unattach, Places
  <2> QED BY <2>2, <2>3, <2>4 DEF ANext
<1>2. attached' \in BOOLEAN BY DEF ANext, OpenFails, Open, Unattach, TypeInv, TypeOK
<1>3. UNCHANGED <<envVars, crashed, hPc, hC, lPc, lC, mu, instances, clusters, overtaken>>
  BY DEF ANext, OpenFails, Open, Unattach
<1>4. stranded' \subseteq Pids BY DEF ANext, OpenFails, Open, Unattach, TypeInv, TypeOK
<1> QED BY <1>1, <1>2, <1>3, <1>4 DEF TypeInv, TypeOK, PlaceInv, CountInv, Born, envVars

LEMMA TypeNext == TypeInv /\ [Next]_vars => TypeInv'
<1> SUFFICES ASSUME TypeInv, [Next]_vars PROVE TypeInv' OBVIOUS
<1>1. CASE UNCHANGED vars
  BY <1>1 DEF vars, envVars, agentVars, TypeInv, TypeOK, PlaceInv, CountInv, Born
<1> QED BY <1>1, TypeEnvironment, TypeHandlers, TypeLoop, TypeAttachers DEF Next

LEMMA TypeInvariant == Spec => []TypeInv
BY TypeInit, TypeNext, PTL DEF Spec

\* The tables, the channels' users and the lock only ever hold what their types
\* allow; in particular clusters never outgrows its max_entries.
THEOREM RunnerTypeCorrect == Spec => []TypeOK
<1>1. TypeInv => TypeOK BY DEF TypeInv
<1> QED BY <1>1, TypeInvariant, PTL

-----------------------------------------------------------------------------
(* The two tables.                                                         *)

\* While L is past its write to r.Instances, with r.mu, its container stays there.
WriteInv == lPc \in {"update", "stuck"} => lC \in instances

TablesInv == WriteInv /\ TablesAgree

\* A container keeps its identifier once it has one ...
LEMMA PidsStay ==
  ASSUME TypeInv, [Next]_vars
  PROVE  \A c \in Containers : pidOf[c] \in Pids => pidOf'[c] = pidOf[c]
<1>1. CASE \E c \in Containers, i \in Pids : Ready(c, i)
  BY <1>1, NotBorn DEF Ready, TypeInv, TypeOK
<1>2. CASE UNCHANGED pidOf BY <1>2
<1>3. CASE Environment
  BY <1>1, <1>2, <1>3 DEF Environment, Die, DeletePod, Resync, StopInformers, Cancel
<1>4. CASE HNext
  BY <1>2, <1>4 DEF HNext, TakeUpdate, Inspect, TakeDelete, TakeUnknown, Detach, SendOnClosed,
     envVars
<1>5. CASE LNext \/ ANext
  BY <1>2, <1>5 DEF LNext, LoopDone, LoopInstance, LoopErrorOfH, LoopErrorOfAttach, AttachLock,
     AttachWrite, AttachUpdate, CloseChannels, ANext, OpenFails, Open, Unattach, envVars
<1> QED BY <1>2, <1>3, <1>4, <1>5 DEF Next, vars, envVars

\* ... a deleted pod keeps its last container ...
LEMMA DeletedStays ==
  ASSUME TypeInv, [Next]_vars
  PROVE  \A c \in Containers : LastOfDeleted(c) => LastOfDeleted(c)'
<1>1. ASSUME NEW c \in Containers, NEW i \in Pids, Ready(c, i)
      PROVE  \A d \in Containers : LastOfDeleted(d) => LastOfDeleted(d)'
  BY <1>1 DEF Ready, LastOfDeleted, TypeInv, TypeOK
<1>2. CASE deleted \subseteq deleted' /\ UNCHANGED current BY <1>2 DEF LastOfDeleted
<1>3. CASE Environment
  BY <1>1, <1>2, <1>3 DEF Environment, Die, DeletePod, Resync, StopInformers, Cancel
<1>4. CASE HNext
  BY <1>2, <1>4 DEF HNext, TakeUpdate, Inspect, TakeDelete, TakeUnknown, Detach, SendOnClosed,
     envVars
<1>5. CASE LNext \/ ANext
  BY <1>2, <1>5 DEF LNext, LoopDone, LoopInstance, LoopErrorOfH, LoopErrorOfAttach, AttachLock,
     AttachWrite, AttachUpdate, CloseChannels, ANext, OpenFails, Open, Unattach, envVars
<1> QED BY <1>2, <1>3, <1>4, <1>5 DEF Next, vars, envVars

\* ... and so a deleted twin stays one.
LEMMA TwinStays ==
  ASSUME TypeInv, [Next]_vars, NEW c, Born(c), TwinDeleted(c)
  PROVE  TwinDeleted(c)'
<1>1. PICK d \in Containers \ {c} : LastOfDeleted(d) /\ pidOf[d] = pidOf[c] BY DEF TwinDeleted
<1>2. LastOfDeleted(d)' BY <1>1, DeletedStays
<1>3. pidOf'[d] = pidOf[d] /\ pidOf'[c] = pidOf[c] BY <1>1, PidsStay DEF Born
<1> QED BY <1>1, <1>2, <1>3 DEF TwinDeleted

\* What is announced as deleted, and what H is about to detach, was deleted with its
\* pod.
NoticeInv ==
  /\ \A j \in DOMAIN notes : notes[j].kind # "update" => LastOfDeleted(notes[j].c)
  /\ hPc = "lock" => LastOfDeleted(hC)

LEMMA NoticeInit == Init => NoticeInv
BY DEF Init, NoticeInv

LEMMA NoticeEnvironment == TypeInv /\ NoticeInv /\ Environment => NoticeInv'
<1> SUFFICES ASSUME TypeInv, NoticeInv, Environment PROVE NoticeInv' OBVIOUS
<1>1. \A c \in Containers : LastOfDeleted(c) => LastOfDeleted(c)' BY DeletedStays DEF Next
<1>2. \A j \in DOMAIN notes : notes[j].kind # "update" =>
        notes[j].c \in Containers /\ LastOfDeleted(notes[j].c)
  BY DEF NoticeInv, TypeInv, PlaceInv, Born
<1>3. hPc' = "lock" => LastOfDeleted(hC)'
  <2>1. UNCHANGED <<hPc, hC>>
    BY DEF Environment, Ready, Die, DeletePod, Resync, StopInformers, Cancel, agentVars
  <2>2. hPc = "lock" => hC \in Containers BY DEF TypeInv, PlaceInv, Born
  <2> QED BY <1>1, <2>1, <2>2 DEF NoticeInv, LastOfDeleted
<1>4. SUFFICES ASSUME NEW j \in DOMAIN notes', notes'[j].kind # "update"
               PROVE  LastOfDeleted(notes[j].c)'
  BY <1>3 DEF NoticeInv, LastOfDeleted
<1>5. ASSUME NEW k \in DOMAIN notes, notes'[j] = notes[k] PROVE LastOfDeleted(notes[j].c)'
  BY <1>1, <1>2, <1>4, <1>5 DEF LastOfDeleted
<1>6. ASSUME NEW c \in Containers, Notify("update", c), RoomForNote
      PROVE  LastOfDeleted(notes[j].c)'
  <2>1. (j \in DOMAIN notes /\ notes'[j] = notes[j]) \/ notes'[j] = [kind |-> "update", c |-> c]
    BY <1>4, <1>6, NotifyType DEF RoomForNote
  <2> QED BY <1>4, <1>5, <2>1
<1>7. ASSUME NEW p \in Pods, NEW kind \in {"delete", "unknown"}, DeletePod(p, kind)
      PROVE  LastOfDeleted(notes[j].c)'
  <2>1. current[p] \in Containers /\ PodOf[current[p]] = p
    BY <1>7 DEF DeletePod, TypeInv, TypeOK, PlaceInv
  <2>2. LastOfDeleted(current[p])' BY <1>7, <2>1 DEF DeletePod, LastOfDeleted
  <2>3. \/ j \in DOMAIN notes /\ notes'[j] = notes[j]
        \/ notes'[j] = [kind |-> kind, c |-> current[p]]
    BY <1>4, <1>7, <2>1, NotifyType DEF DeletePod, RoomForNote
  <2>4. CASE j \in DOMAIN notes /\ notes'[j] = notes[j] BY <1>5, <2>4
  <2>5. CASE notes'[j] = [kind |-> kind, c |-> current[p]]
    <3>1. notes'[j].c = current[p] /\ current' = current BY <1>7, <2>5 DEF DeletePod
    <3> QED BY <2>2, <3>1 DEF LastOfDeleted
  <2> QED BY <2>3, <2>4, <2>5
<1>8. CASE StopInformers
  <2>1. PICK n \in 0..Len(notes) : notes' = SubSeq(notes, 1, n) BY <1>8 DEF StopInformers
  <2>2. notes \in Seq(Note) BY DEF TypeInv, TypeOK
  <2>3. j \in DOMAIN notes /\ notes'[j] = notes[j] BY <1>4, <2>1, <2>2
  <2> QED BY <1>5, <2>3
<1>9. CASE notes' = notes BY <1>4, <1>5, <1>9
<1>10. ASSUME NEW c \in Containers, NEW i \in Pids, Ready(c, i) PROVE LastOfDeleted(notes[j].c)'
  BY <1>6, <1>10 DEF Ready
<1>11. ASSUME NEW p \in Pods, Resync(p) PROVE LastOfDeleted(notes[j].c)'
  <2>1. current[p] \in Containers BY <1>11 DEF Resync, TypeInv, TypeOK
  <2> QED BY <1>6, <1>11, <2>1 DEF Resync
<1> QED BY <1>7, <1>8, <1>9, <1>10, <1>11 DEF Environment, Die, Cancel

LEMMA NoticeNext == TypeInv /\ NoticeInv /\ [Next]_vars => NoticeInv'
<1> SUFFICES ASSUME TypeInv, NoticeInv, [Next]_vars PROVE NoticeInv' OBVIOUS
<1>1. CASE UNCHANGED <<notes, hPc, hC, current, deleted>>
  BY <1>1 DEF NoticeInv, LastOfDeleted
<1>2. CASE TakeUpdate \/ TakeDelete \/ TakeUnknown
  <2>1. PICK kind \in {"update", "delete", "unknown"} :
          /\ Taken(kind) /\ UNCHANGED <<deleted, current>>
          /\ \/ UNCHANGED <<hPc, hC>>
             \/ hPc' \in {"idle", "inspect"}
             \/ hPc' = "lock" /\ kind = "delete" /\ hC' = Head(notes).c
    BY <1>2 DEF TakeUpdate, TakeDelete, TakeUnknown
  <2>2. /\ Head(notes) = notes[1] /\ 1 \in DOMAIN notes /\ notes[1].kind = kind
        /\ \A j \in DOMAIN notes' : j + 1 \in DOMAIN notes /\ notes'[j] = notes[j + 1]
    <3>1. notes \in Seq(Note) /\ notes # <<>> BY <2>1 DEF TypeInv, TypeOK, Taken
    <3>2. 1 \in DOMAIN notes BY <3>1
    <3> QED BY <2>1, <3>2, TakenType DEF Taken
  <2>3. \A c : LastOfDeleted(c)' <=> LastOfDeleted(c) BY <2>1 DEF LastOfDeleted
  <2>4. \A j \in DOMAIN notes' : notes'[j].kind # "update" => LastOfDeleted(notes'[j].c)
    BY <2>2 DEF NoticeInv
  <2>5. hPc' = "lock" => LastOfDeleted(hC') BY <2>1, <2>2 DEF NoticeInv
  <2> QED BY <2>1, <2>4, <2>5 DEF NoticeInv, LastOfDeleted
<1>3. CASE Inspect("send") \/ Inspect("err") \/ Detach \/ LoopInstance \/ LoopErrorOfH
  <2>1. UNCHANGED <<notes, current, deleted>> /\ hPc' # "lock"
    BY <1>3 DEF Inspect, Detach, LoopInstance, LoopErrorOfH, HGoto, envVars
  <2> QED BY <2>1 DEF NoticeInv, LastOfDeleted
<1>4. CASE SendOnClosed \/ ANext \/ UNCHANGED vars
  BY <1>1, <1>4 DEF SendOnClosed, ANext, OpenFails, Open, Unattach, vars, envVars, agentVars
<1>5. CASE LNext /\ ~LoopInstance /\ ~LoopErrorOfH
  BY <1>1, <1>5 DEF LNext, LoopDone, LoopErrorOfAttach, AttachLock, AttachWrite, AttachUpdate,
     CloseChannels, envVars
<1> QED BY <1>2, <1>3, <1>4, <1>5, NoticeEnvironment DEF Next, HNext

\* Steps of the cluster, with the tables as they are: a born container keeps its
\* identifier, and a twin that was deleted stays deleted.
LEMMA TablesEnvironment ==
  ASSUME TypeInv, TablesInv, [Next]_vars, UNCHANGED <<instances, clusters, lPc, lC>>
  PROVE  TablesInv'
<1>1. \A c \in instances : Born(c) BY DEF TypeInv, PlaceInv
<1>2. \A c \in instances : TwinDeleted(c) => TwinDeleted(c)' BY <1>1, TwinStays
<1>3. \A c \in instances : pidOf'[c] = pidOf[c] BY <1>1, PidsStay DEF Born
<1> QED BY <1>2, <1>3 DEF TablesInv, WriteInv, TablesAgree, BetweenWrites

\* Steps that touch neither the tables nor what they are compared with.
LEMMA TablesUnchanged ==
  ASSUME TablesInv, UNCHANGED <<pidOf, current, deleted, instances, clusters, lPc, lC>>
  PROVE  TablesInv'
BY DEF TablesInv, WriteInv, TablesAgree, BetweenWrites, TwinDeleted, LastOfDeleted

\* detachInstance takes a container and its identifier out of both.
LEMMA TablesDetach == TypeInv /\ NoticeInv /\ TablesInv /\ Detach => TablesInv'
<1> SUFFICES ASSUME TypeInv, NoticeInv, TablesInv, Detach PROVE TablesInv' OBVIOUS
<1> USE DEF Detach, envVars
<1>1. CASE pidOf[hC] \notin clusters BY <1>1, TablesUnchanged
<1>2. CASE pidOf[hC] \in clusters
  <2>1. /\ instances' = instances \ {hC} /\ clusters' = clusters \ {pidOf[hC]}
        /\ UNCHANGED <<pidOf, current, deleted, lPc, lC>>
    BY <1>2 DEF Detached
  <2>2. Born(hC) /\ \A c \in instances : Born(c) BY DEF TypeInv, PlaceInv
  <2>3. WriteInv'
    <3>1. mu # "L" BY DEF Detach
    <3> QED BY <2>1, <3>1 DEF WriteInv, TypeInv, PlaceInv
  <2>4. \A i \in clusters' : \E c \in instances' : pidOf'[c] = i
    BY <2>1 DEF TablesInv, TablesAgree
  <2>5. ASSUME NEW c \in instances' PROVE pidOf'[c] \in clusters' \/ TwinDeleted(c)' \/ BetweenWrites(c)'
    <3>1. CASE pidOf[c] = pidOf[hC]
      <4>1. hC \in Containers \ {c} /\ LastOfDeleted(hC)
        BY <2>1, <2>2, <2>5 DEF Born, NoticeInv
      <4> QED BY <2>1, <3>1, <4>1 DEF TwinDeleted, LastOfDeleted
    <3>2. CASE pidOf[c] # pidOf[hC]
      BY <2>1, <2>5, <3>2 DEF TablesInv, TablesAgree, BetweenWrites, TwinDeleted, LastOfDeleted
    <3> QED BY <3>1, <3>2
  <2> QED BY <2>3, <2>4, <2>5 DEF TablesInv, TablesAgree
<1> QED BY <1>1, <1>2

\* The steps of attachInstance and those of the loop that lead there.
LEMMA TablesLoop == TypeInv /\ TablesInv /\ LNext => TablesInv'
<1> SUFFICES ASSUME TypeInv, TablesInv, LNext PROVE TablesInv' OBVIOUS
<1> USE DEF envVars
<1>1. CASE LoopDone \/ LoopInstance
  <2>1. /\ lPc = "loop" /\ lPc' \in {"wait", "lock"}
        /\ UNCHANGED <<pidOf, current, deleted, instances, clusters>>
    BY <1>1 DEF LoopDone, LoopInstance
  <2> QED BY <2>1 DEF TablesInv, WriteInv, TablesAgree, BetweenWrites, TwinDeleted, LastOfDeleted
<1>2. CASE LoopErrorOfH \/ LoopErrorOfAttach
  BY <1>2, TablesUnchanged DEF LoopErrorOfH, LoopErrorOfAttach
<1>3. CASE AttachLock
  BY <1>3 DEF AttachLock, TablesInv, WriteInv, TablesAgree, BetweenWrites, TwinDeleted, LastOfDeleted
<1>4. CASE AttachWrite
  BY <1>4 DEF AttachWrite, TablesInv, WriteInv, TablesAgree, BetweenWrites, TwinDeleted, LastOfDeleted
<1>5. CASE AttachUpdate /\ RoomFor(pidOf[lC])
  <2>1. /\ lPc = "update" /\ lPc' = "loop" /\ clusters' = clusters \union {pidOf[lC]}
        /\ UNCHANGED <<pidOf, current, deleted, instances>>
    BY <1>5 DEF AttachUpdate
  <2>2. lC \in instances BY <2>1 DEF TablesInv, WriteInv
  <2> QED BY <2>1, <2>2 DEF TablesInv, WriteInv, TablesAgree, BetweenWrites, TwinDeleted, LastOfDeleted
<1>6. CASE AttachUpdate /\ ~RoomFor(pidOf[lC])
  BY <1>6 DEF AttachUpdate, TablesInv, WriteInv, TablesAgree, BetweenWrites, TwinDeleted, LastOfDeleted
<1>7. CASE CloseChannels
  BY <1>7 DEF CloseChannels, TablesInv, WriteInv, TablesAgree, BetweenWrites, TwinDeleted, LastOfDeleted
<1> QED BY <1>1, <1>2, <1>3, <1>4, <1>5, <1>6, <1>7 DEF LNext

LEMMA TablesNext == TypeInv /\ NoticeInv /\ TablesInv /\ [Next]_vars => TablesInv'
<1> SUFFICES ASSUME TypeInv, NoticeInv, TablesInv, [Next]_vars PROVE TablesInv' OBVIOUS
<1>1. CASE Environment
  <2>1. UNCHANGED <<instances, clusters, lPc, lC>>
    BY <1>1 DEF Environment, Ready, Die, DeletePod, Resync, StopInformers, Cancel, agentVars
  <2> QED BY <2>1, TablesEnvironment
<1>2. CASE TakeUpdate \/ Inspect("send") \/ Inspect("err") \/ TakeDelete \/ TakeUnknown
             \/ SendOnClosed \/ ANext
  BY <1>2, TablesUnchanged DEF TakeUpdate, Inspect, TakeDelete, TakeUnknown, SendOnClosed,
     ANext, OpenFails, Open, Unattach, envVars
<1>3. CASE UNCHANGED vars BY <1>3, TablesUnchanged DEF vars, envVars, agentVars
<1> QED BY <1>1, <1>2, <1>3, TablesDetach, TablesLoop DEF Next, HNext

LEMMA TablesInit == Init => TablesInv
BY DEF Init, TablesInv, WriteInv, TablesAgree, BetweenWrites

LEMMA TablesInvariant == Spec => [](TypeInv /\ NoticeInv /\ TablesInv)
<1>1. Init => TypeInv /\ NoticeInv /\ TablesInv BY TypeInit, NoticeInit, TablesInit
<1>2. TypeInv /\ NoticeInv /\ TablesInv /\ [Next]_vars => (TypeInv /\ NoticeInv /\ TablesInv)'
  BY TypeNext, NoticeNext, TablesNext
<1> QED BY <1>1, <1>2, PTL DEF Spec

\* attachInstance and detachInstance keep r.Instances and clusters together,
\* whatever happens to the containers, the errors and the other goroutines in
\* between: they part only while L is at work or by the deletion of a twin.
THEOREM TablesAlwaysAgree == Spec => []TablesAgree
<1>1. TablesInv => TablesAgree BY DEF TablesInv
<1> QED BY <1>1, TablesInvariant, PTL

-----------------------------------------------------------------------------
(* The end of Start.                                                       *)

\* Nothing starts an attach goroutine once Start has returned, and those there are
\* have no step left: CloseChannels saw the counter at zero, and the counter is right.
LEMMA ClosedNext == TypeInv /\ ClosedAfterAttachers /\ [Next]_vars => ClosedAfterAttachers'
<1> SUFFICES ASSUME TypeInv, ClosedAfterAttachers, [Next]_vars PROVE ClosedAfterAttachers'
  OBVIOUS
<1>0. \A w \in Places : att[w] \in Nat BY DEF TypeInv, TypeOK
<1>1. CASE UNCHANGED <<lPc, att>> BY <1>1 DEF ClosedAfterAttachers
<1>2. CASE ANext
  <2>1. \E w \in Places : att[w] > 0 BY <1>2 DEF ANext, OpenFails, Open, Unattach, Places
  <2>2. lPc # "returned" BY <1>0, <2>1 DEF ClosedAfterAttachers
  <2>3. lPc' = lPc BY <1>2 DEF ANext, OpenFails, Open, Unattach
  <2> QED BY <2>2, <2>3 DEF ClosedAfterAttachers
<1>3. CASE CloseChannels
  <2>1. att["open"] + att["err"] + att["attached"] = 0
    BY <1>3 DEF CloseChannels, TypeInv, CountInv
  <2>2. att["open"] \in Nat /\ att["err"] \in Nat /\ att["attached"] \in Nat
    BY <1>0 DEF Places
  <2>3. \A a, b, c \in Nat : a + b + c = 0 => a = 0 /\ b = 0 /\ c = 0 OBVIOUS
  <2>4. att["open"] = 0 /\ att["err"] = 0 /\ att["attached"] = 0 BY <2>1, <2>2, <2>3
  <2> QED BY <1>3, <2>4 DEF CloseChannels, ClosedAfterAttachers, Places
<1>4. CASE LNext /\ ~CloseChannels
  <2>1. lPc' # "returned"
    BY <1>4 DEF LNext, LoopDone, LoopInstance, LoopErrorOfH, LoopErrorOfAttach, AttachLock,
       AttachWrite, AttachUpdate
  <2> QED BY <2>1 DEF ClosedAfterAttachers
<1>5. CASE Environment
  BY <1>1, <1>5 DEF Environment, Ready, Die, DeletePod, Resync, StopInformers, Cancel, agentVars
<1>6. CASE HNext
  BY <1>1, <1>6 DEF HNext, TakeUpdate, Inspect, TakeDelete, TakeUnknown, Detach, SendOnClosed
<1>7. CASE UNCHANGED vars BY <1>1, <1>7 DEF vars, agentVars
<1> QED BY <1>2, <1>3, <1>4, <1>5, <1>6, <1>7 DEF Next

\* The wait group of Start does its work: the counter it waits for is the number of
\* attach goroutines, wherever each of them is (r.wg.Add before go, the deferred
\* r.wg.Done), so that none is left to send on a channel when the channels are closed.
THEOREM ClosedAfterAttachersLeft == Spec => []ClosedAfterAttachers
<1>1. Init => ClosedAfterAttachers BY DEF Init, ClosedAfterAttachers
<1> QED BY <1>1, ClosedNext, TypeInvariant, PTL DEF Spec

-----------------------------------------------------------------------------
(* What a deleted pod leaves behind.                                       *)

NoteOf(c) == \E j \in DOMAIN notes : notes[j].c = c

\* The deletion of a container is its last notification, and while H waits for
\* r.mu to carry it out the instance stays.
DeletionIsLast ==
  /\ \A j \in DOMAIN notes : notes[j].kind # "update" =>
       /\ LastOfDeleted(notes[j].c)
       /\ \A k \in DOMAIN notes : k > j => notes[k].c # notes[j].c
  /\ hPc = "lock" => LastOfDeleted(hC) /\ ~NoteOf(hC) /\ hC \in instances

\* The deletion of c has been dealt with, and none of the known races met it.
Forgotten(c) ==
  LastOfDeleted(c) /\ ~DeletePending(c) /\ c \notin overtaken /\ ~TwinDeleted(c)

\* No goroutine, notification or table has c.
Gone(c) ==
  /\ c \notin instances /\ lC # c /\ ~NoteOf(c)
  /\ hC = c => hPc \notin {"inspect", "send"}

DeletionInv ==
  informing /\ ~crashed => DeletionIsLast /\ \A c \in Containers : Forgotten(c) => Gone(c)

LEMMA PendingNotes ==
  ASSUME TypeInv, NEW c
  PROVE  DeletePending(c) <=>
           \/ \E j \in DOMAIN notes : notes[j].kind # "update" /\ notes[j].c = c
           \/ hPc = "lock" /\ hC = c
<1>1. DOMAIN notes = 1..Len(notes) BY DEF TypeInv, TypeOK
<1> QED BY <1>1 DEF DeletePending

LEMMA InformingStays ==
  ASSUME [Next]_vars, informing', ~crashed', TypeOK
  PROVE  informing /\ ~crashed
BY DEF Next, Environment, HNext, LNext, ANext, vars, envVars, agentVars, Ready, Die, DeletePod,
   Resync, StopInformers, Cancel, TakeUpdate, Inspect, TakeDelete, TakeUnknown, Detach,
   SendOnClosed, LoopDone, LoopInstance, LoopErrorOfH, LoopErrorOfAttach, AttachLock,
   AttachWrite, AttachUpdate, CloseChannels, OpenFails, Open, Unattach, TypeOK

\* One notification more, about a container of a pod that was there before: the
\* pods deleted before keep what is said of them.
LEMMA DeletionNotify ==
  ASSUME TypeInv, TypeInv', DeletionInv, informing, ~crashed,
         NEW kind \in {"update", "delete", "unknown"}, NEW c \in Containers, Notify(kind, c),
         PodOf[c] \notin deleted,
         kind # "update" => LastOfDeleted(c)',
         kind = "update" => deleted' = deleted,
         deleted' \subseteq deleted \union {PodOf[c]}, deleted \subseteq deleted',
         \A p \in deleted : current'[p] = current[p],
         \A d \in Containers : pidOf[d] \in Pids => pidOf'[d] = pidOf[d],
         UNCHANGED agentVars
  PROVE  DeletionInv'
<1> DEFINE n == [kind |-> kind, c |-> c]
<1>1. /\ Len(notes) \in Nat /\ DOMAIN notes = 1..Len(notes)
      /\ DOMAIN notes' = 1..(Len(notes) + 1)
      /\ \A j \in DOMAIN notes : notes'[j] = notes[j]
      /\ notes'[Len(notes) + 1] = n
  <2>1. notes \in Seq(Note) /\ n \in Note BY DEF TypeInv, TypeOK, Note
  <2>2. notes' = Append(notes, n) BY DEF Notify
  <2> HIDE DEF n
  <2> QED BY <2>1, <2>2
<1>2. n.kind = kind /\ n.c = c OBVIOUS
<1> HIDE DEF n
<1> USE DEF agentVars
<1>3. \A d : LastOfDeleted(d) => LastOfDeleted(d)' /\ d # c
  BY DEF LastOfDeleted
<1>4. DeletionIsLast'
  <2>1. ASSUME NEW j \in DOMAIN notes', notes'[j].kind # "update"
        PROVE  /\ LastOfDeleted(notes[j].c)'
               /\ \A k \in DOMAIN notes' : k > j => notes'[k].c # notes'[j].c
    <3>1. CASE j \in DOMAIN notes
      <4>1. LastOfDeleted(notes[j].c) /\ notes'[j] = notes[j]
        BY <1>1, <2>1, <3>1 DEF DeletionInv, DeletionIsLast
      <4>2. LastOfDeleted(notes[j].c)' BY <1>3, <4>1 DEF LastOfDeleted
      <4>3. ASSUME NEW k \in DOMAIN notes', k > j PROVE notes'[k].c # notes'[j].c
        <5>1. CASE k \in DOMAIN notes
          BY <1>1, <2>1, <3>1, <4>1, <4>3, <5>1 DEF DeletionInv, DeletionIsLast
        <5>2. CASE k = Len(notes) + 1 BY <1>1, <1>2, <1>3, <4>1, <5>2
        <5> QED BY <1>1, <5>1, <5>2
      <4> QED BY <4>2, <4>3
    <3>2. CASE j = Len(notes) + 1
      <4>1. notes'[j].c = c /\ kind # "update" BY <1>1, <1>2, <2>1, <3>2
      <4>2. LastOfDeleted(notes[j].c)' BY <4>1 DEF LastOfDeleted
      <4> QED BY <1>1, <3>2, <4>2
    <3> QED BY <1>1, <3>1, <3>2
  <2>2. ASSUME hPc' = "lock" PROVE LastOfDeleted(hC)' /\ ~NoteOf(hC)' /\ hC' \in instances'
    <3>1. LastOfDeleted(hC) /\ ~NoteOf(hC) /\ hC \in instances
      BY <2>2 DEF DeletionInv, DeletionIsLast
    <3>2. LastOfDeleted(hC)' /\ hC # c BY <1>3, <3>1 DEF LastOfDeleted
    <3>3. ~NoteOf(hC)' BY <1>1, <1>2, <3>1, <3>2 DEF NoteOf
    <3> QED BY <3>1, <3>2, <3>3
  <2> QED BY <2>1, <2>2 DEF DeletionIsLast
<1>5. ASSUME NEW d \in Containers, Forgotten(d)' PROVE Gone(d)'
  <2>1. ~DeletePending(d)' /\ LastOfDeleted(d)' /\ ~TwinDeleted(d)' /\ d \notin overtaken
    BY <1>5 DEF Forgotten
  <2>2. \A j \in DOMAIN notes' : notes'[j].kind # "update" => notes'[j].c # d
    BY <2>1, PendingNotes, <1>1 DEF DeletePending
  <2>3. PodOf[d] \in deleted /\ d # c
    <3>1. CASE deleted' = deleted BY <2>1, <3>1, <1>3 DEF LastOfDeleted
    <3>2. CASE deleted' # deleted
      <4>1. kind # "update" /\ d # c BY <1>1, <1>2, <2>2, <3>2
      <4> QED BY <2>1, <3>2, <4>1 DEF LastOfDeleted
    <3> QED BY <3>1, <3>2
  <2>4. LastOfDeleted(d) BY <2>1, <2>3 DEF LastOfDeleted
  <2>5. ~TwinDeleted(d)
    <3>1. SUFFICES ASSUME NEW e \in Containers \ {d}, LastOfDeleted(e), pidOf[e] = pidOf[d]
          PROVE  TwinDeleted(d)'
      BY <2>1 DEF TwinDeleted
    <3>2. PodOf[d] \in Pods /\ PodOf[e] \in Pods BY RunnerAssumption
    <3>3. Born(d) /\ Born(e)
      BY <2>4, <3>1, <3>2, NotBorn DEF LastOfDeleted, TypeInv, PlaceInv
    <3>4. pidOf'[e] = pidOf'[d] BY <3>1, <3>3 DEF Born
    <3> QED BY <1>3, <3>1, <3>4 DEF TwinDeleted
  <2>6. ~DeletePending(d)
    BY <2>1, <2>2, <1>1, PendingNotes DEF DeletePending
  <2>7. Gone(d) BY <2>1, <2>4, <2>5, <2>6 DEF Forgotten, DeletionInv
  <2>8. ~NoteOf(d)' BY <1>1, <1>2, <2>3, <2>7 DEF Gone, NoteOf
  <2> QED BY <2>7, <2>8 DEF Gone
<1> QED BY <1>4, <1>5 DEF DeletionInv

\* Steps that change nothing DeletionInv speaks of.
LEMMA DeletionUnchanged ==
  ASSUME TypeInv, DeletionInv, informing, ~crashed,
         UNCHANGED <<pidOf, current, deleted, notes, overtaken, hPc, hC, lC, instances>>
  PROVE  DeletionInv'
BY DEF DeletionInv, DeletionIsLast, LastOfDeleted, NoteOf, Forgotten, Gone, DeletePending, TwinDeleted

LEMMA DeletionEnvironment ==
  ASSUME TypeInv, TypeInv', DeletionInv, informing, ~crashed, Environment, informing'
  PROVE  DeletionInv'
<1>1. ASSUME NEW c \in Containers, NEW i \in Pids, Ready(c, i) PROVE DeletionInv'
  <2>1. /\ Notify("update", c) /\ PodOf[c] \notin deleted /\ UNCHANGED <<deleted, agentVars>>
        /\ pidOf[c] = NoPid
        /\ pidOf' = [pidOf EXCEPT ![c] = i] /\ current' = [current EXCEPT ![PodOf[c]] = c]
    BY <1>1 DEF Ready
  <2>2. \A d \in Containers : pidOf[d] \in Pids => pidOf'[d] = pidOf[d]
    BY <2>1, NotBorn DEF TypeInv, TypeOK
  <2>3. \A p \in deleted : current'[p] = current[p] BY <2>1 DEF TypeInv, TypeOK
  <2> QED BY <2>1, <2>2, <2>3, DeletionNotify
<1>2. ASSUME NEW c \in Containers, Die(c) PROVE DeletionInv'
  BY <1>2, DeletionUnchanged DEF Die, agentVars
<1>3. ASSUME NEW p \in Pods, NEW kind \in {"delete", "unknown"}, DeletePod(p, kind)
      PROVE  DeletionInv'
  <2>1. /\ Notify(kind, current[p]) /\ p \notin deleted /\ current[p] # NoContainer
        /\ deleted' = deleted \union {p} /\ UNCHANGED <<pidOf, current, agentVars>>
    BY <1>3 DEF DeletePod
  <2>2. current[p] \in Containers BY <2>1 DEF TypeInv, TypeOK
  <2>3. PodOf[current[p]] = p BY <2>1 DEF TypeInv, PlaceInv
  <2>4. LastOfDeleted(current[p])' BY <2>1, <2>3 DEF LastOfDeleted
  <2> QED BY <2>1, <2>2, <2>3, <2>4, DeletionNotify
<1>4. ASSUME NEW p \in Pods, Resync(p) PROVE DeletionInv'
  <2>1. /\ Notify("update", current[p]) /\ p \notin deleted /\ current[p] # NoContainer
        /\ UNCHANGED <<deleted, pidOf, current, agentVars>>
    BY <1>4 DEF Resync
  <2>2. current[p] \in Containers BY <2>1 DEF TypeInv, TypeOK
  <2>3. PodOf[current[p]] = p BY <2>1 DEF TypeInv, PlaceInv
  <2> QED BY <2>1, <2>2, <2>3, DeletionNotify
<1>5. ~StopInformers /\ ~Cancel BY DEF StopInformers, Cancel
<1> QED BY <1>1, <1>2, <1>3, <1>4, <1>5 DEF Environment

\* H takes a notification off the queue: the order of the others stays.
LEMMA DeletionTaken ==
  ASSUME TypeInv, DeletionIsLast, NEW kind, Taken(kind), UNCHANGED <<deleted, current>>
  PROVE  /\ \A c \in Containers : NoteOf(c)' => NoteOf(c)
         /\ \A j \in DOMAIN notes' : notes'[j].kind # "update" =>
              /\ LastOfDeleted(notes[j].c)'
              /\ \A k \in DOMAIN notes' : k > j => notes'[k].c # notes'[j].c
         /\ \A c \in Containers : kind # "update" /\ c = notes[1].c
              => LastOfDeleted(c) /\ ~NoteOf(c)'
<1>1. /\ \A j \in DOMAIN notes' : j + 1 \in DOMAIN notes /\ notes'[j] = notes[j + 1]
      /\ 1 \in DOMAIN notes /\ notes[1].kind = kind
      /\ \A j \in DOMAIN notes' : j \in Nat /\ j >= 1
  <2>1. notes \in Seq(Note) /\ notes # <<>> /\ notes' = Tail(notes) /\ Head(notes).kind = kind
    BY DEF TypeInv, TypeOK, Taken
  <2> QED BY <2>1
<1>2. \A c : NoteOf(c)' => NoteOf(c) BY <1>1 DEF NoteOf
<1>3. ASSUME NEW j \in DOMAIN notes', notes'[j].kind # "update"
      PROVE  /\ LastOfDeleted(notes[j].c)'
             /\ \A k \in DOMAIN notes' : k > j => notes'[k].c # notes'[j].c
  <2>1. LastOfDeleted(notes[j + 1].c) /\ notes'[j] = notes[j + 1]
    BY <1>1, <1>3 DEF DeletionIsLast
  <2>2. LastOfDeleted(notes[j].c)' BY <2>1 DEF LastOfDeleted
  <2>3. ASSUME NEW k \in DOMAIN notes', k > j PROVE notes'[k].c # notes'[j].c
    <3>1. k + 1 > j + 1 BY <1>1, <2>3
    <3> QED BY <1>1, <1>3, <3>1 DEF DeletionIsLast
  <2> QED BY <2>2, <2>3
<1>4. ASSUME NEW c \in Containers, kind # "update", c = notes[1].c
      PROVE  LastOfDeleted(c) /\ ~NoteOf(c)'
  <2>1. LastOfDeleted(c) BY <1>1, <1>4 DEF DeletionIsLast
  <2>2. \A j \in DOMAIN notes' : j + 1 > 1 BY <1>1
  <2>3. \A j \in DOMAIN notes' : notes'[j].c # c
    BY <1>1, <1>4, <2>2 DEF DeletionIsLast
  <2> QED BY <2>1, <2>3 DEF NoteOf
<1> QED BY <1>2, <1>3, <1>4

LEMMA DeletionHandlers ==
  ASSUME TypeInv, TablesInv, DeletionInv, informing, ~crashed, HNext, ~crashed'
  PROVE  DeletionInv'
<1> USE DEF envVars
<1>0. DeletionIsLast /\ \A c \in Containers : Forgotten(c) => Gone(c) BY DEF DeletionInv
<1>1. CASE TakeUpdate
  <2> DEFINE n == notes[1].c
  <2>1. /\ Taken("update") /\ hPc = "idle" /\ hC' = n
        /\ hPc' = IF Known(n) THEN "idle" ELSE "inspect"
        /\ UNCHANGED <<pidOf, current, deleted, lC, instances, overtaken>>
    BY <1>1, TakenType DEF TakeUpdate
  <2>2. DeletionIsLast'
    BY <1>0, <2>1, DeletionTaken DEF DeletionIsLast
  <2>3. ASSUME NEW c \in Containers, Forgotten(c)' PROVE Gone(c)'
    <3>1. \A j \in DOMAIN notes : notes[j].kind # "update" => j # 1 /\ j - 1 \in DOMAIN notes'
                                                               /\ notes'[j - 1] = notes[j]
      <4>1. notes \in Seq(Note) /\ notes # <<>> /\ notes' = Tail(notes) /\ Head(notes).kind = "update"
        BY <2>1 DEF TypeInv, TypeOK, Taken
      <4> QED BY <4>1
    <3>2. ~DeletePending(c)' BY <1>0, <2>3 DEF Forgotten
    <3>3. \A j \in DOMAIN notes' : notes'[j].kind # "update" => notes'[j].c # c
      <4>1. DOMAIN notes' = 1..Len(notes') BY <2>1, TakenType
      <4> QED BY <3>2, <4>1 DEF DeletePending
    <3>4. ~DeletePending(c) BY <2>1, <3>1, <3>3, PendingNotes
    <3>5. Gone(c) BY <1>0, <2>1, <2>3, <3>4 DEF Forgotten, LastOfDeleted, TwinDeleted
    <3>6. 1 \in DOMAIN notes
      <4>1. notes \in Seq(Note) /\ notes # <<>> BY <2>1 DEF TypeInv, TypeOK, Taken
      <4> QED BY <4>1
    <3>7. n # c /\ ~NoteOf(c)' BY <1>0, <2>1, <3>5, <3>6, DeletionTaken DEF Gone, NoteOf
    <3> QED BY <2>1, <3>5, <3>7 DEF Gone
  <2> QED BY <2>2, <2>3 DEF DeletionInv
<1>2. ASSUME NEW outcome \in {"send", "err"}, Inspect(outcome) PROVE DeletionInv'
  BY <1>0, <1>2 DEF Inspect, HGoto, DeletionInv, DeletionIsLast, LastOfDeleted, NoteOf,
     Forgotten, Gone, DeletePending, TwinDeleted
<1>3. CASE TakeDelete
  <2>0. PICK n \in Containers : n = notes[1].c
    BY <1>3, TakenType DEF TakeDelete, Born
  <2>1. /\ Taken("delete") /\ hPc = "idle" /\ hC' = n
        /\ hPc' = IF n \in instances THEN "lock" ELSE "idle"
        /\ overtaken' = overtaken \union (({n} \ instances) \intersect {lC})
        /\ UNCHANGED <<pidOf, current, deleted, lC, instances>>
    BY <1>3, <2>0, TakenType DEF TakeDelete, KnownToDelete
  <2>3. LastOfDeleted(n) /\ ~NoteOf(n)' BY <1>0, <2>0, <2>1, DeletionTaken
  <2>4. DeletionIsLast'
    <3>1. hPc' = "lock" => LastOfDeleted(hC)' /\ ~NoteOf(hC)' /\ hC' \in instances'
      BY <2>1, <2>3 DEF LastOfDeleted, NoteOf
    <3> QED BY <1>0, <2>1, <3>1, DeletionTaken DEF DeletionIsLast
  <2>5. ASSUME NEW c \in Containers, Forgotten(c)' PROVE Gone(c)'
    <3>1. ~DeletePending(c)' /\ c \notin overtaken' BY <2>5 DEF Forgotten
    <3>2. CASE c = n
      <4>1. hPc' # "lock" BY <2>1, <3>1, <3>2 DEF DeletePending
      <4>2. c \notin instances /\ lC # c BY <2>1, <3>1, <3>2, <4>1
      <4> QED BY <2>1, <2>3, <3>2, <4>1, <4>2 DEF Gone, NoteOf
    <3>3. CASE c # n
      <4>1. \A j \in DOMAIN notes : notes[j].c = c => j - 1 \in DOMAIN notes'
                                                      /\ notes'[j - 1] = notes[j]
        <5>1. notes \in Seq(Note) /\ notes # <<>> /\ notes' = Tail(notes)
          BY <2>1 DEF TypeInv, TypeOK, Taken
        <5> QED BY <2>0, <3>3, <5>1
      <4>2. \A j \in DOMAIN notes' : notes'[j].kind # "update" => notes'[j].c # c
        <5>1. DOMAIN notes' = 1..Len(notes') BY <2>1, TakenType
        <5> QED BY <3>1, <5>1 DEF DeletePending
      <4>3. ~DeletePending(c) BY <2>1, <4>1, <4>2, PendingNotes
      <4>4. Gone(c) BY <1>0, <2>1, <2>5, <4>3 DEF Forgotten, LastOfDeleted, TwinDeleted
      <4>5. ~NoteOf(c)' BY <1>0, <2>1, <4>4, DeletionTaken DEF Gone
      <4> QED BY <2>1, <4>4, <4>5 DEF Gone
    <3> QED BY <3>2, <3>3
  <2> QED BY <2>4, <2>5 DEF DeletionInv
<1>4. CASE Detach
  <2>1. /\ hPc = "lock" /\ hPc' \in {"idle", "errLocked"}
        /\ instances' = IF pidOf[hC] \in clusters THEN instances \ {hC} ELSE instances
        /\ overtaken' = overtaken \union ({hC} \intersect {lC})
        /\ UNCHANGED <<pidOf, current, deleted, notes, hC, lC>>
    BY <1>4 DEF Detach, Detached, HGoto
  <2>2. DeletionIsLast'
    BY <1>0, <2>1 DEF DeletionIsLast, LastOfDeleted
  <2>3. ASSUME NEW c \in Containers, Forgotten(c)' PROVE Gone(c)'
    <3>1. ~DeletePending(c)' /\ c \notin overtaken' /\ ~TwinDeleted(c)
      BY <2>1, <2>3 DEF Forgotten, TwinDeleted, LastOfDeleted
    <3>2. CASE c = hC
      <4>1. lC # c /\ ~NoteOf(c) /\ c \in instances
        BY <1>0, <2>1, <3>1, <3>2 DEF DeletionIsLast
      <4>2. pidOf[c] \in clusters BY <3>1, <4>1 DEF TablesInv, TablesAgree, BetweenWrites
      <4> QED BY <2>1, <3>2, <4>1, <4>2 DEF Gone, NoteOf
    <3>3. CASE c # hC
      <4>1. Forgotten(c)
        BY <2>1, <2>3, <3>1, <3>3 DEF Forgotten, DeletePending, LastOfDeleted
      <4> QED BY <1>0, <2>1, <3>3, <4>1 DEF Gone, NoteOf
    <3> QED BY <3>2, <3>3
  <2> QED BY <2>2, <2>3 DEF DeletionInv
<1>5. ~TakeUnknown /\ ~SendOnClosed BY DEF TakeUnknown, SendOnClosed
<1> QED BY <1>1, <1>2, <1>3, <1>4, <1>5 DEF HNext

LEMMA DeletionLoop ==
  ASSUME TypeInv, TablesInv, DeletionInv, informing, ~crashed, LNext
  PROVE  DeletionInv'
<1> USE DEF envVars
<1>0. DeletionIsLast /\ \A c \in Containers : Forgotten(c) => Gone(c) BY DEF DeletionInv
<1>1. CASE LoopDone \/ LoopErrorOfAttach \/ AttachLock \/ CloseChannels
  BY <1>1, DeletionUnchanged DEF LoopDone, LoopErrorOfAttach, AttachLock, CloseChannels
<1>2. CASE LoopInstance
  BY <1>0, <1>2 DEF LoopInstance, HGoto, DeletionInv, DeletionIsLast, LastOfDeleted, NoteOf,
     Forgotten, Gone, DeletePending, TwinDeleted
<1>3. CASE LoopErrorOfH
  BY <1>0, <1>3 DEF LoopErrorOfH, HGoto, DeletionInv, DeletionIsLast, LastOfDeleted, NoteOf,
     Forgotten, Gone, DeletePending, TwinDeleted
<1>4. CASE AttachWrite
  BY <1>0, <1>4 DEF AttachWrite, DeletionInv, DeletionIsLast, LastOfDeleted, NoteOf,
     Forgotten, Gone, DeletePending, TwinDeleted
<1>5. CASE AttachUpdate
  <2>1. /\ lC' \in {lC, NoContainer}
        /\ UNCHANGED <<pidOf, current, deleted, notes, overtaken, hPc, hC, instances>>
    BY <1>5 DEF AttachUpdate
  <2> QED BY <1>0, <2>1, NotBorn DEF DeletionInv, DeletionIsLast, LastOfDeleted, NoteOf,
     Forgotten, Gone, DeletePending, TwinDeleted
<1> QED BY <1>1, <1>2, <1>3, <1>4, <1>5 DEF LNext

LEMMA DeletionNext ==
  ASSUME TypeInv, TypeInv', TablesInv, DeletionInv, [Next]_vars
  PROVE  DeletionInv'
<1>1. SUFFICES ASSUME informing', ~crashed' PROVE DeletionInv' BY DEF DeletionInv
<1>2. informing /\ ~crashed BY <1>1, InformingStays DEF TypeInv
<1>3. CASE ANext \/ UNCHANGED vars
  BY <1>2, <1>3, DeletionUnchanged
  DEF ANext, OpenFails, Open, Unattach, vars, envVars, agentVars
<1> QED BY <1>1, <1>2, <1>3, DeletionEnvironment, DeletionHandlers, DeletionLoop DEF Next

LEMMA DeletionInit == Init => DeletionInv
<1> SUFFICES ASSUME Init PROVE DeletionInv OBVIOUS
<1>1. DOMAIN notes = {} BY DEF Init
<1> QED BY <1>1 DEF Init, DeletionInv, DeletionIsLast, Forgotten, LastOfDeleted

\* With nothing but the named races in the way, the handling of a deletion is
\* final: r.Instances keeps no container of a deleted pod, however notifications,
\* inspections, attachments and errors interleave.
THEOREM DeletedLeavesNothing == Spec => []NoStaleInstance
<1> DEFINE IInv == TypeInv /\ NoticeInv /\ TablesInv /\ DeletionInv
<1>1. IInv => NoStaleInstance
  BY DEF DeletionInv, NoStaleInstance, Forgotten, Gone, LastOfDeleted, TypeInv, TypeOK
<1>2. IInv /\ [Next]_vars => IInv' BY TypeNext, NoticeNext, TablesNext, DeletionNext
<1>3. Init => IInv BY TypeInit, NoticeInit, TablesInit, DeletionInit
<1> QED BY <1>1, <1>2, <1>3, PTL DEF Spec

-----------------------------------------------------------------------------
(* The promise of AuditService.                                            *)

\* Until the end of its context, Start keeps the probes that it has opened; before
\* that, a registered process waits for a pair that is being opened, unless the last
\* attempt failed.
ServiceInv ==
  /\ att["attached"] > 0 => attached
  /\ ~ctxDone =>
       IF attached THEN att["attached"] > 0 ELSE att["open"] > 0 \/ clusters \subseteq stranded

LEMMA ServiceInit == Init => ServiceInv
BY DEF Init, ServiceInv, Places

\* A step that leaves the probes, and adds nothing to the map, keeps the service.
LEMMA ServiceUnchanged ==
  ASSUME ServiceInv, UNCHANGED <<att, attached, stranded>>, clusters' \subseteq clusters,
         ctxDone => ctxDone'
  PROVE  ServiceInv'
BY DEF ServiceInv

\* A registration starts an attach goroutine when no probes are open.
LEMMA ServiceUpdate == TypeInv /\ ServiceInv /\ AttachUpdate => ServiceInv'
<1> SUFFICES ASSUME TypeInv, ServiceInv, AttachUpdate PROVE ServiceInv' OBVIOUS
<1>1. att \in [Places -> Nat] /\ attached' = attached /\ ctxDone' = ctxDone
  BY DEF TypeInv, TypeOK, AttachUpdate, envVars
<1>2. CASE RoomFor(pidOf[lC])
  <2>1. att' = IF attached THEN att ELSE [att EXCEPT !["open"] = @ + 1]
    BY <1>2 DEF AttachUpdate, NotAttached
  <2>2. CASE attached BY <1>1, <2>1, <2>2 DEF ServiceInv
  <2>3. CASE ~attached
    <3>1. att'["open"] > 0 /\ att'["attached"] = att["attached"] BY <1>1, <2>1, <2>3 DEF Places
    <3> QED BY <1>1, <2>3, <3>1 DEF ServiceInv
  <2> QED BY <2>2, <2>3
<1>3. CASE ~RoomFor(pidOf[lC])
  BY <1>1, <1>3, ServiceUnchanged DEF AttachUpdate
<1> QED BY <1>2, <1>3

LEMMA ServiceAttachers == TypeInv /\ ServiceInv /\ ANext => ServiceInv'
<1> SUFFICES ASSUME TypeInv, ServiceInv, ANext PROVE ServiceInv' OBVIOUS
<1>1. att \in [Places -> Nat] /\ clusters' = clusters /\ ctxDone' = ctxDone
  BY DEF TypeInv, TypeOK, ANext, OpenFails, Open, Unattach, envVars
<1>2. CASE OpenFails
  <2>1. att'["attached"] = att["attached"] /\ attached' = attached
    BY <1>1, <1>2 DEF OpenFails, Places
  <2> QED BY <1>1, <1>2, <2>1 DEF OpenFails, ServiceInv
<1>3. CASE Open
  <2>1. att'["attached"] > 0 /\ attached' BY <1>1, <1>3 DEF Open, Places
  <2> QED BY <2>1 DEF ServiceInv
<1>4. CASE Unattach
  <2>1. ctxDone' /\ attached' = attached /\ att["attached"] > 0
    BY <1>1, <1>4 DEF Unattach, InternalContextDone
  <2> QED BY <2>1 DEF ServiceInv
<1> QED BY <1>2, <1>3, <1>4 DEF ANext

LEMMA ServiceNext == TypeInv /\ ServiceInv /\ [Next]_vars => ServiceInv'
<1> SUFFICES ASSUME TypeInv, ServiceInv, [Next]_vars PROVE ServiceInv' OBVIOUS
<1>1. CASE Environment
  <2>1. UNCHANGED agentVars /\ (ctxDone => ctxDone')
    BY <1>1 DEF Environment, Ready, Die, DeletePod, Resync, StopInformers, Cancel
  <2> QED BY <2>1, ServiceUnchanged DEF agentVars
<1>2. CASE HNext
  <2>1. UNCHANGED <<att, attached, stranded, ctxDone>> /\ clusters' \subseteq clusters
    BY <1>2 DEF HNext, TakeUpdate, Inspect, TakeDelete, TakeUnknown, Detach, SendOnClosed, envVars
  <2> QED BY <2>1, ServiceUnchanged
<1>3. CASE LNext /\ ~AttachUpdate /\ ~LoopErrorOfAttach
  <2>1. UNCHANGED <<att, attached, stranded, clusters, ctxDone>>
    BY <1>3 DEF LNext, LoopDone, LoopInstance, LoopErrorOfH, AttachLock, AttachWrite,
       CloseChannels, envVars
  <2> QED BY <2>1, ServiceUnchanged
<1>4. CASE LoopErrorOfAttach
  <2>1. att \in [Places -> Nat] BY DEF TypeInv, TypeOK
  <2>2. /\ att'["open"] = att["open"] /\ att'["attached"] = att["attached"]
        /\ UNCHANGED <<attached, stranded, clusters, ctxDone>>
    BY <1>4, <2>1 DEF LoopErrorOfAttach, Places, envVars
  <2> QED BY <2>2 DEF ServiceInv
<1>5. CASE UNCHANGED vars
  BY <1>5, ServiceUnchanged DEF vars, envVars, agentVars
<1> QED BY <1>1, <1>2, <1>3, <1>4, <1>5, ServiceUpdate, ServiceAttachers DEF Next

LEMMA ServiceInvariant == Spec => [](TypeInv /\ ServiceInv)
<1>1. TypeInv /\ ServiceInv /\ [Next]_vars => (TypeInv /\ ServiceInv)' BY TypeNext, ServiceNext
<1> QED BY <1>1, TypeInit, ServiceInit, PTL DEF Spec

\* Whatever instances come and go, however many attach goroutines run and fail: a
\* registered process is left without probes only by the failure of an attach after
\* its registration (program.Attached, wg and the two defers of attach).
THEOREM RegisteredIsAudited == Spec => []AuditedUnlessFailed
<1>1. TypeInv /\ ServiceInv => AuditedUnlessFailed
  BY DEF ServiceInv, AuditedUnlessFailed, TypeInv, TypeOK
<1> QED BY <1>1, ServiceInvariant, PTL

LEMMA PromiseInit == Init => Promise!Init
BY DEF Init, Promise!Init, Probes, Places

\* What the promise does not see.
LEMMA PromiseStutter ==
  ASSUME UNCHANGED <<att, clusters, stranded, ctxDone>>
  PROVE  UNCHANGED Promise!vars
BY DEF Promise!vars, Probes

LEMMA PromiseUpdate == TypeInv /\ TypeInv' /\ ServiceInv /\ AttachUpdate => [Promise!Next]_Promise!vars
<1> SUFFICES ASSUME TypeInv, TypeInv', ServiceInv, AttachUpdate PROVE [Promise!Next]_Promise!vars
  OBVIOUS
<1> DEFINE i == pidOf[lC]
<1>1. i \in Pids /\ att \in [Places -> Nat] /\ ctxDone' = ctxDone /\ attached' = attached
  BY DEF TypeInv, TypeOK, PlaceInv, Born, AttachUpdate, envVars
<1>2. CASE RoomFor(i)
  <2>1. /\ clusters' = clusters \union {i} /\ stranded' = stranded \ {i}
        /\ clusters' \in {S \in SUBSET Pids : Cardinality(S) <= ClustersCap}
        /\ att' = IF attached THEN att ELSE [att EXCEPT !["open"] = @ + 1]
    BY <1>2 DEF AttachUpdate, NotAttached, TypeInv, TypeOK
  <2> HIDE DEF i
  <2>2. CASE attached
    <3>1. att' = att BY <1>1, <2>1, <2>2
    <3>2. Probes' = Probes BY <3>1 DEF Probes
    <3>3. Probes # "off" \/ ctxDone BY <2>2 DEF ServiceInv, Probes
    <3> QED BY <1>1, <2>1, <3>2, <3>3 DEF Promise!Next, Promise!Register
  <2>3. CASE ~attached
    <3>1. att'["attached"] = att["attached"] /\ att'["open"] = att["open"] + 1
      BY <1>1, <2>1, <2>3 DEF Places
    <3>2. att["open"] \in Nat BY <1>1 DEF Places
    <3>3. Probes' = IF Probes = "off" THEN "opening" ELSE Probes BY <3>1, <3>2 DEF Probes
    <3> QED BY <1>1, <2>1, <3>3 DEF Promise!Next, Promise!Register
  <2> QED BY <2>2, <2>3
<1>3. CASE ~RoomFor(i) BY <1>1, <1>3, PromiseStutter DEF AttachUpdate
<1> QED BY <1>2, <1>3

LEMMA PromiseAttachers == TypeInv /\ ServiceInv /\ ANext => [Promise!Next]_Promise!vars
<1> SUFFICES ASSUME TypeInv, ServiceInv, ANext PROVE [Promise!Next]_Promise!vars OBVIOUS
<1>1. /\ att["open"] \in Nat /\ att["attached"] \in Nat
      /\ att \in [Places -> Nat] /\ UNCHANGED <<clusters, ctxDone>>
  BY DEF TypeInv, TypeOK, Places, ANext, OpenFails, Open, Unattach, envVars
<1>2. CASE OpenFails
  <2>1. /\ att["open"] > 0 /\ att'["attached"] = att["attached"]
        /\ stranded' = IF attached THEN stranded ELSE clusters
    BY <1>1, <1>2 DEF OpenFails, Places
  <2>2. CASE att["attached"] > 0
    <3>1. Probes = "on" /\ Probes' = "on" BY <2>1, <2>2 DEF Probes
    <3>2. stranded' = stranded BY <2>1, <2>2 DEF ServiceInv
    <3> QED BY <1>1, <2>1, <3>1, <3>2 DEF Promise!vars, Promise!Next
  <2>3. CASE ~(att["attached"] > 0)
    <3>1. Probes = "opening" /\ Probes' \in {"opening", "off"} BY <2>1, <2>3 DEF Probes
    <3>2. attached => ctxDone BY <2>3 DEF ServiceInv
    <3> QED BY <1>1, <2>1, <3>1, <3>2 DEF Promise!Next, Promise!OpenFailed
  <2> QED BY <2>2, <2>3
<1>3. CASE Open
  <2>1. Probes # "off" /\ Probes' = "on" /\ stranded' = {}
    BY <1>1, <1>3 DEF Open, Places, Probes
  <2> QED BY <1>1, <2>1 DEF Promise!Next, Promise!Opened
<1>4. CASE Unattach
  <2>1. /\ ctxDone /\ Probes = "on" /\ Probes' \in {"on", "opening", "off"} /\ stranded' = stranded
    BY <1>1, <1>4 DEF Unattach, InternalContextDone, Places, Probes
  <2> QED BY <1>1, <2>1 DEF Promise!vars, Promise!Next, Promise!Closed
<1> QED BY <1>2, <1>3, <1>4 DEF ANext

LEMMA PromiseStep ==
  TypeInv /\ TypeInv' /\ ServiceInv /\ [Next]_vars => [Promise!Next]_Promise!vars
<1> SUFFICES ASSUME TypeInv, TypeInv', ServiceInv, [Next]_vars PROVE [Promise!Next]_Promise!vars OBVIOUS
<1>1. CASE Environment
  <2>1. UNCHANGED agentVars /\ ctxDone' \in {ctxDone, TRUE}
    BY <1>1 DEF Environment, Ready, Die, DeletePod, Resync, StopInformers, Cancel
  <2>2. UNCHANGED <<clusters, Probes, stranded>> BY <2>1 DEF agentVars, Probes
  <2> QED BY <2>1, <2>2 DEF Promise!vars, Promise!Next, Promise!Tell
<1>2. CASE Detach /\ pidOf[hC] \in clusters
  <2>1. /\ clusters' = clusters \ {pidOf[hC]} /\ UNCHANGED <<att, stranded, ctxDone>>
        /\ pidOf[hC] \in Pids
    BY <1>2 DEF Detach, envVars, TypeInv, TypeOK
  <2>2. Probes' = Probes BY <2>1 DEF Probes
  <2> QED BY <2>1, <2>2 DEF Promise!Next, Promise!Unregister
<1>3. CASE HNext /\ ~(Detach /\ pidOf[hC] \in clusters)
  <2>1. UNCHANGED <<att, clusters, stranded, ctxDone>>
    BY <1>3 DEF HNext, TakeUpdate, Inspect, TakeDelete, TakeUnknown, Detach, SendOnClosed, envVars
  <2> QED BY <2>1, PromiseStutter
<1>4. CASE LNext /\ ~AttachUpdate /\ ~LoopErrorOfAttach
  <2>1. UNCHANGED <<att, clusters, stranded, ctxDone>>
    BY <1>4 DEF LNext, LoopDone, LoopInstance, LoopErrorOfH, AttachLock, AttachWrite,
       CloseChannels, envVars
  <2> QED BY <2>1, PromiseStutter
<1>5. CASE LoopErrorOfAttach
  <2>1. att \in [Places -> Nat] BY DEF TypeInv, TypeOK
  <2>2. /\ att'["open"] = att["open"] /\ att'["attached"] = att["attached"]
        /\ UNCHANGED <<stranded, clusters, ctxDone>>
    BY <1>5, <2>1 DEF LoopErrorOfAttach, Places, envVars
  <2> QED BY <2>2 DEF Promise!vars, Probes
<1>6. CASE UNCHANGED vars BY <1>6, PromiseStutter DEF vars, envVars, agentVars
<1> QED BY <1>1, <1>2, <1>3, <1>4, <1>5, <1>6, PromiseUpdate, PromiseAttachers DEF Next, HNext

\* The BPF runner implements AuditService: registrations within the room there is,
\* probes that are opened for the first process, kept until the context ends, and
\* processes left unserved by failures alone (attachInstance, detachInstance, attach).
THEOREM ServiceKept == Spec => KeepsPromise
<1>1. Spec => Promise!Init /\ [][Promise!Next]_Promise!vars
  BY PromiseInit, PromiseStep, ServiceInvariant, PTL DEF Spec
<1> QED BY <1>1 DEF KeepsPromise, Promise!Spec

-----------------------------------------------------------------------------
(* The ways to get stuck.                                                  *)

\* What has gone before an error: H reports a failed Delete of an instance it has
\* found, whose entry a deleted twin has therefore taken along; L reports a failed Update
\* of a full map; and L leaves its loop only when its context has ended.
WedgeInv ==
  /\ hPc = "lock" => hC \in instances
  /\ hPc = "errLocked" => TwinDeleted(hC)
  /\ lPc = "stuck" => Cardinality(clusters) >= ClustersCap
  /\ lPc \in {"wait", "returned"} => ctxDone

LEMMA WedgeInit == Init => WedgeInv
BY DEF Init, WedgeInv

\* A failed Delete: as the map agrees with r.Instances while r.mu is free, a container
\* with the same identifier must have been deleted before.
LEMMA WedgeDetach == TypeInv /\ TablesInv /\ WedgeInv /\ Detach => WedgeInv'
<1> SUFFICES ASSUME TypeInv, TablesInv, WedgeInv, Detach PROVE WedgeInv' OBVIOUS
<1>1. /\ hPc = "lock" /\ hPc' \in {"idle", "errLocked"} /\ hC \in instances
      /\ lPc \notin {"write", "update", "stuck"}
      /\ UNCHANGED <<pidOf, current, deleted, hC, lPc, ctxDone>>
  BY DEF Detach, HGoto, WedgeInv, TypeInv, PlaceInv, envVars
<1>2. hPc' = "errLocked" => pidOf[hC] \notin clusters BY DEF Detach, HGoto
<1>3. hPc' = "errLocked" => TwinDeleted(hC)
  BY <1>1, <1>2 DEF TablesInv, TablesAgree, BetweenWrites
<1> QED BY <1>1, <1>3 DEF WedgeInv, TwinDeleted, LastOfDeleted

LEMMA WedgeLoop == TypeInv /\ WedgeInv /\ LNext => WedgeInv'
<1> SUFFICES ASSUME TypeInv, WedgeInv, LNext PROVE WedgeInv' OBVIOUS
<1> USE DEF envVars
<1>1. CASE AttachUpdate
  <2>1. /\ UNCHANGED <<pidOf, current, deleted, hPc, hC, instances, ctxDone>>
        /\ lPc' \in {"loop", "stuck"}
    BY <1>1 DEF AttachUpdate
  <2>2. lPc' = "stuck" => clusters' = clusters /\ ~RoomFor(pidOf[lC]) BY <1>1 DEF AttachUpdate
  <2>3. Cardinality(clusters) \in Nat /\ ClustersCap \in Nat
    BY ClustersFinite, RunnerAssumption DEF TypeInv
  <2>4. lPc' = "stuck" => Cardinality(clusters) >= ClustersCap BY <2>2, <2>3 DEF RoomFor
  <2> QED BY <2>1, <2>2, <2>4 DEF WedgeInv, TwinDeleted, LastOfDeleted
<1>2. CASE LoopInstance \/ LoopErrorOfH
  <2>1. /\ hPc' = "idle" /\ lPc' \in {"loop", "lock"}
    BY <1>2 DEF LoopInstance, LoopErrorOfH, HGoto
  <2> QED BY <2>1 DEF WedgeInv
<1>3. CASE LoopDone \/ LoopErrorOfAttach \/ AttachLock \/ AttachWrite \/ CloseChannels
  <2>1. /\ UNCHANGED <<pidOf, current, deleted, hPc, hC, clusters, ctxDone>>
        /\ instances \subseteq instances'
        /\ lPc' \in {"loop", "wait", "write", "update", "returned"}
        /\ lPc' \in {"wait", "returned"} => ctxDone
    BY <1>3 DEF LoopDone, LoopErrorOfAttach, AttachLock, AttachWrite, CloseChannels, WedgeInv
  <2> QED BY <2>1 DEF WedgeInv, TwinDeleted, LastOfDeleted
<1> QED BY <1>1, <1>2, <1>3 DEF LNext

LEMMA WedgeNext == TypeInv /\ TablesInv /\ WedgeInv /\ [Next]_vars => WedgeInv'
<1> SUFFICES ASSUME TypeInv, TablesInv, WedgeInv, [Next]_vars PROVE WedgeInv' OBVIOUS
<1>1. CASE Environment
  <2>1. UNCHANGED agentVars /\ (ctxDone => ctxDone')
    BY <1>1 DEF Environment, Ready, Die, DeletePod, Resync, StopInformers, Cancel
  <2>2. hPc = "errLocked" => Born(hC) /\ TwinDeleted(hC)
    BY DEF WedgeInv, TypeInv, PlaceInv
  <2>3. \A c \in Containers : Born(c) /\ TwinDeleted(c) => TwinDeleted(c)' BY TwinStays
  <2>4. hC' = hC /\ hPc' = hPc BY <2>1 DEF agentVars
  <2>5. hPc' = "errLocked" => TwinDeleted(hC)'
    BY <2>2, <2>3, <2>4 DEF Born, TwinDeleted, LastOfDeleted
  <2> QED BY <2>1, <2>5 DEF WedgeInv, agentVars
<1>2. CASE TakeUpdate \/ TakeDelete \/ TakeUnknown \/ Inspect("send") \/ Inspect("err")
             \/ SendOnClosed
  <2>1. /\ UNCHANGED <<pidOf, current, deleted, instances, clusters, lPc, ctxDone>>
        /\ \/ UNCHANGED <<hPc, hC>>
           \/ hPc' \in {"idle", "inspect", "send", "err"}
           \/ hPc' = "lock" /\ hC' \in instances
    BY <1>2 DEF TakeUpdate, TakeDelete, TakeUnknown, Inspect, HGoto, SendOnClosed, KnownToDelete,
       envVars
  <2> QED BY <2>1 DEF WedgeInv, TwinDeleted, LastOfDeleted
<1>3. CASE ANext \/ UNCHANGED vars
  <2>1. UNCHANGED <<pidOf, current, deleted, hPc, hC, instances, clusters, lPc, ctxDone>>
    BY <1>3 DEF ANext, OpenFails, Open, Unattach, vars, envVars, agentVars
  <2> QED BY <2>1 DEF WedgeInv, TwinDeleted, LastOfDeleted
<1> QED BY <1>1, <1>2, <1>3, WedgeDetach, WedgeLoop DEF Next, HNext

\* When Start has not returned, the loop goes on, or what it waits for does, or one of
\* the three errors nobody can take is under way, and each of these has the cause
\* its definition names: there is no fourth way to get stuck.
THEOREM NoOtherWayStuck == Spec => []StuckOnlyByErrors
<1>1. TypeInv /\ WedgeInv => StuckOnlyByErrors
  <2> SUFFICES ASSUME TypeInv, WedgeInv, lPc # "returned" PROVE StuckOnlyByErrors
    BY DEF StuckOnlyByErrors
  <2>1. CASE lPc \in {"loop", "write", "update"} BY <2>1 DEF StuckOnlyByErrors
  <2>2. CASE lPc = "stuck" BY <2>2 DEF StuckOnlyByErrors, WedgeInv, Overflown
  <2>3. CASE lPc = "lock"
    <3>1. mu = "free" \/ hPc = "errLocked" BY <2>3 DEF TypeInv, TypeOK, PlaceInv
    <3> QED BY <2>3, <3>1 DEF StuckOnlyByErrors, WedgeInv, DeletedTwice
  <2>4. CASE lPc = "wait"
    <3>1. ctxDone /\ \A w \in Places : att[w] \in Nat BY <2>4 DEF WedgeInv, TypeInv, TypeOK
    <3>2. wg = 0 \/ (\E w \in Places : att[w] > 0)
      BY <3>1 DEF TypeInv, CountInv, Places
    <3> QED BY <2>4, <3>1, <3>2
        DEF StuckOnlyByErrors, AttachFailedLate, InternalContextDone, Places
  <2> QED BY <2>1, <2>2, <2>3, <2>4 DEF TypeInv, TypeOK
<1> DEFINE IInv == TypeInv /\ NoticeInv /\ TablesInv /\ WedgeInv
<1>2. IInv /\ [Next]_vars => IInv' BY TypeNext, NoticeNext, TablesNext, WedgeNext
<1>3. Init => IInv BY TypeInit, NoticeInit, TablesInit, WedgeInit
<1>4. IInv => StuckOnlyByErrors BY <1>1
<1> QED BY <1>2, <1>3, <1>4, PTL DEF Spec

=============================================================================
