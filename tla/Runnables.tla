----------------------------- MODULE Runnables ------------------------------
(***************************************************************************)
(* The tasks of the manager and the groups that run them (runnable.go):    *)
(* the BPF runner, the informer cache, the event pump, and any task that   *)
(* other goroutines hand to AddTask later.                                 *)
(***************************************************************************)
EXTENDS Integers, FiniteSets

CONSTANTS
  Tasks,    \* the runnables
  KindOf    \* the interface each of them implements

ASSUME RunnablesAssumption ==
  /\ IsFiniteSet(Tasks)
  /\ KindOf \in [Tasks -> {"bpfRunner", "hasCache", "pumpRunner"}]

\* newRunnables; HttpServers is made, never filled, started or stopped.
Groups == {"BpfPrograms", "Caches", "Pumps"}

\* The type switch of runnables.Add: the pump goes to the group of the caches.
GroupOf(r) == IF KindOf[r] = "bpfRunner" THEN "BpfPrograms" ELSE "Caches"

=============================================================================
