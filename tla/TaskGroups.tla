---------------------------- MODULE TaskGroups ------------------------------
(***************************************************************************)
(* What the runnable groups promise, without channels, locks, goroutines   *)
(* or wait groups.  A group is fresh, then up, and later it closes; each   *)
(* task works at most once, begins only in a group that is not closing,    *)
(* and holds its group back twice: those added first have to begin before  *)
(* it is up, and all have to end before it is closed - or it is abandoned. *)
(***************************************************************************)
CONSTANTS Tasks, Groups, Home  \* Home gives each task its group

VARIABLES
  phase,    \* of each group
  first,    \* tasks that were added before their group was started
  begun,    \* tasks that have begun their work
  working   \* tasks that have not ended it yet

vars == <<phase, first, begun, working>>

Init ==
  /\ phase = [g \in Groups |-> "fresh"]
  /\ first = {}
  /\ begun = {}
  /\ working = {}

AddFirst(r) ==
  /\ phase[Home[r]] = "fresh" /\ r \notin begun \union first
  /\ first' = first \union {r}
  /\ UNCHANGED <<phase, begun, working>>

Begin(r) ==
  /\ phase[Home[r]] \in {"fresh", "up"} /\ r \notin begun
  /\ begun' = begun \union {r}
  /\ working' = working \union {r}
  /\ UNCHANGED <<phase, first>>

End(r) ==
  /\ r \in working
  /\ working' = working \ {r}
  /\ UNCHANGED <<phase, first, begun>>

MoveTo(g, p) ==
  /\ phase' = [phase EXCEPT ![g] = p]
  /\ UNCHANGED <<first, begun, working>>

Up(g) ==
  /\ phase[g] = "fresh" /\ \A r \in first : Home[r] = g => r \in begun
  /\ MoveTo(g, "up")

Close(g) == phase[g] = "up" /\ MoveTo(g, "closing")

Closed(g) ==
  /\ phase[g] = "closing" /\ \A r \in working : Home[r] # g
  /\ MoveTo(g, "closed")

Abandon(g) == phase[g] = "closing" /\ MoveTo(g, "abandoned")

Next ==
  \/ \E r \in Tasks : AddFirst(r) \/ Begin(r) \/ End(r)
  \/ \E g \in Groups : Up(g) \/ Close(g) \/ Closed(g) \/ Abandon(g)

Spec == Init /\ [][Next]_vars

=============================================================================
