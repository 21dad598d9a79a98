------------------------------ MODULE AuditLog ------------------------------
(***************************************************************************)
(* What the agent promises of its log, with no probe, map, ring or pump in *)
(* sight: a thread has at most one open record, that of its last audited   *)
(* command, and a place in a table that it keeps for good; a record that   *)
(* is closed joins a bounded backlog; the backlog is written first come,   *)
(* first served, and loses only its oldest records, only when it is full.  *)
(***************************************************************************)
EXTENDS Naturals, Sequences

CONSTANTS
  Threads,
  Tables,     \* the sets of threads that can be in the table together
  MaxCalls,
  Capacity

VARIABLES
  next,       \* number of the next command
  tracked,    \* threads in the table
  open,       \* the command of each thread's open record, 0 for none
  backlog,    \* commands with a closed record, oldest first
  out         \* commands in the log, oldest first

vars == <<next, tracked, open, backlog, out>>

Init ==
  /\ next = 1
  /\ tracked = {}
  /\ open = [t \in Threads |-> 0]
  /\ backlog = <<>>
  /\ out = <<>>

\* Thread t begins a command that is not recorded ...
Ignore(t) ==
  /\ next <= MaxCalls
  /\ next' = next + 1
  /\ UNCHANGED <<tracked, open, backlog, out>>

\* ... or one that is, which takes a place in the table.
Begin(t) ==
  /\ next <= MaxCalls
  /\ next' = next + 1
  /\ tracked' = tracked \union {t} /\ tracked' \in Tables
  /\ open' = [open EXCEPT ![t] = next]
  /\ UNCHANGED <<backlog, out>>

\* Thread t's record is closed.
Close(t) ==
  /\ open[t] # 0
  /\ open' = [open EXCEPT ![t] = 0]
  /\ backlog' = Append(IF Len(backlog) = Capacity THEN Tail(backlog) ELSE backlog, open[t])
  /\ UNCHANGED <<next, tracked, out>>

\* The oldest record of the backlog is written.
Write ==
  /\ backlog # <<>>
  /\ out' = Append(out, Head(backlog))
  /\ backlog' = Tail(backlog)
  /\ UNCHANGED <<next, tracked, open>>

Next == Write \/ \E t \in Threads : Ignore(t) \/ Begin(t) \/ Close(t)

Spec == Init /\ [][Next]_vars

=============================================================================
