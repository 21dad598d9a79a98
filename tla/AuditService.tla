---------------------------- MODULE AuditService ----------------------------
(***************************************************************************)
(* What the BPF runner promises of the audit, with no goroutine, channel,  *)
(* lock or notification: a process can be registered while there is room,  *)
(* and its registration sees to it that probes are open or being opened.   *)
(* Only a failure to open them leaves registered processes unserved, until *)
(* an attempt succeeds; probes that are open stay open until the runner is *)
(* told to stop.                                                           *)
(***************************************************************************)
CONSTANTS
  Ids,      \* process identifiers
  Tables    \* the sets of them that can be registered together

VARIABLES
  registered,   \* processes that are to be audited
  probes,       \* "off", "opening" or "on"
  unserved,     \* processes that a failure has left without probes
  told          \* the runner has been told to stop

vars == <<registered, probes, unserved, told>>

Init ==
  /\ registered = {}
  /\ probes = "off"
  /\ unserved = {}
  /\ told = FALSE

Register(i) ==
  /\ registered' = registered \union {i}
  /\ registered' \in Tables
  /\ unserved' = unserved \ {i}
  /\ \/ probes = "off" /\ probes' = "opening"
     \/ (probes # "off" \/ told) /\ UNCHANGED probes
  /\ UNCHANGED told

Unregister(i) ==
  /\ registered' = registered \ {i}
  /\ UNCHANGED <<probes, unserved, told>>

Opened ==
  /\ probes # "off"
  /\ probes' = "on"
  /\ unserved' = {}
  /\ UNCHANGED <<registered, told>>

OpenFailed ==
  /\ probes = "opening"
  /\ probes' \in {"opening", "off"}
  /\ unserved' = registered \/ (told /\ UNCHANGED unserved)
  /\ UNCHANGED <<registered, told>>

Tell ==
  /\ told' = TRUE
  /\ UNCHANGED <<registered, probes, unserved>>

Closed ==
  /\ told
  /\ probes = "on"
  /\ probes' \in {"opening", "off"}
  /\ UNCHANGED <<registered, unserved, told>>

Next ==
  \/ \E i \in Ids : Register(i) \/ Unregister(i)
  \/ Opened \/ OpenFailed \/ Tell \/ Closed

Spec == Init /\ [][Next]_vars

=============================================================================
