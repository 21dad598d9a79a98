---------------------------- MODULE MCBpfRunner ----------------------------
(***************************************************************************)
(* Instances of BpfRunner for TLC.                                         *)
(***************************************************************************)
EXTENDS BpfRunner, TLC

CONSTANTS c1, c2, c3, podA, podB, pid1, pid2

\* A pod whose container is restarted once, and a second pod.
RestartAndOther == c1 :> podA @@ c2 :> podA @@ c3 :> podB

\* A pod whose container is restarted once.
Restart == c1 :> podA @@ c2 :> podA

\* One pod, never restarted.
OneContainer == c1 :> podA

\* Two pods.
TwoPods == c1 :> podA @@ c2 :> podB

\* Identifiers are only compared for equality.
PidSymmetry == Permutations({pid1, pid2})

=============================================================================
