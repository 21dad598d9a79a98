--------------------------- MODULE MCTaskManager ----------------------------
(***************************************************************************)
(* The kinds of the agent's tasks, for TLC.                                *)
(***************************************************************************)
EXTENDS TaskManager, TLC

CONSTANTS runner, cache, pump, late

ThreeTasks == runner :> "bpfRunner" @@ cache :> "hasCache" @@ pump :> "pumpRunner"

FourTasks == ThreeTasks @@ late :> "bpfRunner"

=============================================================================
