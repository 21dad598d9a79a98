SPECIFICATION Spec
CONSTANTS
  c1 = c1
  c2 = c2
  c3 = c3
  podA = podA
  podB = podB
  pid1 = pid1
  pid2 = pid2
  Pods = {podA, podB}
  Containers = {c1, c2, c3}
  PodOf <- RestartAndOther
  Pids = {pid1, pid2}
  NoPid = NoPid
  NoContainer = NoContainer
  ClustersCap = 2
  MaxNotes = 1
SYMMETRY PidSymmetry
INVARIANTS TablesAgree NoStaleInstance ClosedAfterAttachers StuckOnlyByErrors
CHECK_DEADLOCK FALSE
