SPECIFICATION FairSpec
CONSTANTS
  c1 = c1
  c2 = c2
  c3 = c3
  podA = podA
  podB = podB
  pid1 = pid1
  pid2 = pid2
  Pods = {podA}
  Containers = {c1}
  PodOf <- OneContainer
  Pids = {pid1}
  NoPid = NoPid
  NoContainer = NoContainer
  ClustersCap = 1
  MaxNotes = 1
PROPERTIES StopsWhenCancelled
CHECK_DEADLOCK FALSE
