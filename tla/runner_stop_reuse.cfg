SPECIFICATION FairSpec
CONSTANTS
  c1 = c1
  c2 = c2
  c3 = c3
  podA = podA
  podB = podB
  pid1 = pid1
  pid2 = pid2
  Pods = {podA, podB}
  Containers = {c1, c2}
  PodOf <- TwoPods
  Pids = {pid1}
  NoPid = NoPid
  NoContainer = NoContainer
  ClustersCap = 1
  MaxNotes = 2
PROPERTIES StopsUnlessAttachFails
CHECK_DEADLOCK FALSE
