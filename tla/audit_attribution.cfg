SPECIFICATION Spec
CONSTANTS
  t1 = t1
  t2 = t2
  p1 = p1
  Threads = {t1, t2}
  Procs = {p1}
  ProcOf <- OneProcess
  CPUs = {c1}
  HashCap = 1
  QueueCap = 3
  RingCap = 1
  MaxCalls = 3
  Links = {k1, k2}
  NoThread = NoThread
  ZeroCtx = ZeroCtx
INVARIANTS NoDuplicateReport Attribution
PROPERTIES KeepsPromise
CHECK_DEADLOCK FALSE
