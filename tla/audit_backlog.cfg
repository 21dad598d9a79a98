SPECIFICATION Spec
CONSTANTS
  t1 = t1
  t2 = t2
  p1 = p1
  Threads = {t1}
  Procs = {p1}
  ProcOf <- OneThread
  CPUs = {c1}
  HashCap = 1
  QueueCap = 4
  RingCap = 2
  MaxCalls = 6
  Links = {k1}
  NoThread = NoThread
  ZeroCtx = ZeroCtx
INVARIANTS TypeOK PopFindsRecord QueueBalance DropsOnlyAfterLoss
PROPERTIES KeepsPromise
CHECK_DEADLOCK FALSE
