SPECIFICATION FairSpec
CONSTANTS
  t1 = t1
  t2 = t2
  p1 = p1
  Threads = {t1, t2}
  Procs = {p1}
  ProcOf <- OneProcess
  CPUs = {c1}
  HashCap = 2
  QueueCap = 2
  RingCap = 1
  MaxCalls = 3
  Links = {k1}
  NoThread = NoThread
  ZeroCtx = ZeroCtx
PROPERTIES RecordedIsLogged CloseStopsPump
CHECK_DEADLOCK FALSE
