SPECIFICATION Spec
CONSTANTS
  runner = runner
  cache = cache
  pump = pump
  late = late
  Tasks = {runner, cache, pump, late}
  Runner = runner
  Cache = cache
  Pump = pump
  Late = {late}
  KindOf <- FourTasks
INVARIANTS AddNeverPanics
CHECK_DEADLOCK FALSE
