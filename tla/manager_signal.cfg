SPECIFICATION FairSpec
CONSTANTS
  runner = runner
  cache = cache
  pump = pump
  late = late
  Tasks = {runner, cache, pump}
  Runner = runner
  Cache = cache
  Pump = pump
  Late = {}
  KindOf <- ThreeTasks
PROPERTIES SignalAlwaysEnds
CHECK_DEADLOCK FALSE
