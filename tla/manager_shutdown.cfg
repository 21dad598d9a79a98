SPECIFICATION FairSpec
CONSTANTS
  runner = runner
  cache = cache
  pump = pump
  late = late
  Tasks = {runner, cache, pump, late}
  Runner = runner
  Cache = cache
  Pump = pump
  Late = {late}
  KindOf <- FourTasks
INVARIANTS TypeOK StoppedIsStill StartWaitsForAll NoLateSignal SyncNotCutShort GracefulExit StartNotStranded RunnerStopsLast ShutdownNotStuck
PROPERTIES KeepsPromise NoAddAfterWait ShutdownEnds SignalEnds AcceptedIsSettled
CHECK_DEADLOCK FALSE
