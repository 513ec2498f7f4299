SPECIFICATION Spec
CONSTANTS
  WorkerNum = 3
  Tasks = {t1, t2, t3, t4}
  NULL = NULL
INVARIANTS
  TypeOK
  ListIsFifo
  OneOwner
  WorkConserving
  NoSleeperAfterStop
  NoTaskDiscarded
  NoWorkerOutlivesQueue
PROPERTIES
  PoolSpec
  ShutdownCompletes
