CONSTANTS
  t1 = t1
  t2 = t2
  t3 = t3
  t4 = t4
  Tasks <- MCTasks
  RemoteWaiters <- MCRemoteWaiters
  Main = Main
  Dispatcher = Dispatcher
  None = None
  HeapBlocks = 3
SPECIFICATION Spec
SYMMETRY Symmetry
INVARIANTS
  TypeOK
  NoLostWakeup
  StacksBackBeforeMain
  ExhaustionIsReal
  NoFiberLeftBehind
  PoolOutlivesFibers
CHECK_DEADLOCK FALSE
