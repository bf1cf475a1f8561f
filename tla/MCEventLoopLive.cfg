CONSTANTS
  t1 = t1
  t2 = t2
  t3 = t3
  t4 = t4
  Tasks <- LiveTasks
  RemoteWaiters <- LiveRemoteWaiters
  Main = Main
  Dispatcher = Dispatcher
  None = None
  HeapBlocks = 2
SPECIFICATION FairSpec
PROPERTIES
  PostedCompletes
  BegunCompletes
  StopReturnsUnlessStuck
  ImplementsExecutor
CHECK_DEADLOCK FALSE
