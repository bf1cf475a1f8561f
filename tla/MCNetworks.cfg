CONSTANTS
  Default = Default
  Other = Other
  signal = signal
  other = other
  t1 = t1
  t2 = t2
  t3 = t3
  t4 = t4
  Main = Main
  None = None
  Networks <- MCNetworkSet
  Registries <- MCRegistries
  Tasks <- MCTasks
  Home <- ExampleHome
  Programs <- MCPrograms
SPECIFICATION FairSpec
INVARIANTS
  TypeOK
  OnlyYoungerAreMissed
  DeadLoopsAnswer
PROPERTIES
  PreparedExitsCleanly
  LoopsImplementExecutor
  ExitEnds
CHECK_DEADLOCK FALSE
