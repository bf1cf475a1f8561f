CONSTANTS
  sigA = sigA
  sigB = sigB
  h1 = h1
  task1 = task1
  task2 = task2
  client = client
  Sigs <- MCSigs
  Handlers <- MCHandlers
  Tasks <- MCTasks
  Clients <- NoClients
  Thrown <- NoThrown
  None = None
  MaxCalls = 2
SPECIFICATION Spec
INVARIANT
  UnattachedNeverAborts
CHECK_DEADLOCK FALSE
