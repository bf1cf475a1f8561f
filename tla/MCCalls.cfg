CONSTANTS
  sigA = sigA
  sigB = sigB
  h1 = h1
  task1 = task1
  task2 = task2
  client = client
  Sigs <- MCSigs
  Handlers <- MCHandlers
  Tasks <- OneTask
  Clients <- MCClients
  Thrown <- MCThrown
  None = None
  MaxCalls = 3
SPECIFICATION FairSpec
INVARIANTS
  TypeOK
  BlameIsInnermost
PROPERTIES
  AsyncCallAnswered
CHECK_DEADLOCK FALSE
