CONSTANTS
  every1 = every1
  in1 = in1
  in2 = in2
  Client = Client
  Loop = Loop
  None = None
  Requests <- MCRequests
  Repeating <- MCRepeating
  Duration <- MCDuration
  Clients <- OneClient
  Milli = 2
  MaxNow = 4
SPECIFICATION FairSpec
INVARIANTS
  TypeOK
  OneChain
  OneWaitAtATime
  NeverEarly
  QuietDestroyIsSafe
  Punctual
PROPERTIES
  RequestRuns
CHECK_DEADLOCK FALSE
