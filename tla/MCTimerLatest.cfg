CONSTANTS
  every1 = every1
  in1 = in1
  in2 = in2
  Client = Client
  Loop = Loop
  None = None
  Requests <- MCRequests
  Repeating <- MCRepeating
  Duration <- MCDuration
  Clients <- NoClients
  Milli = 2
  MaxNow = 4
SPECIFICATION Spec
INVARIANT
  LatestRequestKept
CHECK_DEADLOCK FALSE
