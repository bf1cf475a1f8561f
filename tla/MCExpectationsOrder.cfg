CONSTANTS
  call = call
  event = event
  a = a
  b = b
  Calls <- NoCalls
  Events <- MCEvents
  Args <- MCArgs
  Matchers <- MCMatchers
  Test = Test
  Worker = Worker
  Other = Other
  Others <- NoOthers
  None = None
  MaxTests = 1
  MaxStatements = 2
  MaxTimes = 2
  MaxActs = 3
SPECIFICATION Spec
INVARIANTS
  InSequenceOrders
CHECK_DEADLOCK FALSE
