CONSTANTS
  call = call
  event = event
  a = a
  b = b
  Calls <- MCCalls
  Events <- MCEvents
  Args <- MCArgs
  Matchers <- MCMatchers
  Test = Test
  Worker = Worker
  Other = Other
  Others <- OneOther
  None = None
  MaxTests = 2
  MaxStatements = 2
  MaxTimes = 2
  MaxActs = 2
SPECIFICATION Spec
INVARIANTS
  TypeOK
  RanksAreUnique
  SequenceProceeds
  OrderKept
  VerdictIsRight
  FixtureEndIsSafe
CHECK_DEADLOCK FALSE
