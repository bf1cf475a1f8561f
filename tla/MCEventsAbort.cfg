CONSTANTS
  p1 = p1
  p2 = p2
  slow = slow
  waiter = waiter
  outsider = outsider
  None = None
  Publications <- MCPublications
  Subscribers <- MCSubscribers
  Expecters <- MCExpecters
  ClientExpecters <- MCClientExpecters
  Waiting <- MCWaiting
SPECIFICATION Spec
INVARIANT
  ExpectNeverAborts
CHECK_DEADLOCK FALSE
