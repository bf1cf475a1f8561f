CONSTANTS
  p1 = p1
  p2 = p2
  slow = slow
  waiter = waiter
  outsider = outsider
  None = None
  Publications <- MCPublications
  Subscribers <- MCSubscribers
  Expecters <- MCExpecters
  ClientExpecters <- MCClientExpecters
  Waiting <- MCWaiting
SPECIFICATION FairSpec
INVARIANTS
  TypeOK
  AudienceIsTold
  OvertakenOnlyWhileHeld
  ExpectIsOneShot
PROPERTIES
  ExpectIsFulfilled
CHECK_DEADLOCK FALSE
