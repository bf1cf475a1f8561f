CONSTANTS
  s1 = s1
  s2 = s2
  s3 = s3
  s4 = s4
  s5 = s5
  Stacks <- MCStacks
  HeapBlocks = 4
SPECIFICATION PoolSpec
SYMMETRY Symmetry
INVARIANTS
  PoolTypeOK
  NoSharedBlock
  NoBlockLost
CHECK_DEADLOCK FALSE
