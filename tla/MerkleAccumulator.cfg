SPECIFICATION Spec
CONSTANTS
  CacheSize = 3
  MaxLeaves = 5
  MaxBatch = 3
  MaxSaves = 3
  MaxReopens = 1
INVARIANTS AccumulatorInv LeavesAreServed ProofsVerify
CHECK_DEADLOCK FALSE
