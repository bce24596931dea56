CONSTANTS
  Keys <- MCKeys
  ValuesOf <- MCValuesOf
  None = None
  NibbleBits = 2
  Height = 3
  MaxVersions = 3
SPECIFICATION SpecTree
CHECK_DEADLOCK FALSE
INVARIANTS RootIsCanonical ProofsHold TreeInv IterationIsComplete
