CONSTANTS
  blk = blk
  l1 = l1
  l2 = l2
  own = own
  Genesis = Genesis
  None = None
  Tx = {blk, l1, l2}
  L1Block <- MCL1Block
  L1Tx <- MCL1Tx
  SequencerTx <- MCSequencerTx
  Modes = {"Active"}
  MaxOrder = 3
  MaxFaults = 0
  MaxCrashes = 2
  MaxLeaves = 5
  Resubmit = FALSE
SPECIFICATION FairPipeline
CHECK_DEADLOCK FALSE
INVARIANTS OrderIsProved ExecutedInOrder NoneSkipped
PROPERTIES RecoveryCompletes
