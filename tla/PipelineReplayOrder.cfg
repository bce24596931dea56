CONSTANTS
  blk = blk
  l1 = l1
  l2 = l2
  own = own
  Genesis = Genesis
  None = None
  Tx = {l2, own}
  L1Block <- MCL1Block
  L1Tx <- MCL1Tx
  SequencerTx <- MCSequencerTx
  Modes = {"Active", "Maintenance"}
  MaxOrder = 2
  MaxFaults = 0
  MaxCrashes = 2
  MaxLeaves = 5
  Resubmit = FALSE
SPECIFICATION SpecPipeline
CHECK_DEADLOCK FALSE
INVARIANTS ExecutedInOrder
