CONSTANTS
  fs = fs
  gcs = gcs
  celestia = celestia
  Server = {fs, gcs, celestia}
  Celestia <- MCCelestia
  Strategy <- Quorum
  SegmentSize = 2
  MaxTx = 4
  MaxErrors = 2
  MaxCrashes = 1
SPECIFICATION FairDA
CHECK_DEADLOCK FALSE
INVARIANTS DAInv BlocksAvailable
PROPERTIES EveryTxPublished SubmissionEnds
