\* Up to three pieces under every set of mishaps, two of them lost or duplicated.
CONSTANTS
  MaxPieces = 3
  MaxFaults = 2
  SeqLimit = 8
SPECIFICATION FairSpec
INVARIANTS TypeOK OutputOrdered EndsRightly
PROPERTIES StreamSpec TransferEnds
CHECK_DEADLOCK FALSE
