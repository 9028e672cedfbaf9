SPECIFICATION FairSpec
CONSTANTS
  Bits = 2
  MaxProofSize = 1
  MaxMessage = 2
  MaxInv = 1
  MaxAddr = 1
  MaxHeaders = 1
  Jobs <- MCJobs
  Frame <- MCFrame
  MaxFrames = 3
  MaxUnread = 3
  ChunkCells = 2
  MaxBatches = 2
  BestHeight = 1
  NameHash <- MCNameHash
  Committed <- MCCommitted
CHECK_DEADLOCK FALSE
INVARIANTS SessionTypeOK OrderKept StoredIsProved
PROPERTY JobsEnd
