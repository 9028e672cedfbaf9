SPECIFICATION SyncSpec
CONSTANTS
  Worker = {w1, w2}
  Me = w1
  Label <- MCLabel
  Header <- MCHeader
  ValidBits <- MCHeader
  ValidPow <- MCValidPow
  Work <- MCWork
  Singles = {}
  Batches <- MCBatches
  NoHash = NoHash
  Faults <- WriteFaults
  Address <- OneTwo
  Group <- MCGroup
  BanScore = 3
  MalformedScore = 3
  StaleScore = 2
  TransientScore = 1
  SuccessReward = 1
  MaxScore = 3
  MaxCount = 0
  Racing = TRUE
  Fanout = 2
  OutboundPeers = 1
  MaxBatches = 2
  PageSize = 2
  ProbePeers = 0
  QueryPeers = 1
  PeerTarget = 1
  LocatorLimit = 4
  LocatorDense = 2
  Seeds <- OneTwo
  Gossip <- NoPeer
  Honest <- HonestPeer
  FirstView <- AtTwo
  LastView <- AtTwo
  Lies <- BadWork
  Claims <- HighClaim
  AllowedLag = 0
  EstimatedTip = 3
  ProofAsks = 2
INVARIANTS SyncInv
PROPERTIES ImplementsHeaderChain
