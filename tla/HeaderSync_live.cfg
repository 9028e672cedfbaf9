SPECIFICATION FairSync
CONSTANTS
  Worker = {w1}
  Me = w1
  Label <- MCLabel
  Header <- MCHeader
  ValidBits <- MCHeader
  ValidPow <- MCValidPow
  Work <- MCWork
  Singles = {}
  Batches <- MCBatches
  NoHash = NoHash
  Faults <- NoFaults
  Address <- OneTwo
  Group <- MCGroup
  BanScore = 3
  MalformedScore = 3
  StaleScore = 2
  TransientScore = 1
  SuccessReward = 1
  MaxScore = 3
  MaxCount = 1
  Racing = TRUE
  Fanout = 2
  OutboundPeers = 1
  MaxBatches = 2
  PageSize = 2
  ProbePeers = 2
  QueryPeers = 1
  PeerTarget = 2
  LocatorLimit = 4
  LocatorDense = 2
  Seeds <- OneTwo
  Gossip <- NoPeer
  Honest <- HonestPeer
  FirstView <- AtFork
  LastView <- AtEnd
  Lies <- AnyLie
  Claims <- AnyClaim
  AllowedLag = 0
  EstimatedTip = 3
  ProofAsks = 2
PROPERTIES CatchesUp ServesAgain
