SPECIFICATION FairTick
CONSTANTS
  Worker = {w1}
  Me = w1
  Label <- MCLabel
  Header <- MCHeader
  ValidBits <- MCHeader
  ValidPow <- MCValidPow
  Work <- MCWork
  Singles = {}
  Batches <- MCBatches
  NoHash = NoHash
  Faults <- WriteFaults
  Address <- OneTwoThree
  Group <- MCGroup
  BanScore = 3
  MalformedScore = 3
  StaleScore = 2
  TransientScore = 1
  SuccessReward = 1
  MaxScore = 3
  MaxCount = 0
  Racing = FALSE
  Fanout = 2
  OutboundPeers = 2
  MaxBatches = 2
  PageSize = 2
  ProbePeers = 0
  QueryPeers = 1
  PeerTarget = 4
  LocatorLimit = 4
  LocatorDense = 2
  Seeds <- OneTwo
  Gossip <- OnlyThree
  Honest <- HonestPeer
  FirstView <- AtEnd
  LastView <- AtEnd
  Lies <- ForkOrBad
  Claims <- HighClaim
  AllowedLag = 0
  EstimatedTip = 3
  ProofAsks = 2
INVARIANTS SelectionSpreads FailuresMakeWay BansSurviveTicks
PROPERTIES HonestNotBlamed TicksEnd BestWorkRises ImplementsBestChain
