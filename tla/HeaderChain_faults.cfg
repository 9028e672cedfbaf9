SPECIFICATION Spec
CONSTANTS
  Worker = {w1}
  Label <- MCLabel
  Header <- MCHeader
  ValidBits <- MCValidBits
  ValidPow <- MCValidPow
  Work <- MCWork
  Singles <- MCHeader
  Batches <- MCBatches
  NoHash = NoHash
  Faults <- AllFaults
INVARIANTS TypeOK CanonicalIsBestPath StoreSound
PROPERTIES AcceptedNotHeavier
