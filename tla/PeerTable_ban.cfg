SPECIFICATION Spec
CONSTANTS
  Address <- OneTwo
  Group <- MCGroup
  BanScore = 3
  MalformedScore = 3
  StaleScore = 2
  TransientScore = 1
  SuccessReward = 1
  MaxScore = 4
  MaxCount = 1
  Thread = {t1}
  Syncer = {t1}
  Height = {1}
  BanSeconds = 2
  Forever = 9
  FirstTables <- OldTables
  MaxClock = 3
  MaxEvents = 2
  Faults <- AllFaults
INVARIANTS BansAreKept OnlyMalformedBans
