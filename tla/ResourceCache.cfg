SPECIFICATION Spec
CONSTANTS
  Thread = {t1, t2}
  Header <- MCHeader
  Work <- MCWork
  Root <- MCRoot
  Name = {1, 2}
  Asked = {1}
  Starts <- FirstTips
  Value = {"v", "w"}
  Absent = Absent
  Garbled = {"w"}
  Truth <- MCTruth
  Size <- MCSize
  Window = 1
  Lag = 0
  Targets = {0, 3}
  Limit = 2
  MaxClock = 2
  Faults <- WriteFaults
SYMMETRY Threads
INVARIANTS TypeOK RowsTrue
PROPERTIES AnswersFromChain PositiveStillCanonical PruneLeavesRecent LimitKeepsNewest DetailsTrue
