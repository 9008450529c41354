CONSTANTS
  LogLen = 2
  SensorSlots = {0}
  CellIds = {1, 2}
  PolicyIds = {p1}
  Cover <- MCCover
  Labels = {"Dry", "Wet"}
  Relabels = TRUE
  Backlog = 2
  MaxDay = 3
  MaxFaults = 2
  MaxMissed = 1
  MCEnd = 1
  MCThreshold = 1
SPECIFICATION Spec
INVARIANTS
  RowsExplainTheChain
  ClosuresAreNotInVain
  NoDayIsLost
  FaultsStopOneCellEach
  PagesExplainOutcomes
CHECK_DEADLOCK FALSE
