CONSTANTS
  LogLen = 7
  SensorSlots = {0}
  CellIds = {1}
  PolicyIds = {p1}
  Cover <- MCCover
  Labels = {"Dry", "Wet"}
  Relabels = FALSE
  Backlog = 2
  MaxDay = 6
  MaxFaults = 1
  MaxMissed = 1
  MCEnd = 1
  MCThreshold = 2
SPECIFICATION FairSpec
PROPERTIES
  DaysReachTheChain
  OwedIsSettled
CHECK_DEADLOCK FALSE
