CONSTANTS
  LogLen = 5
  SensorSlots = {0}
  CellIds = {1}
  PolicyIds = {p1}
  Cover <- MCCover
  Labels = {"Dry", "Wet"}
  Relabels = TRUE
  Backlog = 2
  MaxDay = 4
  MaxFaults = 1
  MaxMissed = 1
  MCEnd = 1
  MCThreshold = 1
SPECIFICATION SpecWithForks
INVARIANTS
  RolledBackIsRetried
CHECK_DEADLOCK FALSE
