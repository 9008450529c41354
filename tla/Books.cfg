CONSTANTS
  LogLen = 3
  SensorSlots = {0}
  ScheduleLen = 4
  MaxMoney = 7
  CellIds = {c1}
  PolicyIds = {p1, p2}
  Depositors = {d1}
  Accounts = {a1}
  MinSensors = 1
  WaitingDays = 1
  RewardsBps = 5000
  LoadingBps = 0
  MinRateBps = 10000
  MaxCoverage = 2
  MinHistory = 1
  DisputedDays = 2
  DisputeWindow = 2
  RiskChoices <- MCTwoRisks
  Deposits = {2}
  Burns = {0}
  Terms <- MCTerms
  MCThresholds = {1}
  MCPayouts = {1, 2}
  MCStarts = {2, 3}
  MCLengths = {2}
  Weights = {0, 1}
  MaxDay = 4
SYMMETRY MCSymmetry
SPECIFICATION ExposureSpec
INVARIANTS
  ReservedIsOwed
  SettlementIsNeverRefused
  CollusionNeverPays
  ReservedIsBacked
CHECK_DEADLOCK FALSE
