CONSTANTS
  LogLen = 3
  SensorSlots = {0, 1}
  ScheduleLen = 3
  MaxMoney = 8
  CellIds = {c1}
  PolicyIds = {p1, p2}
  Depositors = {d1}
  Accounts = {}
  MinSensors = 2
  WaitingDays = 1
  RewardsBps = 10000
  LoadingBps = 0
  MinRateBps = 10000
  MaxCoverage = 2
  MinHistory = 1
  DisputedDays = 9
  DisputeWindow = 9
  RiskChoices <- MCOneRisk
  Deposits = {4}
  Burns = {0}
  Terms <- MCTerms
  MCThresholds = {2}
  MCPayouts = {1, 3}
  MCStarts = {2, 3}
  MCLengths = {2}
  Weights = {0, 1}
  MaxDay = 5
SYMMETRY MCSymmetry
SPECIFICATION Spec
INVARIANTS
  VaultMatchesTheBooks
  ReserveIsScheduledOrEarned
  BudgetsFollowTheCover
CHECK_DEADLOCK FALSE
