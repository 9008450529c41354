CONSTANTS
  LogLen = 3
  SensorSlots = {0}
  ScheduleLen = 4
  MaxMoney = 6
  CellIds = {c1}
  PolicyIds = {p1}
  Depositors = {d1}
  Accounts = {a1}
  MinSensors = 1
  WaitingDays = 1
  RewardsBps = 0
  LoadingBps = 0
  MinRateBps = 2500
  MaxCoverage = 2
  MinHistory = 1
  DisputedDays = 2
  DisputeWindow = 2
  RiskChoices <- MCOneRisk
  Deposits = {4}
  Burns = {0}
  Terms <- MCTerms
  MCThresholds = {1, 2}
  MCPayouts = {3}
  MCStarts = {2, 3}
  MCLengths = {1, 2}
  Weights = {0}
  MaxDay = 6
SPECIFICATION Spec
INVARIANTS
  LogIsPublished
  OutcomesFollowTheEvents
PROPERTIES
  DueIsKept
CHECK_DEADLOCK FALSE
