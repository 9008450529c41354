CONSTANTS
  LogLen = 3
  SensorSlots = {0, 1}
  MinSensors = 1
  MaxDay = 7
  StartDays = {0, 1, 2, 3, 5}
  EndDays = {0, 2, 4, 5}
  Readable <- MCReadable
  CallOperators <- MCOperators
  CallKeys <- MCKeys
  CallOwners <- MCOwners
  CallAggregators <- MCAggregators
  CallCells = {"c1", "c2"}
  SensorKeys = {k1, k2}
  Bystanders = {k2}
  Wallets = {w1}
  Strangers = {w2}
  SensorCells = {a, b}
  SlotsPerCell = 2
  OutlierWindow = 1
  UnstakeDelay = 2
  MinJudged = 1
  ShareOf5 = 1
  MinStake = 1
  MaxThawing = 2
  MaxToday = 2
  MaxSent = 1
  MaxLate = 1
  Medians = {0, 7}
  VoteCounts = {1}
  MaxLeaves = 5
  DayTicks = 3
  IntervalsPerDay = 2
  MinimumVotes = 2
  DryThreshold = 1
  CoverageX100 = 75
  OutlierFloor = 1
  OutlierRelBps = 5000
  WeightUnit = 12
  MaxSlots = 6
  PriceSlots = 5
  PriceStakes = {1, 2, 3}
  PriceMinStakes = {2}
  PriceMinVotes = {2, 4}
  PriceCapitals = {4}
  PriceExposureBps = {5000}
  VoteValues = {0, 1, 4}
  ColumnMin <- MCColumnMin
  ColumnMax = 9
  MaxRows = 4
  MaxGivenUp = 1
  MaxVotes = 5
SPECIFICATION ChainSpec
INVARIANTS
  PriceCountsTheWindow
  AnswersForTheWindow
  ClientAgreesWithProgram
  NothingIsStranded
  ThawOutlastsVerdicts
  PlansLand
  RootSpeaksForTheDay
  PriceOfALieIsRight
PROPERTIES
  ImplementsSheet
  ReinstatedStartsClean
CHECK_DEADLOCK FALSE
SYMMETRY MCSymmetry
