CONSTANTS
  DayTicks = 3
  IntervalsPerDay = 2
  MinimumVotes = 2
  DryThreshold = 1
  CoverageX100 = 75
  OutlierFloor = 1
  OutlierRelBps = 5000
  WeightUnit = 12
  MaxSlots = 6
  Sensors = {"s1", "s2", "s3", "s4"}
  Movers = {"s1"}
  OperatorOf <- MCOperatorOf
  Registered <- MCRegistered
  SensorCounts <- MCSensorCounts
  MoveWait = 2
  DayBacklog = 1
  Gauges = {0}
  ClosedDays = {0}
  LateBy = 1
  MaxReports = 2
  MaxMoment = 3
  MCFirstValues = {0, 5}
  Pages = {p1, p2}
  MaxMoves = 1
  Values = {v1}
  DayLen = 1
  MaxAge = 1
  Retention = 2
  Backlog = 3
  Skew = 1
  MaxCounter = 2
  MaxRequests = 2
  MaxTime = 4
  Absent = Absent
  RefCells = {1, 2}
  RefDaysOf <- MCDaysOf
  RefDayTicks = 1
  RefSettle = 1
  RefWindow = 3
  RefEvery = 1
  RainfallsOf <- MCRainfallsOf
  Totals = {0, 3}
  DryMost = 1
  Tolerance = 2
  DisputesWindow = 3
  DisputedDays = 2
  MaxRefTime = 4
  Requests = {"r1", "r2"}
  Geneses <- MCGeneses
  DayOfTicks = 2
  IntervalsOfDay = 2
  Programme <- MCProgramme
  MaxSigning = 1
  PublishConcurrency = 2
  MaxDemoTime = 8
  FeederSensors <- MCFeederSensors
  SecondOf <- MCSecondOf
  HourTicks = 2
  MaxAgeTicks = 4
  FeederBatch = 2
  MaxFeederTime = 10
  OperatorPages = {"w1", "w2"}
  AddressOf <- MCAddressOf
  PerAddress = 2
  Daily = 2
  GrantDay = 2
  Stale = 1
  AnswerLimit = 1
  MaxWallets = 2
  MaxAsking = 2
  MaxGrantTime = 3
  RewardDayTicks = 1
  RewardBacklog = 2
  MoveSpacing = 3
  MirrorLag = 0
  RetryTicks = 1
  MaxRewardTime = 4
SPECIFICATION ServicesSpec
INVARIANT OneRunAtATime
CHECK_DEADLOCK FALSE
