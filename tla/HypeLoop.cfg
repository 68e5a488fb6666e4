CONSTANTS
  NoPrice = NoPrice
  NotANumber = NotANumber
  Infinite = Infinite
  NoTime = NoTime
  NoVelocity = NoVelocity
  Raised = Raised
  NoSignal = NoSignal
  ThresholdBps = 100
  WindowN = 2
  StreamsReadings <- MCStreamsReadings
  WordBits = 8
  Words = {101, 200}
  Mids <- MCMids
  Interval = 1
  LatestTtl = 4
  MaxStale = 2
  MaxAhead = 0
  MaxCycle = 1
  MaxLag = 2
SPECIFICATION FairSpec
INVARIANTS TypeOK LeaderInWidestPair HistoryFaithful StreamFollowsLatest LatestOutlivesOutages
PROPERTIES ImplementsTask SignalsKeepComing
CHECK_DEADLOCK FALSE
