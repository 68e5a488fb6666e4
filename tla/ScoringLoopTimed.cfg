CONSTANTS
  btc = btc
  eth = eth
  usdc = usdc
  NoQuote = NoQuote
  NoPrice = NoPrice
  Poison = Poison
  NoScore = NoScore
  AliasSeq <- OneAsset
  PythOnly = {usdc}
  QuotesOf <- TimedQuotes
  KeysOf <- TimedKeys
  WindowN = 1
  MinSamples = 1
  MaxAgeDiff = 1
  WeightDivergence = 500
  WeightConfidence = 300
  WeightDispersion = 200
  Threshold = 500
  Interval = 1
  PublishPyth = TRUE
  MinGap = 2
  MaxCycle = 1
  MaxMisses = 4
  MayStop = TRUE
SPECIFICATION FairSpec
INVARIANTS LatestOutlivesFailures
PROPERTIES ImplementsTask ScoresKeepComing PythThrottle FallbackCatchesUp
CHECK_DEADLOCK FALSE
