CONSTANTS
  btc = btc
  eth = eth
  usdc = usdc
  NoQuote = NoQuote
  NoPrice = NoPrice
  Poison = Poison
  NoScore = NoScore
  AliasSeq <- TwoAssets
  PythOnly = {}
  QuotesOf <- CalmQuotes
  KeysOf <- PoisonedKeys
  WindowN = 1
  MinSamples = 1
  MaxAgeDiff = 1
  WeightDivergence = 500
  WeightConfidence = 300
  WeightDispersion = 200
  Threshold = 500
  Interval = 1
  PublishPyth = FALSE
  MinGap = 0
  MaxCycle = 0
  MaxMisses = 0
  MayStop = FALSE
SPECIFICATION FairSpec
PROPERTIES MalformedStaysLocal
CHECK_DEADLOCK FALSE
