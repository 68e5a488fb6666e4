CONSTANTS
  Prices <- MCPrices
  Bands = {0, 8}
  MaxAgeDiff = 3
  MaxAge = 5
SPECIFICATION Spec
INVARIANTS StaleFeedScoresZero
