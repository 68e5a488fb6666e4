CONSTANTS
  Prices <- MCPrices
  MaxPublishers = 5
SPECIFICATION Spec
INVARIANTS SingleOutlierNeverScores
