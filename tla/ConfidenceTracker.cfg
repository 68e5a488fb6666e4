CONSTANTS
  WindowN = 6
  MinSamples = 5
  Aliases = {btc}
  Bps <- MCBps
SPECIFICATION Spec
INVARIANTS TypeOK WindowHoldsLastN ScoreNeedsBaseline FrozenFeedFallsSilent WiderNeverScoresLess
