CONSTANTS
  btc = btc
  eth = eth
  weth = weth
  fBtc = fBtc
  fEth = fEth
  fForeign = fForeign
  NoId = NoId
  NoQuote = NoQuote
  Quotes = {q1, q2}
  Feeds <- MCFeeds
  FeedIds <- MCFeedIds
SPECIFICATION FairSpec
INVARIANTS TypeOK RetryPacing SnapshotMirrorsFeed
PROPERTIES ImplementsTask Reconnects
