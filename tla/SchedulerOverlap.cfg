SPECIFICATION FairSpec
CONSTANTS
  btc = btc
  eth = eth
  s1 = s1
  s2 = s2
  BTCUSDT = BTCUSDT
  ETHUSDT = ETHUSDT
  binance = binance
  bybit = bybit
  none = none
  Pairs = {btc}
  Scripts = {s1}
  Symbols = {BTCUSDT, ETHUSDT}
  Exchanges = {binance, bybit}
  NoExchange = none
  DefaultExchange = binance
  DefaultSymbol = BTCUSDT
  SymbolOf <- MCSymbolOfBtc
  Jobs <- DisabledFirst
  Signals <- SignalOnTwo
  FeedLimit = 4
  MaxBar = 3
  MaxFailures = 1
  CronRuns = {c1}
  ManualRuns = {m1}
INVARIANT NoLookahead
INVARIANT ForwardedAfterSave
INVARIANT AlertsDelivered
INVARIANT OrderAtMostOnce
PROPERTY CaughtUp
