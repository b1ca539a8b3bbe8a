SPECIFICATION Spec
CONSTANTS
  btc = btc
  eth = eth
  s1 = s1
  s2 = s2
  BTCUSDT = BTCUSDT
  ETHUSDT = ETHUSDT
  binance = binance
  bybit = bybit
  none = none
  Pairs = {btc}
  Scripts = {s1}
  Symbols = {BTCUSDT, ETHUSDT}
  Exchanges = {binance, bybit}
  NoExchange = none
  DefaultExchange = binance
  DefaultSymbol = BTCUSDT
  SymbolOf <- MCSymbolOfBtc
  Jobs <- SlidingJob
  Signals <- SignalsOne
  FeedLimit = 3
  MaxBar = 3
  MaxFailures = 0
  CronRuns = {c1}
  ManualRuns = {}
INVARIANT OrderAtMostOnce
