SPECIFICATION Spec
CONSTANTS
  btc = btc
  eth = eth
  s1 = s1
  s2 = s2
  BTCUSDT = BTCUSDT
  ETHUSDT = ETHUSDT
  binance = binance
  bybit = bybit
  none = none
  Pairs = {eth}
  Scripts = {s1}
  Symbols = {BTCUSDT, ETHUSDT}
  Exchanges = {binance, bybit}
  NoExchange = none
  DefaultExchange = binance
  DefaultSymbol = BTCUSDT
  SymbolOf <- MCSymbolOfEth
  Jobs <- EthJob
  Signals <- SignalsOne
  FeedLimit = 3
  MaxBar = 2
  MaxFailures = 0
  CronRuns = {}
  ManualRuns = {m1}
INVARIANT OrderOnItsSymbol
