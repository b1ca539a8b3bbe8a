SPECIFICATION Spec
CONSTANTS
  btc = btc
  eth = eth
  s1 = s1
  s2 = s2
  BTCUSDT = BTCUSDT
  ETHUSDT = ETHUSDT
  binance = binance
  bybit = bybit
  none = none
  Pairs = {btc, eth}
  Scripts = {s1, s2}
  Symbols = {BTCUSDT, ETHUSDT}
  Exchanges = {binance, bybit}
  NoExchange = none
  DefaultExchange = binance
  DefaultSymbol = BTCUSDT
  SymbolOf <- MCSymbolOf
  Jobs <- TwoPairs
  Signals <- SignalsSome
  FeedLimit = 3
  MaxBar = 3
  MaxFailures = 1
  CronRuns = {c1}
  ManualRuns = {}
INVARIANT TypeOK
INVARIANT AlertAtMostOnce
INVARIANT OrderOnItsSymbol
INVARIANT OrderOnItsExchange
INVARIANT OrdersDelivered
PROPERTY OnlyOnNewBar
