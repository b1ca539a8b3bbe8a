------------------------ MODULE MCBarCloseScheduler ------------------------
(* Instances of BarCloseScheduler for TLC.                                 *)
EXTENDS BarCloseScheduler, TLC

CONSTANTS btc, eth,        \* pairs: BTCUSDT/1m and ETHUSDT/1m
          s1, s2,          \* scripts
          BTCUSDT, ETHUSDT,
          binance, bybit, none

MCSymbolOf == (btc :> BTCUSDT) @@ (eth :> ETHUSDT)
MCSymbolOfBtc == btc :> BTCUSDT
MCSymbolOfEth == eth :> ETHUSDT

JobOf(s, p, x, bars) ==
  [script |-> s, pair |-> p, exchange |-> x, enabled |-> TRUE,
   forward |-> TRUE, maxBars |-> bars]

(* Two scripts on two pairs; the second names an exchange.                 *)
TwoPairs == << JobOf(s1, btc, none, 3), JobOf(s2, eth, bybit, 3) >>

(* One pair: a disabled job before the one that runs.                      *)
DisabledFirst ==
  << [JobOf(s1, btc, none, 2) EXCEPT !.enabled = FALSE], JobOf(s1, btc, none, 3) >>

(* One job, whose window holds two of the bars.                            *)
SlidingJob == << JobOf(s1, btc, none, 2) >>

(* One job on a symbol that is not the default one.                        *)
EthJob == << JobOf(s1, eth, none, 2) >>

SignalsSome == (s1 :> {2}) @@ (s2 :> Bars)
SignalsOne == s1 :> Bars
SignalOnTwo == s1 :> {2}

=============================================================================
