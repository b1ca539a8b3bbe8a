----------------------------- MODULE MCBarStore -----------------------------
(* Instances of BarStore for TLC.                                          *)
EXTENDS BarStore, TLC

(* Candle 1 is the last of the old year.  Candles take one unit of time.   *)
EvenOpenAt == 1 :> 1 @@ 2 :> 2 @@ 3 :> 3 @@ 4 :> 4
NewYear == 1 :> 2025 @@ 2 :> 2026 @@ 3 :> 2026

=============================================================================
