--------------------------- MODULE MCWalkForward ---------------------------
(* Each strategy with two valid parameter choices, and an invalid one,     *)
(* over windows that abut and windows that overlap.                        *)
EXTENDS WalkForward

Spaces ==
    {{[name |-> "breakout", lookback |-> n] : n \in {1, 2}},
     {[name |-> "ma_crossover", fast_period |-> p[1], slow_period |-> p[2]]
        : p \in {<<1, 2>>, <<2, 2>>, <<2, 3>>}},
     {[name |-> "rsi_mean_reversion", period |-> n, oversold |-> 30, exit_level |-> 50] : n \in {2, 3}}}

Ohlc(high, low, close) == [high |-> high, low |-> low, close |-> close]
FewCandles == {Ohlc(1, 1, 1), Ohlc(3, 1, 2), Ohlc(3, 2, 3), Ohlc(5, 3, 5)}

ScoreRange == {-1, 1}
Overlapping == {4, 5}
FewCurves == {<<2, 2, 1, 1, 3>>, <<3, 4, 4, 4, 3>>, <<0, 1, 1, 1, 2>>}
=============================================================================
