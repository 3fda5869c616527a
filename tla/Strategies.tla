----------------------------- MODULE Strategies -----------------------------
(***************************************************************************)
(* The three strategies (src/src/strategies): the indicator state each     *)
(* keeps from candle to candle and the signal on_candle returns, and what  *)
(* the signals should be, stated on the whole history.                     *)
(*                                                                         *)
(* A candle is [high, low, close]; adj_close is close.  Averages are kept  *)
(* as integer sums or as a numerator over a power of the period, so every  *)
(* comparison of the code is exact.  A signal's strength is left out.      *)
(***************************************************************************)
EXTENDS Integers, Sequences, SequencesExt, FiniteSetsExt, Functions

CONSTANT NoValue    \* Python's None

ASSUME NoValueAssumption == NoValue \notin Int \cup BOOLEAN

Candle == [high : Int, low : Int, close : Int]

\* What each strategy's __init__ takes.
Periods == Nat \ {0}
Parameters ==
    [name : {"breakout"}, lookback : Periods]
      \cup [name : {"ma_crossover"}, fast_period : Periods, slow_period : Periods]
      \cup [name : {"rsi_mean_reversion"}, period : Periods, oversold : Int, exit_level : Int]

\* deque(maxlen = n).append(x)
Push(window, x, n) ==
    LET longer == Append(window, x)
    IN  IF Len(longer) > n THEN Tail(longer) ELSE longer

SumOf(window) ==
    LET sum[n \in 0..Len(window)] == IF n = 0 THEN 0 ELSE sum[n - 1] + window[n]
    IN  sum[Len(window)]

Enter(stop) == [direction |-> "long", stop |-> stop]
Exit == [direction |-> "short", stop |-> NoValue]

\* The position checks every strategy makes.
MayEnter(context) == context.position = NoValue /\ context.pending = NoValue
MayExit(context) == context.position = "long" /\ ~context.forced

-----------------------------------------------------------------------------
(* BreakoutStrategy                                                        *)

BreakoutReset == [highs |-> <<>>, lows |-> <<>>, prev_high |-> NoValue, prev_low |-> NoValue]

BreakoutSignal(state, full, candle, context) ==
    IF ~full \/ state.prev_high = NoValue THEN NoValue
    ELSE IF MayEnter(context) /\ candle.close > state.prev_high THEN Enter(state.prev_high)
    ELSE IF MayExit(context) /\ candle.close < state.prev_low THEN Exit
    ELSE NoValue

\* Mutant: the channel includes the candle it is compared with.
BreakoutOnCandleLate(p, state, candle, context) ==
    LET highs == Push(state.highs, candle.high, p.lookback)
        lows == Push(state.lows, candle.low, p.lookback)
        recorded == Len(highs) >= p.lookback
        next == [highs |-> highs, lows |-> lows,
                 prev_high |-> IF recorded THEN Max(Range(highs)) ELSE NoValue,
                 prev_low |-> IF recorded THEN Min(Range(lows)) ELSE NoValue]
    IN  [state |-> next, signal |-> BreakoutSignal(next, recorded, candle, context)]

\* The channel is recorded before the candle is appended.
BreakoutOnCandle(p, state, candle, context) ==
    LET recorded == Len(state.highs) >= p.lookback
        next == [highs |-> Push(state.highs, candle.high, p.lookback),
                 lows |-> Push(state.lows, candle.low, p.lookback),
                 prev_high |-> IF recorded THEN Max(Range(state.highs)) ELSE state.prev_high,
                 prev_low |-> IF recorded THEN Min(Range(state.lows)) ELSE state.prev_low]
    IN  [state |-> next,
         signal |-> BreakoutSignal(next, Len(next.highs) >= p.lookback, candle, context)]

-----------------------------------------------------------------------------
(* MACrossoverStrategy; __init__ refuses fast_period >= slow_period.       *)

MACrossoverReset == [fast |-> <<>>, slow |-> <<>>, was_above |-> NoValue]

MACrossoverSignal(was_above, is_above, context) ==
    IF was_above = NoValue THEN NoValue
    ELSE IF ~was_above /\ is_above /\ MayEnter(context) THEN Enter(NoValue)
    ELSE IF was_above /\ ~is_above /\ MayExit(context) THEN Exit
    ELSE NoValue

\* The previous averages are only ever compared with each other.
MACrossoverOnCandle(p, state, candle, context) ==
    LET fast == Push(state.fast, candle.close, p.fast_period)
        slow == Push(state.slow, candle.close, p.slow_period)
        is_above == SumOf(fast) * Len(slow) > SumOf(slow) * Len(fast)
    IN  IF Len(slow) < p.slow_period
        THEN [state |-> [state EXCEPT !.fast = fast, !.slow = slow], signal |-> NoValue]
        ELSE [state |-> [fast |-> fast, slow |-> slow, was_above |-> is_above],
              signal |-> MACrossoverSignal(state.was_above, is_above, context)]

-----------------------------------------------------------------------------
(* RSIMeanReversionStrategy: gain and loss are averages times scale.       *)

RSIReset == [previous |-> NoValue, changes |-> 0, gain |-> 0, loss |-> 0, scale |-> 1]

\* RSI < level, and RSI is 100 when there was no loss.
RSIBelow(gain, loss, level) ==
    IF loss = 0 THEN 100 < level ELSE 100 * gain < level * (gain + loss)

RSISignal(p, gain, loss, context) ==
    IF MayEnter(context) /\ RSIBelow(gain, loss, p.oversold) THEN Enter(NoValue)
    ELSE IF MayExit(context) /\ ~RSIBelow(gain, loss, p.exit_level) THEN Exit
    ELSE NoValue

\* Mutant: the seed takes one change too many.
SmoothedLate(p, state, total, change) ==
    IF state.changes <= p.period THEN total + change
    ELSE total * (p.period - 1) + change * state.scale

\* One Wilder update; while the average is being seeded, a plain sum.
Smoothed(p, state, total, change) ==
    IF state.changes < p.period THEN total + change
    ELSE total * (p.period - 1) + change * state.scale

RSIOnCandle(p, state, candle, context) ==
    LET change == candle.close - state.previous
        gain == Smoothed(p, state, state.gain, Max({change, 0}))
        loss == Smoothed(p, state, state.loss, Max({-change, 0}))
        seeded == state.changes + 1 >= p.period
        next == [previous |-> candle.close, changes |-> state.changes + 1,
                 gain |-> gain, loss |-> loss,
                 scale |-> IF seeded THEN state.scale * p.period ELSE state.scale]
    IN  IF state.previous = NoValue
        THEN [state |-> [state EXCEPT !.previous = candle.close], signal |-> NoValue]
        ELSE [state |-> next,
              signal |-> IF seeded THEN RSISignal(p, gain, loss, context) ELSE NoValue]

-----------------------------------------------------------------------------
Valid(p) == p.name = "ma_crossover" => p.fast_period < p.slow_period

Reset(p) == CASE p.name = "breakout" -> BreakoutReset
              [] p.name = "ma_crossover" -> MACrossoverReset
              [] p.name = "rsi_mean_reversion" -> RSIReset

OnCandle(p, state, candle, context) ==
    CASE p.name = "breakout" -> BreakoutOnCandle(p, state, candle, context)
      [] p.name = "ma_crossover" -> MACrossoverOnCandle(p, state, candle, context)
      [] p.name = "rsi_mean_reversion" -> RSIOnCandle(p, state, candle, context)

\* The indicators a strategy instance may hold.
States(p) ==
    CASE p.name = "breakout" ->
           [highs : Seq(Int), lows : Seq(Int),
            prev_high : Int \cup {NoValue}, prev_low : Int \cup {NoValue}]
      [] p.name = "ma_crossover" ->
           [fast : Seq(Int), slow : Seq(Int), was_above : BOOLEAN \cup {NoValue}]
      [] p.name = "rsi_mean_reversion" ->
           [previous : Int \cup {NoValue}, changes : Nat, gain : Int, loss : Int, scale : Int]

SignalEvent == [direction : {"long", "short"}, stop : Int \cup {NoValue}]

-----------------------------------------------------------------------------
(* The reference: every indicator from the whole history of a run, whose   *)
(* last element is the candle just seen.                                   *)

LastN(history, n) == SubSeq(history, Len(history) - n + 1, Len(history))
Closes(history) == [i \in DOMAIN history |-> history[i].close]
Average(history, n) == SumOf(Closes(LastN(history, n)))
Above(p, history) ==
    Average(history, p.fast_period) * p.slow_period > Average(history, p.slow_period) * p.fast_period

Power(base, n) ==
    LET power[k \in 0..n] == IF k = 0 THEN 1 ELSE base * power[k - 1]
    IN  power[n]

\* Wilder's average n changes after its seed in closed form, times a power of the
\* period.
WilderTotal(p, moves) ==
    LET n == Len(moves) - p.period
        seed == SumOf(SubSeq(moves, 1, p.period))
    IN  seed * Power(p.period - 1, n)
        + SumOf([k \in 1..n |->
                   moves[p.period + k] * Power(p.period - 1, n - k) * Power(p.period, k)])

ExpectedSignal(p, history, context) ==
    LET n == Len(history)
        candle == history[n]
        before == SubSeq(history, 1, n - 1)
        Moves(sign) == [i \in 1..(n - 1) |->
                          Max({sign * (history[i + 1].close - history[i].close), 0})]
    IN  CASE p.name = "breakout" /\ n > p.lookback ->
               LET channel == LastN(before, p.lookback)
                   high == Max({channel[i].high : i \in DOMAIN channel})
                   low == Min({channel[i].low : i \in DOMAIN channel})
               IN  IF MayEnter(context) /\ candle.close > high THEN Enter(high)
                   ELSE IF MayExit(context) /\ candle.close < low THEN Exit ELSE NoValue
          [] p.name = "ma_crossover" /\ n > p.slow_period ->
               MACrossoverSignal(Above(p, before), Above(p, history), context)
          [] p.name = "rsi_mean_reversion" /\ n > p.period ->
               RSISignal(p, WilderTotal(p, Moves(1)), WilderTotal(p, Moves(-1)), context)
          [] OTHER -> NoValue
=============================================================================
