------------------------- MODULE WalkForwardProofs -------------------------
(***************************************************************************)
(* The walk-forward analysis and the signals of its out-of-sample runs,    *)
(* for any series, window sizes, number of trials, parameter spaces and    *)
(* equity curves.                                                          *)
(*                                                                         *)
(* IndicatorInv is the argument for the signals: the windows a strategy    *)
(* keeps are the most recent values of the candles it was given in this    *)
(* run, and nothing else; the averages of RSIMeanReversionStrategy are     *)
(* Wilder's closed form over the whole run (StrategyProofs).  SearchInv    *)
(* carries the running best of the random search, ChainInv the level and   *)
(* the last date of the curve.                                             *)
(***************************************************************************)
EXTENDS WalkForward, StrategyProofs

-----------------------------------------------------------------------------
(* Types of what the strategies and the engine around them return.         *)

LEMMA PushType ==
    ASSUME NEW w \in Seq(Int), NEW x \in Int, NEW n \in Nat \ {0}
    PROVE  Push(w, x, n) \in Seq(Int)
<1>1. Append(w, x) \in Seq(Int) /\ Append(w, x) # <<>>
  BY AppendProperties
<1>2. Tail(Append(w, x)) \in Seq(Int)
  BY <1>1, HeadTailProperties
<1> QED BY <1>1, <1>2 DEF Push

\* An answer of on_candle: the indicators and the signal.
Answers(p) == [state : States(p), signal : SignalEvent \cup {NoValue}]

\* Both windows of the channel grow together, so neither extremum is of nothing.
LEMMA BreakoutType ==
    ASSUME NEW p \in Parameters, p.name = "breakout", NEW s \in States(p),
           Len(s.lows) = Len(s.highs), NEW candle \in Candle, NEW c
    PROVE  BreakoutOnCandle(p, s, candle, c) \in Answers(p)
<1> DEFINE n == p.lookback
           recorded == Len(s.highs) >= n
           highs == Push(s.highs, candle.high, n)
           lows == Push(s.lows, candle.low, n)
           high == IF recorded THEN Max(Range(s.highs)) ELSE s.prev_high
           low == IF recorded THEN Min(Range(s.lows)) ELSE s.prev_low
           new == [highs |-> highs, lows |-> lows, prev_high |-> high, prev_low |-> low]
           made == BreakoutSignal(new, Len(new.highs) >= n, candle, c)
<1>1. n \in Nat \ {0}
  BY DEF Parameters, Periods
<1>2. candle.high \in Int /\ candle.low \in Int
  BY DEF Candle
<1>3. /\ s.highs \in Seq(Int) /\ s.lows \in Seq(Int)
      /\ s.prev_high \in Int \cup {NoValue} /\ s.prev_low \in Int \cup {NoValue}
  BY DEF States
<1>4. BreakoutOnCandle(p, s, candle, c) = [state |-> new, signal |-> made]
  BY DEF BreakoutOnCandle
<1> HIDE DEF n, recorded, highs, lows, high, low, made
<1>5. highs \in Seq(Int) /\ lows \in Seq(Int)
  BY <1>1, <1>2, <1>3, PushType DEF highs, lows
<1>6. high \in Int \cup {NoValue} /\ low \in Int \cup {NoValue}
  <2>1. CASE recorded
    <3>1. Len(s.highs) > 0 /\ Len(s.lows) > 0
      BY <1>1, <1>3, <2>1, LenProperties DEF recorded
    <3>2. /\ Range(s.highs) \in SUBSET Int /\ Range(s.highs) # {} /\ IsFiniteSet(Range(s.highs))
          /\ Range(s.lows) \in SUBSET Int /\ Range(s.lows) # {} /\ IsFiniteSet(Range(s.lows))
      BY <1>3, <3>1, RangeIsFinite
    <3>3. Max(Range(s.highs)) \in Int /\ Min(Range(s.lows)) \in Int
      BY <3>2, MaxIsElement, MinIsElement
    <3> QED BY <2>1, <3>3 DEF high, low
  <2>2. CASE ~recorded
    BY <1>3, <2>2 DEF high, low
  <2> QED BY <2>1, <2>2
<1>7. new \in States(p)
  BY <1>5, <1>6 DEF States
<1>8. made \in SignalEvent \cup {NoValue}
  <2>1. new.prev_high = high
    OBVIOUS
  <2>2. Enter(high) \in SignalEvent /\ Exit \in SignalEvent
    BY <1>6 DEF Enter, Exit, SignalEvent
  <2> HIDE DEF new
  <2> QED BY <2>1, <2>2 DEF made, BreakoutSignal
<1> HIDE DEF new
<1> QED BY <1>4, <1>7, <1>8 DEF Answers

LEMMA MACrossoverType ==
    ASSUME NEW p \in Parameters, p.name = "ma_crossover", NEW s \in States(p),
           NEW candle \in Candle, NEW c
    PROVE  MACrossoverOnCandle(p, s, candle, c) \in Answers(p)
<1> DEFINE fast == Push(s.fast, candle.close, p.fast_period)
           slow == Push(s.slow, candle.close, p.slow_period)
           above == SumOf(fast) * Len(slow) > SumOf(slow) * Len(fast)
<1>1. p.fast_period \in Nat \ {0} /\ p.slow_period \in Nat \ {0}
  BY DEF Parameters, Periods
<1>2. candle.close \in Int
  BY DEF Candle
<1>3. s \in [fast : Seq(Int), slow : Seq(Int), was_above : BOOLEAN \cup {NoValue}]
  BY DEF States
<1>4. MACrossoverOnCandle(p, s, candle, c)
        = IF Len(slow) < p.slow_period
          THEN [state |-> [s EXCEPT !.fast = fast, !.slow = slow], signal |-> NoValue]
          ELSE [state |-> [fast |-> fast, slow |-> slow, was_above |-> above],
                signal |-> MACrossoverSignal(s.was_above, above, c)]
  BY DEF MACrossoverOnCandle
<1>5. fast \in Seq(Int) /\ slow \in Seq(Int)
  BY <1>1, <1>2, <1>3, PushType
<1>6. above \in BOOLEAN
  OBVIOUS
<1> HIDE DEF fast, slow, above
<1>7. /\ [s EXCEPT !.fast = fast, !.slow = slow] \in States(p)
      /\ [fast |-> fast, slow |-> slow, was_above |-> above] \in States(p)
  BY <1>3, <1>5, <1>6 DEF States
<1>8. MACrossoverSignal(s.was_above, above, c) \in SignalEvent \cup {NoValue}
  <2>1. Enter(NoValue) \in SignalEvent /\ Exit \in SignalEvent
    BY DEF Enter, Exit, SignalEvent
  <2> QED BY <2>1 DEF MACrossoverSignal
<1> QED BY <1>4, <1>7, <1>8 DEF Answers

LEMMA RSIType ==
    ASSUME NEW p \in Parameters, p.name = "rsi_mean_reversion", NEW s \in States(p),
           NEW candle \in Candle, NEW c
    PROVE  RSIOnCandle(p, s, candle, c) \in Answers(p)
<1> DEFINE n == p.period
           change == candle.close - s.previous
           up == Max({change, 0})
           down == Max({-change, 0})
           gain == Smoothed(p, s, s.gain, up)
           loss == Smoothed(p, s, s.loss, down)
           seeded == s.changes + 1 >= n
           scale == IF seeded THEN s.scale * n ELSE s.scale
           new == [previous |-> candle.close, changes |-> s.changes + 1,
                   gain |-> gain, loss |-> loss, scale |-> scale]
           first == [s EXCEPT !.previous = candle.close]
           made == IF seeded THEN RSISignal(p, gain, loss, c) ELSE NoValue
<1>1. n \in Nat \ {0}
  BY DEF Parameters, Periods
<1>2. candle.close \in Int
  BY DEF Candle
<1>3. s \in [previous : Int \cup {NoValue}, changes : Nat, gain : Int, loss : Int, scale : Int]
  BY DEF States
<1>4. RSIOnCandle(p, s, candle, c)
        = IF s.previous = NoValue THEN [state |-> first, signal |-> NoValue]
          ELSE [state |-> new, signal |-> made]
  BY DEF RSIOnCandle
<1>5. first \in States(p)
  BY <1>2, <1>3 DEF States
<1>6. made \in SignalEvent \cup {NoValue}
  <2>1. Enter(NoValue) \in SignalEvent /\ Exit \in SignalEvent
    BY DEF Enter, Exit, SignalEvent
  <2> HIDE DEF gain, loss, seeded
  <2> QED BY <2>1 DEF RSISignal
<1>7. CASE s.previous = NoValue
  <2> HIDE DEF first, new, made
  <2> QED BY <1>4, <1>5, <1>7 DEF Answers
<1>8. CASE s.previous # NoValue
  <2>1. change \in Int /\ -change \in Int
    BY <1>2, <1>3, <1>8
  <2> HIDE DEF change
  <2>2. \A x \in Int : Max({x, 0}) \in Int
    BY MaxOfTwo
  <2>3. up \in Int /\ down \in Int
    BY <2>1, <2>2
  <2> HIDE DEF up, down
  <2>4. gain \in Int /\ loss \in Int
    BY <1>1, <1>3, <2>3 DEF Smoothed
  <2>5. scale \in Int
    BY <1>1, <1>3
  <2> HIDE DEF gain, loss, scale, made
  <2>6. new \in States(p)
    BY <1>2, <1>3, <2>4, <2>5 DEF States
  <2> HIDE DEF first, new
  <2> QED BY <1>4, <1>6, <1>8, <2>6 DEF Answers
<1> QED BY <1>7, <1>8

LEMMA OnCandleType ==
    ASSUME NEW p \in Parameters, NEW s \in States(p), NEW candle \in Candle, NEW c,
           p.name = "breakout" => Len(s.lows) = Len(s.highs)
    PROVE  OnCandle(p, s, candle, c) \in Answers(p)
<1>1. p.name \in {"breakout", "ma_crossover", "rsi_mean_reversion"}
  BY DEF Parameters
<1>2. CASE p.name = "breakout"
  <2>1. OnCandle(p, s, candle, c) = BreakoutOnCandle(p, s, candle, c)
    BY <1>2 DEF OnCandle
  <2> QED BY <1>2, <2>1, BreakoutType
<1>3. CASE p.name = "ma_crossover"
  <2>1. OnCandle(p, s, candle, c) = MACrossoverOnCandle(p, s, candle, c)
    BY <1>3 DEF OnCandle
  <2> QED BY <1>3, <2>1, MACrossoverType
<1>4. CASE p.name = "rsi_mean_reversion"
  <2>1. OnCandle(p, s, candle, c) = RSIOnCandle(p, s, candle, c)
    BY <1>4 DEF OnCandle
  <2> QED BY <1>4, <2>1, RSIType
<1> QED BY <1>1, <1>2, <1>3, <1>4

LEMMA ResetType ==
    ASSUME NEW p \in Parameters
    PROVE  Reset(p) \in States(p)
<1>1. p.name \in {"breakout", "ma_crossover", "rsi_mean_reversion"}
  BY DEF Parameters
<1>2. CASE p.name = "breakout"
  BY <1>2 DEF Reset, States, BreakoutReset
<1>3. CASE p.name = "ma_crossover"
  BY <1>3 DEF Reset, States, MACrossoverReset
<1>4. CASE p.name = "rsi_mean_reversion"
  BY <1>4 DEF Reset, States, RSIReset
<1> QED BY <1>1, <1>2, <1>3, <1>4

\* Whatever the engine does with the pending order, the strategy sees a context.
LEMMA ExecutedType ==
    ASSUME NEW c \in Context, NEW s \in SignalEvent \cup {NoValue}
    PROVE  Executed(Queued(c, s)) \subseteq Context
<1>1. Flat \in Context /\ [Flat EXCEPT !.position = "long"] \in Context
  BY DEF Flat, Context
<1>2. Queued(c, s) \in Context
  BY DEF Queued, Context, SignalEvent
<1> QED BY <1>1, <1>2 DEF Executed

-----------------------------------------------------------------------------
(* The segment a window adds to the combined curve.                        *)

Segment(curve) ==
    [i \in DOMAIN curve |-> [date |-> start + InSample + i - 1,
                             num |-> curve[i] * Scale(curve[1]).num,
                             den |-> Scale(curve[1]).den]]

\* Scaling never divides by zero or by a negative level.
LEMMA ScaleType ==
    ASSUME NEW first \in Int, combined \in Seq(Point)
    PROVE  Scale(first).num \in Int /\ Scale(first).den \in Nat \ {0}
<1>1. CASE combined = <<>> \/ first <= 0
  BY <1>1 DEF Scale
<1>2. CASE ~(combined = <<>> \/ first <= 0)
  <2>1. LastPoint \in Point
    BY <1>2, LenProperties, ElementOfSeq, EmptySeq DEF LastPoint
  <2>2. LastPoint.num \in Int /\ LastPoint.den \in Nat \ {0}
    BY <2>1 DEF Point
  <2>3. first \in Nat \ {0}
    BY <1>2
  <2>4. LastPoint.den * first \in Nat \ {0}
    BY <2>2, <2>3
  <2> QED BY <1>2, <2>2, <2>4 DEF Scale
<1> QED BY <1>1, <1>2

LEMMA SegmentType ==
    ASSUME NEW curve \in Curves, combined \in Seq(Point), start \in Nat
    PROVE  /\ curve \in Seq(Int) /\ OutOfSample \in Nat \ {0} /\ Len(curve) = OutOfSample
           /\ \A i \in 1..OutOfSample : curve[i] \in Int
           /\ Segment(curve) \in Seq(Point) /\ Len(Segment(curve)) = OutOfSample
           /\ \A i \in 1..OutOfSample :
                /\ Segment(curve)[i].date = start + InSample + i - 1
                /\ Segment(curve)[i].num = curve[i] * Scale(curve[1]).num
                /\ Segment(curve)[i].den = Scale(curve[1]).den
           /\ Chained(curve) = combined \o Segment(curve)
<1>1. /\ curve \in Seq(Int) /\ Len(curve) = OutOfSample
      /\ OutOfSample \in Nat \ {0} /\ InSample \in Nat \ {0}
  BY WalkForwardAssumption
<1>2. DOMAIN curve = 1..OutOfSample /\ \A i \in 1..OutOfSample : curve[i] \in Int
  BY <1>1, LenProperties, ElementOfSeq
<1>3. Scale(curve[1]).num \in Int /\ Scale(curve[1]).den \in Nat \ {0}
  BY <1>1, <1>2, ScaleType
<1> DEFINE num == Scale(curve[1]).num
           den == Scale(curve[1]).den
           point(i) == [date |-> start + InSample + i - 1, num |-> curve[i] * num, den |-> den]
<1>4. Segment(curve) = [i \in 1..OutOfSample |-> point(i)]
  BY <1>2 DEF Segment
<1> HIDE DEF num, den
<1>5. \A i \in 1..OutOfSample : point(i) \in Point
  <2> SUFFICES ASSUME NEW i \in 1..OutOfSample PROVE point(i) \in Point
    OBVIOUS
  <2>1. start + InSample + i - 1 \in Nat
    BY <1>1
  <2>2. curve[i] * num \in Int /\ den \in Nat \ {0}
    BY <1>2, <1>3 DEF num, den
  <2> QED BY <2>1, <2>2 DEF Point
<1>6. \A i \in 1..OutOfSample :
        /\ point(i).date = start + InSample + i - 1
        /\ point(i).num = curve[i] * num /\ point(i).den = den
  OBVIOUS
<1> HIDE DEF point
<1>7. Segment(curve) \in Seq(Point) /\ Len(Segment(curve)) = OutOfSample
  BY <1>1, <1>4, <1>5
<1>8. \A i \in 1..OutOfSample : Segment(curve)[i] = point(i)
  BY <1>4
<1>9. Chained(curve) = combined \o Segment(curve)
  BY DEF Chained, Segment
<1> QED BY <1>1, <1>2, <1>6, <1>7, <1>8, <1>9 DEF num, den

-----------------------------------------------------------------------------
(* Types and indicators: the extremum of a channel is a number only because *)
(* the two windows grow together, so both parts are inductive as one.      *)

\* Outside an out-of-sample run nothing is remembered; inside one, the indicators
\* and the last signal are those of its own candles.
IndicatorInv ==
    /\ phase # "oos" => history = <<>>
    /\ phase = "oos" =>
         /\ Valid(params)
         /\ params.name = "breakout" => BreakoutInv(params, state, history)
         /\ params.name = "ma_crossover" => MACrossoverInv(params, state, history)
         /\ params.name = "rsi_mean_reversion" => RSIInv(params, state, history)
    /\ WindowSignalsMatchReference
    /\ WilderSignalsMatchReference

LEMMA ParametersOfSpace ==
    ASSUME space \in ParameterSpaces, NEW p \in space
    PROVE  p \in Parameters
BY WalkForwardAssumption

LEMMA HistoryOfCandles ==
    ASSUME NEW h \in Seq(Candles)
    PROVE  h \in Seq(Candle)
<1>1. \A i \in 1..Len(h) : h[i] \in Candle
  BY ElementOfSeq, WalkForwardAssumption
<1>2. h = [i \in 1..Len(h) |-> h[i]] /\ Len(h) \in Nat
  BY LenProperties
<1> QED BY <1>1, <1>2

LEMMA InitTypes == Init => TypeOK /\ IndicatorInv
<1> SUFFICES ASSUME Init PROVE TypeOK /\ IndicatorInv
  OBVIOUS
<1>1. phase \in {"train", "done"}
  BY DEF Init
<1>2. context \in Context
  BY DEF Init, Flat, Context
<1>3. TypeOK
  BY <1>1, <1>2 DEF Init, TypeOK, NoGrowth
<1>4. IndicatorInv
  BY <1>1 DEF Init, IndicatorInv, WindowSignalsMatchReference, WilderSignalsMatchReference
<1> QED BY <1>3, <1>4

\* A trial: its metric is one its parameters scored before, or a new one.
LEMMA TrialType ==
    ASSUME TypeOK, NEW p \in space, Trial(p)
    PROVE  \E t \in TrialRecord : tried' = Append(tried, t) /\ best' = Better(best, t)
<1>1. p \in Parameters
  BY ParametersOfSpace DEF TypeOK
<1>2. PICK metric \in Scores(p) :
        /\ tried' = Append(tried, [params |-> p, metric |-> metric])
        /\ best' = Better(best, [params |-> p, metric |-> metric])
  BY DEF Trial
<1>3. \A i \in DOMAIN tried : tried[i].metric \in Metrics \cup {NoValue}
  <2>1. \A i \in DOMAIN tried : tried[i] \in TrialRecord
    BY LenProperties, ElementOfSeq DEF TypeOK
  <2> QED BY <2>1 DEF TrialRecord
<1>4. metric \in Metrics \cup {NoValue}
  BY <1>2, <1>3 DEF Scores
<1>5. [params |-> p, metric |-> metric] \in TrialRecord
  BY <1>1, <1>4 DEF TrialRecord
<1> QED BY <1>2, <1>5

LEMMA NextWindowTypes ==
    ASSUME TypeOK, IndicatorInv, NextWindow,
           combined' \in Seq(Point), growth' \in [first : Int, last : Int, positive : BOOLEAN]
    PROVE  TypeOK' /\ IndicatorInv'
<1>1. step \in Nat /\ start \in Nat
  BY WalkForwardAssumption DEF TypeOK
<1>2. start' \in Nat /\ phase' \in {"train", "done"}
  BY <1>1 DEF NextWindow, Advanced
<1>3. context' \in Context
  BY DEF NextWindow, Forget, Flat, Context
<1>4. TypeOK'
  BY <1>2, <1>3 DEF NextWindow, Forget, TypeOK
<1>5. IndicatorInv'
  BY <1>2 DEF NextWindow, Forget, IndicatorInv, WindowSignalsMatchReference,
    WilderSignalsMatchReference
<1> QED BY <1>4, <1>5

\* One candle of the out-of-sample run.
LEMMA BarTypes ==
    ASSUME TypeOK, IndicatorInv, NEW candle \in Candles, Bar(candle)
    PROVE  TypeOK' /\ IndicatorInv'
<1>1. PICK seen \in Executed(Queued(context, signal)) :
        /\ context' = seen
        /\ state' = OnCandle(params, state, candle, seen).state
        /\ signal' = OnCandle(params, state, candle, seen).signal
  BY DEF Bar
<1>2. /\ phase = "oos" /\ phase' = "oos" /\ params' = params
      /\ history' = Append(history, candle)
      /\ params \in Parameters /\ state \in States(params)
      /\ history \in Seq(Candles) /\ candle \in Candles
  BY DEF Bar, TypeOK
<1>3. candle \in Candle /\ history \in Seq(Candle)
  BY <1>2, HistoryOfCandles, WalkForwardAssumption
<1>4. /\ Valid(params)
      /\ params.name = "breakout" => BreakoutInv(params, state, history)
      /\ params.name = "ma_crossover" => MACrossoverInv(params, state, history)
      /\ params.name = "rsi_mean_reversion" => RSIInv(params, state, history)
  BY <1>2 DEF IndicatorInv
<1>5. params.name = "breakout" => Len(state.lows) = Len(state.highs)
  <2> SUFFICES ASSUME params.name = "breakout" PROVE Len(state.lows) = Len(state.highs)
    OBVIOUS
  <2>1. params.lookback \in Nat
    BY <1>2 DEF Parameters, Periods
  <2>2. /\ Highs(history) \in Seq(Int) /\ Lows(history) \in Seq(Int)
        /\ Len(Highs(history)) = Len(Lows(history))
    BY <1>3, ColumnsGrow
  <2>3. /\ Len(Recent(Highs(history), params.lookback)) = Held(Highs(history), params.lookback)
        /\ Len(Recent(Lows(history), params.lookback)) = Held(Lows(history), params.lookback)
    BY <2>1, <2>2, RecentFacts
  <2> QED BY <1>4, <2>2, <2>3 DEF BreakoutInv, Held
<1>6. OnCandle(params, state, candle, seen) \in Answers(params)
  BY <1>2, <1>3, <1>5, OnCandleType
<1>7. seen \in Context
  BY <1>1, ExecutedType DEF TypeOK
<1>8. Append(history, candle) \in Seq(Candles) /\ Append(history, candle) # <<>>
  BY <1>2, AppendProperties
<1>9. TypeOK'
  <2>1. state' \in States(params') /\ signal' \in SignalEvent \cup {NoValue}
    BY <1>1, <1>2, <1>6 DEF Answers
  <2> QED BY <1>1, <1>2, <1>7, <1>8, <2>1 DEF TypeOK, Bar
<1>10. IndicatorInv'
  <2>1. params.name \in {"breakout", "ma_crossover", "rsi_mean_reversion"}
    BY <1>2 DEF Parameters
  <2>2. CASE params.name = "breakout"
    <3>1. OnCandle(params, state, candle, seen) = BreakoutOnCandle(params, state, candle, seen)
      BY <2>2 DEF OnCandle
    <3>2. BreakoutAnswers(params, OnCandle(params, state, candle, seen), Append(history, candle), seen)
      BY <1>2, <1>3, <1>4, <2>2, <3>1, BreakoutStep
    <3>3. /\ BreakoutInv(params, state', history')
          /\ signal' = ExpectedSignal(params, history', seen)
      BY <1>1, <1>2, <3>2 DEF BreakoutAnswers
    <3> QED BY <1>1, <1>2, <1>4, <2>2, <3>3
      DEF IndicatorInv, WindowSignalsMatchReference, WilderSignalsMatchReference
  <2>3. CASE params.name = "ma_crossover"
    <3>1. OnCandle(params, state, candle, seen) = MACrossoverOnCandle(params, state, candle, seen)
      BY <2>3 DEF OnCandle
    <3>2. MACrossoverAnswers(params, OnCandle(params, state, candle, seen), Append(history, candle), seen)
      BY <1>2, <1>3, <1>4, <2>3, <3>1, MACrossoverStep
    <3>3. /\ MACrossoverInv(params, state', history')
          /\ signal' = ExpectedSignal(params, history', seen)
      BY <1>1, <1>2, <3>2 DEF MACrossoverAnswers
    <3> QED BY <1>1, <1>2, <1>4, <2>3, <3>3
      DEF IndicatorInv, WindowSignalsMatchReference, WilderSignalsMatchReference
  <2>4. CASE params.name = "rsi_mean_reversion"
    <3>1. OnCandle(params, state, candle, seen) = RSIOnCandle(params, state, candle, seen)
      BY <2>4 DEF OnCandle
    <3>2. RSIAnswers(params, OnCandle(params, state, candle, seen), Append(history, candle), seen)
      BY <1>2, <1>3, <1>4, <2>4, <3>1, RSIStep
    <3>3. /\ RSIInv(params, state', history')
          /\ signal' = ExpectedSignal(params, history', seen)
      BY <1>1, <1>2, <3>2 DEF RSIAnswers
    <3> QED BY <1>1, <1>2, <1>4, <2>4, <3>3
      DEF IndicatorInv, WindowSignalsMatchReference, WilderSignalsMatchReference
  <2> QED BY <2>1, <2>2, <2>3, <2>4
<1> QED BY <1>9, <1>10

LEMMA StepTypes ==
    ASSUME TypeOK, IndicatorInv, [Next]_vars
    PROVE  TypeOK' /\ IndicatorInv'
<1>1. CASE UNCHANGED vars
  BY <1>1 DEF vars, TypeOK, IndicatorInv, WindowSignalsMatchReference, WilderSignalsMatchReference
<1>2. ASSUME NEW p \in space, Trial(p) PROVE TypeOK' /\ IndicatorInv'
  <2>1. PICK t \in TrialRecord : tried' = Append(tried, t) /\ best' = Better(best, t)
    BY <1>2, TrialType
  <2>2. tried' \in Seq(TrialRecord) /\ best' \in TrialRecord \cup {NoValue}
    BY <2>1, AppendProperties DEF TypeOK, Better
  <2>3. TypeOK'
    BY <1>2, <2>2 DEF TypeOK, Trial
  <2>4. IndicatorInv'
    BY <1>2 DEF IndicatorInv, WindowSignalsMatchReference, WilderSignalsMatchReference, Trial
  <2> QED BY <2>3, <2>4
<1>3. ASSUME NEW p \in space, Choose(p) PROVE TypeOK' /\ IndicatorInv'
  <2>1. params' \in Parameters
    <3>1. p \in Parameters
      BY ParametersOfSpace DEF TypeOK
    <3>2. best # NoValue => best.params \in Parameters
      BY DEF TypeOK, TrialRecord
    <3> QED BY <1>3, <3>1, <3>2 DEF Choose
  <2>2. TypeOK'
    BY <1>3, <2>1 DEF TypeOK, Choose
  <2>3. IndicatorInv'
    BY <1>3 DEF IndicatorInv, WindowSignalsMatchReference, WilderSignalsMatchReference, Choose
  <2> QED BY <2>2, <2>3
<1>4. ASSUME StartOutOfSample PROVE TypeOK' /\ IndicatorInv'
  <2>1. /\ params \in Parameters /\ params' = params /\ phase' = "oos" /\ phase = "chosen"
        /\ history = <<>> /\ history' = <<>> /\ Valid(params) /\ state' = Reset(params)
    BY <1>4 DEF TypeOK, IndicatorInv, StartOutOfSample
  <2>2. TypeOK'
    <3>1. state' \in States(params')
      BY <2>1, ResetType
    <3>2. context' \in Context
      BY <1>4 DEF StartOutOfSample, Flat, Context
    <3> QED BY <1>4, <2>1, <3>1, <3>2 DEF TypeOK, StartOutOfSample
  <2>3. params.name = "breakout" => BreakoutInv(params, state', history')
    BY <2>1, BreakoutStarts DEF Reset
  <2>4. params.name = "ma_crossover" => MACrossoverInv(params, state', history')
    BY <2>1, MACrossoverStarts DEF Reset
  <2>5. params.name = "rsi_mean_reversion" => RSIInv(params, state', history')
    BY <2>1 DEF Reset, RSIInv
  <2>6. IndicatorInv'
    BY <2>1, <2>3, <2>4, <2>5
      DEF IndicatorInv, WindowSignalsMatchReference, WilderSignalsMatchReference
  <2> QED BY <2>2, <2>6
<1>5. ASSUME NEW curve \in Curves, EndOutOfSample(curve) PROVE TypeOK' /\ IndicatorInv'
  <2>1. /\ combined \in Seq(Point) /\ start \in Nat
        /\ growth \in [first : Int, last : Int, positive : BOOLEAN]
    BY DEF TypeOK
  <2>2. /\ Segment(curve) \in Seq(Point) /\ Chained(curve) = combined \o Segment(curve)
        /\ curve[1] \in Int /\ curve[Len(curve)] \in Int
    BY <2>1, SegmentType
  <2>3. combined' \in Seq(Point)
    BY <1>5, <2>1, <2>2, ConcatProperties DEF EndOutOfSample
  <2>4. growth' \in [first : Int, last : Int, positive : BOOLEAN]
    <3>1. /\ growth.first * curve[1] \in Int /\ growth.last * curve[Len(curve)] \in Int
          /\ (growth.positive /\ curve[1] > 0) \in BOOLEAN
      BY <2>1, <2>2
    <3> QED BY <1>5, <3>1 DEF EndOutOfSample
  <2> QED BY <1>5, <2>3, <2>4, NextWindowTypes DEF EndOutOfSample
<1>6. ASSUME EmptyOutOfSample PROVE TypeOK' /\ IndicatorInv'
  <2>1. combined' \in Seq(Point) /\ growth' \in [first : Int, last : Int, positive : BOOLEAN]
    BY <1>6 DEF TypeOK, EmptyOutOfSample
  <2> QED BY <1>6, <2>1, NextWindowTypes DEF EmptyOutOfSample
<1>7. ASSUME EngineRaises PROVE TypeOK' /\ IndicatorInv'
  <2>1. context' \in Context
    BY <1>7 DEF EngineRaises, Forget, Flat, Context
  <2>2. combined' \in Seq(Point) /\ growth' \in [first : Int, last : Int, positive : BOOLEAN]
    BY <1>7 DEF EngineRaises, NoGrowth
  <2>3. TypeOK'
    BY <1>7, <2>1, <2>2 DEF EngineRaises, Forget, TypeOK
  <2>4. IndicatorInv'
    BY <1>7 DEF EngineRaises, Forget, IndicatorInv, WindowSignalsMatchReference,
      WilderSignalsMatchReference
  <2> QED BY <2>3, <2>4
<1> QED BY <1>1, <1>2, <1>3, <1>4, <1>5, <1>6, <1>7, BarTypes DEF Next

\* Every value of the analysis keeps its type for any series, window sizes and
\* parameter spaces: no extremum of an empty channel, no division by zero and no
\* missing parameters in a window that is run.
THEOREM AnalysisTypeCorrect == Spec => []TypeOK
<1>1. TypeOK /\ IndicatorInv /\ [Next]_vars => (TypeOK /\ IndicatorInv)'
  BY StepTypes
<1> QED BY <1>1, InitTypes, PTL DEF Spec

\* Every out-of-sample signal of BreakoutStrategy and MACrossoverStrategy follows
\* from the candles of its own run, whatever the lookback or the two periods.
THEOREM WindowSignalsAreReferenceSignals == Spec => []WindowSignalsMatchReference
<1>1. TypeOK /\ IndicatorInv /\ [Next]_vars => (TypeOK /\ IndicatorInv)'
  BY StepTypes
<1>2. IndicatorInv => WindowSignalsMatchReference
  BY DEF IndicatorInv
<1> QED BY <1>1, <1>2, InitTypes, PTL DEF Spec

\* Every out-of-sample signal of RSIMeanReversionStrategy is what Wilder's average
\* in closed form gives on the candles of its own run, whatever the period and
\* however long the run: seeded on exactly period changes, smoothed from the next.
THEOREM WilderSignalsAreReferenceSignals == Spec => []WilderSignalsMatchReference
<1>1. TypeOK /\ IndicatorInv /\ [Next]_vars => (TypeOK /\ IndicatorInv)'
  BY StepTypes
<1>2. IndicatorInv => WilderSignalsMatchReference
  BY DEF IndicatorInv
<1> QED BY <1>1, <1>2, InitTypes, PTL DEF Spec

-----------------------------------------------------------------------------
(* The random search.                                                      *)

Scored(trials) == {i \in DOMAIN trials : trials[i].metric # NoValue}

\* Trial i has the best metric, and no earlier one has it too.
FirstBest(trials, i) ==
    /\ \A j \in Scored(trials) : trials[j].metric <= trials[i].metric
    /\ \A j \in Scored(trials) : j < i => trials[j].metric < trials[i].metric

\* The running best of _optimize_window.
RunningBest(trials, b) ==
    IF b = NoValue THEN Scored(trials) = {}
    ELSE \E i \in Scored(trials) : b = trials[i] /\ FirstBest(trials, i)

SearchInv ==
    /\ RunningBest(tried, best)
    /\ phase = "chosen" /\ best # NoValue => params = best.params

LEMMA BetterKeepsBest ==
    ASSUME NEW trials \in Seq(TrialRecord), NEW t \in TrialRecord,
           NEW b \in TrialRecord \cup {NoValue}, RunningBest(trials, b)
    PROVE  RunningBest(Append(trials, t), Better(b, t))
<1> DEFINE all == Append(trials, t)
           l == Len(trials)
<1>1. /\ DOMAIN trials = 1..l /\ l \in Nat /\ \A i \in 1..l : trials[i] \in TrialRecord
  BY LenProperties, ElementOfSeq
<1>2. /\ DOMAIN all = 1..(l + 1) /\ all[l + 1] = t /\ \A i \in 1..l : all[i] = trials[i]
  BY AppendProperties, LenProperties
<1> HIDE DEF all, l
<1>3. \A r \in TrialRecord : r # NoValue /\ (r.metric # NoValue => r.metric \in Int)
  BY WalkForwardAssumption DEF TrialRecord
<1>4. \A i \in Scored(all) : i \in 1..(l + 1) /\ (i # l + 1 => i \in Scored(trials))
  BY <1>1, <1>2 DEF Scored
<1>5. \A i \in Scored(trials) : i \in 1..l /\ i \in Scored(all) /\ all[i] = trials[i] /\ trials[i].metric \in Int
  BY <1>1, <1>2, <1>3 DEF Scored
<1>6. l + 1 \in Scored(all) <=> t.metric # NoValue
  BY <1>1, <1>2 DEF Scored
<1>7. CASE t.metric = NoValue
  <2>1. Better(b, t) = b
    BY <1>7 DEF Better
  <2>2. \A i \in Scored(all) : i \in Scored(trials)
    BY <1>4, <1>6, <1>7
  <2>3. CASE b = NoValue
    BY <2>1, <2>2, <2>3 DEF RunningBest, all
  <2>4. CASE b # NoValue
    <3>1. PICK i \in Scored(trials) : b = trials[i] /\ FirstBest(trials, i)
      BY <2>4 DEF RunningBest
    <3>2. FirstBest(all, i)
      BY <1>5, <2>2, <3>1 DEF FirstBest
    <3> QED BY <1>5, <2>1, <2>4, <3>1, <3>2 DEF RunningBest, all
  <2> QED BY <2>3, <2>4
<1>8. CASE t.metric # NoValue /\ (b = NoValue \/ t.metric > b.metric)
  <2>1. Better(b, t) = t /\ t # NoValue /\ t.metric \in Int
    BY <1>3, <1>8 DEF Better
  <2>2. \A j \in Scored(trials) : trials[j].metric < t.metric
    <3>1. CASE b = NoValue
      BY <3>1 DEF RunningBest
    <3>2. CASE b # NoValue
      <4>1. PICK i \in Scored(trials) : b = trials[i] /\ FirstBest(trials, i)
        BY <3>2 DEF RunningBest
      <4>2. \A j \in Scored(trials) : trials[j].metric <= b.metric
        BY <4>1 DEF FirstBest
      <4>3. b.metric \in Int /\ b.metric < t.metric
        BY <1>5, <1>8, <2>1, <3>2, <4>1
      <4> QED BY <1>5, <2>1, <4>2, <4>3
    <3> QED BY <3>1, <3>2
  <2>3. FirstBest(all, l + 1)
    <3>1. \A j \in Scored(all) : all[j].metric <= t.metric /\ (j < l + 1 => all[j].metric < t.metric)
      <4> SUFFICES ASSUME NEW j \in Scored(all)
                   PROVE  all[j].metric <= t.metric /\ (j < l + 1 => all[j].metric < t.metric)
        OBVIOUS
      <4>1. CASE j = l + 1
        BY <1>1, <1>2, <2>1, <4>1
      <4>2. CASE j # l + 1
        <5>1. all[j].metric < t.metric /\ all[j].metric \in Int
          BY <1>4, <1>5, <2>2, <4>2
        <5> QED BY <2>1, <5>1
      <4> QED BY <4>1, <4>2
    <3> QED BY <1>2, <3>1 DEF FirstBest
  <2>4. l + 1 \in Scored(all) /\ t = all[l + 1]
    BY <1>2, <1>6, <1>8
  <2> QED BY <2>1, <2>3, <2>4 DEF RunningBest, all
<1>9. CASE t.metric # NoValue /\ ~(b = NoValue \/ t.metric > b.metric)
  <2>1. Better(b, t) = b /\ b # NoValue /\ t.metric \in Int
    BY <1>3, <1>9 DEF Better
  <2>2. PICK i \in Scored(trials) : b = trials[i] /\ FirstBest(trials, i)
    BY <2>1 DEF RunningBest
  <2>3. i \in 1..l /\ all[i] = b /\ b.metric \in Int /\ t.metric <= b.metric /\ i \in Scored(all)
    BY <1>5, <1>9, <2>1, <2>2
  <2>4. FirstBest(all, i)
    <3>1. \A j \in Scored(all) : all[j].metric <= b.metric /\ (j < i => all[j].metric < b.metric)
      <4> SUFFICES ASSUME NEW j \in Scored(all)
                   PROVE  all[j].metric <= b.metric /\ (j < i => all[j].metric < b.metric)
        OBVIOUS
      <4>1. CASE j = l + 1
        <5>1. ~(j < i)
          BY <1>1, <2>3, <4>1
        <5> QED BY <1>2, <2>3, <4>1, <5>1
      <4>2. CASE j # l + 1
        BY <1>4, <1>5, <2>2, <4>2 DEF FirstBest
      <4> QED BY <4>1, <4>2
    <3> QED BY <2>3, <3>1 DEF FirstBest
  <2> QED BY <2>1, <2>3, <2>4 DEF RunningBest, all
<1> QED BY <1>7, <1>8, <1>9

\* No trial yet, no best.
LEMMA NothingScored == RunningBest(<<>>, NoValue)
BY DEF RunningBest, Scored

LEMMA StepSearch ==
    ASSUME TypeOK, SearchInv, [Next]_vars
    PROVE  SearchInv'
<1>1. CASE UNCHANGED vars
  BY <1>1 DEF vars, SearchInv
<1>2. ASSUME NEW p \in space, Trial(p) PROVE SearchInv'
  <2>1. PICK t \in TrialRecord : tried' = Append(tried, t) /\ best' = Better(best, t)
    BY <1>2, TrialType
  <2>2. RunningBest(Append(tried, t), Better(best, t))
    BY BetterKeepsBest DEF TypeOK, SearchInv
  <2>3. phase' # "chosen"
    BY <1>2 DEF Trial
  <2> QED BY <2>1, <2>2, <2>3 DEF SearchInv
<1>3. ASSUME NEW p \in space, Choose(p) PROVE SearchInv'
  BY <1>3 DEF Choose, SearchInv
<1>4. ASSUME StartOutOfSample PROVE SearchInv'
  BY <1>4, NothingScored DEF StartOutOfSample, SearchInv
<1>5. ASSUME NEW candle \in Candles, Bar(candle) PROVE SearchInv'
  BY <1>5 DEF Bar, SearchInv
<1>6. ASSUME NextWindow PROVE SearchInv'
  BY <1>6, NothingScored DEF NextWindow, Forget, SearchInv
<1>7. ASSUME EngineRaises PROVE SearchInv'
  BY <1>7, NothingScored DEF EngineRaises, Forget, SearchInv
<1> QED BY <1>1, <1>2, <1>3, <1>4, <1>5, <1>6, <1>7
     DEF Next, EndOutOfSample, EmptyOutOfSample

\* The window trades with the first best of its scored trials, however many
\* trials there are and however negative their metrics.
THEOREM SearchPicksBestTrial == Spec => []BestTrialWins
<1>1. Init => SearchInv
  BY NothingScored DEF Init, SearchInv
<1>2. TypeOK /\ SearchInv /\ [Next]_vars => SearchInv'
  BY StepSearch
<1>3. SearchInv => BestTrialWins
  <2> SUFFICES ASSUME SearchInv, phase = "chosen", Scored(tried) # {}
               PROVE  \E i \in Scored(tried) : params = tried[i].params /\ FirstBest(tried, i)
    BY DEF BestTrialWins, Scored, FirstBest
  <2>1. best # NoValue
    BY DEF SearchInv, RunningBest
  <2> QED BY <2>1 DEF SearchInv, RunningBest
<1> QED BY <1>1, <1>2, <1>3, AnalysisTypeCorrect, PTL DEF Spec

-----------------------------------------------------------------------------
(* The combined curve.                                                     *)

\* Nothing chained yet, no growth; and the curve ends before the next window's
\* out-of-sample candles begin.
ChainInv ==
    /\ combined = <<>> => growth.first = 1 /\ growth.last = 1
    /\ combined # <<>> /\ step >= OutOfSample => LastPoint.date < start + InSample
    /\ CombinedCurveChains

\* Multiplying both sides of the growth identity by the new segment's growth.
LEMMA GrowthMultiplies ==
    ASSUME NEW ln \in Int, NEW ld \in Int, NEW n \in Int, NEW d \in Int,
           NEW first \in Int, NEW last \in Int, NEW c1 \in Int, NEW cn \in Int,
           ln * d * first = n * ld * last
    PROVE  (cn * ln) * d * (first * c1) = n * (ld * c1) * (last * cn)
<1>1. (cn * ln) * d * (first * c1) = (ln * d * first) * (cn * c1)
  OBVIOUS
<1>2. n * (ld * c1) * (last * cn) = (n * ld * last) * (cn * c1)
  OBVIOUS
<1> QED BY <1>1, <1>2

LEMMA ChainStep ==
    ASSUME TypeOK, ChainInv, NEW curve \in Curves, EndOutOfSample(curve)
    PROVE  ChainInv'
<1> DEFINE seg == Segment(curve)
           n == OutOfSample
           l == Len(combined)
           c1 == curve[1]
           cn == curve[n]
           f == growth.first
           g == growth.last
<1>1. /\ combined \in Seq(Point) /\ start \in Nat /\ l \in Nat /\ step \in Nat
      /\ f \in Int /\ g \in Int /\ InSample \in Nat \ {0}
  BY LenProperties, WalkForwardAssumption DEF TypeOK
<1>2. /\ n \in Nat \ {0} /\ Len(curve) = n
      /\ c1 \in Int /\ cn \in Int
      /\ seg \in Seq(Point) /\ Len(seg) = n
      /\ combined' = combined \o seg
  <2>1. combined' = Chained(curve)
    BY DEF EndOutOfSample
  <2>2. /\ n \in Nat \ {0} /\ Len(curve) = n /\ \A i \in 1..n : curve[i] \in Int
        /\ seg \in Seq(Point) /\ Len(seg) = n
        /\ Chained(curve) = combined \o seg
    BY <1>1, SegmentType
  <2> HIDE DEF n, seg
  <2>3. 1 \in 1..n /\ n \in 1..n
    BY <2>2
  <2> QED BY <2>1, <2>2, <2>3
<1>3. \A i \in 1..n : /\ seg[i].date = start + InSample + i - 1
                      /\ seg[i].num = curve[i] * Scale(c1).num
                      /\ seg[i].den = Scale(c1).den
  BY <1>1, SegmentType
<1>4. /\ growth'.first = f * c1 /\ growth'.last = g * cn
      /\ growth'.positive => growth.positive /\ c1 > 0
      /\ start' = start + step /\ step' = step
  <2>1. growth' = [first |-> f * c1, last |-> g * cn, positive |-> growth.positive /\ c1 > 0]
    BY <1>2 DEF EndOutOfSample
  <2>2. start' = start + step /\ step' = step
    BY DEF EndOutOfSample, NextWindow, Advanced
  <2> HIDE DEF c1, cn, f, g
  <2>3. growth'.first = f * c1 /\ growth'.last = g * cn
    BY <2>1
  <2>4. growth'.positive = (growth.positive /\ c1 > 0)
    BY <2>1
  <2> QED BY <2>2, <2>3, <2>4
<1> HIDE DEF seg, n, l, c1, cn, f, g
<1>5. /\ combined' \in Seq(Point) /\ Len(combined') = l + n
      /\ \A i \in 1..(l + n) : combined'[i] = IF i <= l THEN combined[i] ELSE seg[i - l]
  BY <1>1, <1>2, ConcatProperties DEF l
<1>6. combined' # <<>>
  BY <1>1, <1>2, <1>5, EmptySeq
<1>7. LastPoint' = seg[n]
  <2>1. l + n \in 1..(l + n) /\ ~(l + n <= l) /\ (l + n) - l = n
    BY <1>1, <1>2
  <2>2. LastPoint' = combined'[l + n]
    BY <1>5 DEF LastPoint
  <2> QED BY <1>5, <2>1, <2>2
<1>8. /\ LastPoint'.date = start + InSample + n - 1
      /\ LastPoint'.num = cn * Scale(c1).num /\ LastPoint'.den = Scale(c1).den
  BY <1>2, <1>3, <1>7 DEF cn
<1>9. step' >= OutOfSample => LastPoint'.date < start' + InSample
  BY <1>1, <1>2, <1>4, <1>8 DEF n
<1>10. ASSUME growth'.positive
       PROVE  LastPoint'.num * combined'[1].den * growth'.first
                = combined'[1].num * LastPoint'.den * growth'.last
  <2>1. growth.positive /\ c1 > 0
    BY <1>4, <1>10
  <2>2. CASE combined = <<>>
    <3>1. l = 0 /\ f = 1 /\ g = 1 /\ Scale(c1) = [num |-> 1, den |-> 1]
      BY <2>2, EmptySeq DEF ChainInv, Scale, l, f, g
    <3>2. 1 \in 1..(l + n) /\ ~(1 <= l) /\ 1 - l = 1 /\ 1 \in 1..n
      BY <1>2, <3>1
    <3>3. combined'[1] = seg[1]
      BY <1>5, <3>2
    <3>4. combined'[1].num = c1 /\ combined'[1].den = 1 /\ LastPoint'.num = cn /\ LastPoint'.den = 1
      BY <1>2, <1>3, <1>8, <3>1, <3>2, <3>3 DEF c1
    <3>5. growth'.first = c1 /\ growth'.last = cn
      BY <1>2, <1>4, <3>1
    <3>6. cn * 1 * c1 = c1 * 1 * cn
      BY <1>2
    <3> QED BY <3>4, <3>5, <3>6
  <2>3. CASE combined # <<>>
    <3> DEFINE ln == LastPoint.num
               ld == LastPoint.den
               n1 == combined[1].num
               d1 == combined[1].den
    <3>1. l > 0
      BY <1>1, <2>3, EmptySeq DEF l
    <3>2. LastPoint \in Point /\ combined[1] \in Point
      <4>1. 1 \in 1..l /\ l \in 1..l
        BY <1>1, <3>1
      <4> QED BY <1>1, <4>1, ElementOfSeq DEF LastPoint, l
    <3>3. ln \in Int /\ ld \in Int /\ n1 \in Int /\ d1 \in Int
      BY <3>2 DEF Point
    <3>4. Scale(c1) = [num |-> ln, den |-> ld * c1]
      BY <1>2, <2>1, <2>3 DEF Scale
    <3>5. 1 \in 1..(l + n) /\ 1 <= l
      BY <1>1, <1>2, <3>1
    <3>6. combined'[1] = combined[1]
      BY <1>5, <3>5
    <3>7. LastPoint'.num = cn * ln /\ LastPoint'.den = ld * c1
      BY <1>8, <3>4
    <3>8. ln * d1 * f = n1 * ld * g
      BY <2>1, <2>3 DEF ChainInv, CombinedCurveChains, f, g
    <3> HIDE DEF ln, ld, n1, d1
    <3>9. (cn * ln) * d1 * (f * c1) = n1 * (ld * c1) * (g * cn)
      BY <1>1, <1>2, <3>3, <3>8, GrowthMultiplies
    <3> QED BY <1>4, <3>6, <3>7, <3>9 DEF n1, d1
  <2> QED BY <2>2, <2>3
<1>11. \A i \in DOMAIN combined' : combined'[i].den > 0
  <2>1. \A i \in DOMAIN combined' : combined'[i] \in Point
    BY <1>5, LenProperties, ElementOfSeq
  <2> QED BY <2>1 DEF Point
<1>12. ASSUME step' >= OutOfSample, NEW i \in 1..(Len(combined') - 1)
       PROVE  combined'[i].date < combined'[i + 1].date
  <2>1. i \in 1..(l + n) /\ i + 1 \in 1..(l + n) /\ i < l + n
    BY <1>1, <1>2, <1>5, <1>12
  <2>2. /\ combined'[i] = IF i <= l THEN combined[i] ELSE seg[i - l]
        /\ combined'[i + 1] = IF i + 1 <= l THEN combined[i + 1] ELSE seg[(i + 1) - l]
    BY <1>5, <2>1
  <2>3. step >= OutOfSample
    BY <1>4, <1>12
  <2>4. CASE i < l
    <3>1. i <= l /\ i + 1 <= l /\ i \in 1..(l - 1)
      BY <1>1, <2>1, <2>4
    <3>2. combined # <<>>
      BY <1>1, <2>1, <2>4, EmptySeq DEF l
    <3>3. combined[i].date < combined[i + 1].date
      BY <2>3, <3>1, <3>2 DEF ChainInv, CombinedCurveChains, l
    <3> QED BY <2>2, <3>1, <3>3
  <2>5. CASE i = l
    <3>1. i <= l /\ ~(i + 1 <= l) /\ (i + 1) - l = 1 /\ 1 \in 1..n /\ l > 0
      BY <1>1, <1>2, <2>1, <2>5
    <3>2. combined # <<>>
      BY <3>1, EmptySeq DEF l
    <3>3. combined'[i] = LastPoint /\ combined'[i + 1] = seg[1]
      BY <2>2, <2>5, <3>1 DEF LastPoint, l
    <3>4. LastPoint.date < start + InSample
      BY <2>3, <3>2 DEF ChainInv
    <3>5. seg[1].date = start + InSample + 1 - 1
      BY <1>3, <3>1
    <3>6. start + InSample + 1 - 1 = start + InSample
      BY <1>1
    <3> QED BY <3>3, <3>4, <3>5, <3>6
  <2>6. CASE i > l
    <3>1. ~(i <= l) /\ ~(i + 1 <= l) /\ i - l \in 1..n /\ (i + 1) - l \in 1..n
      BY <1>1, <1>2, <2>1, <2>6
    <3>2. seg[i - l].date = start + InSample + (i - l) - 1
      BY <1>3, <3>1
    <3>3. seg[(i + 1) - l].date = start + InSample + ((i + 1) - l) - 1
      BY <1>3, <3>1
    <3>4. start + InSample + (i - l) - 1 < start + InSample + ((i + 1) - l) - 1
      BY <1>1, <2>1
    <3> QED BY <2>2, <3>1, <3>2, <3>3, <3>4
  <2> QED BY <1>1, <2>1, <2>4, <2>5, <2>6
<1>13. CombinedCurveChains'
  BY <1>10, <1>11, <1>12 DEF CombinedCurveChains
<1> QED BY <1>6, <1>9, <1>13 DEF ChainInv

LEMMA StepChain ==
    ASSUME TypeOK, ChainInv, [Next]_vars
    PROVE  ChainInv'
<1>1. CASE UNCHANGED <<combined, growth, start, step>>
  BY <1>1 DEF ChainInv, CombinedCurveChains, LastPoint
<1>2. ASSUME EmptyOutOfSample PROVE ChainInv'
  <2>1. /\ combined' = combined /\ growth' = growth /\ step' = step /\ start' = start + step
    BY <1>2 DEF EmptyOutOfSample, NextWindow, Advanced
  <2>2. step \in Nat /\ start \in Nat /\ InSample \in Nat
    BY WalkForwardAssumption DEF TypeOK
  <2>3. combined # <<>> => LastPoint.date \in Nat
    <3>1. combined # <<>> => LastPoint \in Point
      BY LenProperties, ElementOfSeq, EmptySeq DEF TypeOK, LastPoint
    <3> QED BY <3>1 DEF Point
  <2>4. combined # <<>> /\ step >= OutOfSample => LastPoint.date < (start + step) + InSample
    BY <2>2, <2>3 DEF ChainInv
  <2> QED BY <2>1, <2>4 DEF ChainInv, CombinedCurveChains, LastPoint
<1>3. ASSUME NEW p \in space, Trial(p) \/ Choose(p) PROVE ChainInv'
  BY <1>1, <1>3 DEF Trial, Choose
<1>4. ASSUME StartOutOfSample PROVE ChainInv'
  BY <1>1, <1>4 DEF StartOutOfSample
<1>5. ASSUME NEW candle \in Candles, Bar(candle) PROVE ChainInv'
  BY <1>1, <1>5 DEF Bar
<1>6. CASE UNCHANGED vars
  BY <1>1, <1>6 DEF vars
<1>7. ASSUME EngineRaises PROVE ChainInv'
  BY <1>7 DEF EngineRaises, NoGrowth, ChainInv, CombinedCurveChains
<1> QED BY <1>2, <1>3, <1>4, <1>5, <1>6, <1>7, ChainStep DEF Next

\* The chained curve grows by the product of its segments' growths, divides by
\* nothing that is not positive, and repeats no date when windows do not overlap,
\* for any number of windows, any equity curves and any sizes.
THEOREM CurveChains == Spec => []CombinedCurveChains
<1>1. Init => ChainInv
  BY DEF Init, NoGrowth, ChainInv, CombinedCurveChains
<1>2. TypeOK /\ ChainInv /\ [Next]_vars => ChainInv'
  BY StepChain
<1>3. ChainInv => CombinedCurveChains
  BY DEF ChainInv
<1> QED BY <1>1, <1>2, <1>3, AnalysisTypeCorrect, PTL DEF Spec
=============================================================================
