---------------------------- MODULE WalkForward ----------------------------
(***************************************************************************)
(* WalkForwardAnalyzer (src/src/analytics/walk_forward.py): the rolling    *)
(* windows, the random search on the training candles, the out-of-sample   *)
(* backtest of the winner, candle by candle through the strategy, and the  *)
(* chaining of the out-of-sample equity curves.                            *)
(*                                                                         *)
(* A training backtest is its metric; equity in an out-of-sample backtest  *)
(* is any curve, its fills any the engine could make (BacktestEngine).     *)
(***************************************************************************)
EXTENDS Strategies

CONSTANTS
    ParameterSpaces,    \* per strategy, what _sample_params may draw, invalid ones too
    Candles,            \* candles of the series
    Length,             \* number of candles in the series
    InSample, OutOfSample, Steps,   \* window sizes; Steps is what callers ask for
    Trials,             \* n_optimization_trials
    Metrics,            \* values of the optimization metric
    Curves              \* equity of an out-of-sample run, candle by candle

\* A trial of the random search: sampled parameters and their metric, if scored.
TrialRecord == [params : Parameters, metric : Metrics \cup {NoValue}]

ASSUME WalkForwardAssumption ==
    /\ {InSample, OutOfSample, Trials, Length} \subseteq Nat \ {0}
    /\ Steps \subseteq Nat     \* the class accepts step_days 0
    /\ Curves \subseteq Seq(Int)
    /\ \A curve \in Curves : Len(curve) = OutOfSample
    /\ \A values \in ParameterSpaces : values \subseteq Parameters
    /\ Candles \subseteq Candle
    /\ Metrics \subseteq Int
    /\ NoValue \notin TrialRecord

VARIABLES
    space,      \* the strategy's parameter space
    step,       \* step_days
    start,      \* index of the window's first candle, from 0
    phase,      \* "train", "chosen", "oos", and at the end "done" or "raised"
    tried,      \* trials of this window: parameters and metric
    best,       \* best_params and best_metric of them
    params,     \* best_params of this window
    state,      \* the strategy's indicators in the out-of-sample run
    context,    \* the engine's StrategyContext at the last candle
    history,    \* auxiliary: candles of the out-of-sample run so far
    signal,     \* what on_candle returned last
    combined,   \* combined_equity: date and equity as num / den
    growth      \* auxiliary: products of the segments' first and last equities,
                \* and whether every segment started above zero

vars == <<space, step, start, phase, tried, best, params, state, context, history, signal, combined, growth>>

\* What the strategy is told, and the stop price of the pending order.
Context == [position : {"long", NoValue}, pending : {"long", "short", NoValue},
            forced : BOOLEAN, stop : Int \cup {NoValue}]

\* A point of the combined curve.
Point == [date : Nat, num : Int, den : Nat \ {0}]

Flat == [position |-> NoValue, pending |-> NoValue, forced |-> FALSE, stop |-> NoValue]

NoGrowth == [first |-> 1, last |-> 1, positive |-> TRUE]

Fits(first) == first + InSample + OutOfSample <= Length

Init ==
    /\ space \in ParameterSpaces
    /\ step \in Steps
    /\ start = 0
    /\ phase = IF Fits(0) THEN "train" ELSE "done"
    /\ tried = <<>> /\ combined = <<>> /\ history = <<>>
    /\ growth = NoGrowth
    /\ best = NoValue /\ params = NoValue /\ state = NoValue /\ signal = NoValue
    /\ context = Flat

-----------------------------------------------------------------------------
(* _optimize_window                                                        *)

\* The same parameters on the same candles score the same; invalid ones give
\* an empty curve and are skipped.
Scores(p) ==
    LET seen == {tried[i].metric : i \in {j \in DOMAIN tried : tried[j].params = p}}
    IN  IF ~Valid(p) THEN {NoValue} ELSE IF seen # {} THEN seen ELSE Metrics

\* Mutant: the best metric starts at zero instead of minus infinity.
BetterFromZero(old, t) ==
    IF t.metric # NoValue /\ t.metric > (IF old = NoValue THEN 0 ELSE old.metric) THEN t ELSE old

\* Strictly better replaces; minus infinity is below any score.
Better(old, t) ==
    IF t.metric # NoValue /\ (old = NoValue \/ t.metric > old.metric) THEN t ELSE old

Trial(p) ==
    /\ phase = "train" /\ Len(tried) < Trials
    /\ \E metric \in Scores(p) :
         LET trial == [params |-> p, metric |-> metric]
         IN  tried' = Append(tried, trial) /\ best' = Better(best, trial)
    /\ UNCHANGED <<space, step, start, phase, params, state, context, history, signal, combined, growth>>

\* Without any scored trial the parameters are one more sample, valid or not.
Choose(sample) ==
    /\ phase = "train" /\ Len(tried) = Trials
    /\ params' = IF best # NoValue THEN best.params ELSE sample
    /\ phase' = "chosen"
    /\ UNCHANGED <<space, step, start, tried, best, state, context, history, signal, combined, growth>>

-----------------------------------------------------------------------------
(* _run_backtest on the out-of-sample candles                              *)

\* strategy_cls(**params): a new instance for every run.
StartOutOfSample ==
    /\ phase = "chosen" /\ Valid(params)
    /\ phase' = "oos"
    /\ state' = Reset(params)
    /\ context' = Flat
    /\ tried' = <<>> /\ best' = NoValue
    /\ UNCHANGED <<space, step, start, params, history, signal, combined, growth>>

\* What the engine may do with the pending order before the strategy is asked:
\* fill it, reject it for buying power, or keep an untriggered stop order.
Executed(c) ==
    CASE c.pending = "long" ->
           {Flat, [Flat EXCEPT !.position = "long"]} \cup (IF c.stop = NoValue THEN {} ELSE {c})
      [] c.pending = "short" -> {Flat}
      [] OTHER -> {c}

Queued(c, s) ==
    IF s = NoValue THEN c ELSE [c EXCEPT !.pending = s.direction, !.stop = s.stop]

Bar(candle) ==
    /\ phase = "oos" /\ Len(history) < OutOfSample
    /\ \E seen \in Executed(Queued(context, signal)) :
         LET answer == OnCandle(params, state, candle, seen)
         IN  context' = seen /\ state' = answer.state /\ signal' = answer.signal
    /\ history' = Append(history, candle)
    /\ UNCHANGED <<space, step, start, phase, tried, best, params, combined, growth>>

-----------------------------------------------------------------------------
(* run: chaining and the next window                                       *)

LastPoint == combined[Len(combined)]

\* Mutant: later segments keep their own level.
ScaleNever(first) == [num |-> 1, den |-> 1]

\* last_equity / first_oos, or 1 when the segment starts at zero or below.
Scale(first) ==
    IF combined = <<>> \/ first <= 0 THEN [num |-> 1, den |-> 1]
    ELSE [num |-> LastPoint.num, den |-> LastPoint.den * first]

Chained(curve) ==
    LET scale == Scale(curve[1])
    IN  combined \o [i \in DOMAIN curve |->
                       [date |-> start + InSample + i - 1,
                        num |-> curve[i] * scale.num, den |-> scale.den]]

\* Mutant: the window is never moved.
AdvancedNot(first) == first

Advanced(first) == first + step

\* The locals of a window go out of scope.
Forget ==
    /\ tried' = <<>> /\ history' = <<>>
    /\ best' = NoValue /\ params' = NoValue /\ state' = NoValue /\ signal' = NoValue
    /\ context' = Flat

NextWindow ==
    /\ start' = Advanced(start)
    /\ phase' = IF Fits(start') THEN "train" ELSE "done"
    /\ Forget
    /\ UNCHANGED <<step, space>>

EndOutOfSample(curve) ==
    /\ phase = "oos" /\ Len(history) = OutOfSample
    /\ combined' = Chained(curve)
    /\ growth' = [first |-> growth.first * curve[1], last |-> growth.last * curve[Len(curve)],
                  positive |-> growth.positive /\ curve[1] > 0]
    /\ NextWindow

\* Invalid parameters give an empty out-of-sample curve.
EmptyOutOfSample ==
    /\ phase = "chosen" /\ ~Valid(params)
    /\ UNCHANGED <<combined, growth>>
    /\ NextWindow

\* BacktestEngine.run raises, in a trial or in the out-of-sample run: only the
\* constructor's ValueError is caught, so run ends without a result.
EngineRaises ==
    /\ \/ phase = "train" /\ Len(tried) < Trials /\ \E p \in space : Valid(p)
       \/ phase = "oos"
    /\ phase' = "raised"
    /\ Forget
    /\ combined' = <<>> /\ growth' = NoGrowth
    /\ UNCHANGED <<space, step, start>>

Ended == phase \in {"done", "raised"}

Next ==
    \/ \E p \in space : Trial(p) \/ Choose(p)
    \/ StartOutOfSample
    \/ \E candle \in Candles : Bar(candle)
    \/ \E curve \in Curves : EndOutOfSample(curve)
    \/ EmptyOutOfSample
    \/ EngineRaises
    \/ Ended /\ UNCHANGED vars

Spec == Init /\ [][Next]_vars

\* The analysis is one synchronous call: it keeps running.
FairSpec == Spec /\ WF_vars(Next)

-----------------------------------------------------------------------------
(* Properties.                                                             *)

\* Type correctness of the analysis, the search and the strategy it runs.
TypeOK ==
    /\ space \in ParameterSpaces /\ step \in Steps /\ start \in Nat
    /\ phase \in {"train", "chosen", "oos", "done", "raised"}
    /\ tried \in Seq(TrialRecord) /\ best \in TrialRecord \cup {NoValue}
    /\ params \in Parameters \cup {NoValue}
    /\ phase \in {"chosen", "oos"} => params \in Parameters
    /\ phase = "oos" => state \in States(params)
    /\ context \in Context
    /\ history \in Seq(Candles)
    /\ signal \in SignalEvent \cup {NoValue}
    /\ combined \in Seq(Point)
    /\ growth \in [first : Int, last : Int, positive : BOOLEAN]

\* Every out-of-sample signal of BreakoutStrategy and MACrossoverStrategy is what
\* the channel or the averages of the candles of that run alone give, the current
\* one included only where it may be: no look-ahead in the channel, no carry-over
\* from an earlier run or window.
WindowSignalsMatchReference ==
    phase = "oos" /\ history # <<>> /\ params.name # "rsi_mean_reversion" =>
        signal = ExpectedSignal(params, history, context)

\* Every out-of-sample signal of RSIMeanReversionStrategy is what Wilder's average
\* in closed form gives on the candles of that run: seeded on exactly period
\* changes, smoothed from the next one on.
WilderSignalsMatchReference ==
    phase = "oos" /\ history # <<>> /\ params.name = "rsi_mean_reversion" =>
        signal = ExpectedSignal(params, history, context)

\* The parameters a window trades with are the first best of its scored trials,
\* losing ones included; they are a blind sample only if no trial was scored.
BestTrialWins ==
    phase = "chosen" =>
        LET scored == {i \in DOMAIN tried : tried[i].metric # NoValue}
        IN  scored # {} =>
              \E i \in scored : /\ params = tried[i].params
                                /\ \A j \in scored : tried[j].metric <= tried[i].metric
                                /\ \A j \in scored : j < i => tried[j].metric < tried[i].metric

\* The combined curve grows by the product of its segments' growths, so no
\* window's start shows as a gain or a loss, nothing is divided by zero, and when
\* windows do not overlap (step_days >= out_of_sample_days) no date occurs twice
\* or out of order.
CombinedCurveChains ==
    combined # <<>> =>
        /\ growth.positive =>
             LastPoint.num * combined[1].den * growth.first
               = combined[1].num * LastPoint.den * growth.last
        /\ \A i \in DOMAIN combined : combined[i].den > 0
        /\ step >= OutOfSample =>
             \A i \in 1..(Len(combined) - 1) : combined[i].date < combined[i + 1].date

\* With a positive step_days the analysis ends, with its result or the engine's
\* exception, whatever the windows' trials give.
AnalysisEnds == step > 0 => <>Ended
=============================================================================
