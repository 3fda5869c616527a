--------------------------- MODULE BacktestEngine ---------------------------
(***************************************************************************)
(* BacktestEngine.run (src/src/engine/backtest.py): the bar-by-bar loop    *)
(* that composes Broker and Portfolio with a strategy.  Each candle goes   *)
(* through the phases                                                      *)
(*                                                                         *)
(*   next -> execute -> mark -> margin -> market -> signal -> next         *)
(*                                                                         *)
(* one action per phase; a run ends in "done", or in "failed" when a call  *)
(* raises.  The strategy is the environment: on every candle it may emit   *)
(* any signal of Signals or none.  The position sizer is its contract, a   *)
(* quantity of at least one share.                                         *)
(***************************************************************************)
EXTENDS Portfolio

CONSTANTS
    Candles,            \* candles the series is made of
    Gaps,               \* days between two consecutive candles
    Signals,            \* signals a strategy may emit
    Quantities,         \* what position_sizer.calculate may answer
    RequestedSymbol,    \* the symbol argument of run(), or None
    Unknown,            \* the placeholder symbol "UNKNOWN"
    None,               \* Python's None
    MaxBars             \* bound on the length of the series

Candle == [open : Nat \ {0}, high : Nat \ {0}, low : Nat \ {0}, close : Nat \ {0}]

Signal == [symbol : Symbols, direction : Directions, type : OrderTypes,
           price : (Nat \ {0}) \cup {None}]

\* A queued order, with the bar whose candle it was decided on (created_at)
\* and the forced_cover mark of _PendingOrder.
PendingOrder == [symbol : Symbols, direction : Directions, quantity : Nat \ {0},
                 type : OrderTypes, price : (Nat \ {0}) \cup {None},
                 bar : Nat, forced : BOOLEAN]

\* The series is well formed: positive prices, OHLC order, and the strictly
\* increasing timestamps that _run insists on.
ASSUME SeriesAssumption ==
    /\ Candles \subseteq Candle
    /\ \A c \in Candles : IsCandle(c)
    /\ Gaps \subseteq Nat \ {0}

ASSUME EngineAssumption ==
    /\ Signals \subseteq Signal
    /\ Quantities \subseteq Nat \ {0}
    /\ RequestedSymbol \in Symbols \cup {None}
    /\ None \notin Symbols /\ None \notin Nat
    /\ None \notin Signal /\ None \notin PendingOrder
    /\ MaxBars \in Nat

\* A sale slipped by the whole price would fill at zero or below, which
\* record_fill refuses; neither BacktestConfig nor the API bounds slippage.
ASSUME SlippageBelowPrice == Slippage < SlipScale

VARIABLES
    phase,      \* the next step of the loop body
    bar,        \* candles taken so far; the current one is number bar
    time,       \* timestamp of the current candle, in days
    candle,     \* the current candle
    symbol,     \* state.symbol
    pending,    \* state.pending
    signal,     \* the SignalEvent in the event queue, or None
    filled,     \* the order filled on this candle and its price, or None
    error       \* what made the run fail

engineVars == <<phase, bar, time, candle, symbol, pending, signal, filled, error>>

vars == <<portfolioVars, engineVars>>

Phases == {"next", "execute", "mark", "margin", "market", "signal", "done", "failed"}

ForcedPending == pending # None /\ pending.forced

Init ==
    /\ PortfolioInit
    /\ phase = "next"
    /\ bar = 0
    /\ time = 0
    /\ candle \in Candles
    /\ symbol = IF RequestedSymbol # None THEN RequestedSymbol ELSE Unknown
    /\ pending = None
    /\ signal = None
    /\ filled = None
    /\ error = "none"

\* An exception leaves the loop; run() logs backtest.failed and re-raises.
Fail(reason) ==
    /\ phase' = "failed"
    /\ error' = reason
    /\ UNCHANGED <<portfolioVars, symbol, pending>>

-----------------------------------------------------------------------------
(* The loop body.                                                          *)

\* Take the next candle and, from the second one on, accrue the borrow fee up
\* to its timestamp, before any of its prices is used.
NextCandle ==
    /\ phase = "next"
    /\ bar < MaxBars
    /\ \E c \in Candles, gap \in Gaps :
         /\ candle' = c
         /\ time' = time + gap
         /\ bar' = bar + 1
         /\ filled' = None
         /\ IF bar = 0
            THEN phase' = "execute" /\ UNCHANGED <<portfolioVars, symbol, pending, error>>
            ELSE IF AccrualRaises(time + gap)
            THEN Fail("accrual")
            ELSE /\ AccrueShortBorrow(time + gap)
                 /\ phase' = "execute"
                 /\ UNCHANGED <<symbol, pending, error>>
    /\ UNCHANGED signal

\* Mutant: the filled order stays in the queue.
HandleFillEventKeepsOrder(fill) ==
    IF FillRaises(fill)
    THEN Fail("fill") /\ UNCHANGED filled
    ELSE /\ RecordFill(fill, time)
         /\ IF FillAccepted(fill)
            THEN symbol' = fill.symbol /\ filled' = [order |-> pending, price |-> fill.price]
            ELSE UNCHANGED <<symbol, filled>>
         /\ phase' = "mark"
         /\ UNCHANGED <<pending, error>>

\* _handle_fill_event: apply the fill; accepted or rejected, the order is gone.
HandleFillEvent(fill) ==
    IF FillRaises(fill)
    THEN Fail("fill") /\ UNCHANGED filled
    ELSE /\ RecordFill(fill, time)
         /\ IF FillAccepted(fill)
            THEN /\ symbol' = fill.symbol
                 /\ filled' = [order |-> pending, price |-> fill.price]
            ELSE UNCHANGED <<symbol, filled>>
         /\ pending' = None
         /\ phase' = "mark"
         /\ UNCHANGED error

\* The candle does not trigger the order: only a conditional order is kept.
Untriggered ==
    /\ Execute(pending, candle) = {}
    /\ pending' = IF pending.type \in {"LIMIT", "STOP"} THEN pending ELSE None
    /\ phase' = "mark"
    /\ UNCHANGED <<portfolioVars, symbol, filled, error>>

ExecutePending ==
    /\ phase = "execute"
    /\ IF pending = None
       THEN phase' = "mark" /\ UNCHANGED <<portfolioVars, symbol, pending, filled, error>>
       ELSE \/ Untriggered
            \/ \E fill \in Execute(pending, candle) : HandleFillEvent(fill)
    /\ UNCHANGED <<bar, time, candle, signal>>

MarkToClose ==
    /\ phase = "mark"
    /\ Update(symbol, candle.close)
    /\ phase' = "margin"
    /\ UNCHANGED <<bar, time, candle, symbol, pending, signal, filled, error>>

\* _handle_order_event: the order replaces whatever was pending.
HandleOrderEvent(order) ==
    /\ symbol' = order.symbol
    /\ pending' = order

ForcedCover(s) ==
    [symbol |-> s, direction |-> "LONG", quantity |-> positions[s].quantity,
     type |-> "MARKET", price |-> None, bar |-> bar, forced |-> TRUE]

\* Mutant: any pending order suppresses the margin call.
MarginBreachedUnlessPending(s) ==
    pending = None /\ DOMAIN positions = {s} /\ UnderMargined(s)

\* A margin call: the sole open position is a short below maintenance, and no
\* forced cover is queued yet.
MarginBreached(s) ==
    /\ ~ForcedPending
    /\ DOMAIN positions = {s}
    /\ UnderMargined(s)

MarginCheck ==
    /\ phase = "margin"
    /\ \/ \E s \in DOMAIN positions : MarginBreached(s) /\ HandleOrderEvent(ForcedCover(s))
       \/ /\ \A s \in DOMAIN positions : ~MarginBreached(s)
          /\ UNCHANGED <<symbol, pending>>
    /\ phase' = "market"
    /\ UNCHANGED <<portfolioVars, bar, time, candle, signal, filled, error>>

\* _handle_market_event: the strategy sees the completed candle.
HandleMarketEvent ==
    /\ phase = "market"
    /\ signal' \in Signals \cup {None}
    /\ phase' = "signal"
    /\ UNCHANGED <<portfolioVars, bar, time, candle, symbol, pending, filled, error>>

\* Mutant: the order goes to the symbol the signal names, position or not.
ExecutionSymbolsBySignal ==
    {IF RequestedSymbol # None THEN RequestedSymbol ELSE signal.symbol}

\* Mutant: a signal in the position's own direction is not ignored.
ExecutionSymbolsAnyDirection ==
    IF DOMAIN positions = {}
    THEN {IF RequestedSymbol # None THEN RequestedSymbol ELSE signal.symbol}
    ELSE DOMAIN positions

\* _build_order: with a position open, a signal against it becomes an order
\* that closes exactly that position and any other signal is ignored; when
\* flat it becomes an opening order of the size the sizer answers.
ExecutionSymbols ==
    IF DOMAIN positions = {}
    THEN {IF RequestedSymbol # None THEN RequestedSymbol ELSE signal.symbol}
    ELSE {s \in DOMAIN positions :
            signal.direction = Opposite(positions[s].direction)}

OrderQuantities(s) ==
    IF s \in DOMAIN positions THEN {positions[s].quantity} ELSE Quantities

BuildOrder(s, quantity) ==
    [symbol |-> s, direction |-> signal.direction, quantity |-> quantity,
     type |-> signal.type, price |-> signal.price, bar |-> bar, forced |-> FALSE]

\* Order.__post_init__ raises ValueError.
OrderRaises(order) ==
    order.quantity <= 0 \/ (order.type # "MARKET" /\ order.price = None)

\* Mutant: a signal may replace a pending forced cover.
SignalIgnoredForcedToo == signal = None \/ ExecutionSymbols = {}

\* A signal makes no order: there is none, a forced cover is pending, or it
\* does not oppose the open position.  The pending order, if any, stays.
SignalIgnored == signal = None \/ ForcedPending \/ ExecutionSymbols = {}

\* Mutant: an order is executed on the candle that produced it.
HandleSignalEventSameCandle ==
    /\ phase = "signal"
    /\ IF SignalIgnored
       THEN phase' = "next" /\ UNCHANGED <<portfolioVars, symbol, pending, error>>
       ELSE \E s \in ExecutionSymbols : \E quantity \in OrderQuantities(s) :
              IF OrderRaises(BuildOrder(s, quantity))
              THEN Fail("order")
              ELSE /\ HandleOrderEvent(BuildOrder(s, quantity))
                   /\ phase' = "execute"
                   /\ UNCHANGED <<portfolioVars, error>>
    /\ signal' = None
    /\ UNCHANGED <<bar, time, candle, filled>>

\* _handle_signal_event, and _handle_order_event for the order it builds.
HandleSignalEvent ==
    /\ phase = "signal"
    /\ IF SignalIgnored
       THEN phase' = "next" /\ UNCHANGED <<portfolioVars, symbol, pending, error>>
       ELSE \E s \in ExecutionSymbols : \E quantity \in OrderQuantities(s) :
              IF OrderRaises(BuildOrder(s, quantity))
              THEN Fail("order")
              ELSE /\ HandleOrderEvent(BuildOrder(s, quantity))
                   /\ phase' = "next"
                   /\ UNCHANGED <<portfolioVars, error>>
    /\ signal' = None
    /\ UNCHANGED <<bar, time, candle, filled>>

\* The series ends: a pending order is cancelled, a position stays open.
EndOfData ==
    /\ phase = "next"
    /\ bar > 0
    /\ phase' = "done"
    /\ UNCHANGED <<portfolioVars, bar, time, candle, symbol, pending, signal, filled, error>>

Next ==
    \/ NextCandle
    \/ ExecutePending
    \/ MarkToClose
    \/ MarginCheck
    \/ HandleMarketEvent
    \/ HandleSignalEvent
    \/ EndOfData

Spec == Init /\ [][Next]_vars

\* The loop is a single thread that nothing suspends.
FairSpec == Spec /\ WF_vars(Next)

-----------------------------------------------------------------------------
(* Properties.                                                             *)

\* Type correctness of the engine's run state and of its account.
TypeOK ==
    /\ PortfolioTypeOK
    /\ phase \in Phases
    /\ bar \in Nat /\ time \in Nat
    /\ candle \in Candles
    /\ symbol \in Symbols \cup {Unknown}
    /\ pending \in PendingOrder \cup {None}
    /\ signal \in Signals \cup {None}
    /\ filled \in [order : PendingOrder, price : Int] \cup {None}
    /\ error \in {"none", "accrual", "fill", "order"}

\* The engine holds at most one position, although open_positions is a
\* dictionary and signals may name any symbol: next(iter(...)) in _build_order
\* and the margin check never overlooks a position.
OnePosition == \A s, t \in DOMAIN positions : s = t

\* While a position is open, an order in the queue is the one that closes it:
\* same symbol, opposite direction, exactly its quantity.  An entry order left
\* pending from before the fill, or a resized exit, would make record_fill
\* raise on a later candle.
PendingClosesPosition ==
    pending # None =>
      \A s \in DOMAIN positions :
        /\ pending.symbol = s
        /\ pending.direction = Opposite(positions[s].direction)
        /\ pending.quantity = positions[s].quantity

\* A run over a well formed series never dies of its own bookkeeping: no fill
\* and no borrow accrual raises, only a strategy's malformed conditional
\* signal (no price) can.
OnlyBadSignalsRaise == error \in {"none", "order"}

\* After the mark, every open position is valued at this candle's close, never
\* at a price left over from an earlier holding or another symbol.
MarkedAtClose ==
    phase \in {"margin", "market", "signal"} =>
      \A s \in DOMAIN positions : s \in DOMAIN prices /\ prices[s] = candle.close

\* A short below maintenance at the close has a forced cover queued before the
\* strategy sees the candle.
MarginBreachIsCalled ==
    phase \in {"market", "signal"} =>
      \A s \in DOMAIN positions :
        UnderMargined(s) => ForcedPending

\* A forced cover is a market order that buys back exactly the open short, and
\* it is never older than the candle that breached: it is gone once the next
\* candle has been executed.
ForcedCoverIsPrompt ==
    ForcedPending =>
      /\ pending.type = "MARKET" /\ pending.direction = "LONG"
      /\ pending.symbol \in Shorts
      /\ \/ pending.bar = bar /\ phase \in {"market", "signal", "next", "done"}
         \/ pending.bar = bar - 1 /\ phase = "execute"

\* No look-ahead: an order filled on a candle was decided on an earlier one.
NoLookAhead == filled # None => filled.order.bar < bar

\* A limit order never fills worse than its limit, whatever the gap and the
\* slippage.
LimitProtected ==
    filled # None /\ filled.order.type = "LIMIT" =>
      IF filled.order.direction = "LONG"
      THEN filled.price <= filled.order.price * SlipScale
      ELSE filled.price >= filled.order.price * SlipScale

\* A pending order fills exactly when the bar reaches a price it may trade at,
\* and at the first such price, slipped against the trader; only a limit order
\* is shielded from the slippage that would carry it past its limit.
FillFollowsPricePath ==
    phase = "execute" /\ pending # None =>
      {f.price : f \in Execute(pending, candle)} =
        {IF pending.type = "LIMIT"
         THEN CappedAtLimit(AdversePrice(raw, pending.direction),
                            pending.price * SlipScale, pending.direction)
         ELSE AdversePrice(raw, pending.direction) : raw \in RawPrices(pending, candle)}

\* A market order lives for one candle: once it has been executed against, no
\* market order is pending until the margin check or the strategy queues one.
MarketOrdersExpire ==
    phase \in {"mark", "margin"} /\ pending # None => pending.type # "MARKET"

\* A margin call stands: nothing but its own execution removes a forced cover,
\* and that execution leaves no short behind.
ForcedCoverStands ==
    [][ForcedPending =>
         pending' = pending \/ (pending' = None /\ Shorts' = {})]_vars

\* Every margin call is answered: the short is covered, unless the data ends on
\* the very candle of the call (margin.call_unresolved).  It is never replaced,
\* starved by the strategy or lost in a failed run.
MarginCallResolved ==
    ForcedPending ~> (Shorts = {} \/ (phase = "done" /\ ForcedPending))

\* A strategy signal against the direction of the order in the queue.
OpposesPending ==
    /\ phase = "signal" /\ signal # None
    /\ pending # None /\ ~ForcedPending
    /\ signal.direction = Opposite(pending.direction)

\* What the execution design promises of an opposite signal: it cancels the
\* pending order before the engine decides what to do with the signal.
OppositeSignalCancels ==
    [][OpposesPending => pending' # pending \/ phase' = "failed"]_vars

=============================================================================
