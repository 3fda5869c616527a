------------------------------ MODULE Portfolio ------------------------------
(***************************************************************************)
(* Portfolio (src/src/models/portfolio.py): the account of one backtest.   *)
(* Its dictionaries keyed by symbol are functions whose DOMAIN is the set  *)
(* of keys present, so that a missing key is visible to the properties.    *)
(* Every operation validates before it mutates: a call that raises leaves  *)
(* the account as it was (the predicates ...Raises say which calls do).    *)
(*                                                                         *)
(* The list of closed trades is abstracted to the sum of their pnl and the *)
(* equity curve to its running peak.  Units are those of Broker.           *)
(***************************************************************************)
EXTENDS Broker, Functions

CONSTANTS
    Symbols,            \* names an order or a position may carry
    InitialCapital,     \* in money units
    InitialMargin,      \* short_initial_margin = InitialMargin / CostScale
    MaintenanceMargin,  \* short_maintenance_margin, over CostScale
    BorrowRate          \* borrow fee per day of elapsed time, over CostScale

\* What Portfolio.__init__ and _validate_short_settings let through.
ASSUME PortfolioAssumption ==
    /\ InitialCapital \in Nat \ {0}
    /\ InitialMargin \in Nat /\ InitialMargin >= CostScale
    /\ MaintenanceMargin \in Nat
    /\ BorrowRate \in Nat

VARIABLES
    cash,               \* _cash
    restricted,         \* _restricted_collateral
    shortCollateral,    \* _short_collateral, by symbol
    lastBorrow,         \* _last_short_borrow_timestamp, by symbol
    positions,          \* _open_positions, by symbol
    prices,             \* _current_prices in ticks, by symbol
    peak,               \* _peak_equity
    realised,           \* sum of Trade.pnl over _trades
    borrowed            \* history: borrow fees charged so far

portfolioVars == <<cash, restricted, shortCollateral, lastBorrow, positions,
                   prices, peak, realised, borrowed>>

Position ==
    [direction : Directions, quantity : Nat \ {0}, entry : Int, commission : Int]

-----------------------------------------------------------------------------
(* Dictionaries.                                                           *)

Put(f, k, v) == [x \in DOMAIN f \cup {k} |-> IF x = k THEN v ELSE f[x]]

Drop(f, k) == Restrict(f, DOMAIN f \ {k})

EmptyDict == [x \in {} |-> 0]

\* The sum of a function's values.  A domain of at most one element is split
\* off so that a proof about a single position need not unfold the fold.
Total(f) ==
    IF \E x \in DOMAIN f : DOMAIN f = {x}
    THEN f[CHOOSE x \in DOMAIN f : TRUE]
    ELSE IF DOMAIN f = {} THEN 0 ELSE SumFunction(f)

-----------------------------------------------------------------------------
(* Valuation.                                                              *)

Shorts == {s \in DOMAIN positions : positions[s].direction = "SHORT"}

\* The price a position is valued at: its last mark, or its entry price.
Mark(s) == IF s \in DOMAIN prices THEN prices[s] * SlipScale
                                  ELSE positions[s].entry

MarketValue(s) ==
    LET value == positions[s].quantity * Mark(s) * CostScale
    IN  IF positions[s].direction = "LONG" THEN value ELSE -value

Equity == cash + restricted + Total([s \in DOMAIN positions |-> MarketValue(s)])

\* maintenance_ratio(s) < short_maintenance_margin, for a short with a
\* non-zero marked value.
UnderMargined(s) ==
    /\ s \in Shorts
    /\ positions[s].quantity * Mark(s) # 0
    /\ Equity < positions[s].quantity * Mark(s) * MaintenanceMargin

-----------------------------------------------------------------------------
(* Operations.                                                             *)

PortfolioInit ==
    /\ cash = InitialCapital
    /\ restricted = 0
    /\ shortCollateral = EmptyDict
    /\ lastBorrow = EmptyDict
    /\ positions = EmptyDict
    /\ prices = EmptyDict
    /\ peak = InitialCapital
    /\ realised = 0
    /\ borrowed = 0

\* _validate_fill_inputs refuses the fill.
InvalidFill(fill) == fill.quantity <= 0 \/ fill.price <= 0 \/ fill.commission < 0

\* A fill in a symbol already held must close exactly that position.
MismatchedClose(fill) ==
    /\ fill.symbol \in DOMAIN positions
    /\ \/ fill.direction # Opposite(positions[fill.symbol].direction)
       \/ fill.quantity # positions[fill.symbol].quantity

\* record_fill raises ValueError.
FillRaises(fill) == InvalidFill(fill) \/ MismatchedClose(fill)

Notional(fill) == fill.quantity * fill.price * CostScale

\* Cash an opening fill needs.
RequiredCash(fill) ==
    IF fill.direction = "LONG"
    THEN Notional(fill) + fill.commission
    ELSE fill.quantity * fill.price * (InitialMargin - CostScale) + fill.commission

\* FillOutcome.accepted: a closing fill is always accepted.
FillAccepted(fill) ==
    fill.symbol \in DOMAIN positions \/ RequiredCash(fill) <= cash

\* Mutant: the trade carries the exit commission only.
TradePnlExitOnly(position, fill) ==
    LET raw == (fill.price - position.entry) * position.quantity * CostScale
    IN  (IF position.direction = "SHORT" THEN -raw ELSE raw) - fill.commission

\* Trade.pnl of closing the position with the fill.
TradePnl(position, fill) ==
    LET raw == (fill.price - position.entry) * position.quantity * CostScale
    IN  (IF position.direction = "SHORT" THEN -raw ELSE raw)
          - (position.commission + fill.commission)

\* Mutant: covering a short leaves its collateral and borrow entries behind.
ClosePositionKeepsEntries(fill) ==
    LET s == fill.symbol
        position == positions[s]
    IN  /\ s \in DOMAIN positions
        /\ realised' = realised + TradePnl(position, fill)
        /\ IF position.direction = "LONG"
           THEN /\ cash' = cash + Notional(fill) - fill.commission
                /\ UNCHANGED restricted
           ELSE /\ restricted' = restricted - shortCollateral[s]
                /\ cash' = cash + shortCollateral[s] - Notional(fill) - fill.commission
        /\ positions' = Drop(positions, s)
        /\ UNCHANGED <<shortCollateral, lastBorrow, prices, peak, borrowed>>

ClosePosition(fill) ==
    LET s == fill.symbol
        position == positions[s]
    IN  /\ s \in DOMAIN positions
        /\ realised' = realised + TradePnl(position, fill)
        /\ IF position.direction = "LONG"
           THEN /\ cash' = cash + Notional(fill) - fill.commission
                /\ UNCHANGED <<restricted, shortCollateral, lastBorrow>>
           ELSE /\ restricted' = restricted - shortCollateral[s]
                /\ cash' = cash + shortCollateral[s] - Notional(fill) - fill.commission
                /\ shortCollateral' = Drop(shortCollateral, s)
                /\ lastBorrow' = Drop(lastBorrow, s)
        /\ positions' = Drop(positions, s)
        /\ UNCHANGED <<prices, peak, borrowed>>

OpenPosition(fill, timestamp) ==
    LET s == fill.symbol
        collateral == fill.quantity * fill.price * InitialMargin
    IN  /\ s \notin DOMAIN positions
        /\ RequiredCash(fill) <= cash
        /\ cash' = cash - RequiredCash(fill)
        /\ IF fill.direction = "LONG"
           THEN UNCHANGED <<restricted, shortCollateral, lastBorrow>>
           ELSE /\ restricted' = restricted + collateral
                /\ shortCollateral' = Put(shortCollateral, s, collateral)
                /\ lastBorrow' = Put(lastBorrow, s, timestamp)
        /\ positions' = Put(positions, s, [direction  |-> fill.direction,
                                           quantity   |-> fill.quantity,
                                           entry      |-> fill.price,
                                           commission |-> fill.commission])
        /\ UNCHANGED <<prices, peak, realised, borrowed>>

\* INSUFFICIENT_BUYING_POWER: the fill is dropped, nothing changes.
RejectFill(fill) ==
    /\ ~FillAccepted(fill)
    /\ UNCHANGED portfolioVars

RecordFill(fill, timestamp) ==
    /\ ~FillRaises(fill)
    /\ \/ ClosePosition(fill)
       \/ OpenPosition(fill, timestamp)
       \/ RejectFill(fill)

\* accrue_short_borrow raises ValueError.
AccrualRaises(timestamp) == \E s \in Shorts : timestamp <= lastBorrow[s]

\* The fee of one short since its last accrual, at its previous mark.
BorrowCharge(s, timestamp) ==
    positions[s].quantity * Mark(s) * BorrowRate * (timestamp - lastBorrow[s])

AccrueShortBorrow(timestamp) ==
    LET charge == Total([s \in Shorts |-> BorrowCharge(s, timestamp)])
    IN  /\ ~AccrualRaises(timestamp)
        /\ cash' = cash - charge
        /\ borrowed' = borrowed + charge
        /\ lastBorrow' = [s \in DOMAIN lastBorrow |->
                             IF s \in Shorts THEN timestamp ELSE lastBorrow[s]]
        /\ UNCHANGED <<restricted, shortCollateral, positions, prices, peak, realised>>

\* Mark one symbol to a close and record the equity point.
Update(symbol, close) ==
    /\ prices' = Put(prices, symbol, close)
    /\ UNCHANGED <<cash, restricted, shortCollateral, lastBorrow, positions,
                   realised, borrowed>>
    /\ peak' = IF Equity' > peak THEN Equity' ELSE peak

-----------------------------------------------------------------------------
(* Properties of the account under any sequence of calls.                  *)

\* What a position puts into the ledger at entry: its cost for a long, minus
\* the proceeds for a short, and the entry commission in both cases.
EntryValue(s) ==
    LET notional == positions[s].quantity * positions[s].entry * CostScale
    IN  (IF positions[s].direction = "LONG" THEN notional ELSE -notional)
          + positions[s].commission

\* Type correctness of the account's state.
PortfolioTypeOK ==
    /\ cash \in Int /\ restricted \in Int /\ peak \in Int
    /\ realised \in Int /\ borrowed \in Int
    /\ DOMAIN positions \subseteq Symbols
    /\ \A s \in DOMAIN positions : positions[s] \in Position
    /\ \A s \in DOMAIN prices : prices[s] \in Int
    /\ \A s \in DOMAIN shortCollateral : shortCollateral[s] \in Int
    /\ \A s \in DOMAIN lastBorrow : lastBorrow[s] \in Int

\* The books balance: cash, collateral and the entry cost of what is open add
\* up to the initial capital plus realised pnl less borrow fees, over any
\* sequence of record_fill, accrue_short_borrow and update calls.
LedgerBalances ==
    cash + restricted + Total([s \in DOMAIN positions |-> EntryValue(s)])
      = InitialCapital + realised - borrowed

\* The three short dictionaries agree: record_fill and accrue_short_borrow
\* never miss a key, and the restricted total is the sum of what each open
\* short put up, so closing a short releases exactly its own collateral.
CollateralMatchesShorts ==
    /\ DOMAIN shortCollateral = Shorts
    /\ DOMAIN lastBorrow = Shorts
    /\ \A s \in Shorts :
         shortCollateral[s] = positions[s].quantity * positions[s].entry * InitialMargin
    /\ restricted = Total(shortCollateral)

=============================================================================
