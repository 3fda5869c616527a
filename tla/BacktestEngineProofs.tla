------------------------ MODULE BacktestEngineProofs ------------------------
(***************************************************************************)
(* Safety of BacktestEngine for every series, signal set, quantity set,    *)
(* margin setting and length of run.                                       *)
(***************************************************************************)
EXTENDS BacktestEngine, TLAPS

-----------------------------------------------------------------------------
(* The inductive invariant.                                                *)

\* The open position, if any, is in the symbol the engine marks.
PositionIsMarked == DOMAIN positions \subseteq {symbol}

\* A queued conditional order has its price, and no order is from the future.
PendingWellFormed ==
    pending # None =>
      /\ pending.type # "MARKET" => pending.price # None
      /\ pending.bar <= bar
      /\ phase \in {"execute", "mark", "margin"} => pending.bar < bar

\* The short dictionaries cover exactly the open shorts, and no short was last
\* charged after the current candle.
ShortBooks ==
    /\ DOMAIN shortCollateral = Shorts
    /\ DOMAIN lastBorrow = Shorts
    /\ \A s \in Shorts :
         /\ shortCollateral[s]
              = positions[s].quantity * positions[s].entry * InitialMargin
         /\ lastBorrow[s] <= time

\* The ledger without a sum: flat, or with the one position that is open.
LedgerOfOne ==
    /\ DOMAIN positions = {} =>
         /\ restricted = 0
         /\ cash = InitialCapital + realised - borrowed
    /\ \A s \in DOMAIN positions :
         /\ restricted = IF s \in Shorts THEN shortCollateral[s] ELSE 0
         /\ cash + restricted + EntryValue(s) = InitialCapital + realised - borrowed

CoreInv ==
    /\ TypeOK
    /\ PositionIsMarked
    /\ PendingClosesPosition
    /\ PendingWellFormed
    /\ ShortBooks
    /\ LedgerOfOne
    /\ OnlyBadSignalsRaise
    /\ NoLookAhead
    /\ LimitProtected

-----------------------------------------------------------------------------
(* Sums over at most one position.                                         *)

\* The sum over no key is zero.
LEMMA TotalOfNone ==
    ASSUME NEW f, DOMAIN f = {}
    PROVE  Total(f) = 0
BY DEF Total

\* The sum over one key is its value.
LEMMA TotalOfOne ==
    ASSUME NEW f, NEW x, DOMAIN f = {x}
    PROVE  Total(f) = f[x]
<1>1. \A y \in DOMAIN f : y = x
  OBVIOUS
<1>2. (CHOOSE y \in DOMAIN f : TRUE) = x
  BY <1>1
<1>3. \E y \in DOMAIN f : DOMAIN f = {y}
  OBVIOUS
<1>4. QED
  BY <1>2, <1>3 DEF Total

\* An integer-valued function on at most one key has an integer sum.
LEMMA TotalIsInt ==
    ASSUME NEW f, NEW x, DOMAIN f \subseteq {x}, \A y \in DOMAIN f : f[y] \in Int
    PROVE  Total(f) \in Int
<1>1. CASE DOMAIN f = {}
  BY <1>1, TotalOfNone
<1>2. CASE DOMAIN f = {x}
  BY <1>2, TotalOfOne
<1>3. QED
  BY <1>1, <1>2

-----------------------------------------------------------------------------
(* The broker.                                                             *)

\* A product of two positive naturals is a positive natural.
LEMMA PositiveProduct ==
    ASSUME NEW m \in Nat \ {0}, NEW n \in Nat \ {0}
    PROVE  m * n \in Nat \ {0}
BY SMT

\* A product of naturals is a natural.
LEMMA NaturalProduct ==
    ASSUME NEW m \in Nat, NEW n \in Nat
    PROVE  m * n \in Nat
BY SMT

\* Slippage below 100% leaves a positive price positive.
LEMMA AdverseIsPositive ==
    ASSUME NEW price \in Nat \ {0}, NEW direction
    PROVE  AdversePrice(price, direction) \in Nat \ {0}
<1>1. /\ SlipScale + Slippage \in Nat \ {0}
      /\ SlipScale - Slippage \in Nat \ {0}
  BY SlippageAssumption, SlippageBelowPrice
<1>2. QED
  BY <1>1, PositiveProduct DEF AdversePrice

\* Every price the broker answers for a well formed order is positive, and a
\* limit order's is on the right side of its limit.
LEMMA FillPriceFacts ==
    ASSUME NEW order \in PendingOrder, NEW c \in Candles,
           order.type # "MARKET" => order.price # None,
           NEW price \in CalculateFillPrice(order, c)
    PROVE  /\ price \in Nat \ {0}
           /\ order.type = "LIMIT" =>
                IF order.direction = "LONG" THEN price <= order.price * SlipScale
                                            ELSE price >= order.price * SlipScale
<1>1. /\ c.open \in Nat \ {0}
      /\ order.direction \in Directions /\ order.type \in OrderTypes
  BY SeriesAssumption DEF Candle, PendingOrder
<1>2. AdversePrice(c.open, order.direction) \in Nat \ {0}
  BY <1>1, AdverseIsPositive
<1>3. CASE order.type = "MARKET"
  BY <1>2, <1>3 DEF CalculateFillPrice, MarketFill
<1>4. CASE order.type = "LIMIT"
  <2>1. order.price \in Nat \ {0}
    BY <1>4 DEF PendingOrder
  <2>2. order.price * SlipScale \in Nat \ {0}
    BY <2>1, PositiveProduct, SlippageAssumption
  <2>3. price \in LimitFill(order, c)
    BY <1>4 DEF CalculateFillPrice
  <2>4. QED
    BY <1>1, <1>2, <2>2, <2>3 DEF LimitFill, CappedAtLimit, Directions
<1>5. CASE order.type = "STOP"
  <2>1. order.price \in Nat \ {0}
    BY <1>5 DEF PendingOrder
  <2>2. AdversePrice(order.price, order.direction) \in Nat \ {0}
    BY <2>1, AdverseIsPositive
  <2>3. price \in StopFill(order, c)
    BY <1>5 DEF CalculateFillPrice
  <2>4. QED
    BY <1>2, <1>5, <2>2, <2>3 DEF StopFill
<1>6. QED
  BY <1>1, <1>3, <1>4, <1>5 DEF OrderTypes

\* A fill carries its order's symbol, direction and quantity, a positive price
\* and a natural commission.
LEMMA FillFacts ==
    ASSUME NEW order \in PendingOrder, NEW c \in Candles,
           order.type # "MARKET" => order.price # None,
           NEW fill \in Execute(order, c)
    PROVE  /\ fill.symbol = order.symbol
           /\ fill.direction = order.direction
           /\ fill.quantity = order.quantity
           /\ fill.price \in Nat \ {0}
           /\ fill.commission \in Nat
           /\ order.type = "LIMIT" =>
                IF order.direction = "LONG" THEN fill.price <= order.price * SlipScale
                                            ELSE fill.price >= order.price * SlipScale
<1>1. PICK price \in CalculateFillPrice(order, c) :
        fill = [symbol |-> order.symbol, direction |-> order.direction,
                quantity |-> order.quantity, price |-> price,
                commission |-> FillCommission(price, order.quantity)]
  BY DEF Execute
<1>2. /\ price \in Nat \ {0}
      /\ order.type = "LIMIT" =>
           IF order.direction = "LONG" THEN price <= order.price * SlipScale
                                       ELSE price >= order.price * SlipScale
  BY FillPriceFacts
<1>3. FillCommission(price, order.quantity) \in Nat
  <2>1. order.quantity \in Nat \ {0}
    BY DEF PendingOrder
  <2>2. price * order.quantity \in Nat
    BY <1>2, <2>1, PositiveProduct
  <2>3. QED
    BY <2>2, NaturalProduct, CommissionAssumption DEF FillCommission
<1>4. QED
  BY <1>1, <1>2, <1>3

\* A market order is filled by every candle.
LEMMA MarketAlwaysFills ==
    ASSUME NEW order, NEW c, order.type = "MARKET"
    PROVE  Execute(order, c) # {}
BY DEF Execute, CalculateFillPrice, MarketFill

-----------------------------------------------------------------------------
(* The account.                                                            *)

\* The types that the valuation of the account depends on.
ValuationTypeOK ==
    /\ cash \in Int /\ restricted \in Int
    /\ \A s \in DOMAIN positions : positions[s] \in Position
    /\ \A s \in DOMAIN prices : prices[s] \in Int

\* The value of an open position is an integer.
LEMMA MarketValueIsInt ==
    ASSUME ValuationTypeOK, NEW s \in DOMAIN positions
    PROVE  /\ Mark(s) \in Int
           /\ MarketValue(s) \in Int
<1>1. positions[s] \in Position
  BY DEF ValuationTypeOK
<1>2. Mark(s) \in Int
  BY <1>1, SlippageAssumption DEF ValuationTypeOK, Mark, Position
<1>3. QED
  BY <1>1, <1>2, CommissionAssumption DEF MarketValue, Position

\* With at most one position, equity is an integer.
LEMMA EquityIsInt == ValuationTypeOK /\ PositionIsMarked => Equity \in Int
<1> SUFFICES ASSUME ValuationTypeOK, PositionIsMarked
             PROVE  Equity \in Int
  OBVIOUS
<1> DEFINE f == [s \in DOMAIN positions |-> MarketValue(s)]
<1>1. Total(f) \in Int
  <2>1. \A s \in DOMAIN f : f[s] \in Int
    BY MarketValueIsInt
  <2>2. DOMAIN f \subseteq {symbol}
    BY DEF PositionIsMarked
  <2> HIDE DEF f
  <2>3. QED
    BY <2>1, <2>2, TotalIsInt
<1>2. QED
  BY <1>1 DEF Equity, ValuationTypeOK

\* The same in the next state.
LEMMA EquityIsIntNext == ValuationTypeOK' /\ PositionIsMarked' => (Equity \in Int)'
BY EquityIsInt, PTL

\* What a position put into the ledger is an integer.
LEMMA EntryValueIsInt ==
    ASSUME PortfolioTypeOK, NEW s \in DOMAIN positions
    PROVE  EntryValue(s) \in Int
<1>1. positions[s] \in Position
  BY DEF PortfolioTypeOK
<1>2. positions[s].quantity * positions[s].entry * CostScale \in Int
  BY <1>1, CommissionAssumption DEF Position
<1>3. QED
  BY <1>1, <1>2 DEF EntryValue, Position

\* With at most one position, the books kept per position balance as a whole.
LEMMA BooksOfOneBalance ==
    ASSUME PortfolioTypeOK, PositionIsMarked, ShortBooks, LedgerOfOne
    PROVE  LedgerBalances /\ CollateralMatchesShorts
<1> DEFINE entries == [s \in DOMAIN positions |-> EntryValue(s)]
<1>1. CASE DOMAIN positions = {}
  <2>1. Total(entries) = 0
    BY <1>1, TotalOfNone
  <2>2. Shorts = {}
    BY <1>1 DEF Shorts
  <2>3. Total(shortCollateral) = 0
    BY <2>2, TotalOfNone DEF ShortBooks
  <2>4. QED
    BY <1>1, <2>1, <2>3, PortfolioAssumption
    DEF LedgerBalances, CollateralMatchesShorts, ShortBooks, LedgerOfOne, PortfolioTypeOK
<1>2. CASE DOMAIN positions = {symbol}
  <2>1. Total(entries) = EntryValue(symbol)
    <3>1. DOMAIN entries = {symbol} /\ entries[symbol] = EntryValue(symbol)
      BY <1>2
    <3> HIDE DEF entries
    <3>2. QED
      BY <3>1, TotalOfOne
  <2>2. Total(shortCollateral) = IF symbol \in Shorts THEN shortCollateral[symbol] ELSE 0
    <3>1. CASE symbol \in Shorts
      <4>1. DOMAIN shortCollateral = {symbol}
        BY <1>2, <3>1 DEF ShortBooks, Shorts
      <4>2. QED
        BY <3>1, <4>1, TotalOfOne
    <3>2. CASE symbol \notin Shorts
      <4>1. DOMAIN shortCollateral = {}
        BY <1>2, <3>2 DEF ShortBooks, Shorts
      <4>2. QED
        BY <3>2, <4>1, TotalOfNone
    <3>3. QED
      BY <3>1, <3>2
  <2>3. QED
    BY <1>2, <2>1, <2>2 DEF LedgerBalances, CollateralMatchesShorts, ShortBooks, LedgerOfOne
<1>3. QED
  BY <1>1, <1>2 DEF PositionIsMarked

\* A fill record as the broker produces it.
GoodFill(fill) ==
    /\ fill.symbol \in Symbols
    /\ fill.direction \in Directions
    /\ fill.quantity \in Nat \ {0}
    /\ fill.price \in Nat \ {0}
    /\ fill.commission \in Nat

\* Opening a position on a flat account keeps the books.
LEMMA OpenKeepsBooks ==
    ASSUME PortfolioTypeOK, ShortBooks, LedgerOfOne, DOMAIN positions = {},
           time \in Nat, time' = time,
           NEW fill, GoodFill(fill), OpenPosition(fill, time)
    PROVE  /\ PortfolioTypeOK'
           /\ ShortBooks'
           /\ LedgerOfOne'
           /\ DOMAIN positions' = {fill.symbol}
<1> DEFINE s == fill.symbol
<1> DEFINE new == [direction |-> fill.direction, quantity |-> fill.quantity,
                   entry |-> fill.price, commission |-> fill.commission]
<1>1. /\ DOMAIN positions' = {s}
      /\ positions'[s] = new
  BY DEF OpenPosition, Put
<1>2. Shorts = {}
  BY DEF Shorts
<1>3. Shorts' = IF fill.direction = "SHORT" THEN {s} ELSE {}
  BY <1>1 DEF Shorts
<1>4. /\ fill.quantity * fill.price \in Int
      /\ fill.quantity * fill.price * InitialMargin \in Int
      /\ fill.quantity * fill.price * (InitialMargin - CostScale) \in Int
      /\ Notional(fill) \in Int
      /\ RequiredCash(fill) \in Int
  <2>1. /\ fill.quantity \in Int /\ fill.price \in Int /\ fill.commission \in Int
        /\ InitialMargin \in Int /\ CostScale \in Int /\ InitialMargin - CostScale \in Int
    BY PortfolioAssumption, CommissionAssumption DEF GoodFill
  <2>2. fill.quantity * fill.price \in Int
    BY <2>1
  <2>3. /\ fill.quantity * fill.price * InitialMargin \in Int
        /\ fill.quantity * fill.price * CostScale \in Int
        /\ fill.quantity * fill.price * (InitialMargin - CostScale) \in Int
    BY <2>1, <2>2
  <2>4. Notional(fill) \in Int
    BY <2>3 DEF Notional
  <2>5. RequiredCash(fill) \in Int
    BY <2>1, <2>3, <2>4, SMTT(30) DEF RequiredCash
  <2>6. QED
    BY <2>2, <2>3, <2>4, <2>5
<1>5. cash' = cash - RequiredCash(fill)
  BY DEF OpenPosition
<1>6. UNCHANGED <<prices, peak, realised, borrowed>>
  BY DEF OpenPosition
<1>7. new \in Position
  BY DEF Position, GoodFill
<1>8. CASE fill.direction = "LONG"
  <2>1. /\ UNCHANGED <<restricted, shortCollateral, lastBorrow>>
        /\ Shorts' = {}
    BY <1>3, <1>8 DEF OpenPosition
  <2>2. PortfolioTypeOK'
    BY <1>1, <1>4, <1>5, <1>6, <1>7, <2>1, SMTT(30) DEF PortfolioTypeOK, GoodFill
  <2>3. ShortBooks'
    BY <1>2, <2>1 DEF ShortBooks
  <2>4. \A x \in DOMAIN positions' : EntryValue(x)' = Notional(fill) + fill.commission
    BY <1>1, <1>8, CommissionAssumption DEF EntryValue, Notional, GoodFill
  <2>5. cash' + restricted' + (Notional(fill) + fill.commission)
          = InitialCapital + realised' - borrowed'
    <3>1. RequiredCash(fill) = Notional(fill) + fill.commission
      BY <1>8 DEF RequiredCash
    <3>2. /\ cash \in Int /\ realised \in Int /\ borrowed \in Int
          /\ fill.commission \in Int /\ InitialCapital \in Int
          /\ Notional(fill) \in Int
      BY <1>4, PortfolioAssumption DEF PortfolioTypeOK, GoodFill
    <3>3. restricted = 0 /\ cash = InitialCapital + realised - borrowed
      BY DEF LedgerOfOne
    <3>4. QED
      BY <1>5, <1>6, <2>1, <3>1, <3>2, <3>3
  <2>6. restricted' = 0
    BY <2>1 DEF LedgerOfOne
  <2>7. LedgerOfOne'
    BY <1>1, <2>1, <2>4, <2>5, <2>6 DEF LedgerOfOne
  <2>8. QED
    BY <1>1, <2>2, <2>3, <2>7
<1>9. CASE fill.direction = "SHORT"
  <2> DEFINE collateral == fill.quantity * fill.price * InitialMargin
  <2>1. /\ restricted' = restricted + collateral
        /\ shortCollateral' = Put(shortCollateral, s, collateral)
        /\ lastBorrow' = Put(lastBorrow, s, time)
        /\ Shorts' = {s}
    BY <1>3, <1>9 DEF OpenPosition
  <2>2. /\ DOMAIN shortCollateral' = {s} /\ shortCollateral'[s] = collateral
        /\ DOMAIN lastBorrow' = {s} /\ lastBorrow'[s] = time
    BY <1>2, <2>1 DEF Put, ShortBooks
  <2>3. PortfolioTypeOK'
    <3>1. cash' \in Int /\ restricted' \in Int
      BY <1>4, <1>5, <2>1 DEF PortfolioTypeOK
    <3>2. /\ \A x \in DOMAIN shortCollateral' : shortCollateral'[x] \in Int
          /\ \A x \in DOMAIN lastBorrow' : lastBorrow'[x] \in Int
      BY <1>4, <2>2
    <3>3. QED
      BY <1>1, <1>6, <1>7, <3>1, <3>2 DEF PortfolioTypeOK, GoodFill
  <2>4. ShortBooks'
    BY <1>1, <2>1, <2>2 DEF ShortBooks
  <2>5. \A x \in DOMAIN positions' : EntryValue(x)' = fill.commission - Notional(fill)
    <3>1. \A x \in DOMAIN positions' :
            EntryValue(x)' = -(fill.quantity * fill.price * CostScale) + fill.commission
      BY <1>1, <1>9 DEF EntryValue
    <3>2. fill.commission \in Int
      BY DEF GoodFill
    <3>3. QED
      BY <1>4, <3>1, <3>2 DEF Notional
  <2>6. RequiredCash(fill) = collateral - Notional(fill) + fill.commission
    BY <1>9, PortfolioAssumption, CommissionAssumption
    DEF RequiredCash, Notional, GoodFill
  <2>7. LedgerOfOne'
    <3> HIDE DEF collateral
    <3>1. collateral \in Int
      BY <1>4 DEF collateral
    <3>2. restricted' = collateral
      BY <2>1, <3>1 DEF LedgerOfOne
    <3>3. cash' + restricted' + (fill.commission - Notional(fill))
            = InitialCapital + realised' - borrowed'
      <4>1. /\ cash \in Int /\ realised \in Int /\ borrowed \in Int
            /\ fill.commission \in Int /\ InitialCapital \in Int
            /\ Notional(fill) \in Int
        BY <1>4, PortfolioAssumption DEF PortfolioTypeOK, GoodFill
      <4>2. cash = InitialCapital + realised - borrowed
        BY DEF LedgerOfOne
      <4>3. QED
        BY <1>5, <1>6, <2>6, <3>1, <3>2, <4>1, <4>2
    <3>4. QED
      BY <1>1, <2>1, <2>2, <2>5, <3>2, <3>3 DEF LedgerOfOne
  <2>8. QED
    BY <1>1, <2>3, <2>4, <2>7
<1>10. QED
  BY <1>8, <1>9 DEF GoodFill, Directions

\* Closing the one open position keeps the books and leaves the account flat.
LEMMA CloseKeepsBooks ==
    ASSUME PortfolioTypeOK, ShortBooks, LedgerOfOne, time' = time,
           NEW fill, GoodFill(fill), DOMAIN positions = {fill.symbol},
           fill.quantity = positions[fill.symbol].quantity,
           ClosePosition(fill)
    PROVE  /\ PortfolioTypeOK'
           /\ ShortBooks'
           /\ LedgerOfOne'
           /\ DOMAIN positions' = {}
<1> DEFINE s == fill.symbol
<1> DEFINE p == positions[s]
<1> DEFINE entered == p.quantity * p.entry * CostScale
<1>1. p \in Position
  BY DEF PortfolioTypeOK
<1>2. DOMAIN positions' = {} /\ Shorts' = {}
  BY DEF ClosePosition, Drop, Restrict, Shorts
<1>3. UNCHANGED <<prices, peak, borrowed>> /\ realised' = realised + TradePnl(p, fill)
  BY DEF ClosePosition
<1>4. entered \in Int /\ Notional(fill) \in Int
  BY <1>1, CommissionAssumption DEF Position, GoodFill, Notional
<1>4a. (fill.price - p.entry) * p.quantity * CostScale = Notional(fill) - entered
  BY <1>1, CommissionAssumption DEF Position, GoodFill, Notional
<1>5. TradePnl(p, fill) \in Int
  BY <1>1, <1>4, <1>4a DEF TradePnl, Position, GoodFill
<1>6. /\ cash \in Int /\ restricted \in Int /\ realised \in Int /\ borrowed \in Int
      /\ fill.commission \in Int /\ p.commission \in Int /\ InitialCapital \in Int
  BY <1>1, PortfolioAssumption DEF PortfolioTypeOK, GoodFill, Position
<1>7. CASE p.direction = "LONG"
  <2>1. /\ cash' = cash + Notional(fill) - fill.commission
        /\ UNCHANGED <<restricted, shortCollateral, lastBorrow>>
        /\ Shorts = {}
    BY <1>7 DEF ClosePosition, Shorts
  <2>2. /\ restricted = 0
        /\ cash + restricted + (entered + p.commission)
             = InitialCapital + realised - borrowed
    BY <1>7, <2>1 DEF LedgerOfOne, EntryValue
  <2>3. TradePnl(p, fill) = Notional(fill) - entered
                              - (p.commission + fill.commission)
    BY <1>4, <1>4a, <1>7 DEF TradePnl
  <2>4. LedgerOfOne'
    <3> HIDE DEF entered, p
    <3>1. /\ restricted' = 0
          /\ cash' = InitialCapital + realised' - borrowed'
      BY <1>3, <1>4, <1>6, <2>1, <2>2, <2>3
    <3>2. QED
      BY <1>2, <3>1 DEF LedgerOfOne
  <2>5. PortfolioTypeOK'
    BY <1>2, <1>3, <1>4, <1>5, <1>6, <2>1 DEF PortfolioTypeOK
  <2>6. ShortBooks'
    BY <1>2, <2>1 DEF ShortBooks
  <2>7. QED
    BY <1>2, <2>4, <2>5, <2>6
<1>8. CASE p.direction = "SHORT"
  <2>1. /\ restricted' = restricted - shortCollateral[s]
        /\ cash' = cash + shortCollateral[s] - Notional(fill) - fill.commission
        /\ shortCollateral' = Drop(shortCollateral, s)
        /\ lastBorrow' = Drop(lastBorrow, s)
        /\ Shorts = {s}
    BY <1>8 DEF ClosePosition, Shorts
  <2>2. DOMAIN shortCollateral' = {} /\ DOMAIN lastBorrow' = {}
    BY <2>1 DEF Drop, Restrict, ShortBooks
  <2>3. /\ shortCollateral[s] \in Int
        /\ restricted = shortCollateral[s]
        /\ cash + restricted + (p.commission - entered)
             = InitialCapital + realised - borrowed
    BY <1>4, <1>6, <1>8, <2>1 DEF LedgerOfOne, EntryValue, ShortBooks, PortfolioTypeOK
  <2>4. TradePnl(p, fill) = entered - Notional(fill)
                              - (p.commission + fill.commission)
    BY <1>4, <1>4a, <1>6, <1>8 DEF TradePnl
  <2>5. LedgerOfOne'
    <3> HIDE DEF entered, p
    <3>1. /\ restricted' = 0
          /\ cash' = InitialCapital + realised' - borrowed'
      BY <1>3, <1>4, <1>6, <2>1, <2>3, <2>4
    <3>2. QED
      BY <1>2, <3>1 DEF LedgerOfOne
  <2>6. PortfolioTypeOK'
    <3>1. cash' \in Int /\ restricted' \in Int /\ realised' \in Int
      BY <1>3, <1>4, <1>5, <1>6, <2>1, <2>3
    <3>2. QED
      BY <1>2, <1>3, <1>6, <2>2, <3>1 DEF PortfolioTypeOK
  <2>7. ShortBooks'
    BY <1>2, <2>2 DEF ShortBooks
  <2>8. QED
    BY <1>2, <2>5, <2>6, <2>7
<1>9. QED
  BY <1>1, <1>7, <1>8 DEF Position, Directions

\* A borrow accrual keeps the books: what leaves cash is a borrow fee.
LEMMA AccrualKeepsBooks ==
    ASSUME PortfolioTypeOK, PositionIsMarked, ShortBooks, LedgerOfOne,
           time \in Nat, NEW ts \in Nat, time <= ts, time' = ts,
           AccrueShortBorrow(ts)
    PROVE  PortfolioTypeOK' /\ ShortBooks' /\ LedgerOfOne'
<1> DEFINE f == [s \in Shorts |-> BorrowCharge(s, ts)]
<1>1. Total(f) \in Int
  <2>1. \A s \in Shorts : BorrowCharge(s, ts) \in Int
    <3>1. SUFFICES ASSUME NEW s \in Shorts
                   PROVE  BorrowCharge(s, ts) \in Int
      OBVIOUS
    <3>2. s \in DOMAIN positions /\ positions[s].quantity \in Int
      BY DEF Shorts, PortfolioTypeOK, Position
    <3>3. Mark(s) \in Int
      BY <3>2, MarketValueIsInt DEF PortfolioTypeOK, ValuationTypeOK
    <3>4. lastBorrow[s] \in Int /\ BorrowRate \in Int
      BY PortfolioAssumption DEF ShortBooks, PortfolioTypeOK
    <3>5. ts - lastBorrow[s] \in Int
      BY <3>4
    <3>6. QED
      BY <3>2, <3>3, <3>4, <3>5 DEF BorrowCharge
  <2>2. \A s \in DOMAIN f : f[s] \in Int
    BY <2>1
  <2>3. DOMAIN f \subseteq {symbol}
    BY DEF PositionIsMarked, Shorts
  <2> HIDE DEF f
  <2>4. QED
    BY <2>2, <2>3, TotalIsInt
<1> DEFINE charge == Total(f)
<1>2. /\ cash' = cash - charge
      /\ borrowed' = borrowed + charge
      /\ lastBorrow' = [s \in DOMAIN lastBorrow |->
                          IF s \in Shorts THEN ts ELSE lastBorrow[s]]
      /\ UNCHANGED <<restricted, shortCollateral, positions, prices, peak, realised>>
  BY DEF AccrueShortBorrow
<1>3. Shorts' = Shorts
  BY <1>2 DEF Shorts
<1> HIDE DEF f, charge
<1>4. charge \in Int
  BY <1>1 DEF charge
<1>5. PortfolioTypeOK'
  <2>1. cash' \in Int /\ borrowed' \in Int
    BY <1>2, <1>4 DEF PortfolioTypeOK
  <2>2. \A s \in DOMAIN lastBorrow' : lastBorrow'[s] \in Int
    BY <1>2 DEF PortfolioTypeOK
  <2>3. QED
    BY <1>2, <2>1, <2>2 DEF PortfolioTypeOK
<1>6. ShortBooks'
  BY <1>2, <1>3 DEF ShortBooks
<1>7. LedgerOfOne'
  <2>1. /\ cash \in Int /\ realised \in Int /\ borrowed \in Int
        /\ restricted \in Int /\ InitialCapital \in Int
    BY PortfolioAssumption DEF PortfolioTypeOK
  <2>2. \A s \in DOMAIN positions : EntryValue(s)' = EntryValue(s) /\ EntryValue(s) \in Int
    BY <1>2, EntryValueIsInt DEF EntryValue
  <2>3. ASSUME DOMAIN positions = {}
        PROVE  cash' = InitialCapital + realised' - borrowed'
    BY <1>2, <1>4, <2>1, <2>3 DEF LedgerOfOne
  <2>4. ASSUME NEW s \in DOMAIN positions
        PROVE  cash' + restricted' + EntryValue(s)
                 = InitialCapital + realised' - borrowed'
    BY <1>2, <1>4, <2>1, <2>2 DEF LedgerOfOne
  <2>5. QED
    BY <1>2, <1>3, <2>2, <2>3, <2>4 DEF LedgerOfOne
<1>8. QED
  BY <1>5, <1>6, <1>7

\* A mark to the close keeps the books.
LEMMA UpdateKeepsBooks ==
    ASSUME PortfolioTypeOK, PositionIsMarked, ShortBooks, LedgerOfOne,
           time' = time, symbol' = symbol, NEW close \in Int, Update(symbol, close)
    PROVE  PortfolioTypeOK' /\ ShortBooks' /\ LedgerOfOne'
<1>1. /\ prices' = Put(prices, symbol, close)
      /\ UNCHANGED <<cash, restricted, shortCollateral, lastBorrow, positions,
                     realised, borrowed>>
      /\ peak' = IF Equity' > peak THEN Equity' ELSE peak
  BY DEF Update
<1>2. \A s \in DOMAIN prices' : prices'[s] \in Int
  BY <1>1 DEF Put, PortfolioTypeOK
<1>3. ValuationTypeOK' /\ PositionIsMarked'
  BY <1>1, <1>2 DEF ValuationTypeOK, PortfolioTypeOK, PositionIsMarked
<1>4. Equity' \in Int
  BY <1>3, EquityIsIntNext
<1>5. PortfolioTypeOK'
  BY <1>1, <1>2, <1>3, <1>4 DEF PortfolioTypeOK
<1>6. Shorts' = Shorts
  BY <1>1 DEF Shorts
<1>7. ShortBooks' /\ LedgerOfOne'
  BY <1>1, <1>6 DEF ShortBooks, LedgerOfOne, EntryValue
<1>8. QED
  BY <1>5, <1>7

\* A step that leaves the account alone keeps its books.
LEMMA StutterKeepsBooks ==
    ASSUME PortfolioTypeOK, ShortBooks, LedgerOfOne, time \in Nat, time' \in Nat,
           time <= time', UNCHANGED portfolioVars
    PROVE  PortfolioTypeOK' /\ ShortBooks' /\ LedgerOfOne'
<1>1. Shorts' = Shorts
  BY DEF Shorts, portfolioVars
<1>2. PortfolioTypeOK'
  BY DEF PortfolioTypeOK, portfolioVars
<1>3. ShortBooks'
  <2>1. \A s \in Shorts : lastBorrow[s] \in Int
    BY DEF ShortBooks, PortfolioTypeOK
  <2>2. QED
    BY <1>1, <2>1 DEF ShortBooks, portfolioVars
<1>4. LedgerOfOne'
  BY <1>1 DEF LedgerOfOne, EntryValue, portfolioVars
<1>5. QED
  BY <1>2, <1>3, <1>4

-----------------------------------------------------------------------------
(* CoreInv is inductive: one lemma per action.                             *)

\* A new run starts with the invariant.
LEMMA InitCore == Init => CoreInv
<1> SUFFICES ASSUME Init
             PROVE  CoreInv
  OBVIOUS
<1> USE DEF Init, PortfolioInit
<1>1. DOMAIN positions = {} /\ Shorts = {}
  BY DEF EmptyDict, Shorts
<1>2. PortfolioTypeOK
  BY <1>1, PortfolioAssumption DEF PortfolioTypeOK, EmptyDict
<1>3. TypeOK
  BY <1>2, EngineAssumption DEF TypeOK, Phases
<1>4. ShortBooks
  BY <1>1 DEF ShortBooks, EmptyDict
<1>5. LedgerOfOne
  BY <1>1, PortfolioAssumption DEF LedgerOfOne
<1>6. /\ PositionIsMarked /\ PendingClosesPosition /\ PendingWellFormed
      /\ OnlyBadSignalsRaise /\ NoLookAhead /\ LimitProtected
  BY <1>1 DEF PositionIsMarked, PendingClosesPosition, PendingWellFormed,
              OnlyBadSignalsRaise, NoLookAhead, LimitProtected
<1>7. QED
  BY <1>2, <1>3, <1>4, <1>5, <1>6 DEF CoreInv

\* Taking a candle: the accrual cannot raise, because time has moved on since
\* every open short was last charged.
LEMMA NextCandleCore == CoreInv /\ NextCandle => CoreInv'
<1> SUFFICES ASSUME CoreInv, NextCandle
             PROVE  CoreInv'
  OBVIOUS
<1>1. PICK c \in Candles, gap \in Gaps :
        /\ candle' = c
        /\ time' = time + gap
        /\ bar' = bar + 1
        /\ filled' = None
        /\ IF bar = 0
           THEN phase' = "execute" /\ UNCHANGED <<portfolioVars, symbol, pending, error>>
           ELSE IF AccrualRaises(time + gap)
           THEN Fail("accrual")
           ELSE /\ AccrueShortBorrow(time + gap)
                /\ phase' = "execute"
                /\ UNCHANGED <<symbol, pending, error>>
  BY DEF NextCandle
<1>2. UNCHANGED signal
  BY DEF NextCandle
<1>3. /\ gap \in Nat \ {0} /\ time \in Nat /\ bar \in Nat
      /\ time' \in Nat /\ time < time' /\ bar' \in Nat
  BY <1>1, SeriesAssumption DEF CoreInv, TypeOK
<1>4. ~AccrualRaises(time + gap)
  <2>1. \A s \in Shorts : lastBorrow[s] \in Int /\ lastBorrow[s] <= time
    BY DEF CoreInv, ShortBooks, TypeOK, PortfolioTypeOK
  <2>2. QED
    BY <1>3, <2>1 DEF AccrualRaises
<1>5. /\ phase' = "execute"
      /\ UNCHANGED <<symbol, pending, error, positions>>
  BY <1>1, <1>4 DEF AccrueShortBorrow, portfolioVars
<1>6. PortfolioTypeOK' /\ ShortBooks' /\ LedgerOfOne'
  <2>1. CASE bar = 0
    BY <1>1, <1>3, <2>1, StutterKeepsBooks DEF CoreInv, TypeOK
  <2>2. CASE bar # 0
    <3>1. AccrueShortBorrow(time + gap)
      BY <1>1, <1>4, <2>2
    <3>2. QED
      BY <1>1, <1>3, <3>1, AccrualKeepsBooks DEF CoreInv, TypeOK
  <2>3. QED
    BY <2>1, <2>2
<1>7. TypeOK'
  BY <1>1, <1>2, <1>3, <1>5, <1>6 DEF CoreInv, TypeOK, Phases
<1>8. /\ PositionIsMarked' /\ PendingClosesPosition' /\ OnlyBadSignalsRaise'
      /\ NoLookAhead' /\ LimitProtected'
  BY <1>1, <1>5 DEF CoreInv, PositionIsMarked, PendingClosesPosition,
                    OnlyBadSignalsRaise, NoLookAhead, LimitProtected
<1>9. PendingWellFormed'
  BY <1>1, <1>3, <1>5 DEF CoreInv, PendingWellFormed, TypeOK, PendingOrder
<1>10. QED
  BY <1>6, <1>7, <1>8, <1>9 DEF CoreInv

\* Executing the queue: a fill never raises, because the order either opens on
\* a flat account or closes exactly the open position.
LEMMA ExecuteCore == CoreInv /\ ExecutePending => CoreInv'
<1> SUFFICES ASSUME CoreInv, ExecutePending
             PROVE  CoreInv'
  OBVIOUS
<1>1. phase = "execute" /\ UNCHANGED <<bar, time, candle, signal>>
  BY DEF ExecutePending
<1>2. /\ TypeOK /\ PortfolioTypeOK /\ time \in Nat /\ bar \in Nat
      /\ PositionIsMarked /\ PendingClosesPosition /\ PendingWellFormed
      /\ ShortBooks /\ LedgerOfOne /\ OnlyBadSignalsRaise /\ NoLookAhead /\ LimitProtected
  BY DEF CoreInv, TypeOK
<1>3. CASE /\ UNCHANGED <<portfolioVars, symbol, filled, error>>
           /\ phase' = "mark" /\ pending' \in {None, pending}
  <2>1. PortfolioTypeOK' /\ ShortBooks' /\ LedgerOfOne'
    BY <1>1, <1>2, <1>3, StutterKeepsBooks
  <2>2. TypeOK'
    BY <1>1, <1>2, <1>3, <2>1 DEF TypeOK, Phases
  <2>3. /\ PositionIsMarked' /\ PendingClosesPosition' /\ PendingWellFormed'
        /\ OnlyBadSignalsRaise' /\ NoLookAhead' /\ LimitProtected'
    BY <1>1, <1>2, <1>3
    DEF portfolioVars, PositionIsMarked, PendingClosesPosition, PendingWellFormed,
        OnlyBadSignalsRaise, NoLookAhead, LimitProtected
  <2>4. QED
    BY <2>1, <2>2, <2>3 DEF CoreInv
<1>4. ASSUME pending # None, NEW fill \in Execute(pending, candle), HandleFillEvent(fill)
      PROVE  CoreInv'
  <2>1. /\ pending \in PendingOrder /\ candle \in Candles
        /\ pending.type # "MARKET" => pending.price # None
        /\ pending.bar < bar
    BY <1>1, <1>2, <1>4 DEF TypeOK, PendingWellFormed
  <2>2. /\ fill.symbol = pending.symbol
        /\ fill.direction = pending.direction
        /\ fill.quantity = pending.quantity
        /\ fill.price \in Nat \ {0}
        /\ fill.commission \in Nat
        /\ pending.type = "LIMIT" =>
             IF pending.direction = "LONG" THEN fill.price <= pending.price * SlipScale
                                           ELSE fill.price >= pending.price * SlipScale
    BY <1>4, <2>1, FillFacts
  <2>3. GoodFill(fill)
    BY <2>1, <2>2 DEF GoodFill, PendingOrder
  <2>4. ~FillRaises(fill)
    <3>1. fill.symbol \in DOMAIN positions =>
            /\ fill.direction = Opposite(positions[fill.symbol].direction)
            /\ fill.quantity = positions[fill.symbol].quantity
      BY <1>2, <1>4, <2>2 DEF PendingClosesPosition
    <3>2. QED
      BY <2>3, <3>1 DEF FillRaises, InvalidFill, MismatchedClose, GoodFill
  <2>5. /\ RecordFill(fill, time)
        /\ IF FillAccepted(fill)
           THEN /\ symbol' = fill.symbol
                /\ filled' = [order |-> pending, price |-> fill.price]
           ELSE UNCHANGED <<symbol, filled>>
        /\ pending' = None /\ phase' = "mark" /\ UNCHANGED error
    BY <1>4, <2>4 DEF HandleFillEvent
  <2>6. DOMAIN positions \subseteq {fill.symbol}
    BY <1>2, <1>4, <2>2 DEF PendingClosesPosition
  <2>7. /\ PortfolioTypeOK' /\ ShortBooks' /\ LedgerOfOne'
        /\ PositionIsMarked'
    <3>1. CASE ClosePosition(fill)
      <4>1. /\ DOMAIN positions = {fill.symbol}
            /\ fill.quantity = positions[fill.symbol].quantity
        BY <2>4, <2>6, <3>1 DEF ClosePosition, FillRaises, MismatchedClose
      <4>2. /\ PortfolioTypeOK' /\ ShortBooks' /\ LedgerOfOne'
            /\ DOMAIN positions' = {}
        BY <1>1, <1>2, <2>3, <3>1, <4>1, CloseKeepsBooks
      <4>3. QED
        BY <4>2 DEF PositionIsMarked
    <3>2. CASE OpenPosition(fill, time)
      <4>1. DOMAIN positions = {}
        BY <2>6, <3>2 DEF OpenPosition
      <4>2. /\ PortfolioTypeOK' /\ ShortBooks' /\ LedgerOfOne'
            /\ DOMAIN positions' = {fill.symbol}
        BY <1>1, <1>2, <2>3, <3>2, <4>1, OpenKeepsBooks
      <4>3. FillAccepted(fill)
        BY <3>2 DEF OpenPosition, FillAccepted
      <4>4. QED
        BY <2>5, <4>2, <4>3 DEF PositionIsMarked
    <3>3. CASE RejectFill(fill)
      <4>1. ~FillAccepted(fill) /\ UNCHANGED portfolioVars
        BY <3>3 DEF RejectFill
      <4>2. PortfolioTypeOK' /\ ShortBooks' /\ LedgerOfOne'
        BY <1>1, <1>2, <4>1, StutterKeepsBooks
      <4>3. QED
        BY <1>2, <2>5, <4>1, <4>2 DEF PositionIsMarked, portfolioVars
    <3>4. QED
      BY <2>5, <3>1, <3>2, <3>3 DEF RecordFill
  <2>8. filled' \in {filled, [order |-> pending, price |-> fill.price]}
    BY <2>5
  <2>9. TypeOK'
    <3>1. symbol' \in Symbols \cup {Unknown}
      BY <1>2, <2>3, <2>5 DEF TypeOK, GoodFill
    <3>2. filled' \in [order : PendingOrder, price : Int] \cup {None}
      BY <1>2, <2>1, <2>2, <2>8 DEF TypeOK
    <3>3. QED
      BY <1>1, <1>2, <2>5, <2>7, <3>1, <3>2 DEF TypeOK, Phases
  <2>10. NoLookAhead'
    BY <1>1, <1>2, <2>1, <2>8 DEF NoLookAhead
  <2>11. LimitProtected'
    BY <1>2, <2>2, <2>8 DEF LimitProtected
  <2>12. PendingClosesPosition' /\ PendingWellFormed' /\ OnlyBadSignalsRaise'
    BY <1>2, <2>5 DEF PendingClosesPosition, PendingWellFormed, OnlyBadSignalsRaise
  <2>13. QED
    BY <2>7, <2>9, <2>10, <2>11, <2>12 DEF CoreInv
<1>5. QED
  <2>1. CASE pending = None
    BY <1>3, <2>1 DEF ExecutePending
  <2>2. CASE pending # None /\ Untriggered
    BY <1>3, <2>2 DEF Untriggered
  <2>3. CASE pending # None /\ \E fill \in Execute(pending, candle) : HandleFillEvent(fill)
    BY <1>4, <2>3
  <2>4. QED
    BY <2>1, <2>2, <2>3 DEF ExecutePending

\* Marking to the close.
LEMMA MarkCore == CoreInv /\ MarkToClose => CoreInv'
<1> SUFFICES ASSUME CoreInv, MarkToClose
             PROVE  CoreInv'
  OBVIOUS
<1>1. /\ phase = "mark" /\ phase' = "margin"
      /\ Update(symbol, candle.close)
      /\ UNCHANGED <<bar, time, candle, symbol, pending, signal, filled, error>>
  BY DEF MarkToClose
<1>2. UNCHANGED positions
  BY <1>1 DEF Update
<1>3. candle.close \in Int
  BY SeriesAssumption DEF CoreInv, TypeOK, Candle
<1>4. PortfolioTypeOK' /\ ShortBooks' /\ LedgerOfOne'
  BY <1>1, <1>3, UpdateKeepsBooks DEF CoreInv, TypeOK
<1>5. TypeOK'
  BY <1>1, <1>4 DEF CoreInv, TypeOK, Phases
<1>6. /\ PositionIsMarked' /\ PendingClosesPosition' /\ PendingWellFormed'
      /\ OnlyBadSignalsRaise' /\ NoLookAhead' /\ LimitProtected'
  BY <1>1, <1>2 DEF CoreInv, PositionIsMarked, PendingClosesPosition, PendingWellFormed,
                    OnlyBadSignalsRaise, NoLookAhead, LimitProtected
<1>7. QED
  BY <1>4, <1>5, <1>6 DEF CoreInv

\* The margin check: a forced cover buys back exactly the open short.
LEMMA MarginCore == CoreInv /\ MarginCheck => CoreInv'
<1> SUFFICES ASSUME CoreInv, MarginCheck
             PROVE  CoreInv'
  OBVIOUS
<1>1. /\ phase = "margin" /\ phase' = "market"
      /\ UNCHANGED <<portfolioVars, bar, time, candle, signal, filled, error>>
  BY DEF MarginCheck
<1>2. /\ TypeOK /\ PortfolioTypeOK /\ time \in Nat /\ bar \in Nat
      /\ PositionIsMarked /\ PendingClosesPosition /\ PendingWellFormed
      /\ ShortBooks /\ LedgerOfOne /\ OnlyBadSignalsRaise /\ NoLookAhead /\ LimitProtected
  BY DEF CoreInv, TypeOK
<1>3. PortfolioTypeOK' /\ ShortBooks' /\ LedgerOfOne' /\ UNCHANGED positions
  BY <1>1, <1>2, StutterKeepsBooks DEF portfolioVars
<1>4. OnlyBadSignalsRaise' /\ NoLookAhead' /\ LimitProtected'
  BY <1>1, <1>2 DEF OnlyBadSignalsRaise, NoLookAhead, LimitProtected
<1>5. CASE UNCHANGED <<symbol, pending>>
  <2>1. TypeOK'
    BY <1>1, <1>2, <1>3, <1>5 DEF TypeOK, Phases
  <2>2. PositionIsMarked' /\ PendingClosesPosition' /\ PendingWellFormed'
    BY <1>1, <1>2, <1>3, <1>5
    DEF PositionIsMarked, PendingClosesPosition, PendingWellFormed
  <2>3. QED
    BY <1>3, <1>4, <2>1, <2>2 DEF CoreInv
<1>6. ASSUME NEW s \in DOMAIN positions, MarginBreached(s),
             HandleOrderEvent(ForcedCover(s))
      PROVE  CoreInv'
  <2>1. /\ DOMAIN positions = {s} /\ positions[s].direction = "SHORT"
        /\ s \in Symbols /\ positions[s].quantity \in Nat \ {0}
    BY <1>2, <1>6 DEF MarginBreached, UnderMargined, Shorts, PortfolioTypeOK, Position
  <2>2. /\ symbol' = s
        /\ pending' = [symbol |-> s, direction |-> "LONG",
                       quantity |-> positions[s].quantity, type |-> "MARKET",
                       price |-> None, bar |-> bar, forced |-> TRUE]
    BY <1>6 DEF HandleOrderEvent, ForcedCover
  <2>3. pending' \in PendingOrder
    BY <1>2, <2>1, <2>2 DEF PendingOrder, Directions, OrderTypes
  <2>4. TypeOK'
    BY <1>1, <1>2, <1>3, <2>1, <2>2, <2>3 DEF TypeOK, Phases
  <2>5. PositionIsMarked' /\ PendingWellFormed'
    BY <1>1, <1>2, <1>3, <2>1, <2>2 DEF PositionIsMarked, PendingWellFormed
  <2>6. PendingClosesPosition'
    BY <1>3, <2>1, <2>2 DEF PendingClosesPosition, Opposite
  <2>7. QED
    BY <1>3, <1>4, <2>4, <2>5, <2>6 DEF CoreInv
<1>7. QED
  BY <1>5, <1>6 DEF MarginCheck

\* The strategy sees the candle: only the event queue changes.
LEMMA MarketCore == CoreInv /\ HandleMarketEvent => CoreInv'
<1> SUFFICES ASSUME CoreInv, HandleMarketEvent
             PROVE  CoreInv'
  OBVIOUS
<1>1. /\ phase' = "signal" /\ signal' \in Signals \cup {None}
      /\ UNCHANGED <<portfolioVars, bar, time, candle, symbol, pending, filled, error>>
  BY DEF HandleMarketEvent
<1>2. PortfolioTypeOK' /\ ShortBooks' /\ LedgerOfOne' /\ UNCHANGED positions
  BY <1>1, StutterKeepsBooks DEF CoreInv, TypeOK, portfolioVars
<1>3. TypeOK'
  BY <1>1, <1>2 DEF CoreInv, TypeOK, Phases
<1>4. /\ PositionIsMarked' /\ PendingClosesPosition' /\ PendingWellFormed'
      /\ OnlyBadSignalsRaise' /\ NoLookAhead' /\ LimitProtected'
  BY <1>1, <1>2 DEF CoreInv, PositionIsMarked, PendingClosesPosition, PendingWellFormed,
                    OnlyBadSignalsRaise, NoLookAhead, LimitProtected
<1>5. QED
  BY <1>2, <1>3, <1>4 DEF CoreInv

\* A strategy signal: the order it becomes opens when flat and otherwise
\* closes exactly the open position.
LEMMA SignalCore == CoreInv /\ HandleSignalEvent => CoreInv'
<1> SUFFICES ASSUME CoreInv, HandleSignalEvent
             PROVE  CoreInv'
  OBVIOUS
<1>1. phase = "signal" /\ signal' = None /\ UNCHANGED <<bar, time, candle, filled>>
  BY DEF HandleSignalEvent
<1>2. /\ TypeOK /\ PortfolioTypeOK /\ time \in Nat /\ bar \in Nat
      /\ PositionIsMarked /\ PendingClosesPosition /\ PendingWellFormed
      /\ ShortBooks /\ LedgerOfOne /\ OnlyBadSignalsRaise /\ NoLookAhead /\ LimitProtected
  BY DEF CoreInv, TypeOK
<1>3. UNCHANGED portfolioVars /\ phase' \in {"next", "failed"} /\ error' \in {error, "order"}
  BY DEF HandleSignalEvent, Fail
<1>4. PortfolioTypeOK' /\ ShortBooks' /\ LedgerOfOne' /\ UNCHANGED positions
  BY <1>1, <1>2, <1>3, StutterKeepsBooks DEF portfolioVars
<1>5. OnlyBadSignalsRaise' /\ NoLookAhead' /\ LimitProtected'
  BY <1>1, <1>2, <1>3 DEF OnlyBadSignalsRaise, NoLookAhead, LimitProtected
<1>6. CASE UNCHANGED <<symbol, pending>>
  <2>1. TypeOK'
    BY <1>1, <1>2, <1>3, <1>4, <1>6 DEF TypeOK, Phases
  <2>2. PositionIsMarked' /\ PendingClosesPosition' /\ PendingWellFormed'
    BY <1>1, <1>2, <1>3, <1>4, <1>6
    DEF PositionIsMarked, PendingClosesPosition, PendingWellFormed
  <2>3. QED
    BY <1>4, <1>5, <2>1, <2>2 DEF CoreInv
<1>7. ASSUME ~SignalIgnored, NEW s \in ExecutionSymbols, NEW quantity \in OrderQuantities(s),
             ~OrderRaises(BuildOrder(s, quantity)),
             HandleOrderEvent(BuildOrder(s, quantity)), phase' = "next"
      PROVE  CoreInv'
  <2>1. signal \in Signal
    BY <1>2, <1>7, EngineAssumption DEF TypeOK, SignalIgnored
  <2>2. /\ symbol' = s
        /\ pending' = [symbol |-> s, direction |-> signal.direction,
                       quantity |-> quantity, type |-> signal.type,
                       price |-> signal.price, bar |-> bar, forced |-> FALSE]
    BY <1>7 DEF HandleOrderEvent, BuildOrder
  <2>3. s \in Symbols
    BY <1>2, <1>7, <2>1, EngineAssumption DEF ExecutionSymbols, Signal, PortfolioTypeOK
  <2>4. quantity \in Nat \ {0}
    BY <1>2, <1>7, EngineAssumption DEF OrderQuantities, PortfolioTypeOK, Position
  <2>5. pending' \in PendingOrder
    BY <1>2, <2>1, <2>2, <2>3, <2>4 DEF PendingOrder, Signal
  <2>6. TypeOK'
    BY <1>1, <1>2, <1>3, <1>4, <1>5, <2>2, <2>3, <2>5 DEF TypeOK, Phases, OnlyBadSignalsRaise
  <2>7. PendingWellFormed'
    BY <1>1, <1>2, <1>7, <2>2 DEF PendingWellFormed, OrderRaises, BuildOrder
  <2>8. ASSUME NEW t \in DOMAIN positions
        PROVE  /\ t = s
               /\ signal.direction = Opposite(positions[t].direction)
               /\ quantity = positions[t].quantity
    <3>1. s \in DOMAIN positions /\ signal.direction = Opposite(positions[s].direction)
      BY <1>7, <2>8 DEF ExecutionSymbols
    <3>2. t = s
      BY <1>2, <2>8, <3>1 DEF PositionIsMarked
    <3>3. QED
      BY <1>7, <3>1, <3>2 DEF OrderQuantities
  <2>9. PositionIsMarked' /\ PendingClosesPosition'
    BY <1>4, <2>2, <2>8 DEF PositionIsMarked, PendingClosesPosition
  <2>10. QED
    BY <1>4, <1>5, <2>6, <2>7, <2>9 DEF CoreInv
<1>8. QED
  <2>1. CASE SignalIgnored
    BY <1>6, <2>1 DEF HandleSignalEvent
  <2>2. CASE ~SignalIgnored
    <3>0. PICK s \in ExecutionSymbols : \E quantity \in OrderQuantities(s) :
            IF OrderRaises(BuildOrder(s, quantity))
            THEN Fail("order")
            ELSE /\ HandleOrderEvent(BuildOrder(s, quantity))
                 /\ phase' = "next"
                 /\ UNCHANGED <<portfolioVars, error>>
      BY <2>2 DEF HandleSignalEvent
    <3>1. PICK quantity \in OrderQuantities(s) :
            IF OrderRaises(BuildOrder(s, quantity))
            THEN Fail("order")
            ELSE /\ HandleOrderEvent(BuildOrder(s, quantity))
                 /\ phase' = "next"
                 /\ UNCHANGED <<portfolioVars, error>>
      BY <3>0
    <3>2. CASE OrderRaises(BuildOrder(s, quantity))
      BY <1>6, <3>1, <3>2 DEF Fail
    <3>3. CASE ~OrderRaises(BuildOrder(s, quantity))
      BY <1>7, <2>2, <3>1, <3>3
    <3>4. QED
      BY <3>2, <3>3
  <2>3. QED
    BY <2>1, <2>2

\* The end of the series.
LEMMA EndCore == CoreInv /\ EndOfData => CoreInv'
<1> SUFFICES ASSUME CoreInv, EndOfData
             PROVE  CoreInv'
  OBVIOUS
<1>1. /\ phase' = "done"
      /\ UNCHANGED <<portfolioVars, bar, time, candle, symbol, pending, signal, filled, error>>
  BY DEF EndOfData
<1>2. PortfolioTypeOK' /\ ShortBooks' /\ LedgerOfOne' /\ UNCHANGED positions
  BY <1>1, StutterKeepsBooks DEF CoreInv, TypeOK, portfolioVars
<1>3. TypeOK'
  BY <1>1, <1>2 DEF CoreInv, TypeOK, Phases
<1>4. /\ PositionIsMarked' /\ PendingClosesPosition' /\ PendingWellFormed'
      /\ OnlyBadSignalsRaise' /\ NoLookAhead' /\ LimitProtected'
  BY <1>1, <1>2 DEF CoreInv, PositionIsMarked, PendingClosesPosition, PendingWellFormed,
                    OnlyBadSignalsRaise, NoLookAhead, LimitProtected
<1>5. QED
  BY <1>2, <1>3, <1>4 DEF CoreInv

\* A stuttering step.
LEMMA StutterCore == CoreInv /\ UNCHANGED vars => CoreInv'
<1> SUFFICES ASSUME CoreInv, UNCHANGED vars
             PROVE  CoreInv'
  OBVIOUS
<1>1. UNCHANGED portfolioVars /\ UNCHANGED engineVars
  BY DEF vars
<1>2. PortfolioTypeOK' /\ ShortBooks' /\ LedgerOfOne' /\ UNCHANGED positions
  BY <1>1, StutterKeepsBooks DEF CoreInv, TypeOK, portfolioVars, engineVars
<1>3. TypeOK'
  BY <1>1, <1>2 DEF CoreInv, TypeOK, engineVars
<1>4. /\ PositionIsMarked' /\ PendingClosesPosition' /\ PendingWellFormed'
      /\ OnlyBadSignalsRaise' /\ NoLookAhead' /\ LimitProtected'
  BY <1>1, <1>2 DEF CoreInv, PositionIsMarked, PendingClosesPosition, PendingWellFormed,
                    OnlyBadSignalsRaise, NoLookAhead, LimitProtected, engineVars
<1>5. QED
  BY <1>2, <1>3, <1>4 DEF CoreInv

\* Every reachable state of a run satisfies the invariant.
LEMMA CoreInvariant == Spec => []CoreInv
<1>1. CoreInv /\ [Next]_vars => CoreInv'
  BY NextCandleCore, ExecuteCore, MarkCore, MarginCore, MarketCore, SignalCore, EndCore,
     StutterCore DEF Next
<1>2. QED
  BY InitCore, <1>1, PTL DEF Spec

-----------------------------------------------------------------------------
(* Marks and margin calls.  MarginInv is inductive relative to CoreInv.    *)

MarginInv ==
    /\ MarkedAtClose
    /\ MarginBreachIsCalled
    /\ ForcedCoverIsPrompt
    /\ MarketOrdersExpire

\* Equity and the margin verdict depend on the account alone.
LEMMA MarginUnchanged ==
    ASSUME UNCHANGED portfolioVars
    PROVE  \A s : UnderMargined(s)' <=> UnderMargined(s)
<1> DEFINE f == [s \in DOMAIN positions |-> MarketValue(s)]
<1>1. \A s : Mark(s)' = Mark(s) /\ MarketValue(s)' = MarketValue(s)
  BY DEF portfolioVars, Mark, MarketValue
<1>2. f' = f
  BY <1>1 DEF portfolioVars
<1>3. Equity' = Equity
  <2>1. Total(f)' = Total(f)
    BY <1>2 DEF Total
  <2>2. QED
    BY <2>1 DEF Equity, portfolioVars
<1>4. Shorts' = Shorts
  BY DEF Shorts, portfolioVars
<1>5. QED
  BY <1>1, <1>3, <1>4 DEF UnderMargined, portfolioVars

\* A new run starts with no position and no order.
LEMMA InitMargin == Init => MarginInv
BY DEF Init, MarginInv, MarkedAtClose, MarginBreachIsCalled, ForcedCoverIsPrompt,
       MarketOrdersExpire, ForcedPending

\* Taking a candle ages a forced cover by one bar.
LEMMA NextCandleMargin ==
    ASSUME CoreInv, CoreInv', MarginInv, NextCandle
    PROVE  MarginInv'
<1>1. /\ phase = "next" /\ bar' = bar + 1
      /\ phase' = "execute" \/ Fail("accrual")
      /\ UNCHANGED <<pending, positions>>
  BY DEF NextCandle, AccrueShortBorrow, Fail, portfolioVars
<1>2. phase' = "execute"
  BY <1>1 DEF Fail, CoreInv, OnlyBadSignalsRaise
<1>3. Shorts' = Shorts
  BY <1>1 DEF Shorts
<1>4. ForcedCoverIsPrompt'
  BY <1>1, <1>2, <1>3 DEF CoreInv, TypeOK, MarginInv, ForcedCoverIsPrompt, ForcedPending, PendingOrder
<1>5. QED
  BY <1>2, <1>4 DEF MarginInv, MarkedAtClose, MarginBreachIsCalled, MarketOrdersExpire

\* Execution removes every market order, so a forced cover does not survive.
LEMMA ExecuteMargin ==
    ASSUME CoreInv, CoreInv', MarginInv, ExecutePending
    PROVE  MarginInv'
<1>1. /\ phase = "execute" /\ UNCHANGED bar
      /\ phase' \in {"mark", "failed"}
  BY DEF ExecutePending, Untriggered, HandleFillEvent, Fail
<1>2. phase' = "mark"
  BY <1>1 DEF ExecutePending, Untriggered, HandleFillEvent, Fail, CoreInv, OnlyBadSignalsRaise
<1>3. pending' # None => pending' = pending /\ pending.type # "MARKET"
  BY <1>2 DEF ExecutePending, Untriggered, HandleFillEvent, Fail
<1>4. ForcedCoverIsPrompt' /\ MarketOrdersExpire'
  BY <1>2, <1>3 DEF MarginInv, ForcedCoverIsPrompt, MarketOrdersExpire, ForcedPending
<1>5. QED
  BY <1>2, <1>4 DEF MarginInv, MarkedAtClose, MarginBreachIsCalled

\* The mark sets the price of the one open position to the close.
LEMMA MarkMargin ==
    ASSUME CoreInv, MarginInv, MarkToClose
    PROVE  MarginInv'
<1>1. /\ phase = "mark" /\ phase' = "margin"
      /\ prices' = Put(prices, symbol, candle.close)
      /\ UNCHANGED <<bar, candle, pending, positions>>
  BY DEF MarkToClose, Update
<1>2. MarkedAtClose'
  BY <1>1 DEF MarkedAtClose, Put, CoreInv, PositionIsMarked
<1>3. ForcedCoverIsPrompt' /\ MarketOrdersExpire'
  BY <1>1 DEF MarginInv, ForcedCoverIsPrompt, MarketOrdersExpire, ForcedPending
<1>4. QED
  BY <1>1, <1>2, <1>3 DEF MarginInv, MarginBreachIsCalled

\* The margin check queues a cover for a breached short.
LEMMA MarginMargin ==
    ASSUME CoreInv, MarginInv, MarginCheck
    PROVE  MarginInv'
<1>1. /\ phase = "margin" /\ phase' = "market"
      /\ UNCHANGED portfolioVars /\ UNCHANGED <<bar, candle>>
  BY DEF MarginCheck
<1>2. MarkedAtClose' /\ MarketOrdersExpire'
  BY <1>1 DEF MarginInv, MarkedAtClose, MarketOrdersExpire, portfolioVars
<1>3. /\ \A s : UnderMargined(s)' <=> UnderMargined(s)
      /\ Shorts' = Shorts /\ positions' = positions
  BY <1>1, MarginUnchanged DEF portfolioVars, Shorts
<1>4. CASE /\ \A s \in DOMAIN positions : ~MarginBreached(s)
           /\ UNCHANGED <<symbol, pending>>
  <2>1. \A s \in DOMAIN positions : UnderMargined(s) => ForcedPending
    BY <1>4 DEF MarginBreached, CoreInv, PositionIsMarked
  <2>2. ~ForcedPending
    BY <1>1 DEF MarginInv, ForcedCoverIsPrompt
  <2>3. QED
    BY <1>2, <1>3, <1>4, <2>1, <2>2
    DEF MarginInv, MarginBreachIsCalled, ForcedCoverIsPrompt, ForcedPending
<1>5. ASSUME NEW s \in DOMAIN positions, MarginBreached(s), HandleOrderEvent(ForcedCover(s))
      PROVE  MarginInv'
  <2>1. /\ pending'.type = "MARKET" /\ pending'.direction = "LONG"
        /\ pending'.symbol = s /\ pending'.bar = bar /\ pending'.forced
        /\ pending' \in PendingOrder
    <3>1. positions[s] \in Position /\ s \in Symbols /\ bar \in Nat
      BY DEF CoreInv, TypeOK, PortfolioTypeOK
    <3>2. QED
      BY <1>5, <3>1
      DEF HandleOrderEvent, ForcedCover, PendingOrder, Position, Directions, OrderTypes
  <2>2. ForcedPending'
    BY <2>1, EngineAssumption DEF ForcedPending
  <2>3. s \in Shorts
    BY <1>5 DEF MarginBreached, UnderMargined
  <2>4. ForcedCoverIsPrompt'
    BY <1>1, <1>3, <2>1, <2>3 DEF ForcedCoverIsPrompt
  <2>5. QED
    BY <1>2, <2>2, <2>4 DEF MarginInv, MarginBreachIsCalled
<1>6. QED
  BY <1>4, <1>5 DEF MarginCheck

\* Emitting a signal changes neither the account nor the queue.
LEMMA MarketMargin ==
    ASSUME CoreInv, MarginInv, HandleMarketEvent
    PROVE  MarginInv'
<1>1. /\ phase = "market" /\ phase' = "signal"
      /\ UNCHANGED portfolioVars /\ UNCHANGED <<bar, candle, pending>>
  BY DEF HandleMarketEvent
<1>2. /\ \A s : UnderMargined(s)' <=> UnderMargined(s)
      /\ Shorts' = Shorts /\ positions' = positions /\ prices' = prices
  BY <1>1, MarginUnchanged DEF portfolioVars, Shorts
<1>3. QED
  BY <1>1, <1>2 DEF MarginInv, MarkedAtClose, MarginBreachIsCalled, ForcedCoverIsPrompt,
                    MarketOrdersExpire, ForcedPending

\* A signal leaves a forced cover in place.
LEMMA SignalMargin ==
    ASSUME CoreInv, MarginInv, HandleSignalEvent
    PROVE  MarginInv'
<1>1. /\ phase = "signal" /\ phase' \in {"next", "failed"}
      /\ UNCHANGED portfolioVars /\ UNCHANGED bar
  BY DEF HandleSignalEvent, Fail
<1>2. Shorts' = Shorts
  BY <1>1 DEF Shorts, portfolioVars
<1>3. CASE ForcedPending
  <2>1. UNCHANGED pending /\ phase' = "next"
    BY <1>3 DEF HandleSignalEvent, SignalIgnored
  <2>2. QED
    BY <1>1, <1>2, <2>1 DEF MarginInv, MarkedAtClose, MarginBreachIsCalled,
                            ForcedCoverIsPrompt, MarketOrdersExpire, ForcedPending
<1>4. CASE ~ForcedPending
  <2>1. UNCHANGED pending => ~ForcedPending'
    BY <1>4 DEF ForcedPending
  <2>2. ASSUME NEW s, NEW quantity, pending' = BuildOrder(s, quantity)
        PROVE  ~ForcedPending'
    BY <2>2 DEF BuildOrder, ForcedPending
  <2>3. ~ForcedPending'
    BY <2>1, <2>2 DEF HandleSignalEvent, Fail, HandleOrderEvent
  <2>4. QED
    BY <1>1, <2>3 DEF MarginInv, MarkedAtClose, MarginBreachIsCalled,
                      ForcedCoverIsPrompt, MarketOrdersExpire
<1>5. QED
  BY <1>3, <1>4

\* The end of the series keeps the queue as it is.
LEMMA EndMargin ==
    ASSUME MarginInv, EndOfData
    PROVE  MarginInv'
<1>1. /\ phase = "next" /\ phase' = "done"
      /\ UNCHANGED portfolioVars /\ UNCHANGED <<bar, pending>>
  BY DEF EndOfData
<1>2. Shorts' = Shorts
  BY <1>1 DEF Shorts, portfolioVars
<1>3. QED
  BY <1>1, <1>2 DEF MarginInv, MarkedAtClose, MarginBreachIsCalled, ForcedCoverIsPrompt,
                    MarketOrdersExpire, ForcedPending

\* A stuttering step.
LEMMA StutterMargin ==
    ASSUME MarginInv, UNCHANGED vars
    PROVE  MarginInv'
<1>1. UNCHANGED portfolioVars /\ UNCHANGED <<phase, bar, candle, pending>>
  BY DEF vars, engineVars
<1>2. /\ \A s : UnderMargined(s)' <=> UnderMargined(s)
      /\ Shorts' = Shorts /\ positions' = positions /\ prices' = prices
  BY <1>1, MarginUnchanged DEF portfolioVars, Shorts
<1>3. QED
  BY <1>1, <1>2 DEF MarginInv, MarkedAtClose, MarginBreachIsCalled, ForcedCoverIsPrompt,
                    MarketOrdersExpire, ForcedPending

\* Every reachable state of a run satisfies both invariants.
LEMMA MarginInvariant == Spec => [](CoreInv /\ MarginInv)
<1>1. CoreInv /\ CoreInv' /\ MarginInv /\ [Next]_vars => MarginInv'
  BY NextCandleMargin, ExecuteMargin, MarkMargin, MarginMargin, MarketMargin, SignalMargin,
     EndMargin, StutterMargin DEF Next
<1>2. QED
  BY InitMargin, CoreInvariant, <1>1, PTL DEF Spec

-----------------------------------------------------------------------------
(* The theorems.                                                           *)

\* The engine's run state and its account are always well typed.
THEOREM TypeCorrect == Spec => []TypeOK
<1>1. CoreInv => TypeOK
  BY DEF CoreInv
<1>2. QED
  BY CoreInvariant, <1>1, PTL

\* The engine never holds two positions, whatever symbols the signals name, so
\* the margin check and _build_order always look at the right one.
THEOREM SinglePosition == Spec => []OnePosition
<1>1. CoreInv => OnePosition
  BY DEF CoreInv, PositionIsMarked, OnePosition
<1>2. QED
  BY CoreInvariant, <1>1, PTL

\* An order queued while a position is open is the one that closes it.
THEOREM QueueIsCoherent == Spec => []PendingClosesPosition
<1>1. CoreInv => PendingClosesPosition
  BY DEF CoreInv
<1>2. QED
  BY CoreInvariant, <1>1, PTL

\* A run over a well formed series is never stopped by record_fill or by
\* accrue_short_borrow raising.
THEOREM BookkeepingNeverRaises == Spec => []OnlyBadSignalsRaise
<1>1. CoreInv => OnlyBadSignalsRaise
  BY DEF CoreInv
<1>2. QED
  BY CoreInvariant, <1>1, PTL

\* Cash, collateral and open cost always add up to the initial capital plus
\* realised pnl less borrow fees.
THEOREM BooksBalance == Spec => []LedgerBalances
<1>1. CoreInv => LedgerBalances
  BY BooksOfOneBalance DEF CoreInv, TypeOK
<1>2. QED
  BY CoreInvariant, <1>1, PTL

\* Each open short, and nothing else, has its collateral and its borrow clock,
\* and the restricted cash is their sum.
THEOREM CollateralFollowsShorts == Spec => []CollateralMatchesShorts
<1>1. CoreInv => CollateralMatchesShorts
  BY BooksOfOneBalance DEF CoreInv, TypeOK
<1>2. QED
  BY CoreInvariant, <1>1, PTL

\* No fill uses a candle at or before the one its order was decided on, and no
\* limit order fills beyond its limit.
THEOREM FillsAreFair == Spec => [](NoLookAhead /\ LimitProtected)
<1>1. CoreInv => NoLookAhead /\ LimitProtected
  BY DEF CoreInv
<1>2. QED
  BY CoreInvariant, <1>1, PTL

\* After the mark of a candle every open position is valued at its close.
THEOREM MarksAreFresh == Spec => []MarkedAtClose
<1>1. MarginInv => MarkedAtClose
  BY DEF MarginInv
<1>2. QED
  BY MarginInvariant, <1>1, PTL

\* A short below maintenance is called on the candle that breached.
THEOREM MarginIsEnforced == Spec => []MarginBreachIsCalled
<1>1. MarginInv => MarginBreachIsCalled
  BY DEF MarginInv
<1>2. QED
  BY MarginInvariant, <1>1, PTL

\* A forced cover is a market order for the open short that is executed on the
\* candle after the breach and never waits longer.
THEOREM CoversArePrompt == Spec => []ForcedCoverIsPrompt
<1>1. MarginInv => ForcedCoverIsPrompt
  BY DEF MarginInv
<1>2. QED
  BY MarginInvariant, <1>1, PTL

\* No market order survives the candle it was executed against.
THEOREM MarketOrdersLiveOneCandle == Spec => []MarketOrdersExpire
<1>1. MarginInv => MarketOrdersExpire
  BY DEF MarginInv
<1>2. QED
  BY MarginInvariant, <1>1, PTL

\* Executing a forced cover closes the only position, which is the short.
LEMMA ExecuteCovers ==
    ASSUME CoreInv, CoreInv', MarginInv, ExecutePending, ForcedPending
    PROVE  pending' = None /\ Shorts' = {}
<1>1. /\ pending \in PendingOrder /\ pending.type = "MARKET"
      /\ pending.symbol \in Shorts
      /\ candle \in Candles
  BY DEF CoreInv, TypeOK, MarginInv, ForcedCoverIsPrompt, ForcedPending
<1>2. Execute(pending, candle) # {}
  BY <1>1, MarketAlwaysFills
<1>3. PICK fill \in Execute(pending, candle) : HandleFillEvent(fill)
  BY <1>2 DEF ExecutePending, Untriggered, ForcedPending
<1>4. fill.symbol = pending.symbol
  BY DEF Execute
<1>5. ~FillRaises(fill)
  BY <1>3 DEF HandleFillEvent, Fail, CoreInv, OnlyBadSignalsRaise
<1>6. pending' = None /\ RecordFill(fill, time)
  BY <1>3, <1>5 DEF HandleFillEvent
<1>7. fill.symbol \in DOMAIN positions
  BY <1>1, <1>4 DEF Shorts
<1>8. ClosePosition(fill)
  BY <1>6, <1>7 DEF RecordFill, OpenPosition, RejectFill, FillAccepted
<1>9. DOMAIN positions' = {}
  BY <1>7, <1>8 DEF ClosePosition, Drop, Restrict, CoreInv, PositionIsMarked
<1>10. QED
  BY <1>6, <1>9 DEF Shorts

\* A margin call stands: no action but the execution of the cover touches it,
\* and that execution leaves no short behind.
THEOREM MarginCallStands == Spec => ForcedCoverStands
<1>1. ASSUME CoreInv, CoreInv', MarginInv, [Next]_vars, ForcedPending
      PROVE  pending' = pending \/ (pending' = None /\ Shorts' = {})
  <2>1. CASE NextCandle
    BY <2>1 DEF NextCandle, Fail
  <2>2. CASE ExecutePending
    BY <1>1, <2>2, ExecuteCovers
  <2>3. CASE MarkToClose
    BY <2>3 DEF MarkToClose
  <2>4. CASE MarginCheck
    BY <1>1, <2>4 DEF MarginCheck, MarginBreached
  <2>5. CASE HandleMarketEvent
    BY <2>5 DEF HandleMarketEvent
  <2>6. CASE HandleSignalEvent
    BY <1>1, <2>6 DEF HandleSignalEvent, SignalIgnored
  <2>7. CASE EndOfData
    BY <2>7 DEF EndOfData
  <2>8. CASE UNCHANGED vars
    BY <2>8 DEF vars, engineVars
  <2>9. QED
    BY <1>1, <2>1, <2>2, <2>3, <2>4, <2>5, <2>6, <2>7, <2>8 DEF Next
<1>2. CoreInv /\ CoreInv' /\ MarginInv /\ [Next]_vars
        => [ForcedPending => pending' = pending \/ (pending' = None /\ Shorts' = {})]_vars
  BY <1>1
<1>3. QED
  BY CoreInvariant, MarginInvariant, <1>2, PTL DEF Spec, ForcedCoverStands

\* A limit price slipped against the trader and capped at the limit is the limit.
LEMMA SlippedLimitIsCapped ==
    ASSUME NEW price \in Nat \ {0}, NEW direction \in Directions
    PROVE  CappedAtLimit(AdversePrice(price, direction), price * SlipScale, direction)
             = price * SlipScale
<1>1. SlipScale \in Nat /\ Slippage \in Nat /\ price * Slippage \in Nat
      /\ price * SlipScale \in Nat
  BY SlippageAssumption, NaturalProduct
<1>2. /\ price * (SlipScale + Slippage) = price * SlipScale + price * Slippage
      /\ price * (SlipScale - Slippage) = price * SlipScale - price * Slippage
  BY <1>1
<1> DEFINE p == price * SlipScale
           q == price * Slippage
<1>3. AdversePrice(price, direction) = IF direction = "LONG" THEN p + q ELSE p - q
  BY <1>2 DEF AdversePrice
<1>4. p \in Nat /\ q \in Nat
  BY <1>1
<1> HIDE DEF p, q
<1>5. CappedAtLimit(IF direction = "LONG" THEN p + q ELSE p - q, p, direction) = p
  BY <1>4 DEF CappedAtLimit
<1> QED BY <1>3, <1>5 DEF p

\* What the reference says of an order on a candle.
ReferencePrices(order, c) ==
    {IF order.type = "LIMIT"
     THEN CappedAtLimit(AdversePrice(raw, order.direction),
                        order.price * SlipScale, order.direction)
     ELSE AdversePrice(raw, order.direction) : raw \in RawPrices(order, c)}

\* _calculate_fill_price finds the first price of the bar the order may trade at.
LEMMA FillPriceIsReference ==
    ASSUME NEW order \in PendingOrder, NEW c \in Candles,
           order.type # "MARKET" => order.price # None
    PROVE  CalculateFillPrice(order, c) = ReferencePrices(order, c)
<1> DEFINE d == order.direction
           Adverse(raw) == AdversePrice(raw, d)
<1>1. /\ c.open \in Nat \ {0} /\ c.high \in Nat /\ c.low \in Nat
      /\ c.low <= c.open /\ c.open <= c.high
      /\ d \in Directions /\ order.type \in OrderTypes
  BY SeriesAssumption DEF Candle, PendingOrder, IsCandle
<1>2. CASE order.type = "MARKET"
  <2>1. RawPrices(order, c) = {c.open}
    BY <1>2 DEF RawPrices, Marketable
  <2>2. ReferencePrices(order, c) = {Adverse(c.open)}
    BY <1>2, <2>1 DEF ReferencePrices
  <2> QED BY <1>2, <2>2 DEF CalculateFillPrice, MarketFill
<1>3. CASE order.type = "LIMIT"
  <2> DEFINE limit == order.price
             Capped(raw) == CappedAtLimit(Adverse(raw), limit * SlipScale, d)
             atOpen == IF d = "LONG" THEN c.open <= limit ELSE c.open >= limit
             touched == IF d = "LONG" THEN c.low <= limit ELSE c.high >= limit
  <2>1. limit \in Nat \ {0}
    BY <1>3 DEF PendingOrder
  <2>2. Capped(limit) = limit * SlipScale
    BY <1>1, <2>1, SlippedLimitIsCapped
  <2>3. CalculateFillPrice(order, c) =
          IF atOpen THEN {Capped(c.open)} ELSE IF touched THEN {limit * SlipScale} ELSE {}
    BY <1>3 DEF CalculateFillPrice, LimitFill
  <2>4. Marketable(order, c.open) <=> atOpen
    BY <1>3 DEF Marketable
  <2>5. ~atOpen => (touched <=> limit \in c.low .. c.high)
    BY <1>1, <2>1 DEF Directions
  <2>6. RawPrices(order, c) = IF atOpen THEN {c.open} ELSE IF touched THEN {limit} ELSE {}
    BY <2>4, <2>5 DEF RawPrices
  <2>7. ReferencePrices(order, c) = {Capped(raw) : raw \in RawPrices(order, c)}
    BY <1>3 DEF ReferencePrices
  <2> HIDE DEF Capped, atOpen, touched, limit
  <2> QED BY <2>2, <2>3, <2>6, <2>7
<1>4. CASE order.type = "STOP"
  <2> DEFINE stop == order.price
             atOpen == IF d = "LONG" THEN c.open >= stop ELSE c.open <= stop
             touched == IF d = "LONG" THEN c.high >= stop ELSE c.low <= stop
  <2>1. stop \in Nat \ {0}
    BY <1>4 DEF PendingOrder
  <2>3. CalculateFillPrice(order, c) =
          IF atOpen THEN {Adverse(c.open)} ELSE IF touched THEN {Adverse(stop)} ELSE {}
    BY <1>4 DEF CalculateFillPrice, StopFill
  <2>4. Marketable(order, c.open) <=> atOpen
    BY <1>4 DEF Marketable
  <2>5. ~atOpen => (touched <=> stop \in c.low .. c.high)
    BY <1>1, <2>1 DEF Directions
  <2>6. RawPrices(order, c) = IF atOpen THEN {c.open} ELSE IF touched THEN {stop} ELSE {}
    BY <2>4, <2>5 DEF RawPrices
  <2>7. ReferencePrices(order, c) = {Adverse(raw) : raw \in RawPrices(order, c)}
    BY <1>4 DEF ReferencePrices
  <2> HIDE DEF Adverse, atOpen, touched, stop
  <2> QED BY <2>3, <2>6, <2>7
<1> QED BY <1>1, <1>2, <1>3, <1>4 DEF OrderTypes

\* SimulatedBroker.execute fills a pending order exactly when the bar reaches a
\* price it may trade at, at the first such price and slipped against the
\* trader, for every candle, threshold and slippage below 100%.
THEOREM FillsFollowPricePath == Spec => []FillFollowsPricePath
<1>1. CoreInv => FillFollowsPricePath
  <2> SUFFICES ASSUME CoreInv, phase = "execute", pending # None
               PROVE  {f.price : f \in Execute(pending, candle)}
                        = ReferencePrices(pending, candle)
    BY DEF FillFollowsPricePath, ReferencePrices
  <2>1. /\ pending \in PendingOrder /\ candle \in Candles
        /\ pending.type # "MARKET" => pending.price # None
    BY DEF CoreInv, TypeOK, PendingWellFormed
  <2>2. {f.price : f \in Execute(pending, candle)} = CalculateFillPrice(pending, candle)
    <3> DEFINE Fill(price) == [symbol |-> pending.symbol, direction |-> pending.direction,
                               quantity |-> pending.quantity, price |-> price,
                               commission |-> FillCommission(price, pending.quantity)]
               Found == CalculateFillPrice(pending, candle)
    <3>1. Execute(pending, candle) = {Fill(price) : price \in Found}
      BY DEF Execute
    <3>2. \A price : Fill(price).price = price
      OBVIOUS
    <3> HIDE DEF Fill, Found
    <3>3. {f.price : f \in {Fill(price) : price \in Found}} = Found
      BY <3>2
    <3> QED BY <3>1, <3>3 DEF Found
  <2> QED BY <2>1, <2>2, FillPriceIsReference
<1>2. QED
  BY CoreInvariant, <1>1, PTL
=============================================================================
