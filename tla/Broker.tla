------------------------------- MODULE Broker -------------------------------
(***************************************************************************)
(* SimulatedBroker (src/src/engine/broker.py): prices one order against    *)
(* one candle.                                                             *)
(*                                                                         *)
(* Units.  The code multiplies float prices by percentages.  Here every    *)
(* quantity is an exact integer: a candle price is a whole number of       *)
(* ticks, a fill price a whole number of 1/SlipScale ticks (so that the    *)
(* slipped price is exact), and money a whole number of                    *)
(* 1/(SlipScale * CostScale) ticks (so that commissions, margins and       *)
(* borrow fees are exact).  Float rounding is abstracted away.             *)
(***************************************************************************)
EXTENDS Integers

CONSTANTS
    SlipScale,      \* slippage_pct = Slippage / SlipScale
    Slippage,
    CostScale,      \* commission_pct = Commission / CostScale
    Commission

ASSUME SlippageAssumption ==
    /\ SlipScale \in Nat \ {0}
    /\ Slippage \in Nat

ASSUME CommissionAssumption ==
    /\ CostScale \in Nat \ {0}
    /\ Commission \in Nat

Directions == {"LONG", "SHORT"}

OrderTypes == {"MARKET", "LIMIT", "STOP"}

Opposite(direction) == IF direction = "LONG" THEN "SHORT" ELSE "LONG"

\* A well formed OHLC bar: the check of Candle.__post_init__.
IsCandle(candle) ==
    /\ candle.low <= candle.open  /\ candle.open <= candle.high
    /\ candle.low <= candle.close /\ candle.close <= candle.high

-----------------------------------------------------------------------------

\* A price in ticks, slipped against the trader, in fill units.
AdversePrice(price, direction) ==
    IF direction = "LONG" THEN price * (SlipScale + Slippage)
                          ELSE price * (SlipScale - Slippage)

\* The better of nothing and a limit: a buy never pays more than its limit, a
\* sale never receives less.
CappedAtLimit(price, limit, direction) ==
    IF direction = "LONG"
    THEN IF price <= limit THEN price ELSE limit
    ELSE IF price >= limit THEN price ELSE limit

\* Each fill rule returns the set of fill prices: empty when the order is not
\* triggered by the candle, a singleton when it is.
MarketFill(order, candle) == {AdversePrice(candle.open, order.direction)}

LimitFill(order, candle) ==
    LET limit == order.price
        atOpen == IF order.direction = "LONG" THEN candle.open <= limit
                                              ELSE candle.open >= limit
        touched == IF order.direction = "LONG" THEN candle.low <= limit
                                               ELSE candle.high >= limit
    IN  IF atOpen
        THEN {CappedAtLimit(AdversePrice(candle.open, order.direction),
                            limit * SlipScale, order.direction)}
        ELSE IF touched THEN {limit * SlipScale} ELSE {}

\* Mutant: a gap through the stop still fills at the stop.
StopFillIgnoresGap(order, candle) ==
    LET touched == IF order.direction = "LONG" THEN candle.high >= order.price
                                               ELSE candle.low <= order.price
    IN  IF touched THEN {AdversePrice(order.price, order.direction)} ELSE {}

StopFill(order, candle) ==
    LET stop == order.price
        atOpen == IF order.direction = "LONG" THEN candle.open >= stop
                                              ELSE candle.open <= stop
        touched == IF order.direction = "LONG" THEN candle.high >= stop
                                               ELSE candle.low <= stop
    IN  IF atOpen THEN {AdversePrice(candle.open, order.direction)}
        ELSE IF touched THEN {AdversePrice(stop, order.direction)} ELSE {}

CalculateFillPrice(order, candle) ==
    CASE order.type = "MARKET" -> MarketFill(order, candle)
      [] order.type = "LIMIT"  -> LimitFill(order, candle)
      [] order.type = "STOP"   -> StopFill(order, candle)

\* Commission on a fill, in money units.
FillCommission(price, quantity) == price * quantity * Commission

\* The FillEvents of an order on a candle: none or exactly one.
Execute(order, candle) ==
    {[symbol     |-> order.symbol,
      direction  |-> order.direction,
      quantity   |-> order.quantity,
      price      |-> price,
      commission |-> FillCommission(price, order.quantity)] :
        price \in CalculateFillPrice(order, candle)}

-----------------------------------------------------------------------------
(* The reference for the fill rules, which walks the bar: prices start at  *)
(* the open and then touch everything between the low and the high.        *)

\* The order would trade at a price: any price for a market order, at or
\* better than the limit, at or beyond the stop.
Marketable(o, price) ==
    \/ o.type = "MARKET"
    \/ o.type = "LIMIT" /\ (IF o.direction = "LONG" THEN price <= o.price ELSE price >= o.price)
    \/ o.type = "STOP"  /\ (IF o.direction = "LONG" THEN price >= o.price ELSE price <= o.price)

\* The open when the order is marketable there, else the threshold when the
\* bar trades through it, else nothing.
RawPrices(o, c) ==
    IF Marketable(o, c.open) THEN {c.open}
    ELSE IF o.price \in c.low .. c.high THEN {o.price} ELSE {}

=============================================================================
