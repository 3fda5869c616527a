-------------------------- MODULE MCBacktestEngine --------------------------
(***************************************************************************)
(* Small instances of BacktestEngine: candles, signals and bounds for TLC. *)
(***************************************************************************)
EXTENDS BacktestEngine

Bar(o, h, l, c) == [open |-> o, high |-> h, low |-> l, close |-> c]

\* A flat bar, a crash through every threshold, a gap up that breaks a short.
FewCandles == {Bar(2, 2, 2, 2), Bar(2, 4, 1, 1), Bar(4, 4, 3, 4)}

Market(s, d) == [symbol |-> s, direction |-> d, type |-> "MARKET", price |-> None]
Limit(s, d, p) == [symbol |-> s, direction |-> d, type |-> "LIMIT", price |-> p]
Stop(s, d, p) == [symbol |-> s, direction |-> d, type |-> "STOP", price |-> p]

\* Every order type in both directions, and a limit signal without a price.
AllOrderSignals(s) ==
    {Market(s, d) : d \in Directions} \cup {Limit(s, "LONG", 2), Limit(s, "SHORT", 4)}
      \cup {Stop(s, d, 3) : d \in Directions} \cup {Limit(s, "LONG", None)}

\* A strategy that trades one symbol.
OneSymbolSignals == UNION {AllOrderSignals(s) : s \in Symbols}

\* Signals that name different symbols, as a caller without a requested symbol
\* may emit them: every order type for one, market orders for the others.
TwoSymbolSignals(first) ==
    AllOrderSignals(first) \cup {Market(s, d) : s \in Symbols, d \in Directions}

SignalsOfTwoSymbols == TwoSymbolSignals(CHOOSE s \in Symbols : TRUE)

=============================================================================
