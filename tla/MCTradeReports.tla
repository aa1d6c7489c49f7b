---------------------------- MODULE MCTradeReports ----------------------------
(* TradeReports on a small instance for TLC. *)
EXTENDS TradeReports, TLC

CONSTANTS btc, eth

TwoSymbols == {btc, eth}

\* No report tells one symbol from another.
Interchangeable == Permutations(TwoSymbols)

TwoReasons == {"TAKE_PROFIT", "TIME_LIMIT"}

Early == {"TAKE_PROFIT"}

\* On either side of every bound.
PointChanges == {-3, 4}

=============================================================================
