---------------------------- MODULE MCTradingLoop ----------------------------
(* Small instances of TradingLoop for TLC. *)
EXTENDS EntryAdvice

OneSymbol == <<"KRW-BTC">>

TwoSymbols == <<"KRW-BTC", "KRW-ETH">>

=============================================================================
