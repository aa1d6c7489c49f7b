--------------------------- MODULE MCPostExitTracker ---------------------------
(* The collector and the tracker on a small instance for TLC. *)
EXTENDS PostExitTracker, TLC

TwoSymbols == <<"KRW-BTC", "KRW-ETH">>

TwoWindows == "1h" :> 1 @@ "4h" :> 3

=============================================================================
