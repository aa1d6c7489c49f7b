---------------------------- MODULE MCExitStrategy ----------------------------
(* Small instances of ExitStrategy and of the advice on it for TLC: the    *)
(* exit parameters of config/strategy_v3.yaml in per mille, time limits in  *)
(* ticks of 24 hours.                                                      *)
EXTENDS SellAdvice

YamlExit ==
  [BULL     |-> [stop |-> 30, trail |-> 30, arm |-> 10, take |-> 50,
                 minProfit |-> 10, limit |-> 3],
   SIDEWAYS |-> [stop |-> 40, trail |-> 25, arm |-> 10, take |-> 30,
                 minProfit |-> 10, limit |-> 2],
   BEAR     |-> [stop |-> 50, trail |-> 20, arm |-> 10, take |-> 30,
                 minProfit |-> 5, limit |-> 1]]

=============================================================================
