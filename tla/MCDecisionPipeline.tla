-------------------------- MODULE MCDecisionPipeline --------------------------
(* Small instances of DecisionPipeline for TLC: the model names are those of *)
(* agents/factory.py.                                                        *)
EXTENDS DecisionPipeline

CONSTANTS btc, eth

ShortCooldowns == <<1, 2, 2>>

\* One signal goes to the canary, the other just misses it.
Buckets == btc :> 19 @@ eth :> 20

BothKeys ==
  [primary |-> "anthropic", primaryModel |-> "claude-haiku-4-5-20251001",
   keys |-> {"anthropic", "openai"}, canary |-> TRUE, percent |-> 99,
   canaryProvider |-> "openai", canaryModel |-> "gpt-4o-mini"]

NoCanaryKey == [BothKeys EXCEPT !.keys = {"anthropic"}]

=============================================================================
