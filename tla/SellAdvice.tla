------------------------------- MODULE SellAdvice -------------------------------
(***************************************************************************)
(* The sell advice of the assistant (agents/tools/sell_timing_tool.py),    *)
(* which evaluates the positions row by rules of its own, next to the exit *)
(* rules the bot loop trades by.  The loop reads the regime of a market    *)
(* from Redis, the advice looks for it in regime_history.  Each has an RSI *)
(* of its own: the loop the smoothed one of 200 candles (overbought), the  *)
(* advice a plain mean of 14 rows (hot).  Neither bounds the other, so     *)
(* whether each is above the threshold is a choice of its own.             *)
(***************************************************************************)
EXTENDS ExitStrategy

\* update_regime_job writes a market's rows of regime_history under its name,
\* one of config.SYMBOLS; _get_latest_regime asks for what follows the dash.
WrittenAs == "KRW-BTC"
AskedFor == "BTC"

\* The newest row of regime_history that the lookup finds.
LatestRegime(regime) == IF AskedFor = WrittenAs THEN regime ELSE "UNKNOWN"

\* run_sell_timing_tool: an unknown entry regime is SIDEWAYS, and where no
\* row is found the current regime is the entry regime.
AdvisedExit(entryRegime, regime) ==
  LET entry   == IF entryRegime = "UNKNOWN" THEN "SIDEWAYS" ELSE entryRegime
      current == LatestRegime(regime)
  IN  AdjustedExit(entry, IF current = "UNKNOWN" THEN entry ELSE current)

MutantTrailingUnarmed(row, price, config) ==
  1000 * price <= row.hwm * (1000 - config.trail)

\* The trailing stop of the advice: armed by the close, or by a stored peak
\* strictly above the arming price; its distance is taken from the stored peak.
AdvisedTrailing(row, price, config) ==
  /\ \/ ProfitAtLeast(row.entry, price, config.arm)
     \/ 1000 * (row.hwm - row.entry) > config.arm * row.entry
  /\ 1000 * price <= row.hwm * (1000 - config.trail)

MutantNoTrailingSignal(row, price, config, hot, held) ==
  \/ LossAtLeast(row.entry, price, config.stop)
  \/ ProfitAtLeast(row.entry, price, config.take)
  \/ hot /\ ProfitAtLeast(row.entry, price, config.minProfit)
  \/ config.limit > 0 /\ held >= config.limit

\* evaluate_sell_signals: is any trigger met?
Triggered(row, price, config, hot, held) ==
  \/ LossAtLeast(row.entry, price, config.stop)
  \/ AdvisedTrailing(row, price, config)
  \/ ProfitAtLeast(row.entry, price, config.take)
  \/ hot /\ ProfitAtLeast(row.entry, price, config.minProfit)
  \/ config.limit > 0 /\ held >= config.limit

\* The recommendation: sell, or how close to 70 percent of a threshold it is.
Recommendation(row, price, regime, hot, held) ==
  LET config == AdvisedExit(row.regime, regime) IN
  IF Triggered(row, price, config, hot, held) THEN "SELL"
  ELSE IF 10 * 1000 * (price - row.entry) >= 7 * config.take * row.entry THEN "PREPARE"
  ELSE IF 10 * 1000 * (price - row.entry) <= -(7 * config.stop * row.entry) THEN "GUARD"
  ELSE "HOLD"

-----------------------------------------------------------------------------

\* The stored peak lies exactly on the arming price.
OnTheArm(row, config) == 1000 * (row.hwm - row.entry) = config.arm * row.entry

\* The loop sells for its RSI alone, which the RSI of the advice does not see.
SoldByRsiAlone(price, regime, overbought, hot) ==
  ExitReason(db, price, regime, overbought, age) = "RSI_OVERBOUGHT" /\ ~hot

\* The advice is to sell for its RSI alone, which the RSI of the loop does not see.
AdvisedByRsiAlone(price, regime, overbought, hot) ==
  hot /\ ~overbought /\ Recommendation(db, price, regime, FALSE, age) # "SELL"

\* Where the loop would sell in these regimes, the advice is to sell, but for a
\* peak exactly on the arming price, which arms the loop's trailing stop only,
\* and for a sale by the loop's RSI alone.
NoSaleUnadvised(regimes) ==
  Open(db) =>
    \A price \in Prices, regime \in regimes, overbought, hot \in BOOLEAN :
      \/ ExitReason(db, price, regime, overbought, age) = "NONE"
      \/ OnTheArm(db, AdjustedExit(db.regime, regime))
      \/ SoldByRsiAlone(price, regime, overbought, hot)
      \/ Recommendation(db, price, regime, hot, age) = "SELL"

\* Where the advice is to sell, the loop would sell, but for a position held
\* exactly as long as its time limit, which the loop keeps, and for an advice
\* by its own RSI alone.
NoFalseAlarm(regimes) ==
  Open(db) =>
    \A price \in Prices, regime \in regimes, overbought, hot \in BOOLEAN :
      \/ Recommendation(db, price, regime, hot, age) # "SELL"
      \/ age = AdjustedExit(db.regime, regime).limit
      \/ AdvisedByRsiAlone(price, regime, overbought, hot)
      \/ ExitReason(db, price, regime, overbought, age) # "NONE"

\* The assistant and the loop, each with rules of its own, agree when to sell
\* any reachable position at a close, as long as the regime it was bought in
\* lasts: by the stop, the trailing stop, the profit, the time, and by the RSI
\* where both find the symbol overbought.
AdviceMatchesLoop == NoSaleUnadvised({db.regime}) /\ NoFalseAlarm({db.regime})

\* The advice takes the current regime into account as the loop does
\* (sell_timing_tool.py: the same signals in the same order as the engine).
AdviceFollowsRegime == NoSaleUnadvised(Regimes)

=============================================================================
