------------------------------ MODULE RiskManager ------------------------------
(***************************************************************************)
(* The daily risk row and the order rules of engine/risk_manager.py, as    *)
(* operators: the bot loop applies them to the rows of its session.        *)
(* Ratios are percentages, money and prices are whole units.               *)
(***************************************************************************)
EXTENDS Integers

CONSTANTS MaxPerOrder,       \* max_per_order, percent of the reference equity
          MaxDailyLoss,      \* max_daily_loss, percent of the reference equity
          MaxTotalExposure,  \* MAX_TOTAL_EXPOSURE, percent of the reference equity
          MaxDailyTrades,    \* max_daily_trades, BUYs of a UTC day
          MaxConcurrent,     \* MAX_CONCURRENT_POSITIONS
          FeeBuffer,         \* fee_buffer, percent of the cash kept back
          CooldownTime,      \* cooldown_hours
          CooldownAfter      \* COOLDOWN_AFTER_CONSECUTIVE_LOSSES, which no rule reads

ASSUME RiskAssumption ==
  /\ MaxPerOrder \in Nat
  /\ MaxDailyLoss \in Nat
  /\ MaxTotalExposure \in Nat
  /\ MaxDailyTrades \in Nat
  /\ MaxConcurrent \in Nat
  /\ FeeBuffer \in 0 .. 99
  /\ CooldownTime \in Nat
  /\ CooldownAfter \in Nat

-----------------------------------------------------------------------------
(* DailyRiskState: one row per UTC date.  A row that get_daily_state has   *)
(* not created yet is a fresh row: creating it changes nothing a reader of *)
(* the row can see.  trade_count is buys + sells and has no field.         *)

Row == [pnl : Int, buys : Nat, sells : Nat, losses : Nat,
        cooldown : Nat, halted : BOOLEAN]

FreshRow == [pnl |-> 0, buys |-> 0, sells |-> 0, losses |-> 0,
             cooldown |-> 0, halted |-> FALSE]

\* The streak that starts a cooldown: a literal of update_after_trade, which
\* never reads COOLDOWN_AFTER_CONSECUTIVE_LOSSES.
LossStreak == 3

-----------------------------------------------------------------------------
(* update_after_trade *)

MutantBuyUncounted(row) == row

RowAfterBuy(row) == [row EXCEPT !.buys = @ + 1]

MutantStreakNotReset(row, pnl, now) ==
  LET booked == [row EXCEPT !.sells = @ + 1, !.pnl = @ + pnl]
  IN  IF pnl >= 0
      THEN [booked EXCEPT !.losses = 0]
      ELSE IF row.losses + 1 < LossStreak
      THEN [booked EXCEPT !.losses = @ + 1]
      ELSE [booked EXCEPT !.losses = @ + 1, !.cooldown = now + CooldownTime]

RowAfterSell(row, pnl, now) ==
  LET booked == [row EXCEPT !.sells = @ + 1, !.pnl = @ + pnl]
  IN  IF pnl >= 0
      THEN [booked EXCEPT !.losses = 0]
      ELSE IF row.losses + 1 < LossStreak
      THEN [booked EXCEPT !.losses = @ + 1]
      ELSE [booked EXCEPT !.losses = 0, !.cooldown = now + CooldownTime]

-----------------------------------------------------------------------------
(* check_order_validity, in the order of its returns *)

MutantHaltForgotten(row, now) ==
  \/ row.cooldown > now
  \/ row.buys >= MaxDailyTrades

MutantCooldownForgotten(row, now) ==
  \/ row.halted
  \/ row.buys >= MaxDailyTrades

MutantOneBuyTooMany(row, now) ==
  \/ row.halted
  \/ row.cooldown > now
  \/ row.buys > MaxDailyTrades

\* Rules 2 to 4: the day is halted, cooling down or out of entries.
DayClosed(row, now) ==
  \/ row.halted
  \/ row.cooldown > now
  \/ row.buys >= MaxDailyTrades

MutantLossLimitExclusive(row, reference) ==
  100 * row.pnl < -(reference * MaxDailyLoss)

\* Rule 5: the day's realized loss has reached the limit.
LossLimitReached(row, reference) ==
  100 * row.pnl <= -(reference * MaxDailyLoss)

MutantOneHoldingTooMany(amount, reference, balance, exposure, open, volatility) ==
  /\ 10000 * amount <= reference * MaxPerOrder * volatility
  /\ 100 * amount <= balance * (100 - FeeBuffer)
  /\ 100 * (exposure + amount) <= reference * MaxTotalExposure
  /\ open <= MaxConcurrent

MutantVolatilityIgnored(amount, reference, balance, exposure, open, volatility) ==
  /\ 100 * amount <= reference * MaxPerOrder
  /\ 100 * amount <= balance * (100 - FeeBuffer)
  /\ 100 * (exposure + amount) <= reference * MaxTotalExposure
  /\ open < MaxConcurrent

\* Rules 6 to 8 for a symbol that is not held: the order size under the
\* volatility multiplier, the free cash, the total exposure, the holdings.
WithinLimits(amount, reference, balance, exposure, open, volatility) ==
  /\ 10000 * amount <= reference * MaxPerOrder * volatility
  /\ 100 * amount <= balance * (100 - FeeBuffer)
  /\ 100 * (exposure + amount) <= reference * MaxTotalExposure
  /\ open < MaxConcurrent

=============================================================================
