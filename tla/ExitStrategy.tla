------------------------------ MODULE ExitStrategy ------------------------------
(***************************************************************************)
(* The life of one position: opened by a BUY, looked at once per cycle by  *)
(* check_exit_signal (engine/strategy.py), its high water mark kept in the *)
(* positions row by the bot loop, closed by a SELL whose trading_history   *)
(* row records why and at which peak.  The row changes inside the cycle's  *)
(* session and survives only if the cycle commits.  Percentages are in     *)
(* per mille; prices are whole units.                                      *)
(***************************************************************************)
EXTENDS Integers, FiniteSetsExt

CONSTANTS
  Exit,         \* config.REGIMES[r]["exit"] for every configured regime r
  Prices,       \* the closes a cycle can read
  EntryPrices,  \* the closes at which the position can be bought
  AgeCap        \* bound: the age, in ticks, at which the clock stops counting

Regimes == DOMAIN Exit

\* What market:regime:<symbol> can say; a missing key reads as UNKNOWN.
Readings == Regimes \cup {"UNKNOWN"}

ExitConfig == [stop : Nat, trail : 0 .. 1000, arm : Nat, take : Nat,
               minProfit : Nat, limit : Nat]

ASSUME ExitAssumption ==
  /\ "SIDEWAYS" \in Regimes /\ "UNKNOWN" \notin Regimes
  /\ Exit \in [Regimes -> ExitConfig]
  /\ EntryPrices \subseteq Prices /\ Prices \subseteq Nat \ {0}
  /\ AgeCap \in Nat /\ \A r \in Regimes : Exit[r].limit < AgeCap

VARIABLES
  db,       \* the committed rows of the symbol
  session,  \* the rows as the open session sees them
  pc,       \* "idle" between cycles, "done" when the symbol has been processed
  seen,     \* the close and the regime the last cycle read
  age       \* ticks since opened_at

vars == <<db, session, pc, seen, age>>

-----------------------------------------------------------------------------
(* The position row, the trading_history row of its last SELL, and, as     *)
(* history that no row holds: peak, the highest close evaluated since the  *)
(* entry in cycles that committed or in the one that is open, and lost,    *)
(* whether the mark of one of them was lost to Redis.  A cycle that is     *)
(* rolled back takes the close it evaluated back with the row.             *)

NoSale == [reason |-> "NONE", hwm |-> 0]

NoPosition == [entry |-> 0, regime |-> "UNKNOWN", hwm |-> 0, peak |-> 0,
               lost |-> FALSE, sale |-> NoSale]

Open(row) == row.entry > 0

Unread == [price |-> 0, regime |-> "UNKNOWN"]

Reasons == {"STOP_LOSS", "TRAILING_STOP", "TAKE_PROFIT", "RSI_OVERBOUGHT", "TIME_LIMIT"}

Larger(a, b) == IF a >= b THEN a ELSE b

-----------------------------------------------------------------------------
(* check_exit_signal *)

\* An unknown regime is treated as SIDEWAYS.
ExitOf(regime) == IF regime \in Regimes THEN Exit[regime] ELSE Exit["SIDEWAYS"]

MutantCurrentStop(entryRegime, regime) == ExitOf(regime)

\* get_adjusted_exit_config: the current regime's parameters, with the
\* tighter of the two stops.
AdjustedExit(entryRegime, regime) ==
  [ExitOf(regime) EXCEPT !.stop = Min({ExitOf(entryRegime).stop, @})]

\* The profit is at least (at most) so many per mille of the entry price.
ProfitAtLeast(entry, price, permille) == 1000 * (price - entry) >= permille * entry
LossAtLeast(entry, price, permille) == 1000 * (price - entry) <= -(permille * entry)

\* TrailingStop.update: armed by the stored or the new peak, it fires when
\* the price is the trailing distance below the peak.
TrailingFires(entry, hwm, price, config) ==
  LET peak == Larger(hwm, price) IN
  /\ ProfitAtLeast(entry, peak, config.arm)
  /\ 1000 * price <= peak * (1000 - config.trail)

MutantNoTimeLimit(row, price, regime, overbought, held) ==
  LET config == AdjustedExit(row.regime, regime) IN
  IF LossAtLeast(row.entry, price, config.stop) THEN "STOP_LOSS"
  ELSE IF TrailingFires(row.entry, row.hwm, price, config) THEN "TRAILING_STOP"
  ELSE IF ProfitAtLeast(row.entry, price, config.take) THEN "TAKE_PROFIT"
  ELSE "NONE"

\* The first rule that holds, in the order of the code.
ExitReason(row, price, regime, overbought, held) ==
  LET config == AdjustedExit(row.regime, regime) IN
  IF LossAtLeast(row.entry, price, config.stop) THEN "STOP_LOSS"
  ELSE IF TrailingFires(row.entry, row.hwm, price, config) THEN "TRAILING_STOP"
  ELSE IF ProfitAtLeast(row.entry, price, config.take) THEN "TAKE_PROFIT"
  ELSE IF overbought /\ ProfitAtLeast(row.entry, price, config.minProfit)
       THEN "RSI_OVERBOUGHT"
  ELSE IF held > config.limit THEN "TIME_LIMIT"
  ELSE "NONE"

MutantRecordedMark(row, price, reason) == IF reason = "STOP_LOSS" THEN price ELSE row.hwm

\* indicators["new_hwm"]: the stop loss returns before it is set, and the
\* executor then records the exit price.
RecordedPeak(row, price, reason) ==
  IF reason = "STOP_LOSS" THEN price ELSE Larger(row.hwm, price)

-----------------------------------------------------------------------------

Init ==
  /\ db = NoPosition /\ session = NoPosition
  /\ pc = "idle"
  /\ seen = Unread
  /\ age = 0

\* The row of a new position.
Opened(price, regime) ==
  [NoPosition EXCEPT !.entry = price, !.regime = regime, !.hwm = price, !.peak = price]

\* A BUY: an entry signal exists only in a configured regime.
Buy ==
  /\ pc = "idle" /\ ~Open(session)
  /\ \E price \in EntryPrices, regime \in Regimes :
       /\ session' = Opened(price, regime)
       /\ seen' = [price |-> price, regime |-> regime]
  /\ age' = 0
  /\ pc' = "done"
  /\ UNCHANGED db

\* A held position is evaluated and sold.
Sell ==
  /\ pc = "idle" /\ Open(session)
  /\ \E price \in Prices, regime \in Readings, overbought \in BOOLEAN :
       LET reason == ExitReason(session, price, regime, overbought, age) IN
       /\ reason \in Reasons
       /\ session' = [NoPosition EXCEPT
                        !.peak = Larger(session.peak, price), !.lost = session.lost,
                        !.sale = [reason |-> reason,
                                  hwm |-> RecordedPeak(session, price, reason)]]
       /\ seen' = [price |-> price, regime |-> regime]
  /\ pc' = "done"
  /\ UNCHANGED <<db, age>>

MutantLastPrice(row, price) == [row EXCEPT !.hwm = price, !.peak = Larger(@, price)]

MutantHwmUnsaved(row, price) == [row EXCEPT !.peak = Larger(@, price)]

\* The row after a cycle that keeps the position.
Kept(row, price) == [row EXCEPT !.hwm = Larger(@, price), !.peak = Larger(@, price)]

\* A held position is evaluated and kept; its high water mark is stored in
\* Redis and then in the row, so a failed Redis write leaves the row as it is.
Keep ==
  /\ pc = "idle" /\ Open(session)
  /\ \E price \in Prices, regime \in Readings, overbought \in BOOLEAN :
       /\ ExitReason(session, price, regime, overbought, age) = "NONE"
       /\ \/ session' = Kept(session, price)
          \/ session' = [session EXCEPT !.peak = Larger(@, price), !.lost = TRUE]
       /\ seen' = [price |-> price, regime |-> regime]
  /\ pc' = "done"
  /\ UNCHANGED <<db, age>>

\* The cycle passes the symbol: stale candles, no regime from Redis, an error.
Skip ==
  /\ pc = "idle"
  /\ pc' = "done"
  /\ seen' = Unread
  /\ UNCHANGED <<db, session, age>>

Commit ==
  /\ pc = "done"
  /\ db' = session
  /\ pc' = "idle"
  /\ UNCHANGED <<session, seen, age>>

\* The cycle fails or the process dies before the commit.
Rollback ==
  /\ pc = "done"
  /\ session' = db
  /\ pc' = "idle"
  /\ UNCHANGED <<db, seen, age>>

Tick ==
  /\ Open(session) /\ age < AgeCap
  /\ age' = age + 1
  /\ UNCHANGED <<db, session, pc, seen>>

Next == Buy \/ Sell \/ Keep \/ Skip \/ Commit \/ Rollback \/ Tick

Spec == Init /\ [][Next]_vars

\* Time passes and the loop keeps cycling.  The feed, Redis and the database
\* may fail again and again, but not for ever: evaluations go through again
\* and again, and so do commits of a cycle that changed a row.
Fairness ==
  /\ WF_vars(Tick)
  /\ WF_vars(Skip \/ Rollback)
  /\ SF_vars(Sell \/ Keep)
  /\ SF_vars(Commit /\ session # db)

FairSpec == Spec /\ Fairness

-----------------------------------------------------------------------------

Row == [entry : EntryPrices \cup {0}, regime : Readings,
        hwm : Prices \cup {0}, peak : Prices \cup {0}, lost : BOOLEAN,
        sale : [reason : Reasons \cup {"NONE"}, hwm : Prices \cup {0}]]

TypeOK ==
  /\ db \in Row /\ session \in Row
  /\ \A row \in {db, session} : Open(row) => row.regime \in Regimes /\ row.sale = NoSale
  /\ pc \in {"idle", "done"}
  /\ seen \in [price : Prices \cup {0}, regime : Readings]
  /\ age \in 0 .. AgeCap

\* The stored high water mark is the highest close any committed cycle has
\* evaluated since the entry: a crash or a rolled back cycle loses no more than
\* the close of its own cycle, a failed Redis write may lose a committed one.
HwmIsPeak ==
  /\ TypeOK
  /\ \A row \in {db, session} : Open(row) /\ ~row.lost => row.hwm = row.peak

\* The history row of a sale records the peak of the position it closed,
\* across every cycle that held it, unless a mark was lost or the fixed stop
\* sold: check_exit_signal returns STOP_LOSS before it looks at the peak.
SaleRecordsPeak ==
  \A row \in {db, session} :
    row.sale.reason \notin {"NONE", "STOP_LOSS"} /\ ~row.lost => row.sale.hwm = row.peak

\* The open position is evaluated in this step, and is it kept?
Evaluated == pc = "idle" /\ pc' = "done" /\ Open(session) /\ seen'.price # 0

EvaluatedAndKept == Evaluated /\ Open(session)'

\* A position evaluated at a loss beyond the stop of its entry regime is
\* sold in that evaluation, whatever regime is current or unknown: no regime
\* change loosens the stop the position was bought with.
EntryStopHonoured ==
  [][Evaluated
     /\ LossAtLeast(session.entry, seen'.price, Exit[session.regime].stop)
       => ~Open(session)']_vars

\* Once a close evaluated in a committed cycle, or in this one, has armed the
\* trailing stop, the position is not kept at or below its trailing distance
\* from the highest of these closes, although every cycle rebuilds the stop
\* from the row, as long as no mark was lost to Redis.
TrailingNeverForgets ==
  [][EvaluatedAndKept /\ ~session.lost =>
       LET config == ExitOf(seen'.regime) IN
       \/ ~ProfitAtLeast(session.entry, session'.peak, config.arm)
       \/ 1000 * seen'.price > session'.peak * (1000 - config.trail)]_vars

\* Every position is closed in the end, by the time limit if by nothing else.
EveryPositionCloses == Open(db) ~> ~Open(db)

=============================================================================
