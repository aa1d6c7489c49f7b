------------------------------ MODULE TradeReports ------------------------------
(***************************************************************************)
(* What the reports make of trading_history: the daily report              *)
(* (agents/daily_reporter.py), the weekly exit report                      *)
(* (analytics/exit_performance.py) and the review tool of the assistant    *)
(* (agents/tools/strategy_review_tool.py).  Each finds the entry of a SELL *)
(* in its own way, because rows written before the bot recorded            *)
(* entry_avg_price have to be matched with BUYs.  The units of a symbol    *)
(* are numbered in the order they were bought; a price is not needed.      *)
(***************************************************************************)
EXTENDS Integers, Sequences, FiniteSetsExt, Functions

CONSTANTS
  Symbols,
  Quantities,    \* the units an order can have
  Reasons,       \* exit_reason of a SELL
  EarlyReasons,  \* those an early exit is looked for in
  Changes,       \* the percentages a post-exit point can differ from the sale by
  ReviewDays,    \* days of run_strategy_review_tool
  ReviewLimit,   \* its LIMIT
  WeeklyDays,    \* days of the weekly report
  MinSamples,    \* min_samples of its suggestions
  EarlyPercent,  \* the early_exit_rate it objects to, 40 percent in the code
  MaxRows,       \* bound: rows of trading_history
  LastDate       \* bound: the calendar stops here

ASSUME ReportAssumption ==
  /\ Quantities \subseteq Nat \ {0} /\ EarlyReasons \subseteq Reasons
  /\ Changes \subseteq Int
  /\ {ReviewDays, ReviewLimit, WeeklyDays, MinSamples, EarlyPercent, MaxRows, LastDate} \subseteq Nat \ {0}

VARIABLES
  history,   \* trading_history, by executed_at
  date,      \* the UTC date
  recording  \* whether the running version records entry_avg_price

historyVars == <<history, date, recording>>

-----------------------------------------------------------------------------
(* The rows.  The bot holds at most one position of a symbol and sells it  *)
(* as a whole, so BUYs and SELLs of a symbol alternate.                    *)

Trades == 1 .. Len(history)

Buys == {i \in Trades : history[i].side = "BUY"}

Sales == Trades \ Buys

\* The windows of the post-exit tracker that a suggestion looks at, the points a
\* row can have, those of one that has none yet, and one more.
Windows == {"4h", "24h"}

Points == UNION {[windows -> Changes] : windows \in SUBSET Windows}

Untracked == [window \in {} |-> 0]

WithPoint(post, window, change) ==
  [w \in DOMAIN post \cup {window} |-> IF w = window THEN change ELSE post[w]]

\* The row that opened the position a symbol holds, 0 if it holds none.
OpenedBy(symbol) ==
  LET mine == {i \in Trades : history[i].symbol = symbol}
  IN  IF mine = {} \/ Max(mine) \in Sales THEN 0 ELSE Max(mine)

OpenPosition(symbol, qty) ==
  /\ Len(history) < MaxRows /\ OpenedBy(symbol) = 0
  /\ history' = Append(history, [side |-> "BUY", symbol |-> symbol, qty |-> qty, day |-> date,
                                 opened |-> Len(history) + 1, recorded |-> FALSE,
                                 reason |-> "none", post |-> Untracked])
  /\ UNCHANGED <<date, recording>>

MutantSoldInPart(i) == 1

\* The bot sells the whole position.
SoldQuantity(i) == history[i].qty

\* "opened" is history: the row whose position is sold.
ClosePosition(symbol, reason) ==
  /\ Len(history) < MaxRows /\ OpenedBy(symbol) # 0
  /\ history' = Append(history, [side |-> "SELL", symbol |-> symbol,
                                 qty |-> SoldQuantity(OpenedBy(symbol)), day |-> date,
                                 opened |-> OpenedBy(symbol), recorded |-> recording,
                                 reason |-> reason, post |-> Untracked])
  /\ UNCHANGED <<date, recording>>

\* The post-exit tracker writes a point, long after the sale: that of a day
\* later comes on a later date.
TrackPoint(i, window, change) ==
  /\ i \in Sales /\ window \notin DOMAIN history[i].post
  /\ window = "24h" => history[i].day < date
  /\ history' = [history EXCEPT ![i].post = WithPoint(@, window, change)]
  /\ UNCHANGED <<date, recording>>

\* The version that records entry_avg_price is deployed.
Upgrade ==
  /\ ~recording /\ recording' = TRUE
  /\ UNCHANGED <<history, date>>

NextDate ==
  /\ date < LastDate /\ date' = date + 1
  /\ UNCHANGED <<history, recording>>

-----------------------------------------------------------------------------
(* Matching.                                                               *)

\* How many units of a symbol the first n rows bought.
Units(symbol, n) ==
  SumFunction([i \in Trades |->
    IF i <= n /\ i \in Buys /\ history[i].symbol = symbol THEN history[i].qty ELSE 0])

\* The units of a BUY.
Lot(i) == Units(history[i].symbol, i - 1) + 1 .. Units(history[i].symbol, i)

Least(a, b) == IF a < b THEN a ELSE b

\* _consume_buy_lots, _consume_entry and the loop of the review: row by row, how
\* many units are gone.  A sale takes the oldest that are left, as many as it
\* wants or as are offered.
Taken(start, wanted, offered) ==
  LET taken[n \in 0 .. Len(wanted)] ==
        IF n = 0 THEN start
        ELSE IF wanted[n] = 0 THEN taken[n - 1]
        ELSE Least(taken[n - 1] + wanted[n], offered[n])
  IN  taken

Wanted(symbol, sales) ==
  [i \in Trades |-> IF i \in sales /\ history[i].symbol = symbol THEN history[i].qty ELSE 0]

\* The entries of these sales.  Those in "known" have theirs recorded and take
\* none.  The BUYs of the first "missing" rows are not looked at, and sale i is
\* offered those of the first laidOut[i] rows.  A sale that is given no unit is
\* left out of the statistics.
Matched(sales, known, missing, laidOut) ==
  [i \in Sales |->
     IF i \notin sales THEN {}
     ELSE IF i \in known THEN Lot(history[i].opened)
     ELSE LET symbol == history[i].symbol
              taken  == Taken(Units(symbol, missing), Wanted(symbol, sales \ known),
                              [n \in Trades |-> Units(symbol, laidOut[n])])
          IN  taken[i - 1] + 1 .. taken[i]]

Recorded == {i \in Sales : history[i].recorded}

\* The last row before a day.
LastBefore(day) == Max({0} \cup {i \in Trades : history[i].day < day})

\* Rows are gone through in their order: a BUY is laid out when its row comes.
InTurn == [n \in Trades |-> n]

\* The entries the daily report reckons by, from the rows of the day on.
DailyEntries(day) ==
  Matched({i \in Sales : history[i].day >= day}, Recorded, LastBefore(day), InTurn)

MutantPeriodLots == LastBefore(date - WeeklyDays + 1)

\* _build_buy_lots: every BUY so far, those before the period included.
WeeklyMissing == 0

\* summarize_period: all lots are laid out before the first sale is matched.
WeeklyEntries ==
  Matched({i \in Sales : history[i].day > date - WeeklyDays}, Recorded, WeeklyMissing,
          [n \in Trades |-> Len(history)])

\* run_strategy_review_tool: the rows of its days, the oldest up to the limit.
ReviewStart == LastBefore(date - ReviewDays + 1)

ReviewEntries ==
  Matched({i \in Sales : i > ReviewStart /\ i <= ReviewStart + ReviewLimit}, {}, ReviewStart, InTurn)

-----------------------------------------------------------------------------
(* The weekly statistics.                                                  *)

Samples == LET entry == WeeklyEntries IN {i \in Sales : entry[i] # {}}

EarlyTargets == LET samples == Samples IN {i \in samples : history[i].reason \in EarlyReasons}

MutantTrackedTargets == LET targets == EarlyTargets IN {i \in targets : "24h" \in DOMAIN history[i].post}

\* What early_exit_rate is a share of.
RateBase == EarlyTargets

\* Those that were early: the point a day after the sale is more than 2 percent up.
EarlyExits(targets) ==
  {i \in targets : "24h" \in DOMAIN history[i].post /\ history[i].post["24h"] > 2}

Enough == Cardinality(Samples) >= MinSamples

\* generate_tuning_suggestions_from_summary, of the sales of one regime: more
\* than EarlyPercent of the early targets of the period were early exits.
SuggestsExitReview ==
  /\ LET base == RateBase
     IN  100 * Cardinality(EarlyExits(base)) > EarlyPercent * Cardinality(base)
  /\ Enough

\* Its rules about an average: that of a window, after the sales for a reason,
\* lies beyond a bound, above it or (sign -1) below its negative.
AverageRules ==
  {[reason |-> "TRAILING_STOP", window |-> "24h", sign |-> 1, bound |-> 3],
   [reason |-> "STOP_LOSS", window |-> "4h", sign |-> 1, bound |-> 1],
   [reason |-> "TAKE_PROFIT", window |-> "4h", sign |-> 1, bound |-> 2],
   [reason |-> "TIME_LIMIT", window |-> "24h", sign |-> -1, bound |-> 2]}

MutantFourHours(rule) ==
  LET entry == WeeklyEntries
  IN  [i \in Trades |->
         IF history[i].reason = rule.reason /\ "4h" \in DOMAIN history[i].post /\ entry[i] # {}
         THEN rule.sign * history[i].post["4h"] - rule.bound ELSE 0]

\* By how much each tracked sale lies beyond the bound.  An average is taken of
\* the tracked sales alone, and is beyond it when these add up to more than 0.
Excesses(rule) ==
  LET entry == WeeklyEntries
  IN  [i \in Trades |->
         IF /\ history[i].reason = rule.reason /\ rule.window \in DOMAIN history[i].post
            /\ entry[i] # {}
         THEN rule.sign * history[i].post[rule.window] - rule.bound ELSE 0]

Suggests(rule) == SumFunction(Excesses(rule)) > 0 /\ Enough

-----------------------------------------------------------------------------

HistoryInit == history = <<>> /\ date = 0 /\ recording = FALSE

HistoryNext ==
  \/ \E symbol \in Symbols, qty \in Quantities : OpenPosition(symbol, qty)
  \/ \E symbol \in Symbols, reason \in Reasons : ClosePosition(symbol, reason)
  \/ \E i \in Trades, window \in Windows, change \in Changes : TrackPoint(i, window, change)
  \/ Upgrade \/ NextDate

HistorySpec == HistoryInit /\ [][HistoryNext]_historyVars

-----------------------------------------------------------------------------

HistoryTypeOK ==
  /\ history \in Seq([side : {"BUY", "SELL"}, symbol : Symbols, qty : Quantities, day : 0 .. LastDate,
                      opened : 1 .. MaxRows, recorded : BOOLEAN,
                      reason : Reasons \cup {"none"}, post : Points])
  /\ Len(history) <= MaxRows /\ date \in 0 .. LastDate /\ recording \in BOOLEAN

\* The daily report and the review reckon every sale against the entry it
\* really had, or leave it out: the daily one because a position is sold as a
\* whole and on the day of the upgrade the rows without an entry come first,
\* the review also where its window or its limit cuts a position in two.
EntriesExact ==
  LET daily  == DailyEntries(date)
      review == ReviewEntries
  IN  /\ HistoryTypeOK
      /\ \A i \in Sales : {daily[i], review[i]} \subseteq {{}, Lot(history[i].opened)}

\* The weekly report never reckons a sale against a BUY that came after the
\* position was opened, so no holding time is negative; it may be an older one.
WeeklyEntryNotLater ==
  LET entry == WeeklyEntries
  IN  \A i \in Sales : \A unit \in entry[i] :
        unit <= Units(history[i].symbol, history[i].opened)

\* The tracker writes a point of a sale in this step.
Written(i, window) ==
  window \notin DOMAIN history[i].post /\ window \in DOMAIN history'[i].post

\* A rule about an average looks at this point, and it lies beyond the bound.
LooksAt(rule, i, window) == rule.reason = history[i].reason /\ rule.window = window

Beyond(rule, i) == rule.sign * history'[i].post[rule.window] > rule.bound

\* A point that the tracker writes late moves the suggestions its own way only.
\* A rule about an average, which leaves out the sales that are not tracked yet,
\* is taken back by no point but one it looks at that is not beyond its bound, and
\* comes up by no other than one that is.  The review of a regime, whose rate
\* counts those sales as no early exits, is never taken back, and comes up by an
\* early exit alone.
SuggestionsFollowPoints ==
  [][\A i \in Trades, window \in Windows : Written(i, window) =>
       /\ \A rule \in AverageRules :
            /\ (LooksAt(rule, i, window) /\ ~Beyond(rule, i)) \/ (Suggests(rule) => Suggests(rule)')
            /\ (LooksAt(rule, i, window) /\ Beyond(rule, i)) \/ (Suggests(rule)' => Suggests(rule))
       /\ SuggestsExitReview => SuggestsExitReview'
       /\ (window = "24h" /\ history'[i].post["24h"] > 2) \/ (SuggestsExitReview' => SuggestsExitReview)]_historyVars

=============================================================================
