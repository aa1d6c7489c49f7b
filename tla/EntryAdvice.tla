------------------------------ MODULE EntryAdvice ------------------------------
(***************************************************************************)
(* What the assistant and the risk page tell a user about entries:         *)
(* run_risk_diagnosis_tool and action_recommendation_node, which read the  *)
(* committed rows the bot loop writes and judge them by literals of their  *)
(* own.  The newest daily row is that of today, once today has one.        *)
(***************************************************************************)
EXTENDS TradingLoop

\* The literals of run_risk_diagnosis_tool: percent of the equity in one
\* position, BUYs of the day, losses in a row, risk events of 24 hours.
Literals == [concentration |-> 30, buys |-> 8, losses |-> 3, audits |-> 5]

\* One position is worth a large part of cash and holdings.
Concentrated(book, mark) ==
  \E s \in Held(book) :
    100 * book.pos[s].qty * mark[s]
      >= Literals.concentration * (book.balance + MarketValue(book, mark))

MutantHaltUnread(row, concentrated, audits) ==
  IF row.losses >= Literals.losses THEN "HIGH_RISK"
  ELSE IF row.buys >= Literals.buys \/ concentrated \/ audits >= Literals.audits THEN "WARNING"
  ELSE "SAFE"

\* risk_level of the newest daily row.
RiskLevel(row, concentrated, audits) ==
  IF row.halted \/ row.losses >= Literals.losses THEN "HIGH_RISK"
  ELSE IF row.buys >= Literals.buys \/ concentrated \/ audits >= Literals.audits THEN "WARNING"
  ELSE "SAFE"

\* What run_market_outlook_tool returns without a candle of the symbol.
NoData == [status |-> "NO_DATA", momentum |-> "unknown", rsi |-> "unknown", news |-> "unknown"]

\* What it returns of a chart and of the newest news score: too few candles
\* leave momentum or RSI unknown, and so does a table that cannot be read for
\* the news.
Outlook == {NoData} \cup
  [status : {"OK"}, momentum : {"up", "not up", "unknown"},
   rsi : {"below 65", "65 or more", "unknown"}, news : {"LOW", "MEDIUM", "HIGH", "unknown"}]

\* The recommendation of action_recommendation_node.
Recommendation(level, outlook) ==
  IF outlook.status # "OK" THEN "no proposal"
  ELSE IF level = "SAFE" /\ outlook.momentum = "up" /\ outlook.rsi = "below 65" /\ outlook.news # "HIGH"
  THEN "consider entry"
  ELSE IF level = "HIGH_RISK" \/ outlook.news = "HIGH" THEN "no new entry"
  ELSE "watch"

-----------------------------------------------------------------------------

\* The assistant advises against entries, whatever charts, news and audits say,
\* or proposes nothing where it has no candle to judge by.
AdvisedAgainst(book, d) ==
  \A mark \in [Symbols -> Prices], outlook \in Outlook, audits \in {0, Literals.audits} :
    Recommendation(RiskLevel(book.daily[d], Concentrated(book, mark), audits), outlook)
      = IF outlook.status = "OK" THEN "no new entry" ELSE "no proposal"

\* From the moment a halted day is committed until that day ends, the assistant
\* advises against entries, whatever sales of the day win back, and across
\* rollbacks, crashes and restarts.  This is of an answer computed now: one that
\* the chat has kept from before the halt may be repeated (ChatService says how long).
HaltStaysTold ==
  [][db.daily[day].halted /\ day' = day => AdvisedAgainst(db', day)]_vars

=============================================================================
