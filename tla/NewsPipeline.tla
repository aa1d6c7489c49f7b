------------------------------ MODULE NewsPipeline ------------------------------
(***************************************************************************)
(* The news pipeline of agents/news/rss_news_pipeline.py: one scheduler    *)
(* job stores what the feeds offer, another scores every symbol over the   *)
(* last whole hours, and the assistant reads the newest score.  Each run   *)
(* is one transaction; the runs of the two jobs interleave, their commits  *)
(* fail and the process dies at any step.  An article is what the pipeline *)
(* reads in it; its feed may show it late and drop it before it is read.   *)
(***************************************************************************)
EXTENDS Integers, Sequences, FiniteSets, FiniteSetsExt

CONSTANTS
  SYMBOLS,     \* config.SYMBOLS, in the order of the summary job
  FEEDS,       \* get_rss_sources(), in the order of the ingest job
  Articles,    \* [feed, hour of publication, symbols named, market named, keywords]
  Weight,      \* HIGH_RISK_KEYWORDS and POSITIVE_KEYWORDS
  WindowHours, \* NEWS_RISK_WINDOW_HOURS
  MaxArticles, \* NEWS_MAX_ARTICLES_PER_SYMBOL
  LastHour     \* bound: the clock stops in this hour, which is free of faults

Symbols == {SYMBOLS[i] : i \in 1 .. Len(SYMBOLS)}

Hours == 0 .. LastHour

\* The publication hour of an article whose feed gives no date one can parse.
Undated == -1

ASSUME NewsAssumption ==
  /\ SYMBOLS # <<>> /\ FEEDS # <<>>
  /\ \A a \in Articles :
       /\ \E i \in 1 .. Len(FEEDS) : FEEDS[i] = a.feed
       /\ a.published \in Hours \cup {Undated} /\ a.market \in BOOLEAN
       /\ a.symbols \subseteq Symbols /\ a.keywords \subseteq DOMAIN Weight
  /\ IsFiniteSet(Articles) /\ IsFiniteSet(DOMAIN Weight)
  /\ Weight \in [DOMAIN Weight -> Int]
  /\ {WindowHours, MaxArticles} \subseteq Nat \ {0} /\ LastHour \in Nat

VARIABLES
  hour,      \* the clock
  shown,     \* per article: "ahead" of its feed, "shown" in it, or "gone" from it
  articles,  \* the committed rows of news_articles
  ingest,    \* the run of the ingest job: [feed, rows], feed 0 when there is none
  scores,    \* the committed rows of news_summaries and news_risk_scores, per
             \* symbol and end of the window
  summary,   \* the run of the summary job: [turn, end, rows, fresh], turn 0 when
             \* there is none; fresh is history: the symbols it read as they are
  current    \* history: the symbols whose last committed row was read from the
             \* articles and in the hour there still are

vars == <<hour, shown, articles, ingest, scores, summary, current>>

-----------------------------------------------------------------------------
(* Articles *)

\* extract_symbols: an article on the market in general counts for the first.
SymbolsOf(article) ==
  IF article.symbols = {} /\ article.market THEN {SYMBOLS[1]} ELSE article.symbols

\* score_article_risk
RiskOf(article) ==
  Max({0, Min({100, 40 + SumFunction([k \in article.keywords |-> Weight[k]])})})

\* The row an article becomes.  Rows with the same hash, article and
\* publication time, are one; without a date, that time is the present, so that
\* every hour (in the code: every run) stores the article again.
RowOf(article) ==
  [article |-> article,
   published |-> IF article.published = Undated THEN hour ELSE article.published]

\* parse_feed_xml of what a feed shows, each with its row.
RowsIn(feed) == {RowOf(a) : a \in {b \in Articles : b.feed = feed /\ shown[b] = "shown"}}

-----------------------------------------------------------------------------
(* Scores *)

MutantCurrentHour(symbol, end, rows) ==
  {r \in rows : /\ r.published >= end - WindowHours /\ r.published <= end
                /\ symbol \in SymbolsOf(r.article)}

InWindow(symbol, end, rows) ==
  {r \in rows : /\ r.published >= end - WindowHours /\ r.published < end
                /\ symbol \in SymbolsOf(r.article)}

\* ORDER BY published_at DESC LIMIT: equal times come in any order.
NewestFirst(rows) ==
  {order \in [1 .. Cardinality(rows) -> rows] :
     /\ \A i, j \in DOMAIN order : i < j => order[i] # order[j]
     /\ \A i, j \in DOMAIN order : i < j => order[i].published >= order[j].published}

\* The linear weights, in twentieths.
RankWeight(i) == Max({4, 21 - i})

\* _risk_level, of a score that is a fraction.
LevelOf(total, weight) ==
  IF total >= 70 * weight THEN "HIGH" ELSE IF total >= 45 * weight THEN "MEDIUM" ELSE "LOW"

NoRow == [count |-> 0, score |-> 0, level |-> "none"]

MutantPlainMean(order) ==
  LET n     == Min({Len(order), MaxArticles})
      total == SumFunction([i \in 1 .. n |-> RankWeight(i) * RiskOf(order[i].article)])
  IN  IF n = 0 THEN [count |-> 0, score |-> 0, level |-> "LOW"]
      ELSE [count |-> n, score |-> (100 * total) \div (20 * n), level |-> LevelOf(total, 20 * n)]

\* The two rows one reading gives: the summary's count, and the risk score in
\* hundredths with its level.
Verdict(order) ==
  LET n      == Min({Len(order), MaxArticles})
      weight == SumFunction([i \in 1 .. n |-> RankWeight(i)])
      total  == SumFunction([i \in 1 .. n |-> RankWeight(i) * RiskOf(order[i].article)])
  IN  IF n = 0 THEN [count |-> 0, score |-> 0, level |-> "LOW"]
      ELSE [count |-> n, score |-> (100 * total) \div weight, level |-> LevelOf(total, weight)]

Verdicts(symbol, end, rows) ==
  {Verdict(order) : order \in NewestFirst(InWindow(symbol, end, rows))}

-----------------------------------------------------------------------------
(* The ingest job *)

NoIngest == [feed |-> 0, rows |-> {}]

NoSummary == [turn |-> 0, end |-> 0, rows |-> [s \in Symbols |-> NoRow], fresh |-> {}]

Init ==
  /\ hour = 0
  /\ shown = [a \in Articles |-> "ahead"]
  /\ articles = {}
  /\ ingest = NoIngest
  /\ scores = [s \in Symbols |-> [h \in Hours |-> NoRow]]
  /\ summary = NoSummary
  /\ current = {}

StartIngest ==
  /\ ingest.feed = 0
  /\ ingest' = [NoIngest EXCEPT !.feed = 1]
  /\ UNCHANGED <<hour, shown, articles, scores, summary, current>>

Faulty == hour < LastHour

\* A feed is fetched, parsed and inserted, on conflict do nothing; one that
\* cannot be fetched or parsed is passed over.
ReadFeed ==
  /\ ingest.feed \in 1 .. Len(FEEDS)
  /\ \/ ingest' = [feed |-> ingest.feed + 1,
                   rows |-> ingest.rows \cup (RowsIn(FEEDS[ingest.feed]) \ articles)]
     \/ Faulty /\ ingest' = [ingest EXCEPT !.feed = @ + 1]
  /\ UNCHANGED <<hour, shown, articles, scores, summary, current>>

CommitIngest ==
  /\ ingest.feed > Len(FEEDS)
  /\ articles' = articles \cup ingest.rows
  /\ ingest' = NoIngest
  /\ IF ingest.rows = {} THEN UNCHANGED <<summary, current>>
     ELSE summary' = [summary EXCEPT !.fresh = {}] /\ current' = {}
  /\ UNCHANGED <<hour, shown, scores>>

\* A database error rolls back what all feeds gave.
FailIngest ==
  /\ ingest.feed # 0 /\ Faulty
  /\ ingest' = NoIngest
  /\ UNCHANGED <<hour, shown, articles, scores, summary, current>>

-----------------------------------------------------------------------------
(* The summary job *)

\* The window ends with the last whole hour at the start of the run.
StartSummary ==
  /\ summary.turn = 0
  /\ summary' = [NoSummary EXCEPT !.turn = 1, !.end = hour]
  /\ UNCHANGED <<hour, shown, articles, ingest, scores, current>>

\* One symbol: read its articles as committed by now, put its rows in place.
ScoreSymbol ==
  /\ summary.turn \in 1 .. Len(SYMBOLS)
  /\ LET s == SYMBOLS[summary.turn] IN
     \E verdict \in Verdicts(s, summary.end, articles) :
       summary' = [summary EXCEPT !.turn = @ + 1, !.rows[s] = verdict,
                     !.fresh = IF summary.end = hour THEN @ \cup {s} ELSE @]
  /\ UNCHANGED <<hour, shown, articles, ingest, scores, current>>

MutantFirstStays(old, new) == IF old = NoRow THEN new ELSE old

\* ON CONFLICT (symbol, window) DO UPDATE
Upserted(old, new) == new

CommitSummary ==
  /\ summary.turn > Len(SYMBOLS)
  /\ scores' = [s \in Symbols |->
                  [scores[s] EXCEPT ![summary.end] = Upserted(@, summary.rows[s])]]
  /\ current' = IF summary.end = hour THEN summary.fresh ELSE current
  /\ summary' = NoSummary
  /\ UNCHANGED <<hour, shown, articles, ingest>>

\* A database error takes back the rows of all symbols.
FailSummary ==
  /\ summary.turn # 0 /\ Faulty
  /\ summary' = NoSummary
  /\ UNCHANGED <<hour, shown, articles, ingest, scores, current>>

-----------------------------------------------------------------------------
(* The environment *)

\* The process dies with both runs; the jobs start again with it.
Crash ==
  /\ Faulty
  /\ ingest.feed # 0 \/ summary.turn # 0
  /\ ingest' = NoIngest /\ summary' = NoSummary
  /\ UNCHANGED <<hour, shown, articles, scores, current>>

\* An article appears in its feed, in its hour or later; feeds drop old ones.
Show(a) ==
  /\ shown[a] = "ahead" /\ a.published <= hour
  /\ shown' = [shown EXCEPT ![a] = "shown"]
  /\ UNCHANGED <<hour, articles, ingest, scores, summary, current>>

Drop(a) ==
  /\ shown[a] = "shown"
  /\ shown' = [shown EXCEPT ![a] = "gone"]
  /\ UNCHANGED <<hour, articles, ingest, scores, summary, current>>

Tick ==
  /\ hour < LastHour
  /\ hour' = hour + 1
  /\ summary' = [summary EXCEPT !.fresh = {}] /\ current' = {}
  /\ UNCHANGED <<shown, articles, ingest, scores>>

IngestStep == StartIngest \/ ReadFeed \/ CommitIngest

SummaryStep == StartSummary \/ ScoreSymbol \/ CommitSummary

Next ==
  \/ StartIngest \/ ReadFeed \/ CommitIngest \/ FailIngest
  \/ StartSummary \/ ScoreSymbol \/ CommitSummary \/ FailSummary
  \/ Crash \/ \E a \in Articles : Show(a) \/ Drop(a)
  \/ Tick

\* The scheduler starts both jobs again and again, a run takes its steps, and
\* time passes.
FairSpec ==
  Init /\ [][Next]_vars /\ WF_vars(IngestStep) /\ WF_vars(SummaryStep) /\ WF_vars(Tick)

-----------------------------------------------------------------------------

\* The newest risk row, as run_market_outlook_tool reads it.
Told(symbol) ==
  LET told == {h \in Hours : scores[symbol][h] # NoRow}
  IN  IF told = {} THEN NoRow ELSE scores[symbol][Max(told)]

\* A committed score lies between those of the articles stored for its symbol
\* and window, of which it counts at most MaxArticles, whatever was ingested
\* between and during the runs; no symbol is HIGH without a HIGH article, and
\* none calm with HIGH articles only.
ScoreWithinArticles ==
  \A s \in Symbols, end \in Hours :
    LET row   == scores[s][end]
        risks == {RiskOf(r.article) : r \in
                    {q \in articles : /\ q.published \in end - WindowHours .. end - 1
                                      /\ s \in SymbolsOf(q.article)}}
    IN  row.count > 0 =>
          /\ risks # {} /\ row.count <= MaxArticles
          /\ 100 * Min(risks) <= row.score /\ row.score <= 100 * Max(risks)
          /\ row.level = "HIGH" => Max(risks) >= 70
          /\ row.level = "LOW"  => Min(risks) < 45

\* As long as no article was committed since the job read them and the hour is
\* the same, the score the assistant is told is that of all articles stored.
ScoreIsCurrent ==
  \A s \in current : Told(s) \in Verdicts(s, hour, articles)

\* When the faults end, every article a feed goes on showing is stored, and each
\* symbol's newest score settles on the articles stored, whatever was read too
\* early, rolled back or lost with the process before.
ScoresSettle ==
  <>[](/\ \A a \in Articles : shown[a] = "shown" => \E r \in articles : r.article = a
       /\ \A s \in Symbols : Told(s) \in Verdicts(s, hour, articles))

=============================================================================
