------------------------------- MODULE NewsProofs -------------------------------
(***************************************************************************)
(* Proofs about NewsPipeline: a committed score lies within the risks of   *)
(* the articles it stands for, and is the one of all articles as long as   *)
(* nothing came in since, for every set of articles, feeds, symbols,       *)
(* weights and windows, however the two jobs interleave, fail or die.      *)
(***************************************************************************)
EXTENDS NewsPipeline, FoldTheorems, SequenceTheorems

-----------------------------------------------------------------------------
(* The invariant *)

\* A row of news_articles: undated articles have the hour that stored them.
Stored == [article : Articles, published : Hours]

Levels == {"HIGH", "MEDIUM", "LOW"}

ScoreRow == [count : Nat, score : Int, level : Levels \cup {"none"}]

\* A run of the summary job, or none.
Runs == [turn : Nat, end : Hours, rows : [Symbols -> ScoreRow], fresh : SUBSET Symbols]

NewsTypeOK ==
  /\ hour \in Hours
  /\ articles \in SUBSET Stored
  /\ ingest \in [feed : Nat, rows : SUBSET Stored]
  /\ scores \in [Symbols -> [Hours -> ScoreRow]]
  /\ summary \in Runs
  /\ current \in SUBSET Symbols

\* The risks of the articles stored for a symbol and a window.
Risks(s, end, rows) == {RiskOf(r.article) : r \in InWindow(s, end, rows)}

\* A score lies between two of those risks, and its level is of one of them.
Fits(row, s, end, rows) ==
  row.count > 0 =>
    /\ row.count <= MaxArticles
    /\ \E lo, hi \in Risks(s, end, rows) :
         /\ 100 * lo <= row.score /\ row.score <= 100 * hi
         /\ row.level = "HIGH" => hi >= 70
         /\ row.level = "LOW"  => lo < 45

\* What is committed, and what the run is about to commit, fits.
RowsFit ==
  \A s \in Symbols :
    /\ Fits(summary.rows[s], s, summary.end, articles)
    /\ \A end \in Hours : Fits(scores[s][end], s, end, articles)

\* No window ends after the present, of which the current scores are.
NothingAhead ==
  /\ summary.end <= hour
  /\ \A s \in Symbols, h \in Hours : h > hour => scores[s][h] = NoRow

Timely ==
  /\ \A s \in summary.fresh :
       summary.end = hour /\ summary.rows[s] \in Verdicts(s, hour, articles)
  /\ \A s \in current : scores[s][hour] \in Verdicts(s, hour, articles)

NewsInv == NewsTypeOK /\ RowsFit /\ NothingAhead /\ Timely

-----------------------------------------------------------------------------
(* One reading *)

LEMMA NewsBounds ==
  /\ LastHour \in Nat /\ WindowHours \in Nat \ {0} /\ MaxArticles \in Nat \ {0}
  /\ 0 \in Hours /\ Hours \subseteq Nat /\ IsFiniteSet(Hours)
<1>1. /\ LastHour \in Nat /\ WindowHours \in Nat \ {0} /\ MaxArticles \in Nat \ {0}
  BY NewsAssumption
<1>2. 0 \in Int /\ LastHour \in Int
  BY <1>1
<1>3. IsFiniteSet(0 .. LastHour)
  BY ONLY <1>2, FS_Interval
<1> QED
  BY <1>1, <1>3 DEF Hours

\* Every article has a risk between 0 and 100.
LEMMA RiskTyped == ASSUME NEW a \in Articles PROVE RiskOf(a) \in 0 .. 100
<1>1. a.keywords \subseteq DOMAIN Weight /\ IsFiniteSet(DOMAIN Weight)
  BY NewsAssumption
<1>2. IsFiniteSet(a.keywords)
  BY <1>1, FS_Subset
<1> DEFINE w == [k \in a.keywords |-> Weight[k]]
<1>3. w \in [a.keywords -> Int]
  BY <1>1, NewsAssumption
<1> HIDE DEF w
<1>4. SumFunction(w) \in Int
  BY <1>2, <1>3, SumFunctionTyped
<1> DEFINE n == 40 + SumFunction(w)
<1>5. 100 \in Nat /\ n \in Int
  BY <1>4
<1>6. RiskOf(a) = Max({0, Min({100, n})})
  BY DEF RiskOf, w
<1> HIDE DEF n
<1>7. Max({0, Min({100, n})}) \in 0 .. 100
  BY ONLY <1>5, Clamped
<1> QED
  BY <1>6, <1>7

LEMMA RankTyped == ASSUME NEW i \in Nat PROVE RankWeight(i) \in Nat \ {0}
<1>1. 4 \in Int /\ 21 - i \in Int
  OBVIOUS
<1>2. Max({4, 21 - i}) \in {4, 21 - i} /\ Max({4, 21 - i}) >= 4
  BY ONLY <1>1, GreatestOfTwo
<1> QED
  BY <1>1, <1>2 DEF RankWeight

\* A weighted mean, rounded down in hundredths, lies where its values lie.
LEMMA MeanWithin ==
  ASSUME NEW t \in Int, NEW w \in Nat \ {0}, NEW lo \in Int, NEW hi \in Int,
         lo * w <= t, t <= hi * w
  PROVE  /\ (100 * t) \div w \in Int
         /\ 100 * lo <= (100 * t) \div w /\ (100 * t) \div w <= 100 * hi
         /\ t >= 70 * w => hi >= 70
         /\ ~(t >= 45 * w) => lo < 45
<1> DEFINE q == (100 * t) \div w
<1>1. q \in Int /\ q * w <= 100 * t /\ 100 * t < q * w + w
  OBVIOUS
<1> HIDE DEF q
<1>2. \A m, n \in Int : m * w < n * w => m < n
  <2> SUFFICES ASSUME NEW m \in Int, NEW n \in Int, ~(m < n) PROVE n * w <= m * w
    OBVIOUS
  <2>1. m - n \in Nat
    OBVIOUS
  <2>2. (m - n) * w \in Nat
    BY <2>1
  <2>3. (m - n) * w = m * w - n * w
    OBVIOUS
  <2> QED
    BY <2>2, <2>3
<1>3. /\ (100 * lo) * w = 100 * (lo * w) /\ (100 * hi) * w = 100 * (hi * w)
      /\ (q + 1) * w = q * w + w /\ (100 * hi + 1) * w = (100 * hi) * w + w
      /\ lo * w \in Int /\ hi * w \in Int /\ q * w \in Int
  BY <1>1
<1>4. (100 * lo) * w < (q + 1) * w
  BY <1>1, <1>3
<1>5. q * w < (100 * hi + 1) * w
  BY <1>1, <1>3
<1>6. 100 * lo < q + 1 /\ q < 100 * hi + 1
  BY <1>1, <1>2, <1>4, <1>5
<1>7. t >= 70 * w => 69 * w < hi * w
  BY <1>3
<1>8. ~(t >= 45 * w) => lo * w < 45 * w
  BY <1>3
<1>9. /\ t >= 70 * w => 69 < hi
      /\ ~(t >= 45 * w) => lo < 45
  BY <1>2, <1>7, <1>8
<1> QED
  BY <1>1, <1>6, <1>9 DEF q

\* Rows have a number, and every reading of them has that length.
LEMMA ReadingTyped ==
  ASSUME NEW rows, IsFiniteSet(rows), NEW order \in NewestFirst(rows)
  PROVE  /\ Len(order) \in Nat /\ DOMAIN order = 1 .. Len(order)
         /\ \A i \in 1 .. Len(order) : order[i] \in rows
<1>1. Cardinality(rows) \in Nat
  BY FS_CardinalityType
<1>2. order \in [1 .. Cardinality(rows) -> rows]
  BY DEF NewestFirst
<1>3. order \in Seq(rows)
  BY <1>1, <1>2, SeqDef
<1>4. Len(order) \in Nat /\ DOMAIN order = 1 .. Len(order)
  BY <1>3, LenProperties
<1> QED
  BY <1>2, <1>4

LEMMA WindowTyped ==
  ASSUME NEW rows \in SUBSET Stored, NEW s, NEW end
  PROVE  /\ InWindow(s, end, rows) \in SUBSET rows
         /\ IsFiniteSet(InWindow(s, end, rows))
         /\ Risks(s, end, rows) \in SUBSET (0 .. 100)
<1>1. InWindow(s, end, rows) \in SUBSET rows
  BY DEF InWindow
<1>2. IsFiniteSet(Stored)
  <2> DEFINE f == [x \in Articles \X Hours |-> [article |-> x[1], published |-> x[2]]]
  <2>1. IsFiniteSet(Articles \X Hours)
    BY NewsAssumption, NewsBounds, FS_Product
  <2>2. f \in [Articles \X Hours -> Stored]
    BY DEF Stored
  <2>3. ASSUME NEW r \in Stored PROVE \E x \in Articles \X Hours : f[x] = r
    <3>1. <<r.article, r.published>> \in Articles \X Hours
      BY DEF Stored
    <3>2. f[<<r.article, r.published>>] = [article |-> r.article, published |-> r.published]
      BY <3>1
    <3>3. r = [article |-> r.article, published |-> r.published]
      BY DEF Stored
    <3> QED
      BY <3>1, <3>2, <3>3
  <2> HIDE DEF f
  <2>4. f \in Surjection(Articles \X Hours, Stored)
    BY <2>2, <2>3 DEF Surjection
  <2> QED
    BY <2>1, <2>4, FS_Surjection
<1>3. IsFiniteSet(InWindow(s, end, rows))
  BY <1>1, <1>2, FS_Subset
<1>4. \A r \in InWindow(s, end, rows) : RiskOf(r.article) \in 0 .. 100
  BY <1>1, RiskTyped DEF Stored
<1> QED
  BY <1>1, <1>3, <1>4 DEF Risks

\* What one reading gives is a score of a level that fits the rows it read.
LEMMA VerdictFits ==
  ASSUME NEW rows \in SUBSET Stored, NEW s, NEW end, NEW v \in Verdicts(s, end, rows)
  PROVE  v \in ScoreRow /\ v.level \in Levels /\ Fits(v, s, end, rows)
<1> DEFINE window == InWindow(s, end, rows)
<1>1. /\ window \in SUBSET rows /\ IsFiniteSet(window)
      /\ Risks(s, end, rows) \in SUBSET (0 .. 100)
  BY WindowTyped
<1>2. PICK order \in NewestFirst(window) : v = Verdict(order)
  BY DEF Verdicts
<1> HIDE DEF window
<1>3. /\ Len(order) \in Nat
      /\ \A i \in 1 .. Len(order) : order[i] \in window
  BY <1>1, <1>2, ReadingTyped
<1> DEFINE n == Min({Len(order), MaxArticles})
           ranks == [i \in 1 .. n |-> RankWeight(i)]
           risks == [i \in 1 .. n |-> RankWeight(i) * RiskOf(order[i].article)]
           weight == SumFunction(ranks)
           total == SumFunction(risks)
<1>4. n \in Nat /\ n <= Len(order) /\ n <= MaxArticles
  <2>1. Len(order) \in Int /\ MaxArticles \in Int /\ MaxArticles \in Nat
    BY <1>3, NewsBounds
  <2>2. n \in Int /\ n <= Len(order) /\ n <= MaxArticles
    BY ONLY <2>1, LeastOfTwo
  <2>3. \E x \in {Len(order), MaxArticles} : \A y \in {Len(order), MaxArticles} : x <= y
    BY <2>1
  <2>4. n \in {Len(order), MaxArticles}
    BY <2>3 DEF Min
  <2> QED
    BY <1>3, <2>1, <2>2, <2>4
<1>5. v = IF n = 0 THEN [count |-> 0, score |-> 0, level |-> "LOW"]
          ELSE [count |-> n, score |-> (100 * total) \div weight, level |-> LevelOf(total, weight)]
  BY <1>2 DEF Verdict
<1> HIDE DEF n
<1>6. CASE n = 0
  BY <1>5, <1>6 DEF ScoreRow, Levels, Fits
<1>7. CASE n # 0
  <2> DEFINE told == {RiskOf(order[i].article) : i \in 1 .. n}
  <2>1. \A i \in 1 .. n : /\ RiskOf(order[i].article) \in Risks(s, end, rows)
                          /\ RiskOf(order[i].article) \in 0 .. 100
                          /\ RankWeight(i) \in Nat \ {0}
    <3> SUFFICES ASSUME NEW i \in 1 .. n
                 PROVE  /\ RiskOf(order[i].article) \in Risks(s, end, rows)
                        /\ RiskOf(order[i].article) \in 0 .. 100
                        /\ RankWeight(i) \in Nat \ {0}
      OBVIOUS
    <3>1. i \in Nat /\ i \in 1 .. Len(order)
      BY <1>3, <1>4
    <3>2. RiskOf(order[i].article) \in Risks(s, end, rows)
      BY <1>3, <3>1 DEF Risks, window
    <3> QED
      BY <1>1, <3>1, <3>2, RankTyped
  <2>2. told \in SUBSET Int /\ told # {} /\ told \in SUBSET (0 .. 100)
    <3>1. 1 \in 1 .. n
      BY <1>4, <1>7
    <3>2. told \in SUBSET (0 .. 100)
      BY <2>1
    <3> QED
      BY <3>1, <3>2
  <2>3. IsFiniteSet(told)
    <3>1. 0 \in Int /\ 100 \in Int
      OBVIOUS
    <3>2. IsFiniteSet(0 .. 100)
      BY ONLY <3>1, FS_Interval
    <3> QED
      BY <2>2, <3>2, FS_Subset
  <2> DEFINE lo == Min(told)
             hi == Max(told)
  <2>4. lo \in told /\ hi \in told /\ \A x \in told : lo <= x /\ x <= hi
    BY <2>2, <2>3, ExtremesExist
  <2>5. lo \in Risks(s, end, rows) /\ hi \in Risks(s, end, rows)
    BY <2>1, <2>4
  <2>6. /\ lo \in Int /\ hi \in Int
        /\ \A i \in 1 .. n : lo <= RiskOf(order[i].article) /\ RiskOf(order[i].article) <= hi
    BY <2>2, <2>4
  <2> HIDE DEF told, lo, hi
  <2>7. IsFiniteSet(1 .. n) /\ 1 .. n # {}
    <3>1. 1 \in Int /\ n \in Int
      BY <1>4
    <3>2. IsFiniteSet(1 .. n)
      BY ONLY <3>1, FS_Interval
    <3> QED
      BY <1>4, <1>7, <3>2
  <2>8. \A i \in 1 .. n : /\ ranks[i] = RankWeight(i)
                          /\ risks[i] = RankWeight(i) * RiskOf(order[i].article)
    OBVIOUS
  <2>9. ranks \in [1 .. n -> Nat \ {0}] /\ ranks \in [1 .. n -> Int]
    BY <2>1
  <2>10. \A c \in Nat \ {0}, r \in Int :
           /\ c * r \in Int
           /\ lo <= r => lo * c <= c * r
           /\ r <= hi => c * r <= hi * c
    <3> SUFFICES ASSUME NEW c \in Nat \ {0}, NEW r \in Int
                 PROVE  /\ c * r \in Int
                        /\ lo <= r => lo * c <= c * r
                        /\ r <= hi => c * r <= hi * c
      OBVIOUS
    <3>1. /\ lo <= r => (r - lo) * c \in Nat
          /\ r <= hi => (hi - r) * c \in Nat
      BY <2>6
    <3>2. (r - lo) * c = c * r - lo * c /\ (hi - r) * c = hi * c - c * r
      BY <2>6
    <3> QED
      BY <2>6, <3>1, <3>2
  <2>11. risks \in [1 .. n -> Int]
    BY <2>1, <2>10
  <2>12. \A i \in 1 .. n : lo * ranks[i] <= risks[i] /\ risks[i] <= hi * ranks[i]
    BY <2>1, <2>6, <2>8, <2>10
  <2> HIDE DEF ranks, risks
  <2>13. weight \in Nat \ {0}
    BY <2>7, <2>9, SumPositive
  <2>14. total \in Int /\ lo * weight <= total /\ total <= hi * weight
    BY <2>6, <2>7, <2>9, <2>11, <2>12, SumWithin
  <2> HIDE DEF weight, total
  <2>15. /\ (100 * total) \div weight \in Int
         /\ 100 * lo <= (100 * total) \div weight /\ (100 * total) \div weight <= 100 * hi
         /\ total >= 70 * weight => hi >= 70
         /\ ~(total >= 45 * weight) => lo < 45
    BY <2>6, <2>13, <2>14, MeanWithin
  <2>16. v = [count |-> n, score |-> (100 * total) \div weight, level |-> LevelOf(total, weight)]
    BY <1>5, <1>7
  <2>17. /\ LevelOf(total, weight) \in Levels
         /\ LevelOf(total, weight) = "HIGH" => total >= 70 * weight
         /\ LevelOf(total, weight) = "LOW" => ~(total >= 45 * weight)
    BY DEF LevelOf, Levels
  <2> QED
    BY <1>4, <2>5, <2>15, <2>16, <2>17 DEF ScoreRow, Fits
<1> QED
  BY <1>6, <1>7

-----------------------------------------------------------------------------
(* The steps *)

\* More articles do not make a score misfit.
LEMMA FitsMore ==
  ASSUME NEW rows, NEW more, rows \subseteq more, NEW row, NEW s, NEW end,
         Fits(row, s, end, rows)
  PROVE  Fits(row, s, end, more)
<1>1. Risks(s, end, rows) \subseteq Risks(s, end, more)
  BY DEF Risks, InWindow
<1> QED
  BY <1>1 DEF Fits

LEMMA NoRowFits == NoRow \in ScoreRow /\ \A s, end, rows : Fits(NoRow, s, end, rows)
BY DEF NoRow, ScoreRow, Fits

LEMMA NoSummaryTyped ==
  /\ NoSummary \in Runs
  /\ NoSummary.end = 0 /\ NoSummary.fresh = {}
  /\ \A s \in Symbols : NoSummary.rows[s] = NoRow
BY NoRowFits, NewsBounds DEF NoSummary, Runs

\* A run that forgets what is fresh, and one that starts, is a run.
LEMMA RunForgets ==
  ASSUME NEW run \in Runs
  PROVE  /\ [run EXCEPT !.fresh = {}] \in Runs
         /\ [run EXCEPT !.fresh = {}].end = run.end
         /\ [run EXCEPT !.fresh = {}].rows = run.rows
         /\ [run EXCEPT !.fresh = {}].fresh = {}
BY DEF Runs

LEMMA RunStarts ==
  ASSUME NEW h \in Hours
  PROVE  LET run == [NoSummary EXCEPT !.turn = 1, !.end = h] IN
         /\ run \in Runs /\ run.end = h /\ run.rows = NoSummary.rows /\ run.fresh = {}
<1>1. NoSummary \in Runs /\ NoSummary.fresh = {}
  BY NoSummaryTyped
<1> QED
  BY <1>1 DEF Runs

LEMMA InitNews == Init => NewsInv
<1> SUFFICES ASSUME Init PROVE NewsInv
  OBVIOUS
<1>1. NewsTypeOK
  <2>1. NoIngest \in [feed : Nat, rows : SUBSET Stored]
    BY DEF NoIngest
  <2> QED
    BY <2>1, NoSummaryTyped, NoRowFits, NewsBounds DEF Init, NewsTypeOK
<1>2. RowsFit
  BY NoSummaryTyped, NoRowFits DEF Init, RowsFit
<1>3. NothingAhead
  BY NoSummaryTyped DEF Init, NothingAhead
<1>4. Timely
  BY NoSummaryTyped DEF Init, Timely
<1> QED
  BY <1>1, <1>2, <1>3, <1>4 DEF NewsInv

\* A feed gives rows one can store.
LEMMA FeedTyped == ASSUME NewsTypeOK, NEW feed PROVE RowsIn(feed) \in SUBSET Stored
<1>1. \A a \in Articles : a.published \in Hours \cup {Undated}
  BY NewsAssumption
<1>2. \A a \in Articles : RowOf(a) \in Stored
  BY <1>1 DEF RowOf, Stored, NewsTypeOK
<1> QED
  BY <1>2 DEF RowsIn

LEMMA IngestNews ==
  ASSUME NewsInv, StartIngest \/ ReadFeed \/ FailIngest
  PROVE  NewsInv'
<1>1. UNCHANGED <<hour, articles, scores, summary, current>>
  BY DEF StartIngest, ReadFeed, FailIngest
<1>2. ingest' \in [feed : Nat, rows : SUBSET Stored]
  <2>1. ingest \in [feed : Nat, rows : SUBSET Stored]
    BY DEF NewsInv, NewsTypeOK
  <2>2. CASE StartIngest \/ FailIngest
    BY <2>2 DEF StartIngest, FailIngest, NoIngest
  <2>3. CASE ReadFeed
    <3>1. RowsIn(FEEDS[ingest.feed]) \in SUBSET Stored
      BY FeedTyped DEF NewsInv
    <3>2. \/ ingest' = [feed |-> ingest.feed + 1,
                        rows |-> ingest.rows \cup (RowsIn(FEEDS[ingest.feed]) \ articles)]
          \/ ingest' = [ingest EXCEPT !.feed = @ + 1]
      BY <2>3 DEF ReadFeed
    <3> QED
      BY <2>1, <3>1, <3>2
  <2> QED
    BY <2>2, <2>3
<1>3. NewsTypeOK'
  BY <1>1, <1>2 DEF NewsInv, NewsTypeOK
<1> QED
  BY <1>1, <1>3 DEF NewsInv, RowsFit, NothingAhead, Timely

LEMMA CommitIngestNews == ASSUME NewsInv, CommitIngest PROVE NewsInv'
<1>1. /\ articles' = articles \cup ingest.rows /\ ingest' = NoIngest
      /\ UNCHANGED <<hour, scores>>
      /\ \/ ingest.rows = {} /\ UNCHANGED <<summary, current>>
         \/ summary' = [summary EXCEPT !.fresh = {}] /\ current' = {}
  BY DEF CommitIngest
<1>2. NewsTypeOK
  BY DEF NewsInv
<1>3. /\ summary' \in Runs
      /\ summary'.end = summary.end /\ summary'.rows = summary.rows
      /\ ingest.rows # {} => summary'.fresh = {} /\ current' = {}
      /\ ingest.rows = {} => UNCHANGED <<summary, current>>
  <2>1. summary \in Runs
    BY <1>2 DEF NewsTypeOK
  <2>2. ingest.rows = {} => UNCHANGED <<summary, current>>
    BY DEF CommitIngest
  <2>3. ingest.rows # {} => summary' = [summary EXCEPT !.fresh = {}] /\ current' = {}
    BY DEF CommitIngest
  <2> QED
    BY <2>1, <2>2, <2>3, RunForgets
<1>4. NewsTypeOK'
  BY <1>1, <1>2, <1>3 DEF NewsTypeOK, NoIngest
<1>5. RowsFit'
  <2>1. articles \subseteq articles'
    BY <1>1
  <2>2. RowsFit
    BY DEF NewsInv
  <2>3. ASSUME NEW s \in Symbols PROVE Fits(summary'.rows[s], s, summary'.end, articles')
    BY <1>3, <2>1, <2>2, FitsMore DEF RowsFit
  <2>4. ASSUME NEW s \in Symbols, NEW end \in Hours
        PROVE  Fits(scores'[s][end], s, end, articles')
    BY <1>1, <2>1, <2>2, FitsMore DEF RowsFit
  <2> QED
    BY <2>3, <2>4 DEF RowsFit
<1>6. NothingAhead'
  BY <1>1, <1>3 DEF NewsInv, NothingAhead
<1>7. Timely'
  <2>1. CASE ingest.rows = {}
    BY <1>1, <1>3, <2>1 DEF NewsInv, Timely
  <2>2. CASE ingest.rows # {}
    BY <1>3, <2>2 DEF Timely
  <2> QED
    BY <2>1, <2>2
<1> QED
  BY <1>4, <1>5, <1>6, <1>7 DEF NewsInv

\* A run that starts, fails or dies leaves no row behind.
LEMMA BlankSummaryNews ==
  ASSUME NewsInv, StartSummary \/ FailSummary \/ Crash
  PROVE  NewsInv'
<1>1. /\ UNCHANGED <<hour, articles, scores, current>>
      /\ ingest' \in {ingest, NoIngest}
      /\ summary' \in {NoSummary, [NoSummary EXCEPT !.turn = 1, !.end = hour]}
  BY DEF StartSummary, FailSummary, Crash
<1>2. NewsTypeOK /\ hour \in Hours /\ hour \in Nat
  BY NewsBounds DEF NewsInv, NewsTypeOK
<1>3. /\ summary' \in Runs
      /\ summary'.end \in {0, hour} /\ summary'.fresh = {}
      /\ \A s \in Symbols : summary'.rows[s] = NoRow
  <2>1. CASE summary' = NoSummary
    BY <2>1, NoSummaryTyped
  <2>2. CASE summary' = [NoSummary EXCEPT !.turn = 1, !.end = hour]
    <3>1. /\ summary' \in Runs /\ summary'.end = hour
          /\ summary'.rows = NoSummary.rows /\ summary'.fresh = {}
      BY <1>2, <2>2, RunStarts
    <3> QED
      BY <3>1, NoSummaryTyped
  <2> QED
    BY <1>1, <2>1, <2>2
<1>4. NewsTypeOK'
  BY <1>1, <1>2, <1>3 DEF NewsTypeOK, NoIngest
<1>5. RowsFit'
  BY <1>1, <1>3, NoRowFits DEF NewsInv, RowsFit
<1>6. NothingAhead'
  BY <1>1, <1>2, <1>3 DEF NewsInv, NothingAhead
<1>7. Timely'
  BY <1>1, <1>3 DEF NewsInv, Timely
<1> QED
  BY <1>4, <1>5, <1>6, <1>7 DEF NewsInv

LEMMA ScoreNews == ASSUME NewsInv, ScoreSymbol PROVE NewsInv'
<1>1. /\ UNCHANGED <<hour, articles, ingest, scores, current>>
      /\ summary.turn \in 1 .. Len(SYMBOLS)
  BY DEF ScoreSymbol
<1> DEFINE s == SYMBOLS[summary.turn]
<1>2. s \in Symbols
  BY <1>1 DEF Symbols
<1>3. PICK verdict \in Verdicts(s, summary.end, articles) :
        summary' = [summary EXCEPT !.turn = @ + 1, !.rows[s] = verdict,
                      !.fresh = IF summary.end = hour THEN @ \cup {s} ELSE @]
  BY DEF ScoreSymbol
<1> HIDE DEF s
<1>4. /\ NewsTypeOK /\ articles \in SUBSET Stored
      /\ summary \in Runs
  BY DEF NewsInv, NewsTypeOK
<1>5. verdict \in ScoreRow /\ Fits(verdict, s, summary.end, articles)
  BY <1>4, VerdictFits
<1>6. /\ summary' \in Runs
      /\ summary'.end = summary.end
      /\ summary'.rows = [summary.rows EXCEPT ![s] = verdict]
      /\ summary'.fresh = IF summary.end = hour THEN summary.fresh \cup {s} ELSE summary.fresh
  <2> DEFINE seen == IF summary.end = hour THEN summary.fresh \cup {s} ELSE summary.fresh
  <2>1. seen \in SUBSET Symbols
    BY <1>2, <1>4 DEF Runs
  <2>2. summary' = [summary EXCEPT !.turn = @ + 1, !.rows[s] = verdict, !.fresh = seen]
    BY <1>3
  <2> HIDE DEF seen
  <2> DEFINE rows == [summary.rows EXCEPT ![s] = verdict]
  <2>3. summary.turn + 1 \in Nat /\ summary.end \in Hours /\ rows \in [Symbols -> ScoreRow]
    BY <1>2, <1>4, <1>5 DEF Runs
  <2>4. summary' = [summary EXCEPT !.turn = summary.turn + 1, !.rows = rows, !.fresh = seen]
    BY <2>2
  <2> HIDE DEF rows
  <2>5. summary' = [turn |-> summary.turn + 1, end |-> summary.end, rows |-> rows, fresh |-> seen]
    BY <1>4, <2>4 DEF Runs
  <2> QED
    BY <2>1, <2>3, <2>5 DEF Runs, rows, seen
<1>7. /\ summary'.rows[s] = verdict
      /\ \A t \in Symbols : t # s => summary'.rows[t] = summary.rows[t]
  BY <1>2, <1>4, <1>6 DEF Runs
<1>8. NewsTypeOK'
  BY <1>1, <1>4, <1>6 DEF NewsTypeOK
<1>9. RowsFit'
  <2>1. RowsFit
    BY DEF NewsInv
  <2>2. ASSUME NEW t \in Symbols PROVE Fits(summary'.rows[t], t, summary.end, articles)
    <3>1. CASE t = s
      BY <1>5, <1>7, <3>1
    <3>2. CASE t # s
      BY <1>7, <2>1, <3>2 DEF RowsFit
    <3> QED
      BY <3>1, <3>2
  <2> QED
    BY <1>1, <1>6, <2>1, <2>2 DEF RowsFit
<1>10. NothingAhead'
  BY <1>1, <1>6 DEF NewsInv, NothingAhead
<1>11. Timely'
  <2>1. Timely
    BY DEF NewsInv
  <2>2. ASSUME NEW t \in summary'.fresh
        PROVE  summary.end = hour /\ summary'.rows[t] \in Verdicts(t, hour, articles)
    <3>1. CASE t = s /\ summary.end = hour
      BY <1>3, <1>7, <3>1
    <3>2. CASE t # s
      <4>1. t \in summary.fresh /\ t \in Symbols
        BY <1>4, <1>6, <3>2 DEF Runs
      <4> QED
        BY <1>7, <2>1, <3>2, <4>1 DEF Timely
    <3>3. CASE t = s /\ summary.end # hour
      BY <1>6, <2>1, <3>3 DEF Timely
    <3> QED
      BY <3>1, <3>2, <3>3
  <2> QED
    BY <1>1, <1>6, <2>1, <2>2 DEF Timely
<1> QED
  BY <1>8, <1>9, <1>10, <1>11 DEF NewsInv

LEMMA CommitSummaryNews == ASSUME NewsInv, CommitSummary PROVE NewsInv'
<1>1. /\ scores' = [s \in Symbols |-> [scores[s] EXCEPT ![summary.end] = summary.rows[s]]]
      /\ current' = IF summary.end = hour THEN summary.fresh ELSE current
      /\ summary' = NoSummary
      /\ UNCHANGED <<hour, articles, ingest>>
  BY DEF CommitSummary, Upserted
<1>2. /\ NewsTypeOK /\ summary.end \in Hours /\ hour \in Hours
      /\ summary.rows \in [Symbols -> ScoreRow] /\ summary.fresh \in SUBSET Symbols
      /\ scores \in [Symbols -> [Hours -> ScoreRow]] /\ current \in SUBSET Symbols
  BY DEF NewsInv, NewsTypeOK, Runs
<1>3. \A s \in Symbols :
        /\ scores'[s] \in [Hours -> ScoreRow]
        /\ scores'[s][summary.end] = summary.rows[s]
        /\ \A h \in Hours : h # summary.end => scores'[s][h] = scores[s][h]
  BY <1>1, <1>2
<1>4. scores' \in [Symbols -> [Hours -> ScoreRow]]
  BY <1>1, <1>3
<1>5. NewsTypeOK'
  BY <1>1, <1>2, <1>4, NoSummaryTyped DEF NewsTypeOK
<1>6. RowsFit'
  <2>1. RowsFit
    BY DEF NewsInv
  <2>2. ASSUME NEW s \in Symbols, NEW end \in Hours
        PROVE  Fits(scores'[s][end], s, end, articles)
    <3>1. CASE end = summary.end
      BY <1>3, <2>1, <3>1 DEF RowsFit
    <3>2. CASE end # summary.end
      BY <1>3, <2>1, <3>2 DEF RowsFit
    <3> QED
      BY <3>1, <3>2
  <2>3. \A s \in Symbols : Fits(summary'.rows[s], s, summary'.end, articles)
    BY <1>1, NoSummaryTyped, NoRowFits
  <2> QED
    BY <1>1, <2>2, <2>3 DEF RowsFit
<1>7. NothingAhead'
  <2>1. NothingAhead /\ summary.end \in Nat /\ hour \in Nat
    BY <1>2, NewsBounds DEF NewsInv
  <2>2. ASSUME NEW s \in Symbols, NEW h \in Hours, h > hour PROVE scores'[s][h] = NoRow
    <3>1. h # summary.end
      BY <2>1, <2>2, NewsBounds DEF NothingAhead
    <3> QED
      BY <1>3, <2>1, <2>2, <3>1 DEF NothingAhead
  <2> QED
    BY <1>1, <2>1, <2>2, NoSummaryTyped DEF NothingAhead
<1>8. Timely'
  <2>1. Timely
    BY DEF NewsInv
  <2>2. ASSUME NEW s \in current' PROVE scores'[s][hour] \in Verdicts(s, hour, articles)
    <3>1. CASE summary.end = hour
      BY <1>1, <1>2, <1>3, <2>1, <3>1 DEF Timely
    <3>2. CASE summary.end # hour
      BY <1>1, <1>2, <1>3, <2>1, <3>2 DEF Timely
    <3> QED
      BY <3>1, <3>2
  <2> QED
    BY <1>1, <2>2, NoSummaryTyped DEF Timely
<1> QED
  BY <1>5, <1>6, <1>7, <1>8 DEF NewsInv

LEMMA TickNews == ASSUME NewsInv, Tick PROVE NewsInv'
<1>1. /\ hour < LastHour /\ hour' = hour + 1
      /\ summary' = [summary EXCEPT !.fresh = {}] /\ current' = {}
      /\ UNCHANGED <<articles, ingest, scores>>
  BY DEF Tick
<1>2. /\ NewsTypeOK /\ hour \in Nat /\ hour' \in Hours
      /\ summary \in Runs
  BY <1>1, NewsBounds DEF NewsInv, NewsTypeOK, Hours
<1>3. /\ summary' \in Runs
      /\ summary'.end = summary.end /\ summary'.rows = summary.rows /\ summary'.fresh = {}
      /\ summary.end \in Nat
  <2>1. summary.end \in Hours
    BY <1>2 DEF Runs
  <2> QED
    BY <1>1, <1>2, <2>1, NewsBounds, RunForgets
<1>4. NewsTypeOK'
  BY <1>1, <1>2, <1>3 DEF NewsTypeOK
<1>5. RowsFit'
  BY <1>1, <1>3 DEF NewsInv, RowsFit
<1>6. NothingAhead'
  <2>1. \A h \in Hours : h > hour + 1 => h > hour
    BY <1>2, NewsBounds
  <2> QED
    BY <1>1, <1>2, <1>3, <2>1 DEF NewsInv, NothingAhead
<1>7. Timely'
  BY <1>1, <1>3 DEF Timely
<1> QED
  BY <1>4, <1>5, <1>6, <1>7 DEF NewsInv

LEMMA NextNews == NewsInv /\ [Next]_vars => NewsInv'
<1> SUFFICES ASSUME NewsInv, [Next]_vars PROVE NewsInv'
  OBVIOUS
<1>1. CASE StartIngest \/ ReadFeed \/ FailIngest
  BY <1>1, IngestNews
<1>2. CASE CommitIngest
  BY <1>2, CommitIngestNews
<1>3. CASE StartSummary \/ FailSummary \/ Crash
  BY <1>3, BlankSummaryNews
<1>4. CASE ScoreSymbol
  BY <1>4, ScoreNews
<1>5. CASE CommitSummary
  BY <1>5, CommitSummaryNews
<1>6. CASE Tick
  BY <1>6, TickNews
<1>7. CASE UNCHANGED <<hour, articles, ingest, scores, summary, current>>
  BY <1>7 DEF NewsInv, NewsTypeOK, RowsFit, NothingAhead, Timely
<1>8. (\E a \in Articles : Show(a) \/ Drop(a)) \/ UNCHANGED vars
        => UNCHANGED <<hour, articles, ingest, scores, summary, current>>
  BY DEF Show, Drop, vars
<1> QED
  BY <1>1, <1>2, <1>3, <1>4, <1>5, <1>6, <1>7, <1>8 DEF Next

-----------------------------------------------------------------------------
(* The theorems *)

\* Every state of the pipeline satisfies the invariant: the tables and the runs
\* of both jobs have their types, and what they hold fits the articles.
THEOREM NewsInvariance == FairSpec => []NewsInv
BY InitNews, NextNews, PTL DEF FairSpec

\* A committed score lies between those of the articles stored for its symbol
\* and window, and has its level from one of them.
THEOREM ScoresWithin == FairSpec => []ScoreWithinArticles
<1>1. ASSUME NewsInv PROVE ScoreWithinArticles
  <2> SUFFICES ASSUME NEW s \in Symbols, NEW end \in Hours, scores[s][end].count > 0
               PROVE  LET row   == scores[s][end]
                          risks == {RiskOf(r.article) : r \in
                                     {q \in articles :
                                        /\ q.published \in end - WindowHours .. end - 1
                                        /\ s \in SymbolsOf(q.article)}}
                      IN  /\ risks # {} /\ row.count <= MaxArticles
                          /\ 100 * Min(risks) <= row.score /\ row.score <= 100 * Max(risks)
                          /\ row.level = "HIGH" => Max(risks) >= 70
                          /\ row.level = "LOW"  => Min(risks) < 45
    BY DEF ScoreWithinArticles
  <2> DEFINE row == scores[s][end]
             risks == Risks(s, end, articles)
  <2>1. /\ NewsTypeOK /\ articles \in SUBSET Stored /\ row \in ScoreRow /\ end \in Nat
        /\ Fits(row, s, end, articles)
    BY <1>1, NewsBounds DEF NewsInv, NewsTypeOK, RowsFit
  <2>2. InWindow(s, end, articles)
          = {q \in articles : /\ q.published \in end - WindowHours .. end - 1
                              /\ s \in SymbolsOf(q.article)}
    <3>1. \A q \in articles : q.published \in Nat
      BY <2>1, NewsBounds DEF Stored
    <3>2. \A n \in Nat : n \in end - WindowHours .. end - 1
                           <=> n >= end - WindowHours /\ n < end
      BY <2>1, NewsBounds
    <3> QED
      BY <3>1, <3>2 DEF InWindow
  <2>3. risks = {RiskOf(r.article) : r \in
                   {q \in articles : /\ q.published \in end - WindowHours .. end - 1
                                     /\ s \in SymbolsOf(q.article)}}
    BY <2>2 DEF Risks
  <2>4. risks \in SUBSET (0 .. 100) /\ risks \in SUBSET Int /\ IsFiniteSet(risks)
    <3>1. risks \in SUBSET (0 .. 100)
      BY <2>1, WindowTyped
    <3>2. 0 \in Int /\ 100 \in Int
      OBVIOUS
    <3>3. IsFiniteSet(0 .. 100)
      BY ONLY <3>2, FS_Interval
    <3> QED
      BY <3>1, <3>3, FS_Subset
  <2> HIDE DEF risks
  <2>5. /\ row.count <= MaxArticles
        /\ \E lo, hi \in risks : /\ 100 * lo <= row.score /\ row.score <= 100 * hi
                                 /\ row.level = "HIGH" => hi >= 70
                                 /\ row.level = "LOW"  => lo < 45
    BY <2>1 DEF Fits, risks
  <2>6. PICK lo \in risks, hi \in risks :
               /\ 100 * lo <= row.score /\ row.score <= 100 * hi
               /\ row.level = "HIGH" => hi >= 70
               /\ row.level = "LOW"  => lo < 45
    BY <2>5
  <2>7. /\ Min(risks) \in risks /\ Min(risks) <= lo
        /\ Max(risks) \in risks /\ hi <= Max(risks)
    BY <2>4, ExtremesExist
  <2>8. /\ lo \in Int /\ hi \in Int /\ Min(risks) \in Int /\ Max(risks) \in Int
        /\ row.score \in Int
    BY <2>1, <2>4, <2>7 DEF ScoreRow
  <2>9. /\ risks # {} /\ row.count <= MaxArticles
        /\ 100 * Min(risks) <= row.score /\ row.score <= 100 * Max(risks)
        /\ row.level = "HIGH" => Max(risks) >= 70
        /\ row.level = "LOW"  => Min(risks) < 45
    BY <2>5, <2>6, <2>7, <2>8
  <2> QED
    BY <2>3, <2>9
<1> QED
  BY <1>1, NewsInvariance, PTL

\* As long as nothing was committed since and the hour is the same, the score
\* the assistant is told is that of all articles stored.
THEOREM CurrentScores == FairSpec => []ScoreIsCurrent
<1>1. ASSUME NewsInv PROVE ScoreIsCurrent
  <2> SUFFICES ASSUME NEW s \in current PROVE Told(s) \in Verdicts(s, hour, articles)
    BY DEF ScoreIsCurrent
  <2>1. /\ s \in Symbols /\ hour \in Hours /\ hour \in Nat /\ articles \in SUBSET Stored
        /\ scores[s][hour] \in Verdicts(s, hour, articles)
    BY <1>1, NewsBounds DEF NewsInv, NewsTypeOK, Timely
  <2>2. scores[s][hour] # NoRow
    <3>1. scores[s][hour].level \in Levels
      BY <2>1, VerdictFits
    <3> QED
      BY <3>1 DEF NoRow, Levels
  <2> DEFINE told == {h \in Hours : scores[s][h] # NoRow}
  <2>3. hour \in told /\ told \in SUBSET Nat
    <3>1. hour \in told
      BY <2>1, <2>2
    <3>2. told \in SUBSET Hours
      OBVIOUS
    <3> QED
      BY <3>1, <3>2, NewsBounds
  <2>4. \A h \in told : h <= hour
    BY <1>1, <2>1, <2>3 DEF NewsInv, NothingAhead
  <2>5. Max(told) = hour
    <3>1. \A x \in told : (\A y \in told : x >= y) => x = hour
      BY <2>1, <2>3, <2>4
    <3>2. \A y \in told : hour >= y
      BY <2>1, <2>3, <2>4
    <3> QED
      BY <2>3, <3>1, <3>2 DEF Max
  <2>6. Told(s) = scores[s][Max(told)]
    BY <2>3 DEF Told
  <2> QED
    BY <2>1, <2>5, <2>6
<1> QED
  BY <1>1, NewsInvariance, PTL

=============================================================================
