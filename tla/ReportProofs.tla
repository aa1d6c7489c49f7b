------------------------------ MODULE ReportProofs ------------------------------
(***************************************************************************)
(* Proofs about ReportJobs: what a report says of sales that are committed *)
(* while it is read, and how often it arrives, for every number of trades, *)
(* base URLs and retries; and about TradeReports: which entry each report  *)
(* reckons a sale against, for every history, window and limit.            *)
(***************************************************************************)
EXTENDS ReportJobs, TradeReports, FoldTheorems, SequenceTheorems, TLAPS

-----------------------------------------------------------------------------
(* The invariant *)

\* The places of a report job, and what it has left to read there.
JobShape ==
  /\ job.pc = "reading" =>
       \/ job.kind = "daily" /\ job.reads = <<"state", "rows">>
       \/ job.kind = "daily" /\ job.reads = <<"rows">>
       \/ job.kind = "weekly" /\ job.reads = <<"rows">>
  /\ job.counted \subseteq CountedSales(job.day)

\* Until its last post a report arrives unanswered each time, and no more often
\* than it was posted.
PostShape ==
  /\ received = unanswered \/ (job.pc = "idle" /\ received <= unanswered + 1)
  /\ IF job.pc = "posting" THEN received <= job.posts
     ELSE job.pc # "idle" => received = 0 /\ job.posts = 0

IInv == TypeOK /\ JobShape /\ PostShape /\ ProfitNeverAheadOfList

\* The number of posts of one report.
Limit == BaseUrls * MaxRetries

LEMMA LimitTyped == Limit \in Nat /\ Limit >= 1
<1>1. /\ BaseUrls \in Nat /\ BaseUrls >= 1 /\ MaxRetries \in Nat /\ MaxRetries >= 1
  BY JobAssumption
<1>2. BaseUrls * MaxRetries \in Nat /\ BaseUrls * MaxRetries >= BaseUrls
  BY <1>1
<1> QED
  BY <1>1, <1>2 DEF Limit

\* TypeOK, part by part.
JobRecord ==
  [kind : {"none", "daily", "weekly"}, pc : {"idle", "reading", "summary", "posting"},
   day : 0 .. LastDay, reads : Seq({"state", "rows"}),
   counted : SUBSET (1 .. MaxSales), listed : SUBSET (1 .. MaxSales),
   posts : 0 .. Limit - 1,
   log : {"none", "sent", "not accepted", "no data", "failed"}]

SalesTypeOK == sold \in Seq(0 .. LastDay) /\ Len(sold) <= MaxSales /\ today \in 0 .. LastDay

CopiesTypeOK == /\ received \in Nat /\ received <= Limit
                /\ unanswered \in Nat /\ unanswered <= received

LEMMA TypeParts == TypeOK <=> SalesTypeOK /\ job \in JobRecord /\ CopiesTypeOK
<1>1. (received \in 0 .. Limit /\ unanswered \in 0 .. received) <=> CopiesTypeOK
  BY LimitTyped DEF CopiesTypeOK
<1>2. TypeOK <=> SalesTypeOK /\ job \in JobRecord
                 /\ received \in 0 .. Limit /\ unanswered \in 0 .. received
  BY DEF TypeOK, SalesTypeOK, JobRecord, Limit
<1> QED
  BY <1>1, <1>2

LEMMA TypePartsNext ==
  TypeOK' <=> SalesTypeOK' /\ job' \in JobRecord /\ CopiesTypeOK'
<1>1. (received' \in 0 .. Limit /\ unanswered' \in 0 .. received') <=> CopiesTypeOK'
  BY LimitTyped DEF CopiesTypeOK
<1>2. TypeOK' <=> SalesTypeOK' /\ job' \in JobRecord
                  /\ received' \in 0 .. Limit /\ unanswered' \in 0 .. received'
  BY DEF TypeOK, SalesTypeOK, JobRecord, Limit
<1> QED
  BY <1>1, <1>2

\* The sales are a sequence of days.
LEMMA SalesTyped ==
  ASSUME SalesTypeOK
  PROVE  /\ DOMAIN sold = 1 .. Len(sold) /\ Len(sold) \in Nat
         /\ \A i \in DOMAIN sold : i \in 1 .. MaxSales /\ sold[i] \in 0 .. LastDay
<1>1. /\ DOMAIN sold = 1 .. Len(sold) /\ Len(sold) \in Nat
      /\ sold \in [1 .. Len(sold) -> 0 .. LastDay]
  BY LenProperties DEF SalesTypeOK
<1>2. MaxSales \in Nat /\ Len(sold) <= MaxSales
  BY JobAssumption DEF SalesTypeOK
<1>3. \A i \in 1 .. Len(sold) : i \in 1 .. MaxSales
  BY <1>1, <1>2
<1> QED
  BY <1>1, <1>3

\* What is read of a day's profit and of its rows are sales.
LEMMA ReadTyped ==
  ASSUME SalesTypeOK, NEW kind, NEW d \in 0 .. LastDay
  PROVE  /\ CountedSales(d) \in SUBSET (1 .. MaxSales)
         /\ ListedSales(kind, d) \in SUBSET (1 .. MaxSales)
         /\ CountedSales(d) \subseteq ListedSales("daily", d)
<1>1. CountedSales(d) \subseteq DOMAIN sold /\ ListedSales(kind, d) \subseteq DOMAIN sold
  BY DEF CountedSales, ListedSales
<1>2. DOMAIN sold \subseteq 1 .. MaxSales
  BY SalesTyped
<1>3. CountedSales(d) \subseteq ListedSales("daily", d)
  BY SalesTyped DEF CountedSales, ListedSales
<1> QED
  BY <1>1, <1>2, <1>3

-----------------------------------------------------------------------------
(* The steps *)

\* No report is at work at first.
LEMMA InitIInv == Init => IInv
<1> SUFFICES ASSUME Init PROVE IInv
  OBVIOUS
<1>1. sold = <<>> /\ today = 0 /\ job = Idle /\ received = 0 /\ unanswered = 0
  BY DEF Init
<1>2. SalesTypeOK /\ CopiesTypeOK
  BY <1>1, EmptySeq, JobAssumption, LimitTyped DEF SalesTypeOK, CopiesTypeOK
<1>3. <<>> \in Seq({"state", "rows"}) /\ 0 \in 0 .. LastDay /\ 0 \in 0 .. Limit - 1
  BY EmptySeq, JobAssumption, LimitTyped
<1>4. job \in JobRecord
  BY <1>1, <1>3 DEF Idle, JobRecord
<1>5. TypeOK
  BY <1>2, <1>4, TypeParts
<1> QED
  BY <1>1, <1>5 DEF Idle, IInv, JobShape, PostShape, ProfitNeverAheadOfList

\* A job starts with its reads and without a copy of its report.
LEMMA StartStep ==
  ASSUME IInv, NEW kind \in {"daily", "weekly"}, Start(kind)
  PROVE  IInv'
<1>1. /\ job' = [Idle EXCEPT !.kind = kind, !.pc = "reading", !.day = today, !.reads = Reads(kind)]
      /\ received' = 0 /\ unanswered' = 0 /\ UNCHANGED <<sold, today>>
  BY DEF Start
<1>2. SalesTypeOK
  BY TypeParts DEF IInv
<1>3. SalesTypeOK' /\ CopiesTypeOK'
  BY <1>1, <1>2, LimitTyped DEF SalesTypeOK, CopiesTypeOK
<1>4. job' = [kind |-> kind, pc |-> "reading", day |-> today, reads |-> Reads(kind),
              counted |-> {}, listed |-> {}, posts |-> 0, log |-> "none"]
  BY <1>1 DEF Idle
<1>5. \/ kind = "daily" /\ Reads(kind) = <<"state", "rows">>
      \/ kind = "weekly" /\ Reads(kind) = <<"rows">>
  BY DEF Reads
<1>6. <<"state", "rows">> \in Seq({"state", "rows"}) /\ <<"rows">> \in Seq({"state", "rows"})
  OBVIOUS
<1>7. Reads(kind) \in Seq({"state", "rows"})
  BY <1>5, <1>6
<1>8. today \in 0 .. LastDay /\ 0 \in 0 .. Limit - 1
  BY <1>2, LimitTyped DEF SalesTypeOK
<1>9. job' \in JobRecord
  BY <1>4, <1>7, <1>8 DEF JobRecord
<1>10. TypeOK'
  BY <1>3, <1>9, TypePartsNext
<1>11. /\ job'.pc = "reading" /\ job'.kind = kind /\ job'.reads = Reads(kind)
       /\ job'.counted = {} /\ job'.posts = 0
  BY <1>4
<1>12. JobShape'
  BY <1>5, <1>11 DEF JobShape
<1>13. PostShape' /\ ProfitNeverAheadOfList'
  BY <1>1, <1>11 DEF PostShape, ProfitNeverAheadOfList
<1> QED
  BY <1>10, <1>12, <1>13 DEF IInv

\* A read sees what is committed, and the rows after the profit.
LEMMA ReadStep == ASSUME IInv, Read PROVE IInv'
<1>1. job.pc = "reading" /\ UNCHANGED <<sold, today, received, unanswered>>
  BY DEF Read
<1>2. SalesTypeOK /\ job \in JobRecord /\ CopiesTypeOK /\ JobShape /\ PostShape
  BY TypeParts DEF IInv
<1>3. SalesTypeOK' /\ CopiesTypeOK'
  BY <1>1, <1>2 DEF SalesTypeOK, CopiesTypeOK
<1>4. /\ job.day \in 0 .. LastDay /\ received = 0 /\ unanswered = 0 /\ job.posts = 0
      /\ job.counted \subseteq CountedSales(job.day)
  BY <1>1, <1>2 DEF JobRecord, JobShape, PostShape
<1>5. \A d : CountedSales(d)' = CountedSales(d)
  BY <1>1 DEF CountedSales
<1>6. /\ CountedSales(job.day) \in SUBSET (1 .. MaxSales)
      /\ ListedSales(job.kind, job.day) \in SUBSET (1 .. MaxSales)
      /\ CountedSales(job.day) \subseteq ListedSales("daily", job.day)
  BY <1>2, <1>4, ReadTyped
<1>7. ASSUME job' = [job EXCEPT !.pc = "idle", !.log = "no data"]
      PROVE  IInv'
  <2>1. /\ job' \in JobRecord /\ job'.pc = "idle"
        /\ job'.counted = job.counted /\ job'.day = job.day
    BY <1>2, <1>7 DEF JobRecord
  <2>2. TypeOK'
    BY <1>3, <2>1, TypePartsNext
  <2> QED
    BY <1>1, <1>4, <1>5, <2>1, <2>2 DEF IInv, JobShape, PostShape, ProfitNeverAheadOfList
<1>8. ASSUME job.kind = "daily", job.reads = <<"state", "rows">>,
             job' = [job EXCEPT !.pc = "reading", !.reads = <<"rows">>,
                                !.counted = CountedSales(job.day)]
      PROVE  IInv'
  <2>1. <<"rows">> \in Seq({"state", "rows"})
    OBVIOUS
  <2>2. /\ job' \in JobRecord
        /\ job'.pc = "reading" /\ job'.reads = <<"rows">> /\ job'.kind = "daily"
        /\ job'.counted = CountedSales(job.day) /\ job'.day = job.day /\ job'.posts = job.posts
    BY <1>2, <1>6, <1>8, <2>1 DEF JobRecord
  <2>3. TypeOK'
    BY <1>3, <2>2, TypePartsNext
  <2> QED
    BY <1>1, <1>4, <1>5, <2>2, <2>3 DEF IInv, JobShape, PostShape, ProfitNeverAheadOfList
<1>9. ASSUME job.reads = <<"rows">>,
             job' = [job EXCEPT !.pc = "summary", !.reads = <<>>,
                                !.listed = ListedSales(job.kind, job.day)]
      PROVE  IInv'
  <2>1. <<>> \in Seq({"state", "rows"})
    OBVIOUS
  <2>2. /\ job' \in JobRecord
        /\ job'.pc = "summary" /\ job'.kind = job.kind /\ job'.counted = job.counted
        /\ job'.listed = ListedSales(job.kind, job.day) /\ job'.day = job.day
        /\ job'.posts = job.posts
    BY <1>2, <1>6, <1>9, <2>1 DEF JobRecord
  <2>3. TypeOK'
    BY <1>3, <2>2, TypePartsNext
  <2>4. ProfitNeverAheadOfList'
    BY <1>4, <1>6, <2>2 DEF ProfitNeverAheadOfList
  <2> QED
    BY <1>1, <1>4, <1>5, <2>2, <2>3, <2>4 DEF IInv, JobShape, PostShape
<1>10. CASE job.kind = "daily" /\ job.reads = <<"state", "rows">>
  <2>1. Head(job.reads) = "state" /\ Tail(job.reads) = <<"rows">> /\ <<"rows">> # <<>>
    BY <1>10
  <2> QED
    BY <1>7, <1>8, <1>10, <2>1 DEF Read
<1>11. CASE job.reads = <<"rows">>
  <2>1. Head(job.reads) = "rows" /\ Tail(job.reads) = <<>>
    BY <1>11
  <2> QED
    BY <1>9, <1>11, <2>1 DEF Read
<1> QED
  BY <1>1, <1>2, <1>10, <1>11 DEF JobShape

\* The summary changes nothing that was read.
LEMMA SummaryStep == ASSUME IInv, NEW kind, Summarised(kind) PROVE IInv'
<1>1. /\ job.pc = "summary" /\ job' = [job EXCEPT !.pc = "posting"]
      /\ UNCHANGED <<sold, today, received, unanswered>>
  BY DEF Summarised
<1>2. SalesTypeOK /\ job \in JobRecord /\ CopiesTypeOK
  BY TypeParts DEF IInv
<1>3. /\ job' \in JobRecord
      /\ job'.pc = "posting" /\ job'.kind = job.kind /\ job'.counted = job.counted
      /\ job'.listed = job.listed /\ job'.day = job.day /\ job'.posts = job.posts
  BY <1>1, <1>2 DEF JobRecord
<1>4. SalesTypeOK' /\ CopiesTypeOK'
  BY <1>1, <1>2 DEF SalesTypeOK, CopiesTypeOK
<1>5. TypeOK'
  BY <1>3, <1>4, TypePartsNext
<1> QED
  BY <1>1, <1>3, <1>5
  DEF IInv, JobShape, PostShape, ProfitNeverAheadOfList, CountedSales

\* A post arrives at most once, and an answered one is the last.
LEMMA PostStep ==
  ASSUME IInv, NEW arrives \in BOOLEAN, NEW answer \in {0, 200, 500}, Post(arrives, answer)
  PROVE  IInv'
<1>1. /\ job.pc = "posting" /\ (answer = 200 => arrives) /\ job' = AfterPost(answer)
      /\ received' = IF arrives THEN OneMore(received) ELSE received
      /\ unanswered' = IF arrives /\ answer # 200 THEN OneMore(unanswered) ELSE unanswered
      /\ UNCHANGED <<sold, today>>
  BY DEF Post
<1>2. SalesTypeOK /\ job \in JobRecord /\ CopiesTypeOK /\ JobShape /\ PostShape
  BY TypeParts DEF IInv
<1>3. /\ Limit \in Nat /\ job.posts \in Nat /\ job.posts < Limit
      /\ received \in Nat /\ received = unanswered /\ received <= job.posts
  <2>1. job.posts \in 0 .. Limit - 1
    BY <1>2 DEF JobRecord
  <2>2. received \in Nat
    BY <1>2 DEF CopiesTypeOK
  <2>3. received = unanswered /\ received <= job.posts
    BY <1>1, <1>2 DEF PostShape
  <2> QED
    BY <2>1, <2>2, <2>3, LimitTyped
<1>4. OneMore(received) = received + 1 /\ OneMore(unanswered) = unanswered + 1
  BY <1>3 DEF OneMore, Limit
<1>5. \/ received' = received /\ unanswered' = received
      \/ received' = received + 1 /\ unanswered' = received + 1
      \/ received' = received + 1 /\ unanswered' = received /\ answer = 200
  BY <1>1, <1>3, <1>4
<1>6. SalesTypeOK' /\ CopiesTypeOK'
  BY <1>1, <1>2, <1>3, <1>5 DEF SalesTypeOK, CopiesTypeOK
<1>7. received' <= unanswered' + 1
  BY <1>3, <1>5
<1>8. /\ job.counted \subseteq CountedSales(job.day)
      /\ \A d : CountedSales(d)' = CountedSales(d)
  BY <1>1, <1>2 DEF JobShape, CountedSales
<1>9. CASE answer # 200 /\ job.posts + 1 < Limit
  <2>1. job' = [job EXCEPT !.posts = job.posts + 1]
    BY <1>1, <1>9 DEF AfterPost, Limit
  <2>2. job.posts + 1 \in 0 .. Limit - 1
    BY <1>3, <1>9
  <2>3. /\ job' \in JobRecord
        /\ job'.pc = job.pc /\ job'.posts = job.posts + 1 /\ job'.kind = job.kind
        /\ job'.reads = job.reads /\ job'.counted = job.counted /\ job'.listed = job.listed
        /\ job'.day = job.day
    BY <1>2, <2>1, <2>2 DEF JobRecord
  <2>4. TypeOK'
    BY <1>6, <2>3, TypePartsNext
  <2>5. PostShape'
    BY <1>1, <1>3, <1>5, <1>9, <2>3 DEF PostShape
  <2> QED
    BY <1>1, <1>2, <2>3, <2>4, <2>5 DEF IInv, JobShape, ProfitNeverAheadOfList, CountedSales
<1>10. CASE answer = 200 \/ ~(job.posts + 1 < Limit)
  <2>1. PICK printed \in {"sent", "not accepted"} : job' = [job EXCEPT !.pc = "idle", !.log = printed]
    BY <1>1, <1>10 DEF AfterPost, Logged, Limit
  <2>2. /\ job' \in JobRecord
        /\ job'.pc = "idle" /\ job'.counted = job.counted /\ job'.day = job.day
    BY <1>2, <2>1 DEF JobRecord
  <2>3. TypeOK'
    BY <1>6, <2>2, TypePartsNext
  <2>4. PostShape'
    BY <1>7, <2>2 DEF PostShape
  <2>5. JobShape'
    BY <1>8, <2>2 DEF JobShape
  <2>6. ProfitNeverAheadOfList'
    BY <2>2 DEF ProfitNeverAheadOfList
  <2> QED
    BY <2>3, <2>4, <2>5, <2>6 DEF IInv
<1> QED
  BY <1>9, <1>10

\* A job that fails says no more.
LEMMA FailStep == ASSUME IInv, Fail PROVE IInv'
<1>1. /\ job' = [job EXCEPT !.pc = "idle", !.log = "failed"]
      /\ UNCHANGED <<sold, today, received, unanswered>>
  BY DEF Fail
<1>2. SalesTypeOK /\ job \in JobRecord /\ CopiesTypeOK /\ JobShape /\ PostShape
  BY TypeParts DEF IInv
<1>3. /\ job' \in JobRecord
      /\ job'.pc = "idle" /\ job'.counted = job.counted /\ job'.day = job.day
  BY <1>1, <1>2 DEF JobRecord
<1>4. SalesTypeOK' /\ CopiesTypeOK'
  BY <1>1, <1>2 DEF SalesTypeOK, CopiesTypeOK
<1>5. TypeOK'
  BY <1>3, <1>4, TypePartsNext
<1>6. received = unanswered \/ received <= unanswered + 1
  BY <1>2 DEF PostShape
<1>7. received <= unanswered + 1
  BY <1>2, <1>6 DEF CopiesTypeOK
<1> QED
  BY <1>1, <1>2, <1>3, <1>5, <1>7
  DEF IInv, JobShape, PostShape, ProfitNeverAheadOfList, CountedSales

\* A sale that is committed takes none out of a report.
LEMMA SellStep == ASSUME IInv, Sell PROVE IInv'
<1>1. Len(sold) < MaxSales /\ sold' = Append(sold, today)
      /\ UNCHANGED <<today, job, received, unanswered>>
  BY DEF Sell
<1>2. SalesTypeOK /\ job \in JobRecord /\ CopiesTypeOK /\ JobShape /\ PostShape
  BY TypeParts DEF IInv
<1>3. sold \in Seq(0 .. LastDay) /\ today \in 0 .. LastDay /\ MaxSales \in Nat
  BY <1>2, JobAssumption DEF SalesTypeOK
<1>4. /\ sold' \in Seq(0 .. LastDay) /\ Len(sold') = Len(sold) + 1
      /\ \A i \in 1 .. Len(sold) : sold'[i] = sold[i]
  BY <1>1, <1>3, AppendProperties
<1>5. Len(sold) \in Nat /\ DOMAIN sold = 1 .. Len(sold) /\ DOMAIN sold' = 1 .. Len(sold')
  BY <1>3, <1>4, LenProperties
<1>6. SalesTypeOK' /\ CopiesTypeOK' /\ job' \in JobRecord
  BY <1>1, <1>2, <1>3, <1>4, <1>5 DEF SalesTypeOK, CopiesTypeOK
<1>7. TypeOK'
  BY <1>6, TypePartsNext
<1>8. CountedSales(job.day) \subseteq CountedSales(job.day)'
  BY <1>1, <1>4, <1>5 DEF CountedSales
<1> QED
  BY <1>1, <1>7, <1>8 DEF IInv, JobShape, PostShape, ProfitNeverAheadOfList

\* Every step keeps the invariant.
LEMMA NextIInv == IInv /\ [Next]_vars => IInv'
<1> SUFFICES ASSUME IInv, [Next]_vars PROVE IInv'
  OBVIOUS
<1>1. CASE StartDaily \/ StartWeekly
  BY <1>1, StartStep DEF StartDaily, StartWeekly
<1>2. CASE Read
  BY <1>2, ReadStep
<1>3. CASE SummariseDaily \/ SummariseWeekly
  BY <1>3, SummaryStep DEF SummariseDaily, SummariseWeekly
<1>4. CASE \E arrives \in BOOLEAN, answer \in {0, 200, 500} : Post(arrives, answer)
  BY <1>4, PostStep
<1>5. CASE Fail
  BY <1>5, FailStep
<1>6. CASE Sell
  BY <1>6, SellStep
<1>7. CASE NextDay \/ UNCHANGED vars
  <2>1. UNCHANGED <<sold, job, received, unanswered>>
    BY <1>7 DEF NextDay, vars
  <2>2. SalesTypeOK /\ job \in JobRecord /\ CopiesTypeOK
    BY TypeParts DEF IInv
  <2>3. today' \in 0 .. LastDay
    BY <1>7, <2>2, JobAssumption DEF SalesTypeOK, NextDay, vars
  <2>4. TypeOK'
    BY <2>1, <2>2, <2>3, TypePartsNext DEF SalesTypeOK, CopiesTypeOK
  <2> QED
    BY <2>1, <2>4 DEF IInv, JobShape, PostShape, ProfitNeverAheadOfList, CountedSales
<1> QED
  BY <1>1, <1>2, <1>3, <1>4, <1>5, <1>6, <1>7 DEF Next, JobStep

\* Every state of the report jobs satisfies the invariant.
THEOREM ReportInvariance == Spec => []IInv
BY InitIInv, NextIInv, PTL DEF Spec

\* The profit of the daily report never speaks of a sale that its list does not
\* have: the rows are read after the risk row, and no row is too late for them.
THEOREM ProfitBehindList == Spec => []ProfitNeverAheadOfList
<1>1. IInv => ProfitNeverAheadOfList
  BY DEF IInv
<1> QED
  BY <1>1, ReportInvariance, PTL

\* A report arrives once more than answers to it were lost, at most, and
\* everything has its type.
THEOREM OneAnswered == Spec => []DuplicatesOnlyUnanswered
<1>1. ASSUME IInv PROVE DuplicatesOnlyUnanswered
  <2>1. CopiesTypeOK /\ TypeOK
    BY <1>1, TypeParts DEF IInv
  <2>2. received = unanswered \/ received <= unanswered + 1
    BY <1>1 DEF IInv, PostShape
  <2>3. received <= unanswered + 1
    BY <2>1, <2>2 DEF CopiesTypeOK
  <2> QED
    BY <2>1, <2>3 DEF DuplicatesOnlyUnanswered
<1> QED
  BY <1>1, ReportInvariance, PTL

-----------------------------------------------------------------------------
(* The inductive invariant of the history *)

\* When row n comes, the symbol of BUY b still holds the position it opened.
Held(b, n) ==
  /\ b \in Buys /\ b < n
  /\ \A k \in Trades : b < k /\ k < n => history[k].symbol # history[b].symbol

\* A BUY finds its symbol without a position.
BuysOK == \A i \in Buys, b \in Trades : Held(b, i) => history[b].symbol # history[i].symbol

\* A SELL sells the position it names, as a whole.
SalesOK ==
  \A i \in Sales : \E b \in Trades :
    /\ history[i].opened = b /\ Held(b, i)
    /\ history[b].symbol = history[i].symbol /\ history[b].qty = history[i].qty

\* The rows come in the order of their days.
DaysOK ==
  \A i \in Trades : history[i].day <= date /\ \A j \in Trades : i < j => history[i].day <= history[j].day

\* From the upgrade on every SELL has its entry recorded.
RecordsOK ==
  \A i \in Recorded : recording /\ \A j \in Sales : i < j => j \in Recorded

HistInv == HistoryTypeOK /\ BuysOK /\ SalesOK /\ DaysOK /\ RecordsOK

Row == [side : {"BUY", "SELL"}, symbol : Symbols, qty : Quantities, day : 0 .. LastDate,
        opened : 1 .. MaxRows, recorded : BOOLEAN,
        reason : Reasons \cup {"none"}, post : Points]

LEMMA BoundsTyped == /\ LastDate \in Nat /\ LastDate >= 1 /\ MaxRows \in Nat /\ MaxRows >= 1
                     /\ Quantities \subseteq Nat \ {0}
BY ReportAssumption

\* What HistoryTypeOK says of a row.
LEMMA RowTyped ==
  ASSUME HistoryTypeOK
  PROVE  /\ Len(history) \in Nat /\ Trades = 1 .. Len(history) /\ Trades \subseteq Nat \ {0}
         /\ \A i \in Trades : /\ history[i] \in Row
                              /\ history[i].qty \in Nat /\ history[i].qty > 0
                              /\ history[i].day \in Nat
         /\ Buys \subseteq Trades /\ Sales \subseteq Trades
         /\ \A i \in Trades : i \in Buys \/ i \in Sales
         /\ \A i \in Sales : i \notin Buys /\ history[i].side = "SELL"
         /\ \A i \in Buys : history[i].side = "BUY"
<1>1. history \in Seq(Row)
  BY DEF HistoryTypeOK, Row
<1>2. Len(history) \in Nat /\ \A i \in 1 .. Len(history) : history[i] \in Row
  BY <1>1
<1>3. \A i \in Trades : history[i].qty \in Quantities /\ history[i].day \in 0 .. LastDate
                        /\ history[i].side \in {"BUY", "SELL"}
  BY <1>2 DEF Row, Trades
<1>4. \A q \in Quantities : q \in Nat /\ q > 0
  BY BoundsTyped
<1>5. \A i \in Trades : history[i].qty \in Nat /\ history[i].qty > 0 /\ history[i].day \in Nat
  BY <1>3, <1>4
<1> QED
  BY <1>2, <1>3, <1>5 DEF Trades, Buys, Sales

LEMMA TradesFinite ==
  ASSUME HistoryTypeOK, NEW T \in SUBSET Trades
  PROVE  IsFiniteSet(T) /\ T \in SUBSET Int
<1>1. IsFiniteSet(1 .. Len(history))
  BY RowTyped, FS_Interval
<1> QED
  BY <1>1, RowTyped, FS_Subset

\* What OpenedBy finds is the position that is held.
LEMMA OpenedByIs ==
  ASSUME HistoryTypeOK, NEW symbol \in Symbols
  PROVE  /\ OpenedBy(symbol) = 0 =>
              \A b \in Trades : Held(b, Len(history) + 1) => history[b].symbol # symbol
         /\ OpenedBy(symbol) # 0 =>
              /\ OpenedBy(symbol) \in Trades
              /\ Held(OpenedBy(symbol), Len(history) + 1)
              /\ history[OpenedBy(symbol)].symbol = symbol
<1> DEFINE mine == {i \in Trades : history[i].symbol = symbol}
<1>1. OpenedBy(symbol) = IF mine = {} \/ Max(mine) \in Sales THEN 0 ELSE Max(mine)
  BY DEF OpenedBy
<1>2. mine # {} => Max(mine) \in mine /\ \A x \in mine : x <= Max(mine)
  <2>1. IsFiniteSet(mine) /\ mine \in SUBSET Int
    BY TradesFinite
  <2> HIDE DEF mine
  <2> QED
    BY <2>1, ExtremesExist
<1>3. ASSUME OpenedBy(symbol) = 0, NEW b \in Trades, Held(b, Len(history) + 1), history[b].symbol = symbol
      PROVE  FALSE
  <2>1. b \in mine /\ b \in Buys
    BY <1>3 DEF Held
  <2>2. Max(mine) \in mine /\ b <= Max(mine) /\ Max(mine) # 0
    BY <1>2, <2>1, RowTyped
  <2>3. Max(mine) \in Sales
    BY <1>1, <1>3, <2>1, <2>2
  <2>4. Max(mine) \in Trades /\ history[Max(mine)].symbol = symbol /\ Max(mine) < Len(history) + 1
    BY <2>2, RowTyped
  <2>5. ~(b < Max(mine))
    BY <1>3, <2>4 DEF Held
  <2>6. b = Max(mine)
    BY <2>2, <2>4, <2>5, RowTyped
  <2> QED
    BY <2>1, <2>3, <2>6, RowTyped
<1>4. ASSUME OpenedBy(symbol) # 0
      PROVE  /\ OpenedBy(symbol) \in Trades /\ Held(OpenedBy(symbol), Len(history) + 1)
             /\ history[OpenedBy(symbol)].symbol = symbol
  <2> DEFINE b == OpenedBy(symbol)
  <2>1. b \in mine /\ \A x \in mine : x <= b
    BY <1>1, <1>2, <1>4
  <2>2. b \notin Sales
    BY <1>1, <1>4
  <2>3. b \in Trades /\ history[b].symbol = symbol
    BY <2>1
  <2> HIDE DEF b
  <2>4. b \in Buys /\ b < Len(history) + 1
    BY <2>2, <2>3, RowTyped
  <2>5. \A k \in Trades : b < k => history[k].symbol # symbol
    BY <2>1, <2>3, RowTyped
  <2> QED
    BY <2>3, <2>4, <2>5 DEF b, Held
<1> QED
  BY <1>3, <1>4

\* A row more.
LEMMA Appended ==
  ASSUME HistoryTypeOK, NEW row, history' = Append(history, row)
  PROVE  /\ Len(history') = Len(history) + 1
         /\ Trades' = Trades \cup {Len(history) + 1} /\ Len(history) + 1 \notin Trades
         /\ history'[Len(history) + 1] = row
         /\ \A i \in Trades : history'[i] = history[i]
BY AppendProperties, RowTyped DEF Trades, HistoryTypeOK

\* A row more leaves what was held after the rows before it.
LEMMA HeldAppended ==
  ASSUME HistoryTypeOK, NEW row, history' = Append(history, row)
  PROVE  \A b \in Trades, n \in Int : n <= Len(history) + 1 => (Held(b, n)' <=> Held(b, n))
<1>1. /\ Trades' = Trades \cup {Len(history) + 1} /\ Len(history) + 1 \notin Trades
      /\ \A i \in Trades : history'[i] = history[i]
  BY Appended
<1>2. \A b \in Trades : b \in Buys' <=> b \in Buys
  BY <1>1 DEF Buys
<1>3. \A n \in Int : n <= Len(history) + 1 => ~(Len(history) + 1 < n)
  BY RowTyped
<1> SUFFICES ASSUME NEW b \in Trades, NEW n \in Int, n <= Len(history) + 1
             PROVE  Held(b, n)' <=> Held(b, n)
  OBVIOUS
<1> QED
  BY <1>1, <1>2, <1>3 DEF Held

\* A row that keeps to the rules keeps the invariant.
LEMMA RowAppended ==
  ASSUME HistInv, Len(history) < MaxRows, NEW row \in Row, row.day = date,
         row.side = "BUY" =>
           \A b \in Trades : Held(b, Len(history) + 1) => history[b].symbol # row.symbol,
         row.side = "SELL" =>
           /\ row.recorded = recording
           /\ \E b \in Trades : /\ row.opened = b /\ Held(b, Len(history) + 1)
                               /\ history[b].symbol = row.symbol /\ history[b].qty = row.qty,
         history' = Append(history, row), date' = date, recording' = recording
  PROVE  HistInv'
<1> DEFINE n == Len(history) + 1
<1>1. HistoryTypeOK
  BY DEF HistInv
<1>2. /\ Len(history') = n /\ Trades' = Trades \cup {n} /\ n \notin Trades
      /\ history'[n] = row /\ \A i \in Trades : history'[i] = history[i]
  BY <1>1, Appended
<1>3. HistoryTypeOK'
  <2>1. n \in Nat /\ n >= 1 /\ n <= MaxRows
    BY <1>1, RowTyped, BoundsTyped
  <2>2. history' \in Seq(Row)
    BY <1>1, AppendProperties DEF HistoryTypeOK, Row
  <2> QED
    BY <1>1, <1>2, <2>1, <2>2 DEF HistoryTypeOK, Row
<1>4. /\ Buys' = Buys \cup (IF row.side = "BUY" THEN {n} ELSE {})
      /\ Sales' = Sales \cup (IF row.side = "SELL" THEN {n} ELSE {})
  <2>1. row.side \in {"BUY", "SELL"}
    BY DEF Row
  <2> QED
    BY <1>1, <1>2, <2>1, RowTyped DEF Buys, Sales
<1>5. /\ n \in Nat /\ n = Len(history) + 1
      /\ \A i \in Trades : i \in Nat /\ i < n
  BY <1>1, RowTyped
<1>6. \A b \in Trades, m \in Int : m <= n => (Held(b, m)' <=> Held(b, m))
  BY <1>1, HeldAppended
<1>7. \A i \in Trades' : i \in Nat /\ i <= n /\ (i < n => i \in Trades)
  BY <1>2, <1>5
<1> HIDE DEF n
<1>9. BuysOK'
  <2> SUFFICES ASSUME NEW i \in Buys', NEW b \in Trades', Held(b, i)'
               PROVE  history'[b].symbol # history'[i].symbol
    BY DEF BuysOK
  <2>1. i \in Trades' /\ b < i
    BY DEF Held, Buys
  <2>2. b \in Trades
    BY <1>5, <1>7, <2>1
  <2>3. Held(b, i)
    BY <1>5, <1>6, <1>7, <2>1, <2>2
  <2>4. CASE i = n
    <3>1. row.side = "BUY"
      BY <1>2, <2>4 DEF Buys
    <3>2. history[b].symbol # row.symbol
      BY <1>5, <2>2, <2>3, <2>4, <3>1
    <3> QED
      BY <1>2, <2>2, <2>4, <3>2
  <2>5. CASE i \in Buys
    <3>1. i \in Trades /\ history[b].symbol # history[i].symbol
      BY <1>1, <2>2, <2>3, <2>5, RowTyped DEF HistInv, BuysOK
    <3> QED
      BY <1>2, <2>2, <3>1
  <2>6. i \in Buys \/ i = n
    BY <1>4
  <2> QED
    BY <2>4, <2>5, <2>6
<1>10. SalesOK'
  <2> SUFFICES ASSUME NEW i \in Sales'
               PROVE  \E b \in Trades' :
                        /\ history'[i].opened = b /\ Held(b, i)'
                        /\ history'[b].symbol = history'[i].symbol /\ history'[b].qty = history'[i].qty
    BY DEF SalesOK
  <2>1. CASE i \in Sales
    <3>1. i \in Trades /\ history'[i] = history[i]
      BY <1>1, <1>2, <2>1, RowTyped
    <3>2. PICK b \in Trades : /\ history[i].opened = b /\ Held(b, i)
                              /\ history[b].symbol = history[i].symbol /\ history[b].qty = history[i].qty
      BY <2>1 DEF HistInv, SalesOK
    <3>3. i \in Int /\ i <= n
      BY ONLY <1>5, <3>1
    <3>4. Held(b, i)' /\ b \in Trades' /\ history'[b] = history[b]
      BY ONLY <1>2, <1>6, <3>2, <3>3
    <3> QED
      BY ONLY <3>1, <3>2, <3>4
  <2>2. CASE i = n /\ row.side = "SELL"
    <3>1. PICK b \in Trades : /\ row.opened = b /\ Held(b, i)
                              /\ history[b].symbol = row.symbol /\ history[b].qty = row.qty
      BY <1>5, <2>2
    <3>2. i \in Int /\ i <= n /\ history'[i] = row
      BY <1>2, <1>5, <2>2
    <3>3. Held(b, i)' /\ b \in Trades' /\ history'[b] = history[b]
      BY ONLY <1>2, <1>6, <3>1, <3>2
    <3> QED
      BY ONLY <3>1, <3>2, <3>3
  <2> QED
    BY <1>4, <2>1, <2>2
<1>11. DaysOK'
  <2>1. date \in Nat /\ \A i \in Trades : history[i].day \in Nat /\ history[i].day <= date
    BY <1>1, BoundsTyped, RowTyped DEF HistoryTypeOK, HistInv, DaysOK
  <2>2. history'[n].day = date /\ \A i \in Trades' : history'[i].day <= date
    <3>1. history'[n].day = date
      BY <1>2
    <3> QED
      BY ONLY <1>2, <2>1, <3>1
  <2>3. ASSUME NEW i \in Trades', NEW j \in Trades', i < j
        PROVE  history'[i].day <= history'[j].day
    <3>1. i \in Trades
      BY <1>5, <1>7, <2>3
    <3>2. CASE j = n
      BY <2>2, <3>2
    <3>3. CASE j \in Trades
      BY <1>2, <2>3, <3>1, <3>3 DEF HistInv, DaysOK
    <3> QED
      BY <1>2, <3>2, <3>3
  <2> QED
    BY <2>2, <2>3 DEF DaysOK
<1>12. RecordsOK'
  <2>1. /\ \A i \in Recorded' : i \in Recorded \/ (i = n /\ recording)
        /\ \A i \in Recorded : i \in Recorded' /\ i \in Trades
        /\ recording /\ row.side = "SELL" => n \in Recorded'
    BY <1>1, <1>2, <1>4, RowTyped DEF Recorded
  <2>2. ASSUME NEW i \in Recorded', NEW j \in Sales', i < j
        PROVE  recording /\ j \in Recorded'
    <3>1. j \in Trades' /\ i \in Recorded /\ recording
      <4>1. j \in Trades' /\ i \in Trades'
        BY DEF Sales, Recorded
      <4>2. i # n
        BY <1>5, <1>7, <2>2, <4>1
      <4> QED
        BY <2>1, <4>1, <4>2 DEF HistInv, RecordsOK
    <3>2. CASE j = n
      <4>1. row.side = "SELL"
        BY <1>1, <1>2, <1>4, <3>2, RowTyped
      <4> QED
        BY <2>1, <3>1, <3>2, <4>1
    <3>3. CASE j \in Sales
      BY <2>1, <2>2, <3>1, <3>3 DEF HistInv, RecordsOK
    <3> QED
      BY <1>4, <3>1, <3>2, <3>3
  <2>3. \A i \in Recorded' : recording
    BY <2>1 DEF HistInv, RecordsOK
  <2> QED
    BY <2>2, <2>3 DEF RecordsOK
<1> QED
  BY <1>3, <1>9, <1>10, <1>11, <1>12 DEF HistInv

LEMMA UntrackedTyped == Untracked \in Points
<1>1. Untracked \in [{} -> Changes] /\ {} \in SUBSET Windows
  BY DEF Untracked
<1> QED
  BY <1>1 DEF Points

LEMMA PointTyped ==
  ASSUME NEW post \in Points, NEW window \in Windows, NEW change \in Changes
  PROVE  WithPoint(post, window, change) \in Points
<1>1. PICK windows \in SUBSET Windows : post \in [windows -> Changes]
  BY DEF Points
<1>2. /\ windows \cup {window} \in SUBSET Windows
      /\ WithPoint(post, window, change) \in [windows \cup {window} -> Changes]
  BY <1>1 DEF WithPoint
<1> QED
  BY <1>2 DEF Points

LEMMA OpenPositionStep ==
  ASSUME HistInv, NEW symbol \in Symbols, NEW qty \in Quantities, OpenPosition(symbol, qty)
  PROVE  HistInv'
<1> DEFINE row == [side |-> "BUY", symbol |-> symbol, qty |-> qty, day |-> date,
                   opened |-> Len(history) + 1, recorded |-> FALSE,
                   reason |-> "none", post |-> Untracked]
<1>1. /\ HistoryTypeOK /\ Len(history) < MaxRows /\ OpenedBy(symbol) = 0
      /\ history' = Append(history, row) /\ date' = date /\ recording' = recording
  BY DEF OpenPosition, HistInv
<1>2. Len(history) + 1 \in 1 .. MaxRows
  BY <1>1, RowTyped, BoundsTyped
<1>3. row \in Row /\ row.day = date /\ row.side = "BUY" /\ row.symbol = symbol
  BY <1>1, <1>2, UntrackedTyped DEF Row, HistoryTypeOK
<1>4. \A b \in Trades : Held(b, Len(history) + 1) => history[b].symbol # symbol
  BY <1>1, OpenedByIs
<1> HIDE DEF row
<1> QED
  BY <1>1, <1>3, <1>4, RowAppended

LEMMA ClosePositionStep ==
  ASSUME HistInv, NEW symbol \in Symbols, NEW reason \in Reasons, ClosePosition(symbol, reason)
  PROVE  HistInv'
<1> DEFINE b == OpenedBy(symbol)
           row == [side |-> "SELL", symbol |-> symbol, qty |-> history[b].qty, day |-> date,
                   opened |-> b, recorded |-> recording, reason |-> reason, post |-> Untracked]
<1>1. /\ HistoryTypeOK /\ Len(history) < MaxRows /\ b # 0
      /\ history' = Append(history, row) /\ date' = date /\ recording' = recording
  BY DEF ClosePosition, HistInv, SoldQuantity
<1>2. b \in Trades /\ Held(b, Len(history) + 1) /\ history[b].symbol = symbol
  BY <1>1, OpenedByIs
<1> HIDE DEF b
<1>3. row \in Row
  <2>1. history[b].qty \in Quantities
    BY <1>1, <1>2, RowTyped DEF Row
  <2>2. b \in 1 .. MaxRows
    BY <1>1, <1>2, RowTyped, BoundsTyped
  <2> QED
    BY <1>1, <2>1, <2>2, UntrackedTyped DEF Row, HistoryTypeOK
<1>4. /\ row.day = date /\ row.side = "SELL" /\ row.symbol = symbol /\ row.recorded = recording
      /\ row.opened = b /\ row.qty = history[b].qty
  OBVIOUS
<1> HIDE DEF row
<1> QED
  BY <1>1, <1>2, <1>3, <1>4, RowAppended

\* A point changes nothing but the points of its row.
LEMMA Tracked ==
  ASSUME HistoryTypeOK, NEW i \in Trades, NEW window \in Windows, NEW change \in Changes,
         TrackPoint(i, window, change)
  PROVE  /\ HistoryTypeOK' /\ Len(history') = Len(history) /\ Trades' = Trades
         /\ Buys' = Buys /\ Sales' = Sales /\ Recorded' = Recorded
         /\ \A k \in Trades : /\ history'[k].side = history[k].side
                              /\ history'[k].symbol = history[k].symbol
                              /\ history'[k].qty = history[k].qty
                              /\ history'[k].day = history[k].day
                              /\ history'[k].opened = history[k].opened
                              /\ history'[k].recorded = history[k].recorded
                              /\ history'[k].reason = history[k].reason
                              /\ history'[k].post = (IF k = i THEN WithPoint(history[i].post, window, change)
                                                     ELSE history[k].post)
         /\ date' = date /\ recording' = recording
<1> DEFINE new == WithPoint(history[i].post, window, change)
<1>1. history \in Seq(Row) /\ history \in [1 .. Len(history) -> Row] /\ Len(history) \in Nat
  <2>1. history \in Seq(Row)
    BY DEF HistoryTypeOK, Row
  <2> QED
    BY ONLY <2>1, LenProperties
<1>2. /\ history' = [history EXCEPT ![i].post = new] /\ date' = date /\ recording' = recording
      /\ i \in 1 .. Len(history)
  BY DEF TrackPoint, Trades
<1> HIDE DEF new
<1>3. [history[i] EXCEPT !.post = new] \in Row
  <2>1. history[i] \in Row /\ history[i].post \in Points
    BY ONLY <1>1, <1>2 DEF Row
  <2>2. new \in Points
    BY <2>1, PointTyped DEF new
  <2> QED
    BY ONLY <2>1, <2>2 DEF Row
<1>4. /\ history' \in [1 .. Len(history) -> Row]
      /\ \A k \in 1 .. Len(history) :
           history'[k] = IF k = i THEN [history[k] EXCEPT !.post = new] ELSE history[k]
  BY <1>1, <1>2, <1>3
<1>5. history' \in Seq(Row) /\ Len(history') = Len(history)
  BY <1>1, <1>4, SeqDef, LenProperties
<1>6. Trades' = Trades /\ Trades = 1 .. Len(history)
  BY <1>5 DEF Trades
<1>7. \A k \in Trades : /\ history'[k].side = history[k].side
                        /\ history'[k].symbol = history[k].symbol
                        /\ history'[k].qty = history[k].qty
                        /\ history'[k].day = history[k].day
                        /\ history'[k].opened = history[k].opened
                        /\ history'[k].recorded = history[k].recorded
                        /\ history'[k].reason = history[k].reason
                        /\ history'[k].post = (IF k = i THEN new ELSE history[k].post)
  <2> SUFFICES ASSUME NEW k \in Trades
               PROVE  /\ history'[k].side = history[k].side
                      /\ history'[k].symbol = history[k].symbol
                      /\ history'[k].qty = history[k].qty
                      /\ history'[k].day = history[k].day
                      /\ history'[k].opened = history[k].opened
                      /\ history'[k].recorded = history[k].recorded
                      /\ history'[k].reason = history[k].reason
                      /\ history'[k].post = (IF k = i THEN new ELSE history[k].post)
    OBVIOUS
  <2>1. k \in 1 .. Len(history)
    BY ONLY <1>6, k \in Trades
  <2>2. CASE k # i
    BY ONLY <1>4, <2>1, <2>2
  <2>3. CASE k = i
    <3>1. history[k] \in Row /\ history'[k] = [history[k] EXCEPT !.post = new]
      BY ONLY <1>1, <1>4, <2>1, <2>3
    <3> QED
      BY ONLY <2>3, <3>1 DEF Row
  <2> QED
    BY ONLY <2>2, <2>3
<1>8. HistoryTypeOK'
  BY <1>2, <1>5 DEF HistoryTypeOK, Row
<1>9. Buys' = Buys /\ Sales' = Sales
  BY <1>6, <1>7 DEF Buys, Sales
<1>10. Recorded' = Recorded
  BY <1>6, <1>7, <1>9 DEF Recorded, Sales
<1> QED
  BY <1>2, <1>5, <1>6, <1>7, <1>8, <1>9, <1>10 DEF new

LEMMA TrackPointStep ==
  ASSUME HistInv, NEW i \in Trades, NEW window \in Windows, NEW change \in Changes,
         TrackPoint(i, window, change)
  PROVE  HistInv'
<1>1. HistoryTypeOK
  BY DEF HistInv
<1>2. /\ HistoryTypeOK' /\ Trades' = Trades
      /\ Buys' = Buys /\ Sales' = Sales /\ Recorded' = Recorded
      /\ \A k \in Trades : /\ history'[k].symbol = history[k].symbol
                           /\ history'[k].qty = history[k].qty
                           /\ history'[k].day = history[k].day
                           /\ history'[k].opened = history[k].opened
      /\ date' = date /\ recording' = recording
  BY <1>1, Tracked
<1>3. Buys \subseteq Trades /\ Sales \subseteq Trades
  BY <1>1, RowTyped
<1>4. \A b \in Trades, n \in Trades : Held(b, n)' <=> Held(b, n)
  BY ONLY <1>2 DEF Held
<1>5. BuysOK'
  BY ONLY HistInv, <1>2, <1>3, <1>4 DEF HistInv, BuysOK
<1>6. SalesOK'
  BY ONLY HistInv, <1>2, <1>3, <1>4 DEF HistInv, SalesOK
<1>7. DaysOK' /\ RecordsOK'
  BY ONLY HistInv, <1>2 DEF HistInv, DaysOK, RecordsOK
<1> QED
  BY <1>2, <1>5, <1>6, <1>7 DEF HistInv

LEMMA UpgradeStep == ASSUME HistInv, Upgrade PROVE HistInv'
<1>1. history' = history /\ date' = date /\ recording' = TRUE
  BY DEF Upgrade
<1>2. HistoryTypeOK'
  BY <1>1 DEF HistInv, HistoryTypeOK
<1>3. BuysOK' /\ SalesOK' /\ DaysOK'
  BY <1>1 DEF HistInv, BuysOK, SalesOK, DaysOK, Held, Trades, Buys, Sales
<1>4. RecordsOK'
  BY <1>1 DEF HistInv, RecordsOK, Recorded, Trades, Buys, Sales
<1> QED
  BY <1>2, <1>3, <1>4 DEF HistInv

LEMMA NextDateStep == ASSUME HistInv, NextDate PROVE HistInv'
<1>1. history' = history /\ date' = date + 1 /\ date < LastDate /\ recording' = recording
  BY DEF NextDate
<1>2. HistoryTypeOK /\ date \in Nat /\ \A i \in Trades : history[i].day \in Nat
  BY BoundsTyped, RowTyped DEF HistInv, HistoryTypeOK
<1>3. date + 1 \in 0 .. LastDate
  BY <1>1, <1>2, BoundsTyped
<1>4. HistoryTypeOK'
  BY <1>1, <1>2, <1>3 DEF HistoryTypeOK
<1>5. BuysOK' /\ SalesOK' /\ RecordsOK'
  BY <1>1 DEF HistInv, BuysOK, SalesOK, RecordsOK, Recorded, Held, Trades, Buys, Sales
<1>6. DaysOK'
  <2>1. \A i \in Trades : history[i].day <= date + 1
    BY <1>2 DEF HistInv, DaysOK
  <2> QED
    BY <1>1, <2>1 DEF HistInv, DaysOK, Trades
<1> QED
  BY <1>4, <1>5, <1>6 DEF HistInv

\* No reachable history breaks the rules the reports match by.
THEOREM HistoryInvariance == HistorySpec => []HistInv
<1>1. HistoryInit => HistInv
  <2> SUFFICES ASSUME HistoryInit PROVE HistInv
    OBVIOUS
  <2>1. history = <<>> /\ date = 0 /\ recording = FALSE
    BY DEF HistoryInit
  <2>2. Len(history) = 0 /\ Trades = {}
    BY <2>1 DEF Trades
  <2>3. Buys = {} /\ Sales = {} /\ Recorded = {}
    BY <2>2 DEF Buys, Sales, Recorded
  <2>4. HistoryTypeOK
    <3>1. history \in Seq(Row)
      BY ONLY <2>1, EmptySeq
    <3>2. Len(history) <= MaxRows /\ date \in 0 .. LastDate
      BY ONLY <2>1, <2>2, BoundsTyped
    <3>3. recording \in BOOLEAN
      BY ONLY <2>1, Zenon
    <3> QED
      BY ONLY <3>1, <3>2, <3>3 DEF HistoryTypeOK, Row
  <2> QED
    BY <2>2, <2>3, <2>4 DEF HistInv, BuysOK, SalesOK, DaysOK, RecordsOK
<1>2. HistInv /\ [HistoryNext]_historyVars => HistInv'
  <2> SUFFICES ASSUME HistInv, [HistoryNext]_historyVars PROVE HistInv'
    OBVIOUS
  <2>1. ASSUME NEW symbol \in Symbols, NEW qty \in Quantities, OpenPosition(symbol, qty) PROVE HistInv'
    BY <2>1, OpenPositionStep
  <2>2. ASSUME NEW symbol \in Symbols, NEW reason \in Reasons, ClosePosition(symbol, reason)
        PROVE  HistInv'
    BY <2>2, ClosePositionStep
  <2>3. ASSUME NEW i \in Trades, NEW window \in Windows, NEW change \in Changes,
               TrackPoint(i, window, change)
        PROVE  HistInv'
    BY <2>3, TrackPointStep
  <2>4. CASE Upgrade
    BY <2>4, UpgradeStep
  <2>5. CASE NextDate
    BY <2>5, NextDateStep
  <2>6. CASE UNCHANGED historyVars
    <3>1. history' = history /\ date' = date /\ recording' = recording
      BY <2>6 DEF historyVars
    <3>2. HistoryTypeOK'
      BY <3>1 DEF HistInv, HistoryTypeOK
    <3>3. BuysOK' /\ SalesOK' /\ DaysOK'
      BY <3>1 DEF HistInv, BuysOK, SalesOK, DaysOK, Held, Trades, Buys, Sales
    <3>4. RecordsOK'
      BY <3>1 DEF HistInv, RecordsOK, Recorded, Trades, Buys, Sales
    <3> QED
      BY <3>2, <3>3, <3>4 DEF HistInv
  <2> QED
    BY <2>1, <2>2, <2>3, <2>4, <2>5, <2>6 DEF HistoryNext
<1> QED
  BY <1>1, <1>2, PTL DEF HistorySpec

-----------------------------------------------------------------------------
(* Matching *)

\* The units of a symbol: a BUY of it adds its own.
LEMMA UnitsStep ==
  ASSUME HistoryTypeOK, NEW symbol
  PROVE  /\ \A n \in Int : Units(symbol, n) \in Int
         /\ \A n \in Trades :
              Units(symbol, n) = Units(symbol, n - 1)
                + IF n \in Buys /\ history[n].symbol = symbol THEN history[n].qty ELSE 0
<1> DEFINE f(n) == [i \in Trades |->
                      IF i <= n /\ i \in Buys /\ history[i].symbol = symbol THEN history[i].qty ELSE 0]
<1>1. IsFiniteSet(Trades)
  BY TradesFinite
<1>2. \A n : f(n) \in [Trades -> Int]
  BY RowTyped
<1>3. \A n : Units(symbol, n) = SumFunction(f(n))
  BY DEF Units
<1>4. ASSUME NEW n \in Trades
      PROVE  /\ \A x \in Trades : x # n => f(n)[x] = f(n - 1)[x]
             /\ f(n - 1)[n] = 0
             /\ f(n)[n] = IF n \in Buys /\ history[n].symbol = symbol THEN history[n].qty ELSE 0
  <2>1. n \in Int /\ \A x \in Trades : x \in Int
    BY RowTyped
  <2>2. n <= n /\ ~(n <= n - 1) /\ \A x \in Trades : x # n => (x <= n <=> x <= n - 1)
    BY <2>1
  <2> QED
    BY <2>2
<1> HIDE DEF f
<1>5. \A n \in Int : Units(symbol, n) \in Int
  BY <1>1, <1>2, <1>3, SumFunctionTyped
<1>6. ASSUME NEW n \in Trades
      PROVE  Units(symbol, n) = Units(symbol, n - 1)
                + IF n \in Buys /\ history[n].symbol = symbol THEN history[n].qty ELSE 0
  <2>1. SumFunction(f(n)) = SumFunction(f(n - 1)) + (f(n)[n] - f(n - 1)[n])
    BY <1>1, <1>2, <1>4, SumChanged
  <2>2. f(n)[n] \in Int
    BY <1>2
  <2> QED
    BY <1>3, <1>4, <2>1, <2>2
<1> QED
  BY <1>5, <1>6

\* Taken, row by row.
LEMMA TakenStep ==
  ASSUME NEW start \in Int, NEW wanted \in Seq(Int), NEW offered \in Seq(Int),
         Len(offered) = Len(wanted), NEW taken, taken = Taken(start, wanted, offered)
  PROVE  /\ taken[0] = start
         /\ \A n \in 0 .. Len(wanted) : taken[n] \in Int
         /\ \A n \in 1 .. Len(wanted) :
              taken[n] = IF wanted[n] = 0 THEN taken[n - 1]
                         ELSE IF taken[n - 1] + wanted[n] <= offered[n] THEN taken[n - 1] + wanted[n]
                         ELSE offered[n]
<1> DEFINE Value(h, n) == IF n = 0 THEN start
                          ELSE IF wanted[n] = 0 THEN h[n - 1]
                          ELSE Least(h[n - 1] + wanted[n], offered[n])
           Good == {n \in Nat : \E h : h = [m \in 0 .. n |-> Value(h, m)]}
           k == Len(wanted)
           chosen == CHOOSE h : h = [m \in 0 .. k |-> Value(h, m)]
<1>4. k \in Nat /\ \A n \in 1 .. k : wanted[n] \in Int /\ offered[n] \in Int
  OBVIOUS
<1>5. taken = chosen
  BY DEF Taken
<1> HIDE DEF k
<1>1. 0 \in Good
  <2> DEFINE h == [m \in 0 .. 0 |-> start]
  <2>1. h = [m \in 0 .. 0 |-> Value(h, m)]
    OBVIOUS
  <2> QED
    BY <2>1
<1>2. ASSUME NEW n \in Good PROVE n + 1 \in Good
  <2>1. PICK g : g = [m \in 0 .. n |-> Value(g, m)]
    BY <1>2
  <2>2. n \in Nat
    BY <1>2
  <2> DEFINE h == [m \in 0 .. n + 1 |-> Value(g, m)]
  <2> HIDE DEF Value
  <2>3. \A m \in 0 .. n : h[m] = g[m]
    <3>1. \A m \in 0 .. n : g[m] = Value(g, m)
      BY <2>1
    <3>2. \A m \in 0 .. n + 1 : h[m] = Value(g, m)
      OBVIOUS
    <3>3. \A m \in 0 .. n : m \in 0 .. n + 1
      BY <2>2
    <3> QED
      BY ONLY <3>1, <3>2, <3>3
  <2> HIDE DEF h
  <2>4. \A m \in 0 .. n + 1 : m # 0 => h[m - 1] = g[m - 1]
    <3>1. \A m \in 0 .. n + 1 : m # 0 => m - 1 \in 0 .. n
      BY ONLY <2>2
    <3> QED
      BY ONLY <2>3, <3>1
  <2>5. \A m \in 0 .. n + 1 : Value(h, m) = Value(g, m)
    BY ONLY <2>4 DEF Value
  <2>6. h = [m \in 0 .. n + 1 |-> Value(h, m)]
    BY <2>5 DEF h
  <2> QED
    BY <2>2, <2>6
<1>3. k \in Good
  <2>1. Good \in SUBSET Nat
    OBVIOUS
  <2> HIDE DEF Good
  <2> QED
    BY <1>1, <1>2, <1>4, <2>1, NatInductive
<1>6. chosen = [m \in 0 .. k |-> Value(chosen, m)]
  <2>1. \E h : h = [m \in 0 .. k |-> Value(h, m)]
    BY <1>3
  <2> HIDE DEF Value
  <2> QED
    BY <2>1, Zenon
<1> HIDE DEF chosen, Value
<1>7. \A n \in 0 .. k : taken[n] = Value(taken, n)
  BY ONLY <1>5, <1>6
<1>8. /\ taken[0] = start
      /\ \A n \in 1 .. k : taken[n] = IF wanted[n] = 0 THEN taken[n - 1]
                                      ELSE Least(taken[n - 1] + wanted[n], offered[n])
  <2>1. 0 \in 0 .. k /\ \A n \in 1 .. k : n \in 0 .. k /\ n # 0
    BY ONLY <1>4
  <2> QED
    BY ONLY <1>7, <2>1 DEF Value
<1>9. \A n \in 0 .. k : taken[n] \in Int
  <2> DEFINE Typed == {n \in Nat : n <= k => taken[n] \in Int}
  <2>1. 0 \in Typed
    BY <1>8
  <2>2. ASSUME NEW n \in Typed PROVE n + 1 \in Typed
    <3>1. CASE n + 1 <= k
      <4>1. n + 1 \in 1 .. k /\ (n + 1) - 1 = n /\ taken[n] \in Int
        BY <1>4, <2>2, <3>1
      <4>2. taken[n] + wanted[n + 1] \in Int /\ offered[n + 1] \in Int
        BY <1>4, <4>1
      <4>3. Least(taken[n] + wanted[n + 1], offered[n + 1]) \in Int
        BY ONLY <4>2 DEF Least
      <4>4. taken[n + 1] = IF wanted[n + 1] = 0 THEN taken[n]
                           ELSE Least(taken[n] + wanted[n + 1], offered[n + 1])
        BY ONLY <1>8, <4>1
      <4> QED
        BY <2>2, <4>1, <4>3, <4>4
    <3>2. CASE ~(n + 1 <= k)
      BY <2>2, <3>2
    <3> QED
      BY <3>1, <3>2
  <2>3. Typed \in SUBSET Nat
    OBVIOUS
  <2> HIDE DEF Typed
  <2>4. Typed = Nat
    BY <2>1, <2>2, <2>3, NatInductive
  <2> QED
    BY <2>4 DEF Typed
<1>10. ASSUME NEW n \in 1 .. k, wanted[n] # 0
       PROVE  taken[n] = IF taken[n - 1] + wanted[n] <= offered[n] THEN taken[n - 1] + wanted[n]
                         ELSE offered[n]
  <2>1. n - 1 \in 0 .. k
    BY <1>4
  <2>2. taken[n - 1] + wanted[n] \in Int /\ offered[n] \in Int
    BY <1>4, <1>9, <2>1
  <2>3. taken[n] = Least(taken[n - 1] + wanted[n], offered[n])
    BY ONLY <1>8, <1>10
  <2> QED
    BY ONLY <2>2, <2>3 DEF Least
<1> QED
  BY <1>8, <1>9, <1>10 DEF k

\* How many units of a symbol these sales have taken, row by row.
TakenBy(symbol, sales, missing, laidOut) ==
  Taken(Units(symbol, missing), Wanted(symbol, sales), [n \in Trades |-> Units(symbol, laidOut[n])])

LEMMA TakenByStep ==
  ASSUME HistoryTypeOK, NEW symbol, NEW sales, NEW missing \in Int,
         NEW laidOut, \A n \in Trades : laidOut[n] \in Int,
         NEW taken, taken = TakenBy(symbol, sales, missing, laidOut)
  PROVE  /\ taken[0] = Units(symbol, missing)
         /\ \A n \in 0 .. Len(history) : taken[n] \in Int
         /\ \A n \in Trades :
              taken[n] = IF n \in sales /\ history[n].symbol = symbol
                         THEN IF taken[n - 1] + history[n].qty <= Units(symbol, laidOut[n])
                              THEN taken[n - 1] + history[n].qty ELSE Units(symbol, laidOut[n])
                         ELSE taken[n - 1]
<1> DEFINE start == Units(symbol, missing)
           wanted == Wanted(symbol, sales)
           offered == [n \in Trades |-> Units(symbol, laidOut[n])]
           k == Len(history)
<1>1. k \in Nat /\ Trades = 1 .. k /\ \A n \in Trades : history[n].qty \in Nat /\ history[n].qty > 0
  BY RowTyped
<1>2. start \in Int /\ \A n \in Trades : Units(symbol, laidOut[n]) \in Int
  BY UnitsStep
<1>3. \A n \in Trades : /\ wanted[n] = IF n \in sales /\ history[n].symbol = symbol
                                       THEN history[n].qty ELSE 0
                        /\ offered[n] = Units(symbol, laidOut[n])
  BY DEF Wanted
<1>4. wanted \in Seq(Int) /\ Len(wanted) = k
  <2>1. wanted \in [1 .. k -> Int]
    BY <1>1 DEF Wanted
  <2> QED
    BY ONLY <1>1, <2>1, SeqDef, LenProperties
<1>5. offered \in Seq(Int) /\ Len(offered) = k
  <2>1. offered \in [1 .. k -> Int]
    BY <1>1, <1>2
  <2> HIDE DEF offered
  <2> QED
    BY ONLY <1>1, <2>1, SeqDef, LenProperties
<1>6. taken = Taken(start, wanted, offered)
  BY DEF TakenBy
<1> HIDE DEF start, wanted, offered, k
<1>7. /\ taken[0] = start
      /\ \A n \in 0 .. k : taken[n] \in Int
      /\ \A n \in 1 .. k : taken[n] = IF wanted[n] = 0 THEN taken[n - 1]
                                      ELSE IF taken[n - 1] + wanted[n] <= offered[n]
                                           THEN taken[n - 1] + wanted[n] ELSE offered[n]
  <2>1. k \in Nat /\ start \in Int
    BY ONLY <1>1, <1>2
  <2>2. Len(offered) = Len(wanted)
    BY ONLY <1>4, <1>5
  <2>3. wanted \in Seq(Int) /\ offered \in Seq(Int) /\ start \in Int
    BY ONLY <1>4, <1>5, <2>1
  <2>4. taken[0] = start
    BY ONLY <1>6, <2>2, <2>3, TakenStep
  <2>5. \A n \in 0 .. Len(wanted) : taken[n] \in Int
    BY ONLY <1>6, <2>2, <2>3, TakenStep
  <2>6. \A n \in 1 .. Len(wanted) :
          taken[n] = IF wanted[n] = 0 THEN taken[n - 1]
                     ELSE IF taken[n - 1] + wanted[n] <= offered[n] THEN taken[n - 1] + wanted[n]
                     ELSE offered[n]
    BY ONLY <1>6, <2>2, <2>3, TakenStep, SMTT(30)
  <2> QED
    BY ONLY <1>4, <2>4, <2>5, <2>6, Zenon
<1>8. \A n \in Trades : taken[n] = IF n \in sales /\ history[n].symbol = symbol
                                   THEN IF taken[n - 1] + history[n].qty <= Units(symbol, laidOut[n])
                              THEN taken[n - 1] + history[n].qty ELSE Units(symbol, laidOut[n])
                                   ELSE taken[n - 1]
  <2>1. \A n \in Trades : history[n].qty # 0
    BY ONLY <1>1
  <2> QED
    BY ONLY <1>1, <1>3, <1>7, <2>1
<1> QED
  BY <1>7, <1>8 DEF k, start

-----------------------------------------------------------------------------
(* Row by row, from a row of the history on *)

\* What TakenByStep says where a BUY is laid out when its row comes.
TakenInTurn(taken, symbol, sales, missing) ==
  /\ taken[0] = Units(symbol, missing)
  /\ \A n \in 0 .. Len(history) : taken[n] \in Int
  /\ \A n \in Trades :
       taken[n] = IF n \in sales /\ history[n].symbol = symbol
                  THEN IF taken[n - 1] + history[n].qty <= Units(symbol, n)
                       THEN taken[n - 1] + history[n].qty ELSE Units(symbol, n)
                  ELSE taken[n - 1]

\* When row n comes, all units of the symbol are gone but those of the BUY whose
\* position is held, if it was not missed.
Due(taken, symbol, missing, n) ==
  /\ \A b \in Trades :
       missing < b /\ Held(b, n) /\ history[b].symbol = symbol =>
         taken[n - 1] = Units(symbol, b - 1) /\ Units(symbol, n - 1) = Units(symbol, b)
  /\ (\A b \in Trades : missing < b /\ Held(b, n) => history[b].symbol # symbol) =>
       taken[n - 1] = Units(symbol, n - 1)

\* A sale then takes what its BUY bought, or nothing if that was missed.
LEMMA SaleTakes ==
  ASSUME HistInv, NEW symbol, NEW sales, NEW missing \in Int, NEW taken,
         TakenInTurn(taken, symbol, sales, missing),
         NEW i \in Sales, i \in sales, history[i].symbol = symbol, Due(taken, symbol, missing, i)
  PROVE  /\ \/ taken[i - 1] = Units(symbol, history[i].opened - 1)
               /\ taken[i] = Units(symbol, history[i].opened)
            \/ taken[i - 1] = taken[i]
         /\ taken[i] = Units(symbol, i)
<1>1. /\ HistoryTypeOK
      /\ i \in Trades /\ i \notin Buys /\ i \in Nat /\ i > 0 /\ i - 1 \in 0 .. Len(history)
      /\ history[i].qty \in Nat
  BY RowTyped DEF HistInv
<1>2. PICK b \in Trades : /\ history[i].opened = b /\ Held(b, i)
                          /\ history[b].symbol = history[i].symbol /\ history[b].qty = history[i].qty
  BY DEF HistInv, SalesOK
<1>3. /\ Units(symbol, i) = Units(symbol, i - 1)
      /\ Units(symbol, b) = Units(symbol, b - 1) + history[i].qty
      /\ Units(symbol, i - 1) \in Int /\ Units(symbol, b - 1) \in Int
  <2>1. /\ Units(symbol, i) = Units(symbol, i - 1)
              + IF i \in Buys /\ history[i].symbol = symbol THEN history[i].qty ELSE 0
        /\ Units(symbol, b) = Units(symbol, b - 1)
              + IF b \in Buys /\ history[b].symbol = symbol THEN history[b].qty ELSE 0
    BY <1>1, UnitsStep
  <2>2. b \in Nat /\ i - 1 \in Int /\ b - 1 \in Int
    BY <1>1, RowTyped
  <2>3. Units(symbol, i - 1) \in Int /\ Units(symbol, b - 1) \in Int
    BY <1>1, <2>2, UnitsStep
  <2>4. b \in Buys
    BY <1>2 DEF Held
  <2> QED
    BY ONLY <1>1, <1>2, <2>1, <2>3, <2>4, history[i].symbol = symbol
<1>4. /\ taken[i] = IF taken[i - 1] + history[i].qty <= Units(symbol, i)
                    THEN taken[i - 1] + history[i].qty ELSE Units(symbol, i)
      /\ taken[i - 1] \in Int
  BY <1>1 DEF TakenInTurn
<1>5. CASE missing < b
  <2>1. taken[i - 1] = Units(symbol, b - 1) /\ Units(symbol, i - 1) = Units(symbol, b)
    BY <1>2, <1>5 DEF Due
  <2> QED
    BY ONLY <1>1, <1>2, <1>3, <1>4, <2>1
<1>6. CASE ~(missing < b)
  <2>1. \A c \in Trades : missing < c /\ Held(c, i) => history[c].symbol # symbol
    <3>1. b \in Int /\ \A c \in Trades : c \in Int
      BY <1>1, RowTyped
    <3>2. \A c \in Trades : missing < c => b < c
      BY <1>6, <3>1
    <3>3. \A c \in Trades : b < c /\ c < i => history[c].symbol # symbol
      BY <1>2 DEF Held
    <3> QED
      BY ONLY <3>2, <3>3 DEF Held
  <2>2. taken[i - 1] = Units(symbol, i - 1)
    BY <2>1 DEF Due
  <2> QED
    BY ONLY <1>1, <1>3, <1>4, <2>2
<1> QED
  BY <1>5, <1>6

LEMMA DueNext ==
  ASSUME HistInv, NEW symbol, NEW sales \in SUBSET Sales, NEW missing \in Int, NEW taken,
         TakenInTurn(taken, symbol, sales, missing),
         NEW n \in Trades, missing < n, Due(taken, symbol, missing, n),
         n \in Sales /\ history[n].symbol = symbol => n \in sales
  PROVE  Due(taken, symbol, missing, n + 1)
<1>1. /\ HistoryTypeOK /\ n \in Nat /\ (n \in Buys \/ n \in Sales)
      /\ Sales \cap Buys = {} /\ \A b \in Trades : b \in Nat
  BY RowTyped DEF HistInv
<1>2. (n + 1) - 1 = n
  BY ONLY <1>1
<1>3. \A b \in Trades : b < n + 1 <=> b < n \/ b = n
  BY ONLY <1>1
<1>4. \A b \in Trades : Held(b, n + 1) /\ b # n => Held(b, n) /\ history[n].symbol # history[b].symbol
  <2> SUFFICES ASSUME NEW b \in Trades, Held(b, n + 1), b # n
               PROVE  Held(b, n) /\ history[n].symbol # history[b].symbol
    OBVIOUS
  <2>1. b < n
    BY <1>3 DEF Held
  <2> QED
    BY <1>3, <2>1 DEF Held
<1>5. /\ Units(symbol, n) = Units(symbol, n - 1)
            + IF n \in Buys /\ history[n].symbol = symbol THEN history[n].qty ELSE 0
      /\ Units(symbol, n - 1) \in Int
  BY <1>1, UnitsStep
<1>6. taken[n] = IF n \in sales /\ history[n].symbol = symbol
                 THEN IF taken[n - 1] + history[n].qty <= Units(symbol, n)
                      THEN taken[n - 1] + history[n].qty ELSE Units(symbol, n)
                 ELSE taken[n - 1]
  BY DEF TakenInTurn
<1>7. CASE history[n].symbol # symbol
  <2>1. taken[n] = taken[n - 1] /\ Units(symbol, n) = Units(symbol, n - 1)
    BY ONLY <1>5, <1>6, <1>7
  <2>2. \A b \in Trades : history[b].symbol = symbol => (Held(b, n + 1) <=> Held(b, n))
    <3> SUFFICES ASSUME NEW b \in Trades, history[b].symbol = symbol, Held(b, n)
                 PROVE  Held(b, n + 1)
      BY <1>4, <1>7
    <3> QED
      BY <1>3, <1>7 DEF Held
  <2> QED
    BY ONLY <1>2, <2>1, <2>2, Due(taken, symbol, missing, n) DEF Due
<1>8. CASE n \in Buys /\ history[n].symbol = symbol
  <2>1. \A b \in Trades : Held(b, n) => history[b].symbol # symbol
    BY <1>8 DEF HistInv, BuysOK
  <2>2. taken[n] = Units(symbol, n - 1)
    <3>1. taken[n] = taken[n - 1]
      BY ONLY <1>1, <1>6, <1>8, sales \in SUBSET Sales
    <3> QED
      BY <2>1, <3>1 DEF Due
  <2>3. \A b \in Trades : Held(b, n + 1) /\ history[b].symbol = symbol => b = n
    BY ONLY <1>4, <1>8
  <2>4. Held(n, n + 1)
    <3>1. \A k \in Trades : ~(n < k /\ k < n + 1)
      BY ONLY <1>1
    <3> QED
      BY ONLY <1>1, <1>8, <3>1 DEF Held
  <2> QED
    BY ONLY <1>2, <1>8, <2>2, <2>3, <2>4, n \in Trades, missing < n DEF Due
<1>9. CASE n \in Sales /\ history[n].symbol = symbol
  <2>1. taken[n] = Units(symbol, n)
    BY <1>9, SaleTakes
  <2>2. n \notin Buys
    BY ONLY <1>1, <1>9
  <2>3. \A b \in Trades : Held(b, n + 1) => history[b].symbol # symbol
    <3>1. ~Held(n, n + 1)
      BY ONLY <2>2 DEF Held
    <3> QED
      BY ONLY <1>4, <1>9, <3>1
  <2> QED
    BY ONLY <1>2, <2>1, <2>3 DEF Due
<1> QED
  BY <1>1, <1>7, <1>8, <1>9

\* So it is for every row of the window up to one before which no sale of the
\* symbol was left out.
LEMMA DueHolds ==
  ASSUME HistInv, NEW symbol, NEW sales \in SUBSET Sales, NEW missing \in Nat, NEW taken,
         TakenInTurn(taken, symbol, sales, missing), \A i \in sales : missing < i,
         NEW last \in Trades, missing < last,
         \A i \in Sales : missing < i /\ i < last /\ history[i].symbol = symbol => i \in sales
  PROVE  Due(taken, symbol, missing, last)
<1>1. HistoryTypeOK /\ last \in Nat /\ Trades = 1 .. Len(history) /\ Len(history) \in Nat
  BY RowTyped DEF HistInv
<1>2. \A n \in Nat : n + 1 <= last => n + 1 \in Trades
  BY ONLY <1>1, last \in Trades
<1> DEFINE Good == {n \in Nat : n < last => IF missing <= n THEN Due(taken, symbol, missing, n + 1)
                                            ELSE taken[n] = Units(symbol, missing)}
<1>3. taken[missing] = Units(symbol, missing) => Due(taken, symbol, missing, missing + 1)
  <2>1. \A b \in Trades : ~(missing < b /\ b < missing + 1)
    BY ONLY <1>1, missing \in Nat
  <2>2. (missing + 1) - 1 = missing
    BY ONLY missing \in Nat
  <2> QED
    BY ONLY <2>1, <2>2 DEF Due, Held
<1>4. 0 \in Good
  <2>1. taken[0] = Units(symbol, missing)
    BY DEF TakenInTurn
  <2>2. missing <= 0 => missing = 0
    OBVIOUS
  <2> QED
    BY ONLY <1>3, <2>1, <2>2
<1>5. ASSUME NEW n \in Good PROVE n + 1 \in Good
  <2>1. n \in Nat /\ n + 1 \in Nat /\ (n + 1) - 1 = n
    BY <1>5
  <2> SUFFICES ASSUME n + 1 < last
               PROVE  IF missing <= n + 1 THEN Due(taken, symbol, missing, (n + 1) + 1)
                      ELSE taken[n + 1] = Units(symbol, missing)
    BY <2>1
  <2>2. n < last /\ n + 1 \in Trades
    BY ONLY <1>1, <1>2, <2>1, n + 1 < last
  <2>3. CASE missing <= n
    <3>1. Due(taken, symbol, missing, n + 1)
      BY <2>2, <2>3
    <3>2. missing < n + 1 /\ missing <= n + 1
      BY ONLY <2>1, <2>3, missing \in Nat
    <3>3. n + 1 \in Sales /\ history[n + 1].symbol = symbol => n + 1 \in sales
      BY <3>2
    <3> HIDE DEF Good
    <3>4. Due(taken, symbol, missing, (n + 1) + 1)
      BY <2>2, <3>1, <3>2, <3>3, DueNext
    <3> QED
      BY ONLY <3>2, <3>4
  <2>4. CASE ~(missing <= n)
    <3>1. taken[n] = Units(symbol, missing)
      BY <2>2, <2>4
    <3>2. n + 1 \notin sales
      BY ONLY <2>1, <2>4, missing \in Nat, \A i \in sales : missing < i
    <3>3. taken[n + 1] = Units(symbol, missing)
      BY ONLY <2>1, <2>2, <3>1, <3>2, TakenInTurn(taken, symbol, sales, missing) DEF TakenInTurn
    <3>4. missing <= n + 1 => missing = n + 1
      BY ONLY <2>1, <2>4, missing \in Nat
    <3> QED
      BY ONLY <1>3, <3>3, <3>4
  <2> QED
    BY <2>3, <2>4
<1>6. Good \in SUBSET Nat
  OBVIOUS
<1> HIDE DEF Good
<1>7. Good = Nat
  BY <1>4, <1>5, <1>6, NatInductive
<1>8. last - 1 \in Good
  BY ONLY <1>1, <1>7, missing \in Nat, missing < last
<1>9. last - 1 < last /\ missing <= last - 1 /\ (last - 1) + 1 = last
  BY ONLY <1>1, missing \in Nat, missing < last
<1> QED
  BY ONLY <1>8, <1>9 DEF Good

-----------------------------------------------------------------------------
(* The entries *)

\* A sale whose symbol has lost no sale in the window before it is reckoned
\* against its own entry.
LEMMA EntryInTurn ==
  ASSUME HistInv, NEW sales \in SUBSET Sales, NEW known, NEW missing \in Nat,
         \A j \in sales : missing < j, NEW i \in Sales,
         i \in sales \ known =>
           \A j \in Sales : missing < j /\ j < i /\ history[j].symbol = history[i].symbol
                              => j \in sales \ known
  PROVE  Matched(sales, known, missing, InTurn)[i] \in {{}, Lot(history[i].opened)}
<1> DEFINE symbol == history[i].symbol
           wanted == sales \ known
           taken == TakenBy(symbol, wanted, missing, InTurn)
           entry == Matched(sales, known, missing, InTurn)[i]
<1>1. entry = IF i \notin sales THEN {} ELSE IF i \in known THEN Lot(history[i].opened)
              ELSE taken[i - 1] + 1 .. taken[i]
  BY DEF Matched, TakenBy
<1> HIDE DEF taken, entry, wanted
<1>2. CASE i \notin sales \/ i \in known
  BY <1>1, <1>2 DEF entry
<1>3. CASE i \in sales \ known
  <2>1. /\ HistoryTypeOK /\ i \in Trades /\ i - 1 \in 0 .. Len(history) /\ i \in 0 .. Len(history)
        /\ \A n \in Trades : n \in Int
    BY RowTyped DEF HistInv
  <2>2. TakenInTurn(taken, symbol, wanted, missing)
    <3>1. missing \in Int
      OBVIOUS
    <3>2. \A n \in Trades : InTurn[n] = n /\ InTurn[n] \in Int
      BY <2>1 DEF InTurn
    <3>3. taken = TakenBy(symbol, wanted, missing, InTurn)
      BY DEF taken
    <3> HIDE DEF symbol
    <3>4. /\ taken[0] = Units(symbol, missing)
          /\ \A n \in 0 .. Len(history) : taken[n] \in Int
          /\ \A n \in Trades :
               taken[n] = IF n \in wanted /\ history[n].symbol = symbol
                          THEN IF taken[n - 1] + history[n].qty <= Units(symbol, InTurn[n])
                               THEN taken[n - 1] + history[n].qty ELSE Units(symbol, InTurn[n])
                          ELSE taken[n - 1]
      BY ONLY <2>1, <3>1, <3>2, <3>3, TakenByStep
    <3> QED
      BY ONLY <3>2, <3>4 DEF TakenInTurn
  <2>3. missing < i
    BY <1>3
  <2>4. \A j \in Sales : missing < j /\ j < i /\ history[j].symbol = symbol => j \in wanted
    BY <1>3 DEF wanted
  <2>5. symbol = history[i].symbol /\ Lot(history[i].opened) =
          Units(history[history[i].opened].symbol, history[i].opened - 1) + 1
          .. Units(history[history[i].opened].symbol, history[i].opened)
    BY DEF Lot
  <2> HIDE DEF symbol
  <2>6. Due(taken, symbol, missing, i)
    <3>1. wanted \in SUBSET Sales /\ \A j \in wanted : missing < j
      BY DEF wanted
    <3> QED
      BY ONLY HistInv, missing \in Nat, <2>1, <2>2, <2>3, <2>4, <3>1, DueHolds
  <2>7. \/ taken[i - 1] = Units(symbol, history[i].opened - 1)
           /\ taken[i] = Units(symbol, history[i].opened)
        \/ taken[i - 1] = taken[i]
    <3>1. missing \in Int /\ i \in wanted
      BY <1>3 DEF wanted
    <3> QED
      BY ONLY HistInv, <2>2, <2>5, <2>6, <3>1, i \in Sales, SaleTakes
  <2>8. history[history[i].opened].symbol = symbol
    BY <2>5 DEF HistInv, SalesOK
  <2>9. taken[i] \in Int
    BY <2>1, <2>2 DEF TakenInTurn
  <2>10. \A n \in Int : n + 1 .. n = {}
    OBVIOUS
  <2>11. CASE taken[i - 1] = Units(symbol, history[i].opened - 1)
              /\ taken[i] = Units(symbol, history[i].opened)
    BY <1>1, <1>3, <2>5, <2>8, <2>11 DEF entry
  <2>12. CASE taken[i - 1] = taken[i]
    BY <1>1, <1>3, <2>9, <2>10, <2>12 DEF entry
  <2> QED
    BY ONLY <2>7, <2>11, <2>12
<1> QED
  BY <1>2, <1>3

\* The rows of a window of days are those after the last one before it.
LEMMA LastBeforeIs ==
  ASSUME HistInv, NEW day \in Int
  PROVE  /\ LastBefore(day) \in Nat
         /\ \A j \in Trades : history[j].day >= day <=> LastBefore(day) < j
<1> DEFINE before == {j \in Trades : history[j].day < day}
           last == Max({0} \cup before)
<1>1. HistoryTypeOK /\ \A j \in Trades : j \in Nat /\ j > 0 /\ history[j].day \in Nat
  BY RowTyped DEF HistInv
<1>2. last \in {0} \cup before /\ \A j \in before : j <= last
  <2>1. IsFiniteSet({0} \cup before)
    <3>1. IsFiniteSet(before) /\ IsFiniteSet({0})
      BY <1>1, TradesFinite, FS_Singleton
    <3> QED
      BY <3>1, FS_Union
  <2>2. {0} \cup before \in SUBSET Int
    BY <1>1
  <2> HIDE DEF before
  <2>3. {0} \cup before # {}
    OBVIOUS
  <2> QED
    BY ONLY <2>1, <2>2, <2>3, ExtremesExist
<1>3. LastBefore(day) = last
  BY DEF LastBefore
<1> HIDE DEF last
<1>4. last \in Nat
  BY <1>1, <1>2
<1>5. ASSUME NEW j \in Trades, history[j].day >= day PROVE last < j
  <2>1. CASE last = 0
    BY <1>1, <2>1
  <2>2. CASE last \in Trades /\ history[last].day < day
    <3>1. history[last].day < history[j].day /\ history[j].day \in Nat /\ history[last].day \in Nat
      BY <1>1, <1>5, <2>2
    <3>2. j # last /\ ~(j < last)
      BY <2>2, <3>1 DEF HistInv, DaysOK
    <3> QED
      BY <1>1, <1>4, <3>2
  <2> QED
    BY <1>2, <2>1, <2>2
<1>6. ASSUME NEW j \in Trades, last < j PROVE history[j].day >= day
  <2>1. ~(j <= last) /\ history[j].day \in Nat
    BY <1>1, <1>4, <1>6
  <2>2. j \notin before
    BY <1>2, <2>1
  <2> QED
    BY <2>1, <2>2
<1> QED
  BY <1>3, <1>4, <1>5, <1>6

\* The daily report and the review reckon every sale against the entry it
\* really had, or leave it out.
THEOREM EntriesAreExact == HistorySpec => []EntriesExact
<1>1. HistInv => EntriesExact
  <2> SUFFICES ASSUME HistInv PROVE EntriesExact
    OBVIOUS
  <2>1. HistoryTypeOK /\ date \in Int /\ \A j \in Sales : j \in Trades /\ j \in Nat
    BY RowTyped, BoundsTyped DEF HistInv, HistoryTypeOK
  <2>2. ASSUME NEW i \in Sales
        PROVE  DailyEntries(date)[i] \in {{}, Lot(history[i].opened)}
    <3> DEFINE sales == {j \in Sales : history[j].day >= date}
    <3>1. LastBefore(date) \in Nat /\ \A j \in sales : LastBefore(date) < j
      BY <2>1, LastBeforeIs
    <3>2. ASSUME i \in sales \ Recorded, NEW j \in Sales, LastBefore(date) < j, j < i
          PROVE  j \in sales \ Recorded
      <4>1. j \in sales
        BY <2>1, <3>2, LastBeforeIs
      <4>2. j \notin Recorded
        BY <3>2 DEF HistInv, RecordsOK
      <4> QED
        BY <4>1, <4>2
    <3>3. sales \in SUBSET Sales
      OBVIOUS
    <3>4. DailyEntries(date) = Matched(sales, Recorded, LastBefore(date), InTurn)
      BY DEF DailyEntries
    <3> HIDE DEF sales
    <3>5. Matched(sales, Recorded, LastBefore(date), InTurn)[i] \in {{}, Lot(history[i].opened)}
      BY ONLY HistInv, <2>2, <3>1, <3>2, <3>3, EntryInTurn
    <3> QED
      BY ONLY <3>4, <3>5
  <2>3. ASSUME NEW i \in Sales
        PROVE  ReviewEntries[i] \in {{}, Lot(history[i].opened)}
    <3> DEFINE sales == {j \in Sales : j > ReviewStart /\ j <= ReviewStart + ReviewLimit}
    <3>1. ReviewStart \in Nat
      <4>1. ReviewDays \in Int
        BY ReportAssumption
      <4>2. date - ReviewDays + 1 \in Int
        BY ONLY <2>1, <4>1
      <4> QED
        BY <4>2, LastBeforeIs DEF ReviewStart
    <3>2. ReviewLimit \in Nat
      BY ReportAssumption
    <3>3. ASSUME i \in sales \ {}, NEW j \in Sales, ReviewStart < j, j < i
          PROVE  j \in sales \ {}
      <4>1. i <= ReviewStart + ReviewLimit /\ i \in Nat /\ j \in Nat
        BY <2>1, <3>3
      <4>2. j > ReviewStart /\ j <= ReviewStart + ReviewLimit
        BY ONLY <3>1, <3>2, <3>3, <4>1
      <4> QED
        BY <4>2
    <3>4. sales \in SUBSET Sales
      OBVIOUS
    <3>5. \A j \in sales : ReviewStart < j
      BY <2>1, <3>1
    <3>6. ReviewEntries = Matched(sales, {}, ReviewStart, InTurn)
      BY DEF ReviewEntries
    <3> HIDE DEF sales
    <3>7. Matched(sales, {}, ReviewStart, InTurn)[i] \in {{}, Lot(history[i].opened)}
      BY ONLY HistInv, <2>3, <3>1, <3>3, <3>4, <3>5, EntryInTurn
    <3> QED
      BY ONLY <3>6, <3>7
  <2> QED
    BY <2>1, <2>2, <2>3 DEF EntriesExact
<1> QED
  BY <1>1, HistoryInvariance, PTL

-----------------------------------------------------------------------------
(* The weekly report *)

\* When row n comes, the sales have taken no more units of the symbol than were
\* bought, and none of a BUY whose position is held.
Behind(taken, symbol, n) ==
  /\ taken[n - 1] <= Units(symbol, n - 1)
  /\ \A b \in Trades : Held(b, n) /\ history[b].symbol = symbol =>
       taken[n - 1] <= Units(symbol, b - 1) /\ Units(symbol, n - 1) = Units(symbol, b)

\* A sale takes no more than it has.
TakenAtMost(taken, symbol) ==
  /\ taken[0] = Units(symbol, 0)
  /\ \A n \in 0 .. Len(history) : taken[n] \in Int
  /\ \A n \in Trades :
       \/ taken[n] = taken[n - 1]
       \/ /\ n \in Sales /\ history[n].symbol = symbol
          /\ taken[n] <= taken[n - 1] + history[n].qty

LEMMA SaleAtMost ==
  ASSUME HistInv, NEW symbol, NEW taken, TakenAtMost(taken, symbol),
         NEW i \in Sales, history[i].symbol = symbol, Behind(taken, symbol, i)
  PROVE  /\ taken[i] <= Units(symbol, history[i].opened)
         /\ Units(symbol, i) = Units(symbol, history[i].opened)
<1>1. /\ HistoryTypeOK
      /\ i \in Trades /\ i \notin Buys /\ i - 1 \in 0 .. Len(history) /\ i \in 0 .. Len(history)
      /\ i - 1 \in Int /\ history[i].qty \in Nat
  BY RowTyped DEF HistInv
<1>2. PICK b \in Trades : /\ history[i].opened = b /\ Held(b, i)
                          /\ history[b].symbol = history[i].symbol /\ history[b].qty = history[i].qty
  BY DEF HistInv, SalesOK
<1>3. b \in Buys /\ b - 1 \in Int
  BY <1>1, <1>2, RowTyped DEF Held
<1>4. /\ Units(symbol, i) = Units(symbol, i - 1)
            + IF i \in Buys /\ history[i].symbol = symbol THEN history[i].qty ELSE 0
      /\ Units(symbol, b) = Units(symbol, b - 1)
            + IF b \in Buys /\ history[b].symbol = symbol THEN history[b].qty ELSE 0
      /\ Units(symbol, i - 1) \in Int /\ Units(symbol, b - 1) \in Int
  BY <1>1, <1>3, UnitsStep
<1>5. taken[i - 1] <= Units(symbol, b - 1) /\ Units(symbol, i - 1) = Units(symbol, b)
  BY <1>2 DEF Behind
<1>6. /\ taken[i - 1] \in Int /\ taken[i] \in Int
      /\ taken[i] = taken[i - 1] \/ taken[i] <= taken[i - 1] + history[i].qty
  BY <1>1 DEF TakenAtMost
<1>7. /\ Units(symbol, i) = Units(symbol, i - 1)
      /\ Units(symbol, b) = Units(symbol, b - 1) + history[i].qty
  BY ONLY <1>1, <1>2, <1>3, <1>4, history[i].symbol = symbol
<1>8. taken[i] <= Units(symbol, b) /\ Units(symbol, i) = Units(symbol, b)
  <2>1. \A m, n, u, q \in Int : m <= u /\ n <= m + q => n <= u + q
    OBVIOUS
  <2>2. history[i].qty \in Int /\ history[i].qty >= 0
    BY ONLY <1>1
  <2>3. taken[i] <= taken[i - 1] + history[i].qty
    BY ONLY <1>6, <2>2
  <2> QED
    BY ONLY <1>4, <1>5, <1>6, <1>7, <2>1, <2>2, <2>3
<1> QED
  BY ONLY <1>2, <1>8

LEMMA BehindHolds ==
  ASSUME HistInv, NEW symbol, NEW taken, TakenAtMost(taken, symbol), NEW last \in Trades
  PROVE  Behind(taken, symbol, last)
<1>1. /\ HistoryTypeOK /\ Trades = 1 .. Len(history) /\ Len(history) \in Nat
      /\ last \in Nat /\ last > 0
  BY RowTyped DEF HistInv
<1> DEFINE Good == {n \in Nat : n < last => Behind(taken, symbol, n + 1)}
<1>2. 0 \in Good
  <2>1. taken[0] <= Units(symbol, 0)
    <3>1. taken[0] = Units(symbol, 0) /\ taken[0] \in Int
      BY ONLY <1>1, TakenAtMost(taken, symbol) DEF TakenAtMost
    <3> QED
      BY ONLY <3>1
  <2>2. \A b \in Trades : ~(b < 1)
    BY ONLY <1>1
  <2> QED
    BY ONLY <2>1, <2>2 DEF Behind, Held
<1>3. ASSUME NEW m \in Good PROVE m + 1 \in Good
  <2> DEFINE n == m + 1
  <2>1. m \in Nat /\ n \in Nat /\ (n + 1) - 1 = n
    BY <1>3
  <2> SUFFICES ASSUME n < last PROVE Behind(taken, symbol, n + 1)
    BY <2>1
  <2>2. n \in Trades /\ Behind(taken, symbol, n)
    BY <1>1, <2>1
  <2> HIDE DEF n
  <2>3. /\ n \in Buys \/ n \in Sales
        /\ Sales \cap Buys = {} /\ \A b \in Trades : b \in Nat
        /\ history[n].qty \in Nat /\ n - 1 \in 0 .. Len(history) /\ n - 1 \in Int
    BY <1>1, <2>2, RowTyped
  <2>4. \A b \in Trades : b < n + 1 <=> b < n \/ b = n
    BY ONLY <2>1, <2>3
  <2>5. \A b \in Trades : Held(b, n + 1) /\ b # n => Held(b, n) /\ history[n].symbol # history[b].symbol
    <3> SUFFICES ASSUME NEW b \in Trades, Held(b, n + 1), b # n
                 PROVE  Held(b, n) /\ history[n].symbol # history[b].symbol
      OBVIOUS
    <3>1. b < n
      BY <2>4 DEF Held
    <3> QED
      BY <2>2, <2>4, <3>1 DEF Held
  <2>6. /\ Units(symbol, n) = Units(symbol, n - 1)
              + IF n \in Buys /\ history[n].symbol = symbol THEN history[n].qty ELSE 0
        /\ Units(symbol, n - 1) \in Int
    BY <1>1, <2>2, <2>3, UnitsStep
  <2>7. /\ taken[n - 1] \in Int
        /\ taken[n] = taken[n - 1] \/ (n \in Sales /\ history[n].symbol = symbol)
    BY <2>2, <2>3 DEF TakenAtMost
  <2>8. taken[n - 1] <= Units(symbol, n - 1)
    BY ONLY <2>2 DEF Behind
  <2>9. CASE history[n].symbol # symbol
    <3>1. taken[n] = taken[n - 1] /\ Units(symbol, n) = Units(symbol, n - 1)
      BY ONLY <2>6, <2>7, <2>9
    <3>2. \A b \in Trades : history[b].symbol = symbol /\ Held(b, n + 1) => Held(b, n)
      BY ONLY <2>5, <2>9
    <3> QED
      BY ONLY <2>1, <2>2, <3>1, <3>2 DEF Behind
  <2>10. CASE n \in Buys /\ history[n].symbol = symbol
    <3>1. taken[n] <= Units(symbol, n - 1) /\ taken[n] <= Units(symbol, n)
      BY ONLY <2>3, <2>6, <2>7, <2>8, <2>10
    <3>2. \A b \in Trades : Held(b, n + 1) /\ history[b].symbol = symbol => b = n
      BY ONLY <2>5, <2>10
    <3> QED
      BY ONLY <2>1, <3>1, <3>2 DEF Behind
  <2>11. CASE n \in Sales /\ history[n].symbol = symbol
    <3>1. taken[n] <= Units(symbol, n)
      <4>1. /\ taken[n] <= Units(symbol, history[n].opened)
            /\ Units(symbol, n) = Units(symbol, history[n].opened)
        BY <2>2, <2>11, SaleAtMost
      <4> QED
        BY ONLY <4>1
    <3>2. n \notin Buys
      BY ONLY <2>3, <2>11
    <3>3. \A b \in Trades : Held(b, n + 1) => history[b].symbol # symbol
      <4>1. ~Held(n, n + 1)
        BY ONLY <3>2 DEF Held
      <4> QED
        BY ONLY <2>5, <2>11, <4>1
    <3> QED
      BY ONLY <2>1, <3>1, <3>3 DEF Behind
  <2> QED
    BY ONLY <2>3, <2>9, <2>10, <2>11
<1>4. Good \in SUBSET Nat
  OBVIOUS
<1> HIDE DEF Good
<1>5. Good = Nat
  BY <1>2, <1>3, <1>4, NatInductive
<1>6. last - 1 \in Nat /\ last - 1 < last /\ (last - 1) + 1 = last
  BY ONLY <1>1
<1> QED
  BY ONLY <1>5, <1>6 DEF Good

\* The weekly report reckons no sale against a BUY after its position was opened.
THEOREM WeeklyNotLater == HistorySpec => []WeeklyEntryNotLater
<1>1. HistInv => WeeklyEntryNotLater
  <2> SUFFICES ASSUME HistInv, NEW i \in Sales, NEW unit \in WeeklyEntries[i]
               PROVE  unit <= Units(history[i].symbol, history[i].opened)
    BY DEF WeeklyEntryNotLater
  <2> DEFINE sales == {j \in Sales : history[j].day > date - WeeklyDays}
             wanted == sales \ Recorded
             laidOut == [n \in Trades |-> Len(history)]
             symbol == history[i].symbol
             taken == TakenBy(symbol, wanted, WeeklyMissing, laidOut)
  <2>1. /\ HistoryTypeOK /\ i \in Trades /\ Len(history) \in Nat /\ Trades = 1 .. Len(history)
        /\ i \in 0 .. Len(history) /\ i - 1 \in 0 .. Len(history)
        /\ \A n \in Trades : history[n].qty \in Nat /\ n - 1 \in 0 .. Len(history)
    BY RowTyped DEF HistInv
  <2>2. WeeklyEntries[i] = IF i \notin sales THEN {}
                           ELSE IF i \in Recorded THEN Lot(history[i].opened)
                           ELSE taken[i - 1] + 1 .. taken[i]
    BY DEF WeeklyEntries, Matched, TakenBy
  <2>3. Lot(history[i].opened) =
          Units(history[history[i].opened].symbol, history[i].opened - 1) + 1
          .. Units(history[history[i].opened].symbol, history[i].opened)
    BY DEF Lot
  <2>4. history[history[i].opened].symbol = symbol
    BY DEF HistInv, SalesOK
  <2>5. wanted \subseteq Sales
    OBVIOUS
  <2>6. /\ 0 \in Int /\ \A n \in Trades : laidOut[n] \in Int
        /\ taken = TakenBy(symbol, wanted, 0, laidOut)
    BY <2>1 DEF WeeklyMissing
  <2>7. history[i].symbol = symbol
    OBVIOUS
  <2> HIDE DEF sales, wanted, laidOut, symbol, taken
  <2>8. CASE i \in Recorded
    <3>1. \A m \in Int, n \in Int : \A u \in m .. n : u <= n
      OBVIOUS
    <3>2. history[i].opened \in Int /\ history[i].opened - 1 \in Int
      <4>1. history[i].opened \in Trades
        BY DEF HistInv, SalesOK
      <4> QED
        BY ONLY <2>1, <4>1
    <3>3. /\ Units(symbol, history[i].opened) \in Int
          /\ Units(symbol, history[i].opened - 1) + 1 \in Int
      <4>1. Units(symbol, history[i].opened) \in Int /\ Units(symbol, history[i].opened - 1) \in Int
        BY ONLY <2>1, <3>2, UnitsStep
      <4> QED
        BY ONLY <4>1
    <3>4. unit \in Units(symbol, history[i].opened - 1) + 1 .. Units(symbol, history[i].opened)
      BY ONLY <2>2, <2>3, <2>4, <2>8, unit \in WeeklyEntries[i]
    <3> QED
      BY ONLY <2>7, <3>1, <3>3, <3>4
  <2>9. CASE i \notin Recorded
    <3>1. /\ taken[0] = Units(symbol, 0)
          /\ \A n \in 0 .. Len(history) : taken[n] \in Int
          /\ \A n \in Trades :
               taken[n] = IF n \in wanted /\ history[n].symbol = symbol
                          THEN IF taken[n - 1] + history[n].qty <= Units(symbol, laidOut[n])
                               THEN taken[n - 1] + history[n].qty ELSE Units(symbol, laidOut[n])
                          ELSE taken[n - 1]
      BY ONLY <2>1, <2>6, TakenByStep
    <3>2. \A n \in Trades : Units(symbol, laidOut[n]) \in Int
      BY ONLY <2>1, <2>6, UnitsStep
    <3>3. TakenAtMost(taken, symbol)
      <4>1. ASSUME NEW n \in Trades, taken[n] # taken[n - 1]
            PROVE  /\ n \in Sales /\ history[n].symbol = symbol
                   /\ taken[n] <= taken[n - 1] + history[n].qty
        <5>1. n \in wanted /\ history[n].symbol = symbol
          BY ONLY <3>1, <4>1
        <5>2. taken[n] = IF taken[n - 1] + history[n].qty <= Units(symbol, laidOut[n])
                         THEN taken[n - 1] + history[n].qty ELSE Units(symbol, laidOut[n])
          BY ONLY <3>1, <4>1, <5>1
        <5>3. /\ taken[n - 1] \in Int /\ history[n].qty \in Int
              /\ Units(symbol, laidOut[n]) \in Int
          BY ONLY <2>1, <3>1, <3>2, <4>1
        <5> QED
          BY ONLY <2>5, <5>1, <5>2, <5>3
      <4> QED
        BY ONLY <3>1, <4>1 DEF TakenAtMost
    <3>4. Behind(taken, symbol, i)
      BY ONLY HistInv, <2>1, <3>3, BehindHolds
    <3>5. taken[i] <= Units(symbol, history[i].opened)
      BY ONLY HistInv, i \in Sales, <2>7, <3>3, <3>4, SaleAtMost
    <3>6. taken[i - 1] \in Int /\ taken[i] \in Int
      BY ONLY <2>1, <3>1
    <3>7. unit \in taken[i - 1] + 1 .. taken[i]
      BY ONLY <2>2, <2>9, unit \in WeeklyEntries[i]
    <3>8. unit \in Int /\ unit <= taken[i]
      BY ONLY <3>6, <3>7
    <3>9. Units(symbol, history[i].opened) \in Int
      <4>1. history[i].opened \in Trades
        BY DEF HistInv, SalesOK
      <4>2. history[i].opened \in Int
        BY ONLY <2>1, <4>1
      <4> QED
        BY ONLY <2>1, <4>2, UnitsStep
    <3> QED
      BY ONLY <2>7, <3>5, <3>6, <3>8, <3>9
  <2> QED
    BY <2>8, <2>9
<1> QED
  BY <1>1, HistoryInvariance, PTL

-----------------------------------------------------------------------------
(* The points *)

LEMMA PointKeepsUnits ==
  ASSUME HistoryTypeOK, NEW i \in Trades, NEW window \in Windows, NEW change \in Changes,
         TrackPoint(i, window, change),
         NEW symbol, NEW n
  PROVE  Units(symbol, n)' = Units(symbol, n)
<1> DEFINE bought == [k \in Trades |->
                        IF k <= n /\ k \in Buys /\ history[k].symbol = symbol THEN history[k].qty ELSE 0]
<1>1. Trades' = Trades /\ Buys' = Buys
      /\ \A k \in Trades : history'[k].symbol = history[k].symbol /\ history'[k].qty = history[k].qty
  BY Tracked
<1>2. bought' = bought
  BY ONLY <1>1
<1>3. Units(symbol, n) = SumFunction(bought)
  BY DEF Units
<1>4. Units(symbol, n)' = SumFunction(bought')
  BY DEF Units
<1> HIDE DEF bought
<1> QED
  BY ONLY <1>2, <1>3, <1>4

LEMMA PointKeepsWanted ==
  ASSUME HistoryTypeOK, NEW i \in Trades, NEW window \in Windows, NEW change \in Changes,
         TrackPoint(i, window, change),
         NEW symbol, NEW sales
  PROVE  Wanted(symbol, sales)' = Wanted(symbol, sales)
<1>1. Trades' = Trades
      /\ \A k \in Trades : history'[k].symbol = history[k].symbol /\ history'[k].qty = history[k].qty
  BY Tracked
<1> QED
  BY ONLY <1>1 DEF Wanted

\* The weekly report matches without the points.
LEMMA PointKeepsEntries ==
  ASSUME HistInv, NEW i \in Trades, NEW window \in Windows, NEW change \in Changes,
         TrackPoint(i, window, change)
  PROVE  WeeklyEntries' = WeeklyEntries
<1> DEFINE sales == {k \in Sales : history[k].day > date - WeeklyDays}
           laidOut == [n \in Trades |-> Len(history)]
           Offered(symbol) == [n \in Trades |-> Units(symbol, laidOut[n])]
           wanted == sales \ Recorded
           Gone(symbol) == Taken(Units(symbol, 0), Wanted(symbol, wanted), Offered(symbol))
           Entry(k) == IF k \notin sales THEN {}
                       ELSE IF k \in Recorded THEN Lot(history[k].opened)
                       ELSE Gone(history[k].symbol)[k - 1] + 1 .. Gone(history[k].symbol)[k]
<1>1. HistoryTypeOK
  BY DEF HistInv
<1>2. /\ Trades' = Trades /\ Sales' = Sales /\ Recorded' = Recorded /\ date' = date
      /\ Len(history') = Len(history)
      /\ \A k \in Trades : /\ history'[k].symbol = history[k].symbol
                           /\ history'[k].qty = history[k].qty
                           /\ history'[k].opened = history[k].opened
                           /\ history'[k].day = history[k].day
  BY <1>1, Tracked
<1>3. WeeklyEntries = [k \in Sales |-> Entry(k)]
  BY DEF WeeklyEntries, Matched, WeeklyMissing
<1>4. WeeklyEntries' = [k \in Sales' |-> Entry(k)']
  BY DEF WeeklyEntries, Matched, WeeklyMissing
<1>5. Sales \subseteq Trades
  BY <1>1, RowTyped
<1>6. sales' = sales /\ (sales \ Recorded)' = sales \ Recorded
  BY ONLY <1>2, <1>5
<1>7. \A k \in Trades : Lot(k)' = Lot(k)
  <2> SUFFICES ASSUME NEW k \in Trades PROVE Lot(k)' = Lot(k)
    OBVIOUS
  <2> DEFINE symbol == history[k].symbol
  <2>1. \A m : Units(symbol, m)' = Units(symbol, m)
    BY <1>1, <1>2, PointKeepsUnits
  <2> QED
    BY <1>2, <2>1 DEF Lot
<1>8. laidOut' = laidOut
  BY ONLY <1>2
<1> HIDE DEF wanted, laidOut
<1>9. ASSUME NEW symbol
      PROVE  Gone(symbol)' = Gone(symbol)
  <2>1. \A m : Units(symbol, m)' = Units(symbol, m)
    BY <1>1, PointKeepsUnits
  <2>2. wanted' = wanted
    BY <1>6 DEF wanted
  <2>3. Wanted(symbol, wanted)' = Wanted(symbol, wanted)
    BY ONLY <1>2, <2>2 DEF Wanted
  <2>4. Offered(symbol)' = Offered(symbol)
    BY ONLY <1>2, <1>8, <2>1
  <2>5. Units(symbol, 0)' = Units(symbol, 0)
    BY ONLY <2>1
  <2> HIDE DEF Offered
  <2> QED
    BY ONLY <2>3, <2>4, <2>5
<1> HIDE DEF Gone, sales
<1>10. ASSUME NEW k \in Sales PROVE Entry(k)' = Entry(k)
  <2>1. history'[k].symbol = history[k].symbol /\ history'[k].opened = history[k].opened
    BY ONLY <1>2, <1>5, <1>10
  <2>2. Gone(history[k].symbol)' = Gone(history[k].symbol)
    BY ONLY <1>9, <2>1
  <2>3. Lot(history[k].opened)' = Lot(history[k].opened)
    <3>1. history[k].opened \in Trades
      BY <1>10 DEF HistInv, SalesOK
    <3> QED
      BY ONLY <1>7, <2>1, <3>1
  <2> QED
    BY ONLY <1>2, <1>6, <2>2, <2>3
<1> HIDE DEF Entry
<1> QED
  BY ONLY <1>2, <1>3, <1>4, <1>10

\* It leaves the samples of the statistics.
LEMMA PointKeepsSamples ==
  ASSUME HistInv, NEW i \in Trades, NEW window \in Windows, NEW change \in Changes,
         TrackPoint(i, window, change)
  PROVE  /\ RateBase' = RateBase /\ RateBase \subseteq Trades
         /\ Enough' = Enough
<1>1. HistoryTypeOK
  BY DEF HistInv
<1>2. /\ Trades' = Trades /\ Sales' = Sales /\ Sales \subseteq Trades
      /\ \A k \in Trades : history'[k].reason = history[k].reason
  BY <1>1, Tracked, RowTyped
<1>3. Samples' = Samples
  BY <1>2, PointKeepsEntries DEF Samples
<1>4. Samples \subseteq Sales
  BY DEF Samples
<1>5. RateBase' = RateBase /\ RateBase \subseteq Trades
  BY ONLY <1>2, <1>3, <1>4 DEF RateBase, EarlyTargets
<1> QED
  BY <1>3, <1>5 DEF Enough

LEMMA RuleTyped ==
  ASSUME NEW rule \in AverageRules
  PROVE  /\ rule.bound \in Int /\ rule.window \in Windows
         /\ \A change \in Int : rule.sign * change \in Int
<1>1. rule.bound \in Int /\ rule.window \in Windows /\ rule.sign \in {1, -1}
  BY DEF AverageRules, Windows
<1>2. \A change \in Int : 1 * change \in Int /\ (-1) * change \in Int
  OBVIOUS
<1> QED
  BY <1>1, <1>2

LEMMA ExcessTyped ==
  ASSUME NEW rule \in AverageRules, NEW change \in Changes
  PROVE  rule.sign * change \in Int /\ rule.bound \in Int /\ rule.sign * change - rule.bound \in Int
<1>1. change \in Int
  BY ReportAssumption
<1>2. rule.sign * change \in Int /\ rule.bound \in Int
  BY <1>1, RuleTyped
<1>3. \A m \in Int, n \in Int : m - n \in Int
  OBVIOUS
<1> QED
  BY ONLY <1>2, <1>3

LEMMA PointExcessTyped ==
  ASSUME NEW rule \in AverageRules, NEW post \in Points, rule.window \in DOMAIN post
  PROVE  rule.sign * post[rule.window] - rule.bound \in Int
<1>1. post[rule.window] \in Changes
  BY DEF Points
<1> QED
  BY <1>1, ExcessTyped

\* A point adds its excess to the rule that looks at it, and nothing to another.
LEMMA PointMovesSum ==
  ASSUME HistInv, NEW i \in Trades, NEW window \in Windows, NEW change \in Changes,
         TrackPoint(i, window, change), NEW rule \in AverageRules
  PROVE  LET sum == SumFunction(Excesses(rule))
         IN  /\ sum \in Int
             /\ sum' = sum \/ ( /\ LooksAt(rule, i, window)
                                /\ sum' = sum + (rule.sign * change - rule.bound))
<1> DEFINE Looked(k) == /\ history[k].reason = rule.reason
                        /\ rule.window \in DOMAIN history[k].post
           Excess(k) == IF Looked(k) /\ WeeklyEntries[k] # {}
                        THEN rule.sign * history[k].post[rule.window] - rule.bound ELSE 0
           f == Excesses(rule)
<1>1. HistoryTypeOK
  BY DEF HistInv
<1>2. /\ HistoryTypeOK' /\ Trades' = Trades
      /\ \A k \in Trades : /\ history'[k].reason = history[k].reason
                           /\ history'[k].post = (IF k = i THEN WithPoint(history[i].post, window, change)
                                                  ELSE history[k].post)
  BY <1>1, Tracked
<1>3. WeeklyEntries' = WeeklyEntries
  BY PointKeepsEntries
<1>4. f \in [Trades -> Int] /\ f' \in [Trades -> Int]
  <2>1. \A k \in Trades : history[k].post \in Points
    BY <1>1, RowTyped DEF Row
  <2>2. \A k \in Trades : history'[k].post \in Points
    BY <1>2, <2>1, PointTyped
  <2>3. \A k \in Trades : Excess(k) \in Int
    BY <2>1, PointExcessTyped
  <2>4. \A k \in Trades : Excess(k)' \in Int
    BY <2>2, PointExcessTyped
  <2>5. f = [k \in Trades |-> Excess(k)] /\ f' = [k \in Trades' |-> Excess(k)']
    BY DEF Excesses
  <2> HIDE DEF f, Excess
  <2> QED
    BY ONLY <1>2, <2>3, <2>4, <2>5
<1>5. \A k \in Trades : f[k] = Excess(k) /\ f'[k] = Excess(k)'
  BY <1>2 DEF Excesses
<1>6. window \notin DOMAIN history[i].post
  BY DEF TrackPoint
<1> HIDE DEF f
<1>7. \A k \in Trades : k # i => f'[k] = f[k]
  BY ONLY <1>2, <1>3, <1>5
<1>8. \/ f'[i] = f[i]
      \/ LooksAt(rule, i, window) /\ f[i] = 0 /\ f'[i] = rule.sign * change - rule.bound
  <2>1. history'[i].post = WithPoint(history[i].post, window, change) /\ history'[i].reason = history[i].reason
    BY ONLY <1>2, i \in Trades
  <2>2. f[i] = Excess(i) /\ f'[i] = Excess(i)'
    BY ONLY <1>5, i \in Trades
  <2>3. DOMAIN history'[i].post = DOMAIN history[i].post \cup {window}
    BY ONLY <2>1 DEF WithPoint
  <2>4. CASE rule.window = window
    <3>1. ~Looked(i) /\ f[i] = 0 /\ history'[i].post[window] = change
      BY ONLY <1>6, <2>1, <2>2, <2>4 DEF WithPoint
    <3>2. f'[i] = IF history[i].reason = rule.reason /\ WeeklyEntries[i] # {}
                  THEN rule.sign * change - rule.bound ELSE 0
      BY ONLY <1>3, <2>1, <2>2, <2>3, <2>4, <3>1
    <3> QED
      BY ONLY <2>4, <3>1, <3>2 DEF LooksAt
  <2>5. CASE rule.window # window
    <3>1. Looked(i)' <=> Looked(i)
      BY ONLY <2>1, <2>3, <2>5
    <3>2. Looked(i) => history'[i].post[rule.window] = history[i].post[rule.window]
      BY ONLY <2>1, <2>5 DEF WithPoint
    <3> QED
      BY ONLY <1>3, <2>2, <3>1, <3>2
  <2> QED
    BY ONLY <2>4, <2>5
<1>9. IsFiniteSet(Trades)
  BY <1>1, TradesFinite
<1>10. /\ SumFunction(f) \in Int
       /\ SumFunction(f') = SumFunction(f) + (f'[i] - f[i])
  BY ONLY <1>4, <1>7, <1>9, i \in Trades, SumChanged
<1>11. f[i] \in Int
  BY <1>4
<1>12. SumFunction(f') = SumFunction(f)
       \/ ( /\ LooksAt(rule, i, window)
            /\ SumFunction(f') = SumFunction(f) + (rule.sign * change - rule.bound))
  <2>1. CASE f'[i] = f[i]
    BY ONLY <1>10, <1>11, <2>1
  <2>2. CASE LooksAt(rule, i, window) /\ f[i] = 0 /\ f'[i] = rule.sign * change - rule.bound
    <3>1. rule.sign * change - rule.bound \in Int
      BY ExcessTyped
    <3> QED
      BY ONLY <1>10, <2>2, <3>1
  <2> QED
    BY ONLY <1>8, <2>1, <2>2
<1> QED
  BY <1>10, <1>12 DEF f

\* So it moves a rule about an average its own way.
LEMMA PointMovesAverage ==
  ASSUME HistInv, NEW i \in Trades, NEW window \in Windows, NEW change \in Changes,
         TrackPoint(i, window, change), NEW rule \in AverageRules
  PROVE  /\ (LooksAt(rule, i, window) /\ ~Beyond(rule, i)) \/ (Suggests(rule) => Suggests(rule)')
         /\ (LooksAt(rule, i, window) /\ Beyond(rule, i)) \/ (Suggests(rule)' => Suggests(rule))
<1> DEFINE sum == SumFunction(Excesses(rule))
           excess == rule.sign * change - rule.bound
<1>1. sum \in Int /\ (sum' = sum \/ (LooksAt(rule, i, window) /\ sum' = sum + excess))
  BY PointMovesSum
<1>2. Enough' = Enough
  BY PointKeepsSamples
<1>3. /\ Suggests(rule) <=> sum > 0 /\ Enough
      /\ Suggests(rule)' <=> sum' > 0 /\ Enough'
  BY DEF Suggests
<1>4. LooksAt(rule, i, window) => (Beyond(rule, i) <=> excess > 0)
  <2>1. HistoryTypeOK
    BY DEF HistInv
  <2>2. history'[i].post = WithPoint(history[i].post, window, change)
    BY <2>1, Tracked
  <2>3. LooksAt(rule, i, window) => history'[i].post[rule.window] = change
    BY <2>2 DEF LooksAt, WithPoint
  <2>4. rule.sign * change \in Int /\ rule.bound \in Int
    BY ExcessTyped
  <2> QED
    BY ONLY <2>3, <2>4 DEF Beyond
<1>5. excess \in Int
  BY ExcessTyped
<1> HIDE DEF sum, excess
<1>6. CASE sum' = sum
  BY ONLY <1>2, <1>3, <1>6
<1>7. CASE LooksAt(rule, i, window) /\ sum' = sum + excess
  <2>1. CASE Beyond(rule, i)
    <3>1. sum > 0 => sum' > 0
      BY ONLY <1>1, <1>4, <1>5, <1>7, <2>1
    <3> QED
      BY ONLY <1>2, <1>3, <1>7, <2>1, <3>1
  <2>2. CASE ~Beyond(rule, i)
    <3>1. sum' > 0 => sum > 0
      BY ONLY <1>1, <1>4, <1>5, <1>7, <2>2
    <3> QED
      BY ONLY <1>2, <1>3, <1>7, <2>2, <3>1
  <2> QED
    BY <2>1, <2>2
<1> QED
  BY ONLY <1>1, <1>6, <1>7

\* The review of a regime comes up by an early exit and is never taken back.
LEMMA PointMovesReview ==
  ASSUME HistInv, NEW i \in Trades, NEW window \in Windows, NEW change \in Changes,
         TrackPoint(i, window, change)
  PROVE  /\ SuggestsExitReview => SuggestsExitReview'
         /\ (window = "24h" /\ history'[i].post["24h"] > 2) \/ (SuggestsExitReview' => SuggestsExitReview)
<1> DEFINE early == EarlyExits(RateBase)
<1>1. HistoryTypeOK
  BY DEF HistInv
<1>2. /\ Trades' = Trades /\ window \notin DOMAIN history[i].post
      /\ \A k \in Trades : history'[k].post = (IF k = i THEN WithPoint(history[i].post, window, change)
                                               ELSE history[k].post)
  <2>1. window \notin DOMAIN history[i].post
    BY DEF TrackPoint
  <2> QED
    BY <1>1, <2>1, Tracked
<1>3. RateBase' = RateBase /\ RateBase \subseteq Trades /\ Enough' = Enough
  BY PointKeepsSamples
<1>4. \A k \in Trades : k # i => history'[k].post = history[k].post
  BY <1>2
<1>5. /\ DOMAIN history'[i].post = DOMAIN history[i].post \cup {window}
      /\ \A w \in DOMAIN history[i].post : history'[i].post[w] = history[i].post[w]
  <2>1. history'[i].post = WithPoint(history[i].post, window, change)
    BY <1>2
  <2> QED
    BY ONLY <1>2, <2>1 DEF WithPoint
<1>6. early \subseteq early'
  BY ONLY <1>3, <1>4, <1>5 DEF EarlyExits
<1>7. (window = "24h" /\ history'[i].post["24h"] > 2) \/ early' \subseteq early
  BY ONLY <1>3, <1>4, <1>5 DEF EarlyExits
<1>8. early' \subseteq RateBase /\ early \subseteq RateBase
  BY ONLY <1>3 DEF EarlyExits
<1>9. /\ SuggestsExitReview <=> 100 * Cardinality(early) > EarlyPercent * Cardinality(RateBase) /\ Enough
      /\ SuggestsExitReview' <=> 100 * Cardinality(early') > EarlyPercent * Cardinality(RateBase') /\ Enough'
  BY DEF SuggestsExitReview
<1> HIDE DEF early
<1>10. /\ IsFiniteSet(RateBase) /\ IsFiniteSet(early) /\ IsFiniteSet(early')
       /\ Cardinality(RateBase) \in Nat /\ Cardinality(early) \in Nat /\ Cardinality(early') \in Nat
  <2>1. IsFiniteSet(RateBase)
    BY <1>1, <1>3, TradesFinite, FS_Subset
  <2> QED
    BY ONLY <1>8, <2>1, FS_Subset, FS_CardinalityType
<1>11. Cardinality(early) <= Cardinality(early')
  BY ONLY <1>6, <1>10, FS_Subset
<1>12. early' \subseteq early => Cardinality(early') <= Cardinality(early)
  BY ONLY <1>10, FS_Subset
<1>13. EarlyPercent * Cardinality(RateBase) \in Nat
  <2>1. EarlyPercent \in Nat
    BY ReportAssumption
  <2>2. \A m \in Nat, n \in Nat : m * n \in Nat
    OBVIOUS
  <2> QED
    BY ONLY <1>10, <2>1, <2>2
<1>14. /\ 100 * Cardinality(early) > EarlyPercent * Cardinality(RateBase)
            => 100 * Cardinality(early') > EarlyPercent * Cardinality(RateBase)
       /\ early' \subseteq early =>
            (100 * Cardinality(early') > EarlyPercent * Cardinality(RateBase)
               => 100 * Cardinality(early) > EarlyPercent * Cardinality(RateBase))
  BY ONLY <1>10, <1>11, <1>12, <1>13
<1>15. SuggestsExitReview => SuggestsExitReview'
  BY ONLY <1>3, <1>9, <1>14
<1>16. (window = "24h" /\ history'[i].post["24h"] > 2) \/ (SuggestsExitReview' => SuggestsExitReview)
  BY ONLY <1>3, <1>7, <1>9, <1>14
<1> QED
  BY <1>15, <1>16

\* A late point moves each suggestion its own way only, and takes back no review
\* of a regime.
THEOREM PointsPullTheirWay == HistorySpec => SuggestionsFollowPoints
<1> DEFINE Follows(i, window) ==
             /\ \A rule \in AverageRules :
                  /\ (LooksAt(rule, i, window) /\ ~Beyond(rule, i)) \/ (Suggests(rule) => Suggests(rule)')
                  /\ (LooksAt(rule, i, window) /\ Beyond(rule, i)) \/ (Suggests(rule)' => Suggests(rule))
             /\ SuggestsExitReview => SuggestsExitReview'
             /\ (window = "24h" /\ history'[i].post["24h"] > 2) \/ (SuggestsExitReview' => SuggestsExitReview)
           Follow == \A i \in Trades, window \in Windows : Written(i, window) => Follows(i, window)
<1>1. HistInv /\ [HistoryNext]_historyVars => [Follow]_historyVars
  <2> SUFFICES ASSUME HistInv, HistoryNext, NEW i \in Trades, NEW window \in Windows, Written(i, window)
               PROVE  Follows(i, window)
    OBVIOUS
  <2> HIDE DEF Follows
  <2>1. HistoryTypeOK
    BY DEF HistInv
  <2>2. history'[i] # history[i]
    BY DEF Written
  <2>3. \A row : history' # Append(history, row)
    BY <2>1, <2>2, Appended
  <2>4. history' # history
    BY <2>2
  <2>5. ~(\E symbol \in Symbols, qty \in Quantities : OpenPosition(symbol, qty))
    BY <2>3 DEF OpenPosition
  <2>6. ~(\E symbol \in Symbols, reason \in Reasons : ClosePosition(symbol, reason))
    BY <2>3 DEF ClosePosition
  <2>7. ~Upgrade /\ ~NextDate
    BY <2>4 DEF Upgrade, NextDate
  <2>8. PICK j \in Trades, w \in Windows, change \in Changes : TrackPoint(j, w, change)
    BY <2>5, <2>6, <2>7 DEF HistoryNext
  <2>9. j = i /\ w = window
    <3>1. history'[i].post = (IF i = j THEN WithPoint(history[j].post, w, change) ELSE history[i].post)
      BY <2>1, <2>8, Tracked
    <3> QED
      BY ONLY <3>1, Written(i, window) DEF Written, WithPoint
  <2>10. TrackPoint(i, window, change)
    BY ONLY <2>8, <2>9
  <2> QED
    BY <2>10, PointMovesAverage, PointMovesReview DEF Follows
<1>2. HistorySpec => [][Follow]_historyVars
  BY <1>1, HistoryInvariance, PTL DEF HistorySpec
<1> QED
  BY <1>2 DEF SuggestionsFollowPoints

=============================================================================
