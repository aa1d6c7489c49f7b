------------------------------- MODULE ReportJobs -------------------------------
(***************************************************************************)
(* The scheduler's report jobs (daily_reporter_job and                     *)
(* weekly_exit_report_job of bot/main.py) next to the trading loop in one  *)
(* event loop: trades are committed between any two awaits of a job, and   *)
(* the report leaves through the webhook of common/notification.py, where  *)
(* a request may arrive without its answer coming back.                    *)
(***************************************************************************)
EXTENDS Integers, Sequences

CONSTANTS
  PeriodDays,  \* days of the weekly report
  BaseUrls,    \* len(base_urls)
  MaxRetries,  \* max_retries
  MaxSales,    \* bound: SELLs in a behaviour
  LastDay      \* bound: the calendar stops here

ASSUME JobAssumption == {PeriodDays, BaseUrls, MaxRetries, MaxSales, LastDay} \subseteq Nat \ {0}

VARIABLES
  sold,       \* the days of the SELLs committed so far
  today,      \* the UTC date
  job,        \* the report job at work, and what it has read
  received,   \* history: copies of its report that arrived
  unanswered  \* history: those of them whose answer was lost

vars == <<sold, today, job, received, unanswered>>

-----------------------------------------------------------------------------

Idle == [kind |-> "none", pc |-> "idle", day |-> 0, reads |-> <<>>,
         counted |-> {}, listed |-> {}, posts |-> 0, log |-> "none"]

\* The sales in total_pnl of the daily_risk_states row of a day.
CountedSales(day) == {i \in DOMAIN sold : sold[i] = day}

\* The sales among the rows a report goes through: no row is too late for it.
ListedSales(kind, day) ==
  {i \in DOMAIN sold : IF kind = "daily" THEN sold[i] >= day ELSE sold[i] > day - PeriodDays}

MutantRowsFirst(kind) == IF kind = "daily" THEN <<"rows", "state">> ELSE <<"rows">>

\* What a job reads, in this order; each read sees what is committed by then.
Reads(kind) == IF kind = "daily" THEN <<"state", "rows">> ELSE <<"rows">>

Start(kind) ==
  /\ job.pc = "idle"
  /\ job' = [Idle EXCEPT !.kind = kind, !.pc = "reading", !.day = today, !.reads = Reads(kind)]
  /\ received' = 0 /\ unanswered' = 0
  /\ UNCHANGED <<sold, today>>

\* Cron, every day at 13:00 UTC.
StartDaily == (job.kind = "none" \/ job.day < today) /\ Start("daily")

\* Cron, Sundays at 13:00 UTC.
StartWeekly == Start("weekly")

\* A read; after the last one the language model is asked for a summary.  A
\* day without trades may have a risk row or not, and without one no report.
Read ==
  /\ job.pc = "reading"
  /\ LET what == Head(job.reads)
         left == Tail(job.reads)
         next == IF left = <<>> THEN "summary" ELSE "reading"
     IN  \/ /\ what = "state" /\ CountedSales(job.day) = {}
            /\ job' = [job EXCEPT !.pc = "idle", !.log = "no data"]
         \/ /\ what = "state"
            /\ job' = [job EXCEPT !.pc = next, !.reads = left, !.counted = CountedSales(job.day)]
         \/ /\ what = "rows"
            /\ job' = [job EXCEPT !.pc = next, !.reads = left, !.listed = ListedSales(job.kind, job.day)]
  /\ UNCHANGED <<sold, today, received, unanswered>>

\* _generate_llm_summary of either report: the model's text, or the fallback
\* text if the model fails; the report goes out with either.
Summarised(kind) ==
  /\ job.pc = "summary" /\ job.kind = kind
  /\ job' = [job EXCEPT !.pc = "posting"]
  /\ UNCHANGED <<sold, today, received, unanswered>>

SummariseDaily == Summarised("daily")

SummariseWeekly == Summarised("weekly")

\* What the job prints: the daily one does not look at the notifier's answer.
Logged(kind, ok) == IF kind = "daily" \/ ok THEN "sent" ELSE "not accepted"

MutantKeepsPosting(answer) ==
  IF job.posts + 1 < BaseUrls * MaxRetries
  THEN [job EXCEPT !.posts = @ + 1]
  ELSE [job EXCEPT !.pc = "idle", !.log = Logged(job.kind, answer = 200)]

MutantRetriesForever(answer) ==
  IF answer = 200 THEN [job EXCEPT !.pc = "idle", !.log = Logged(job.kind, TRUE)]
  ELSE [job EXCEPT !.posts = (@ + 1) % (BaseUrls * MaxRetries)]

\* send_webhook after a post: 200 ends it; anything else, a timeout (0) too, is
\* tried again, MaxRetries times for each base URL.
AfterPost(answer) ==
  IF answer = 200 THEN [job EXCEPT !.pc = "idle", !.log = Logged(job.kind, TRUE)]
  ELSE IF job.posts + 1 < BaseUrls * MaxRetries THEN [job EXCEPT !.posts = @ + 1]
  ELSE [job EXCEPT !.pc = "idle", !.log = Logged(job.kind, FALSE)]

\* The histories stop where send_webhook does.
OneMore(n) == IF n < BaseUrls * MaxRetries THEN n + 1 ELSE n

\* A post arrives and is answered, arrives and its answer is lost or not 200,
\* or does not arrive.
Post(arrives, answer) ==
  /\ job.pc = "posting"
  /\ answer = 200 => arrives
  /\ job' = AfterPost(answer)
  /\ received' = IF arrives THEN OneMore(received) ELSE received
  /\ unanswered' = IF arrives /\ answer # 200 THEN OneMore(unanswered) ELSE unanswered
  /\ UNCHANGED <<sold, today>>

\* The database fails, or the process is stopped: the job ends.
Fail ==
  /\ job.pc # "idle"
  /\ job' = [job EXCEPT !.pc = "idle", !.log = "failed"]
  /\ UNCHANGED <<sold, today, received, unanswered>>

\* The trading loop commits a SELL.
Sell ==
  /\ Len(sold) < MaxSales /\ sold' = Append(sold, today)
  /\ UNCHANGED <<today, job, received, unanswered>>

NextDay ==
  /\ today < LastDay /\ today' = today + 1
  /\ UNCHANGED <<sold, job, received, unanswered>>

Init == sold = <<>> /\ today = 0 /\ job = Idle /\ received = 0 /\ unanswered = 0

JobStep ==
  \/ Read \/ SummariseDaily \/ SummariseWeekly
  \/ \E arrives \in BOOLEAN, answer \in {0, 200, 500} : Post(arrives, answer)

Next ==
  \/ StartDaily \/ StartWeekly
  \/ JobStep \/ Fail \/ Sell \/ NextDay

Spec == Init /\ [][Next]_vars

\* The event loop comes back to a job that waits: every read, model call and
\* post ends, in an error at the latest, because all of them have a timeout.
FairSpec == Spec /\ WF_vars(JobStep)

-----------------------------------------------------------------------------

TypeOK ==
  /\ sold \in Seq(0 .. LastDay) /\ Len(sold) <= MaxSales /\ today \in 0 .. LastDay
  /\ job \in [kind : {"none", "daily", "weekly"}, pc : {"idle", "reading", "summary", "posting"},
              day : 0 .. LastDay, reads : Seq({"state", "rows"}),
              counted : SUBSET (1 .. MaxSales), listed : SUBSET (1 .. MaxSales),
              posts : 0 .. BaseUrls * MaxRetries - 1,
              log : {"none", "sent", "not accepted", "no data", "failed"}]
  /\ received \in 0 .. BaseUrls * MaxRetries /\ unanswered \in 0 .. received

\* A trade committed while the daily report is read never makes its profit
\* speak of a sale that its list of trades does not have.
ProfitNeverAheadOfList ==
  job.kind = "daily" /\ job.pc \in {"summary", "posting"} => job.counted \subseteq job.listed

\* Whoever receives a report twice received one whose answer was lost: an
\* answered post is the last one.
DuplicatesOnlyUnanswered == TypeOK /\ received <= unanswered + 1

\* A webhook that never answers holds no job up for good.
JobsEnd == job.pc # "idle" ~> job.pc = "idle"

=============================================================================
