# CoinPilot in TLA+

CoinPilot is a paper-trading bot for KRW crypto markets: a collector stores
minute candles, a bot loop evaluates them once a minute for five symbols, two
LLM agents confirm every BUY, a risk manager limits what may be bought, and a
set of scheduled jobs, a chat router, a Discord bot and a dashboard work on the
same PostgreSQL and Redis. These modules model the parts whose errors would
cost money or go unnoticed: the trading cycle and its transaction, the daily
risk rules, the exit rules and the peak they depend on, the agents and the Redis
guard in front of them, the candles and what is read from them later, the
news scores, the reports, and what the assistant tells its users.

Paths below are relative to the repository's root.

## The system

| Component | State | Operations | Talks to |
|---|---|---|---|
| Bot loop, `src/bot/main.py` | one session per cycle; `SHUTDOWN` | `bot_loop`, the scheduler jobs | everything below |
| Database session, `src/common/db.py` | the open transaction | `get_db_session`: commit at the end, rollback on any exception | PostgreSQL |
| Paper executor, `src/engine/executor.py` | `account_state`, `positions`, `trading_history` | `get_balance`, `get_position`, `execute_order` | agents, guard keys, trade webhook |
| Risk manager, `src/engine/risk_manager.py` | `daily_risk_state` (one row per UTC date), Redis reference equity and volatility | `check_order_validity`, `update_after_trade`, `get_reference_equity`, ... | PostgreSQL, Redis, risk webhook |
| Strategy, `src/engine/strategy.py` | none: rebuilt from the positions row every cycle | `check_entry_signal`, `check_exit_signal`, `get_adjusted_exit_config`, `TrailingStop` | indicators |
| AI guardrails, `src/agents/guardrails.py` | Redis counters, cooldowns, a global block | `should_block_ai_call`, `mark_ai_call_started`, `update_ai_guardrails_after_decision` | Redis |
| AI pipeline, `src/agents/factory.py`, `runner.py`, `analyst.py`, `guardian.py` | `agent_decisions` | route, ask two agents within 40 s, log | LLM providers, PostgreSQL |
| Collector, `src/collector/main.py` | `market_data` | `backfill` at start, one candle per symbol a minute | Upbit API |
| Regime and volatility jobs, `src/bot/main.py` | Redis regime and volatility keys, `regime_history` | hourly, daily and at start | candles |
| Post-exit tracker, exit analysis, `src/analytics` | `post_exit_prices` | every few minutes, weekly | candles, history |
| News pipeline, `src/agents/news` | articles, summaries, scores | ingest, summarise and score | RSS |
| Reports, `src/agents/daily_reporter.py`, `src/analytics/exit_performance.py` | none | daily, weekly | history, LLM, notifier |
| Chat router and tools, query API, Discord bot | answer cache, session cooldowns, rate windows | questions and read-only commands | everything, reading |
| Dashboard | none | pages | PostgreSQL, reading |
| LLM usage, `src/common/llm_usage.py` | usage and cost rows | log, snapshot | provider APIs |
| Notifier, `src/common/notification.py` | none | webhook with retries | n8n |

How they interact. The bot, the scheduler jobs and the query API share one
asyncio process; collector, dashboard and Discord bot are processes of their
own. PostgreSQL carries what must survive, Redis what may be lost (the regime
with a two hour life, the volatility state, the day's reference equity, the
guard keys). A cycle of the loop is ONE transaction over all symbols: it sells,
sizes, validates, asks the agents (up to 40 seconds for a symbol) and buys, and
only then commits.

What is hard about it: a cycle that fails after a trade; a clock that passes UTC
midnight between validation and execution; several symbols that draw on one
balance, one exposure and one set of free slots without a commit in between; a
trailing stop that exists only as a column of a row; Redis reads and writes that
fail half way through a handler; a backfill that works from the newest page back
and decides by the newest row where the gap begins, while another job looks up
prices in what is stored so far; scores computed while articles are still being
committed; reports that match sales with entries that nobody recorded; an
assistant that judges the loop's rows by rules of its own. `PROJECT.json` lists
these hazards at their lines.

What makes each part correct, in short: the three money tables agree in every
view and change by whole trades; a limit holds when the order is executed, not
only when it was checked; a halted or cooling day has no entry, and the assistant
says so; a stop never forgets a peak and every position is closed in the end; an
approval is the word of both agents and on record; budgets of AI calls hold
and no symbol is shut out for good; a backfill leaves nothing out and a price
window gets the nearest candle there is; a score is that of the articles stored;
a report reckons a sale against its own entry or leaves it out; every command is
answered, and no answer is stale.

## The modules

| Module | Models | State in the module and in the code |
|---|---|---|
| `RiskManager` | the daily row and the rules, as operators | `Row` is `DailyRiskState` without `trade_count`, which is buys + sells |
| `TradingLoop` | the cycle, the executor, the session, the clock, Redis faults | `db` the committed rows, `session` the same rows as the open transaction sees them, `pc`/`turn`/`order` the place in `bot_loop` and its locals, `day`/`hour` the UTC clock, `snapshot` and `volatility` two Redis keys |
| `EntryAdvice` | the risk level and the recommendation on entries of the assistant, over the rows of `TradingLoop` | none of its own |
| `Ledger` | what the paper account promises | `settled` for any other reader, `working` for the batch in progress, `open` while a session holds one |
| `TradingLoopProofs`, `ExitProofs` | theorems about `TradingLoop` and `EntryAdvice`, `ExitStrategy` and `SellAdvice` | |
| `DecisionProofs` | theorems about `DecisionPipeline` and `AiGuardrails` | |
| `CollectorProofs`, `NewsProofs` | theorems about `Collector` and `PostExitTracker`, `NewsPipeline` | |
| `ReportProofs`, `ChatProofs` | theorems about `ReportJobs` and `TradeReports`, `ChatService` | |
| `FoldTheorems` | sums, least and greatest elements of finite sets, for the modules before | |
| `ExitStrategy` | one position from BUY to SELL | `db` and `session` the positions row with the last SELL of `trading_history`; `age` since `opened_at`; `peak`, `lost` and `seen` are history |
| `SellAdvice` | the sell advice of the assistant, over the row of `ExitStrategy` | none of its own |
| `AiGuardrails` | the Redis keys around an AI call | `redis` the keys as their TTL shows them, `pc`/`who` the BUY in progress, the clock; `calls`, `rejected`, `failures` are history |
| `DecisionPipeline` | routing, both agents, the 40 seconds and the decision row, composed with the guard | `analyst` the state of the graph, `outcome` the verdict and the row of the step |
| `Collector` | backfill and the minute loop | `stored` the minutes in `market_data`, `gap` the locals of `backfill` |
| `PostExitTracker` | the windows after a sale, composed with the collector | sales and their points in `post_exit_prices` |
| `NewsPipeline` | ingest job, summary job and what the assistant reads of them | `articles` and `scores` the committed rows, `ingest` and `summary` the open transactions; `current` is history |
| `TradeReports` | how daily report, weekly report and review match sales with BUYs, and the five rules of the weekly suggestions | `history` is `trading_history` by `executed_at`, `recording` the version deployed |
| `ReportJobs` | the report jobs between trades, and the notifier | `job` its place and what it has read; `received`, `unanswered` are history |
| `ChatService` | Discord commands, rate limiter, HTTP client, `/ask`, answer cache and cooldown | `cache`, `last` the router's tables, `runs` the graphs at work, `window` the limiter; `started`, `accepted` are history |
| `MC*` | symbol lists, exit parameters, model names, articles, windows | |

`TradingLoop` extends `RiskManager` and applies its operators to the rows of the
session, as `bot_loop` calls the risk manager with its session; it instantiates
`Ledger` under a refinement mapping. What a chart, a regime or the agents decide
is a choice there; `ExitStrategy` and `DecisionPipeline` open those two boxes.
`EntryAdvice` and `SellAdvice` are read next to the state they judge: what an
assistant says is checked against what the loop does with the same rows.
`PostExitTracker` runs on the minutes the `Collector` has stored so far.

### Actions and code

* `TradingLoop`. `BeginCycle` enters `get_db_session`; then each symbol in turn
  is one of `PassSymbol` (no data, stale data, no signal, an exception the loop
  swallows), `SellSymbol` (the sale and `update_after_trade`), or an entry:
  `SizeOrder` (balance, reference equity and the three caps), then
  `HaltDay`/`RefuseOrder`/`AcceptOrder` (`check_order_validity`), then `DropOrder`
  (pre-filter, guard, refusal, timeout, exception) or `ExecuteBuy` (the purchase and
  `update_after_trade`). `Commit`, `Rollback`, `Crash` end the cycle; `Restart` starts
  the process. `RetrainVolatility` is the job next to the loop, started with the process
  and at 00:05 UTC: it may publish its result between any two steps of a cycle, also
  while an order awaits the agents. `Tick`, `NextDay` and `LoseRedisKeys` may fall
  between any two as well.
* `ExitStrategy`. `Sell` and `Keep` are one evaluation by `check_exit_signal` with
  the row update after it; `Skip` is a cycle that does not reach it; `Commit` and
  `Rollback` decide what the next cycle reads.
* `AiGuardrails` and `DecisionPipeline`. `PassGuard` reads, `MarkCall` counts; the
  analyst answers or fails, then the guardian, or the 40 seconds end, and `Conclude`
  gives the verdict, writes the row and books the decision (`Approve`, `Refuse`). Each
  guard handler is the sequence of its Redis commands and may stop after any of them.
* `Collector` and `PostExitTracker`. `FindGap`, `FetchPage`, `FetchInitial`, `UpToDate`
  and `FailBackfill` are `backfill` as `main` calls it for each symbol; `Collect`,
  `EndRound` and `Wake` are the minute loop. The tracker's run takes the windows that
  are due, with the candles there are.
* `NewsPipeline`. `StartIngest`, `ReadFeed` once per feed, `CommitIngest` or
  `FailIngest`; `StartSummary`, `ScoreSymbol` once per symbol, `CommitSummary` or
  `FailSummary`; `Crash` ends both; `Show` and `Drop` are the feeds.
* `TradeReports`. `OpenPosition` and `ClosePosition` write the history, `TrackPoint`
  one point of one window after a sale; `Upgrade` deploys the version that records
  entries, `NextDate` turns the calendar. The reports and the five rules of the weekly
  suggestions (`SuggestsExitReview`, `Suggests`) are operators on it.
* `ReportJobs`. `StartDaily`, `StartWeekly`, one `Read` per statement, the summary,
  one `Post` per attempt; `Sell` commits in between.
* `ChatService`. `Command` passes the limiter; `AnswerFromCache`, `CoolDown` or
  `StartRun` is the router up to its first await; `Finish` and `Fail` end a run;
  `GiveUp` is the client's timeout; `RestartApi` empties cache, cooldowns and runs,
  `RestartDiscordBot` the limiter and the commands under way.

### Abstractions

* Money, prices and quantities are whole units and ratios percentages (per mille in
  `ExitStrategy`), so a quantity is the amount divided and rounded down; an order that
  rounds to nothing is refused, which the code's decimals never need.
* `get_total_exposure` reads the latest closes in a session of its own while the
  collector writes: any price may be seen for each holding.
* A row of `daily_risk_state` that does not exist yet is the fresh row, and the account
  row holds the deposit from the start: creating them changes nothing a reader can see.
* A rolled-back cycle takes back the row it evaluated, and with it the peak of that
  cycle's close. `peak` follows the row, so what is said of peaks is said of the closes of
  committed cycles, and of those before in the same one.
* The loop and the sell advice compute RSIs of their own from different candles. Each being
  above the threshold is an independent choice (`overbought`, `hot`).
* What the assistant says is judged at the moment it is computed. The chat may repeat an
  answer for as long as its cache keeps it, also one from before a halt.
* The Redis copy of the high water mark is left out because nothing reads it; that its
  write may fail before the row update is kept (`Keep`, `lost`).
* Guard counters stop counting where the code stops telling values apart (3 refusals,
  the error threshold, the two budgets); keys are kept as what TTL shows, so no clock
  bound is needed.
* The text of a reasoning is kept to what the guard reads in it: credit, an error code,
  or neither. Prompts, pattern features and boundary terms are left out.
* The collector keeps which minutes are stored. That the newest candle is stored while
  its minute runs, and never replaced, is therefore outside the model.
* An article is what the pipeline reads in it; an undated one, which the code stores
  anew at every run, is stored anew in every hour. The cut of a feed after
  200 items is left out: the feeds of the instance are shorter.
* In the reports the units of a symbol are numbered in the order they were bought, and an
  entry is the interval of units a sale is given: which units they are, not what they cost.
* The weekly rows are taken as of one regime, since suggestions are made for each
  apart. Averages and the rate are compared exactly, where the code rounds to four decimals
  first. A tracker pass that fills several windows is several steps. The windows of 1 and 12
  hours, which no suggestion reads, are left out.
* Times in `ChatService` are ages that stop where nothing tells them apart. Popping the
  head of a list one by one until an entry may stay is written as what is left (`From`),
  and the entry a lookup finds as a set with at most one element (`Hits`).
* Webhooks of trades and risk events, metrics, status keys and message texts are left out.

## What the runs check

| Run | Shows | Bounds |
|---|---|---|
| `loop_accounts` | `NeverOverdrawn`, `BooksAgree`, `EntriesWithinLimit`, `HaltIsFinal`, `LossLimitHonoured`, `EntryWithinCap`, `HaltStaysTold`, `TypeOK`; the loop implements `Ledger` (`ImplementsLedger`) | two symbols, two prices, two size ratios, both volatility states, retrained at any moment, two days of one tick, two entries a day; one unit lost on a full order is ten percent, the limit |
| `loop_cooldown` | `CooldownHonoured`, `StreakFollowsConfig`, `HoldingsWithinLimit` | one day of three ticks, Redis failing at will, four entries, one permitted holding for two symbols, a cooldown of two ticks |
| `exit` | `HwmIsPeak`, `SaleRecordsPeak`, `TrailingNeverForgets`, `EntryStopHonoured`, `EveryPositionCloses`; `SellAdvice` agrees with the loop where both judge by the same regime, but for what only one of the two RSIs sees (`AdviceMatchesLoop`) | the YAML parameters, eight closes from 5 percent below to 6 percent above the entry, every regime and `UNKNOWN`, ages up to four days |
| `market_data` | `BackfillClosesGap`, `EverySymbolKeepsUp`, `PointsAreNearest`, `WindowsAreTracked` | two symbols, minutes 2 to 5 with a silent one, pages of two, windows of one and three minutes, one sale |
| `decisions` | `CanaryWithinShare`, `BudgetHeld`, `DecisionsAreTraceable`, `GuardReopens`, `RefusalsCoolDown`, `BreakerOpens` | two symbols on either side of the canary share, two confidences on either side of the threshold, two calls an hour, three a day, cooldowns 1, 2, 2 in a window of 3, a breaker at two errors |
| `chat` | `FreshAnswers`, `LimitsHeld`, `AsksAnswered` | two users, two questions for a cache of two, two commands in a limiter's window of two ticks, answers, runs and a cooldown of two, a client that waits one, restarts of either process |
| `news` | `ScoreWithinArticles`, `ScoreIsCurrent`, `ScoresSettle` | two symbols, two feeds, a dated and an undated article, a window of two hours in three hours, the last of them without faults |
| `reports` | `EntriesExact`, `WeeklyEntryNotLater`, `SuggestionsFollowPoints` | every history of four rows over three days, rows from before and after entries were recorded, two exit reasons, points of 4 and 24 hours at 3 percent below or 4 above the sale |
| `report_jobs` | `ProfitNeverAheadOfList`, `DuplicatesOnlyUnanswered`, `JobsEnd` | two base URLs with three attempts each, three sales over three days |
| `cooldown_midnight` | refutes `CooldownSpansMidnight` | one symbol, two days of three ticks |
| `decision_lost` | refutes `EveryDecisionIsRecorded` | as `decisions`, without a key for the canary |
| `advice_regime` | refutes `AdviceFollowsRegime` | as `exit` |

Why the bounds are enough. Two symbols are the least that share a balance, an
exposure, a slot, a budget, a feed and a round; the rules treat further ones alike.
Two prices make gains and losses, and eight closes around the 1 percent activation, the
trailing distances and the three stops make every exit rule fire. Two days give a
midnight between any two steps. The streak of three is the code's literal, so
`loop_cooldown` allows four entries. The gap of four minutes needs two pages of two,
with a silent minute inside, and a window of three minutes ends while a lagging
collector is still behind. Two questions are the least that put the cache out of
the order of age. The instance never has more of them than the cache holds: eviction by count is
left to the theorem `AnswersFresh`, as three questions are beyond what can be enumerated here.
Points of 3 below and 4 above lie on either side of the bounds of all rules, and two reasons
give one rule of each direction. Four rows are two positions of a symbol
or one of each, the least for a sale to be reckoned against the wrong BUY. `reports`
takes 60 percent as the share of early exits that leads to a suggestion, where the code
has 40: with so few sales the two separate the same counts better. Every bound is a
constant of a `.cfg` file; `LastDay`, `LastDate`, `AgeCap`, `LastMinute`, `LastHour`, `MaxRows` and
`MaxSales` are the only ones that are not in the code.

The deadlock check is off in `reports` only: its rows and its calendar are
bounded, and when both are used up nothing is left to write. Elsewhere time
stops at a bound and the loops never do.

### Fairness

`TradingLoop` and `TradeReports` have only safety properties and no fairness.

`ExitStrategy!Fairness`: time passes and the loop keeps cycling, since `bot_loop`
catches everything and starts again (weak). The feed, Redis and the database may fail
again and again but not for ever: evaluations get through, and so do commits of a
cycle that changed a row (strong, because failures make them possible only
from time to time). Without the second half no position need ever be closed: stale
candles alone skip it.

`DecisionPipeline!DecisionSpec`: only that time passes. `GuardReopens` needs nothing of
the bot.

`Collector!Fairness`: the process is restarted (`restart: always`) and its loop goes on
(weak); a collector that gets its turn again and again ends its backfill and stores a
candle again and again (strong). A symbol whose call ALWAYS fails starves those after
it in the list: `EndRound` abandons the round, and the property would fail without
this assumption. The tracker is run by the scheduler, whatever its last run did (weak).

`NewsPipeline!FairSpec`: a job that has started takes its next step, the scheduler starts
the next one, and time passes (weak). Faults are the model's until the last hour, in which
feeds answer and transactions commit: `ScoresSettle` is about what follows them.

`ReportJobs!FairSpec`: a job takes its next step (weak), as every request of it has a
timeout. `ChatService!FairSpec`: time passes and a timeout fires (weak); no run need ever
finish, and `AsksAnswered` holds because the client gives up.

### Disagreements between the code and its documents

* `cooldown_midnight`: "2시간 거래 중단" after three losses (`docs/PROJECT_CHARTER.md:180`).
  The end of the cooldown is stored on the row of its UTC date and read from the row of
  the current one, so midnight ends it.
* `decision_lost`: every decision is to be traceable, `model_used` included
  (`docs/work-result/21-03_ai_decision_model_canary_experiment_result.md:35, 50`). A signal
  that falls back from the canary because its key is missing gets a label of 54
  characters, the column has 50, and the insert fails inside a `try` that only logs: no
  row, no alert.
* `advice_regime`: the sell advice is to judge by the engine's rules and the regime
  (`sell_timing_tool.py:91`, `17-01_chatbot_consultant_intent_sell_strategy_result.md:65`).
  It looks the regime up under "BTC", the job stores it under "KRW-BTC", and the
  advice falls back to the regime of the entry.

Seen while modelling, without a run of its own. In the loop: `high_water_mark` of a trade is
"청산 시점 최고가" (`models.py:48`), but a stop loss returns before `new_hwm` is set and the
executor falls back to the exit price; high volatility is to halve the order
(`docs/DEEP_LEARNING_GUIDE.md:531`, `risk_manager.py:68`), but the amount is sized without the
multiplier and then refused for exceeding the halved cap; no rule keeps entries 30
minutes apart (`PROJECT_CHARTER.md:181`); the streak of three is a literal although
`cooldown_after_consecutive_losses` is loaded from YAML (`risk_manager.py:361`); the
reference equity "fixed within the day" is recomputed when Redis loses it
(`risk_manager.py:180, 204`); a failed Redis write keeps a peak out of the row
(`main.py:294`); the cap is looked up when an order is validated, so volatility that turns
high while the agents are asked (`main.py:675, 732`) does not halve that order. In the guard: the reject counter's window is renewed by each refusal, so refusals
spread over more than 30 minutes add up (`guardrails.py:103`); a timeout does not match
the wording of an error and resets the error streak (`guardrails.py:23, 128`); budgets
are per clock hour, so twice the budget fits around the turn of an hour; a failing
provider chain keeps the name of the first model (`factory.py:52-66`). In the collector: a
restart is to repair what is missing (`collector/main.py:185`), but only what follows the
newest stored minute is fetched. In the news: an article without a date is stored again by every
ingest (`models.py:242`). In the reports: trades from 13:00 UTC to midnight are in no daily
report; the weekly lots may match a sale of before entries were recorded with an older BUY, and
its average holding time knows only those sales; the daily job logs "sent" whatever the
webhook answered. In the assistant: a cooldown is never told, because the streak is cleared
when it starts (`risk_manager.py:361-363`, `risk_diagnosis_tool.py:80-82`,
`pages/3_risk.py:112-113`); all Discord users share the session "default"; concurrent
identical questions both run; Discord's cut at 1900 characters can drop the disclaimer
(`router.py:354-363`); the wait it names is rounded down; the dashboard's cache of answers
has no end and keeps error texts.

## What is proved

Eight modules hold theorems. `TradingLoopProofs` proves, for every set of symbols, prices,
ratios, limits, every deposit, day length and number of days that satisfy `RiskAssumption`
and `LoopAssumption`, with and without Redis faults unless the last column says otherwise:

| Theorem | States | Needs |
|---|---|---|
| `TypeCorrect` | `Spec => []TypeOK` | |
| `NoOverdraft` | `Spec => []NeverOverdrawn` | |
| `EntryLimit` | `Spec => []EntriesWithinLimit` | |
| `HaltLatch` | `Spec => HaltIsFinal` | |
| `CooldownBlocks` | `Spec => CooldownHonoured` | |
| `Refinement` | `Spec => ImplementsLedger` | |
| `Invariance` | `Spec => []IInv` | |
| `SlotLimit` | `Spec => []HoldingsWithinLimit` | |
| `StreakLimit` | `Spec => []StreakFollowsConfig` | `CooldownAfter >= LossStreak` |
| `HaltIsTold` | `Spec => HaltStaysTold` | |
| `LossLimit` | `Spec => LossLimitHonoured` | no Redis faults |
| `OrderCap` | `Spec => EntryWithinCap` | no Redis faults |
| `RiskInvariance` | `Spec => []RiskInv` | |
| `Bookkeeping` | `Spec => []BooksAgree` | |

The argument of the first seven. None of them is inductive alone, because the order is
checked in one step and executed in a later one, with the clock moving in between. `IInv` adds
`CycleShape`: between cycles the session shows the committed rows; while an order
waits, its symbol is not held and its price is a market price; while the agents are
asked, today's row was found open by the check. What may have changed since is the
date, so `FutureIsFresh` says that the rows of days to come are fresh: the day that
begins while the agents are asked has no halt, no cooldown and no entry yet, which
is why a BUY across midnight breaks no rule of either day. `EntriesOnlyGrow` (the
session never has fewer entries than the database) and `NoEmptyRow` (no holding with
a cost but no quantity) close the induction and give the refinement its guards. The
proof that a step preserves `IInv` has one lemma per action; the action properties
and the refinement follow from `IInv` at the step where the entry happens.

The limits build on it. `RiskInv` adds what the check of an order leaves behind
for its execution: a slot that is still free while the agents are asked (`SlotFree`, since
nothing is bought in between), streaks below the literal (`StreakBelow`, a sale either
clears the streak or starts the cooldown and clears it), and halts that the session
never takes back (`HaltKept`). `PricedInv` follows a price instead: an order costs no
more than the amount it was sized at (`OrderFits`, a quotient rounded down), and an
accepted one meets the loss limit of the day it is now, and met the cap of the day and the
volatility it was validated at, which `order` remembers as history because either may be
another one when the order is executed (`OrderPriced`). Both percentages are of a reference that Redis holds: when it is lost
the next reader computes another one, an order may have been judged by the first and be
executed under the second, and the two theorems are not true. Hence their assumption.
`StreakLimit` needs the configured streak to be no shorter than the literal three.

`BooksAgree` is inductive next to `IInv`. Its sums run over all symbols and all days, and a
trade changes one position and one row: `SumChanged` says by how much a sum follows one
of its terms. A purchase then moves its cost from the balance to a position, a sale moves it
back and books the difference as the profit of the day (`EntryAgrees`, `SaleAgrees`), and a
commit, a rollback or a crash replaces one view that agrees by another.

The others prove, under the assumption on the constants of the module they are about:

| Theorem | States | Needs |
|---|---|---|
| `ExitProofs!MarkIsPeak` | `Spec => []HwmIsPeak` | |
| `ExitProofs!PeakIsRecorded` | `Spec => []SaleRecordsPeak` | |
| `ExitProofs!EntryStop` | `Spec => EntryStopHonoured` | |
| `ExitProofs!TrailingStop` | `Spec => TrailingNeverForgets` | |
| `ExitProofs!AdviceAgrees` | `Spec => []AdviceMatchesLoop` | every regime has a trailing distance and a time limit |
| `ExitProofs!PeakInvariance` | `Spec => []PeakInv` | |
| `CollectorProofs!GapIsClosed` | `Spec => BackfillClosesGap` | |
| `CollectorProofs!CollectorInvariance` | `Spec => []IInv` | |
| `DecisionProofs!BudgetLimit` | `DecisionSpec => []BudgetHeld` | |
| `DecisionProofs!BreakerOpen` | `DecisionSpec => BreakerOpens` | |
| `DecisionProofs!Traceable` | `DecisionSpec => DecisionsAreTraceable` | |
| `DecisionProofs!DecisionInvariance` | `DecisionSpec => [](GuardInv /\ OpinionInv)` | |
| `DecisionProofs!RefusalCooldown` | `DecisionSpec => RefusalsCoolDown` | no cooldown shorter than the one before |
| `DecisionProofs!CanaryShare` | `DecisionSpec => []CanaryWithinShare` | the canary's model is not the primary one |
| `CollectorProofs!NearestPoints` | `TrackerSpec => []PointsAreNearest` | |
| `CollectorProofs!TrackerInvariance` | `TrackerSpec => []TrackerInv` | |
| `NewsProofs!ScoresWithin` | `FairSpec => []ScoreWithinArticles` | |
| `NewsProofs!CurrentScores` | `FairSpec => []ScoreIsCurrent` | |
| `NewsProofs!NewsInvariance` | `FairSpec => []NewsInv` | |
| `ChatProofs!AnswersFresh` | `Spec => []FreshAnswers` | |
| `ChatProofs!Limits` | `Spec => []LimitsHeld` | |
| `ChatProofs!ChatInvariance` | `Spec => []ChatInv` | |
| `ReportProofs!ProfitBehindList` | `Spec => []ProfitNeverAheadOfList` | |
| `ReportProofs!OneAnswered` | `Spec => []DuplicatesOnlyUnanswered` | |
| `ReportProofs!ReportInvariance` | `Spec => []IInv` | |
| `ReportProofs!EntriesAreExact` | `HistorySpec => []EntriesExact` | |
| `ReportProofs!WeeklyNotLater` | `HistorySpec => []WeeklyEntryNotLater` | |
| `ReportProofs!PointsPullTheirWay` | `HistorySpec => SuggestionsFollowPoints` | |
| `ReportProofs!HistoryInvariance` | `HistorySpec => []HistInv` | |

*Exits.* The mark and the peak recorded with a sale are inductive together (`PeakInv`): a
sale copies the mark it read, and a rollback brings back a row whose mark was right for
the peak of that time, or is counted as lost. Both stops are then facts of one
evaluation: `AdjustedStop` shows that the regime of the moment can only tighten the stop
of the entry, and the trailing stop compares with the mark. The advice computes with the
same row, and with an RSI of its own, so the theorem sets apart what one of the two RSIs alone
decides. It also asks first whether a parameter is set; where a regime had a zero for its
trailing distance or its time limit the two would part, hence the assumption of
`AdviceAgrees`, which the YAML file of the repository meets.

*Backfill.* It works from the newest page back and stops by a count. `PageInv` says that
what it has fetched has no hole from the start down to the end of the next page, and that
the count left is no less than the minutes left. A page is the newest candles before a
minute, as many as were asked for: `PageShape` shows that it has no hole, and that a page
with a candle at minute m has room for everything in between. These facts about sets of
minutes rest on their least elements (`LeastNat`, from the well-foundedness of the
natural numbers). A short page is the last one,
and a silent minute only makes a page reach further back.

*Agents.* A handler is a sequence of Redis commands that may stop after any of them
(`LeftIn`): it is enough that every stage is well typed and leaves the usage counters
alone. `WithinBudget` relates what Redis counts to the calls there were: a counter may be
ahead of them, never behind, and it is still below its limit when the guard was passed,
even if the hour changed since. `BreakerHolds` relates the run of failures to the error
counter with its TTL and to the block: the counter outlives the run, so the failure that
completes the run also sets the block, and until the block has lasted no call is under
way that could replace it by a shorter one. `OpinionInv` keeps the analyst's word and its
route until the guardian has answered.

*Refusals.* `CoolingInv` compares every refusal in the window with what Redis has: the
counter knows of at least as many refusals as there were, it lives until the oldest of
them leaves the window, and the cooldown set with the newest one runs as long as their
number asks for. Redis may know of more, because a handler can stop after it has counted
and because each refusal renews the counter's life; more refusals must then not mean a shorter
cooldown. Hence `CooldownsGrow`, which the 5, 10 and 15 minutes of the code meet.

*Windows.* A point that is not marked late was taken when the collector had every traded
minute up to the window's end within the tolerance, so the nearest of the candles stored
is the nearest of all (`NearestOfAll`), and no later backfill can come closer. `TrackStep`
carries this through a run that fills several windows of several sales.

*Reports.* `JobShape` says that the rows are read after the risk row, with sales only
added in between; `PostShape` that as many copies arrived as answers were lost, until the
post that ends the job.

*Matching.* `HistInv` says what kind of history the loop writes: a BUY finds its symbol
flat (`BuysOK`), a SELL sells the whole position it names, with no row of the symbol in
between (`SalesOK`), days are in order, and entries are recorded from the upgrade on.
The matching itself is a recursive function over the rows; `TakenStep` gives its equations
and the rest is induction over the rows of one history. `Due` holds before each row:
every unit of the symbol is gone except those of the position it holds, if the report has
seen its BUY. It survives every row (`DueNext`), so a sale takes exactly its own lot, or
nothing when its BUY lies before the first row looked at (`SaleTakes`). The weekly report
knows every BUY but not the earlier sales, and recorded sales take nothing; it is only ever
behind: what the sales have taken is never more than what was bought, nor a unit of a
position still held (`BehindHolds`). A late point changes nothing but `post` of its row, so entries and
samples stay (`PointKeepsSamples`). The sum that a rule about an average compares with 0
changes by what that point exceeds the bound by, and only if the rule looks at it
(`PointMovesSum`, from `SumChanged`); the set of early exits can only grow, over a base that
stays (`PointMovesReview`).

*The canary.* The setting clamps the percentage, so a bucket of the share lies below 20
(`PercentClamped`, `Shares`); `Routed` follows the resolved provider and its key through the
fallbacks. A run is told from the other route by the name of its model only: with the same
model on both sides every answer would count as the canary's, hence `CanaryNamed`.

*News.* `NewsInv` says of every row, committed or in a transaction, that its score lies
between the risks of two articles stored for its symbol and window and has its level from
one of them; an ingest only adds articles, so a row never loses its two. That a mean of
weighted risks lies between the least and the greatest is `SumWithin`. While nothing was
committed since a run read the articles, its score is one of those they give (`Timely`), and
no window ends after the present (`NothingAhead`), so the newest row the assistant can find
is that of the hour.

*Chat.* The cache is not in the order of age, so nothing is said about order: an entry that is
not expired rests on data at most a run older than itself (`Sound`), and each lookup checks
the entry it returns. Cleaning, removing, appending and moving an entry keep one entry for
a question (`CleanedSound`, `OthersSound`, `AppendedSound`). `started` remembers, apart from the
runs, when each was let through within the cooldown, whatever became of it. `RunInv` says that it
holds at most one start, and that this is the `last` the router has booked. The limiter's list and the commands of the last 60 seconds are kept separately:
`Limited` says that the list is in the order of arrival and that what it still has to count
is exactly those commands (`LimiterCounts`, `LimiterAges`).

*Folds.* The prover cannot use an induction theorem that takes a predicate. `FoldTheorems`
states induction for sets instead: a set that has 0 and each successor has every number,
and a set of subsets that has the empty set and grows by single elements has the whole one.
From that follow that the library's `SumFunction` adds up (`SumFunctionIs`), what one term
changes, its bounds, and that `Min` and `Max` of a finite set of integers exist.

Only model-checked: liveness, that is `EveryPositionCloses`, `GuardReopens`, `EverySymbolKeepsUp`, `WindowsAreTracked`,
`ScoresSettle`, `JobsEnd`, `AsksAnswered` (fairness and ENABLED are out of the prover's
reach).

## What is not modelled

* Entry rules and indicators: stateless arithmetic on a data frame; the loop takes
  their outcome as a choice.
* Prompts, pattern features, intent classification, retrieval and SQL of the chat: text
  that a model reads and writes.
* LLM usage and cost: append-only rows that no decision of the system reads.
* Two bots during a rolling update: what they do to each other is decided by row locks
  and isolation levels of PostgreSQL that nothing in the repository fixes.
* The statistics behind regime and volatility: their readers take any value, which
  covers every failure of the jobs.
* Webhooks of trades and risk events, status keys and metrics: nothing reads them back.
* Dashboard, scripts and backtests: they change no state of the running system.

## The plan

Done, in this order: the trading cycle with the risk rules and its ledger; its
invariants proved; the exit rules; the AI guard; the collector; the agents in front of
the guard; the tracker on the collector; the news; the reports and their jobs; the chat
with its clients; what the assistant says of halts and exits; the loop's limits proved;
the exits, the backfill and its windows, the agents behind the guard and the report jobs
proved; then the sums of the books, the share of the canary, the news and the chat; then the
matching of the reports.

Left, extending the model: `RegimeFeed` (the jobs with the two hour life of the key and
one symbol's failure), `TradeNotice` (the trade webhook against a transaction that may
still be rolled back), two bots on one database.

Left, proving more: nothing that the passing runs check but liveness.

## Running

`tlc -config loop_accounts.cfg MCTradingLoop` and so on for the runs above (the module of
each is in `PROJECT.json`); `tlapm TradingLoopProofs.tla` and so on for the eight modules
with proofs.
