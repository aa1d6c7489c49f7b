------------------------------ MODULE TradingLoop ------------------------------
(***************************************************************************)
(* The bot loop of bot/main.py with the paper executor and the risk        *)
(* manager it calls.  One cycle is one database session: it walks the      *)
(* symbols in order, sells or buys inside the session, and commits at the  *)
(* end.  Between the steps the clock moves (a day may end while an AI call *)
(* is awaited), Redis loses keys, the session is rolled back, the process  *)
(* dies.  What a chart, a regime or an agent decides is an arbitrary       *)
(* choice here: ExitStrategy and DecisionPipeline model it.                *)
(***************************************************************************)
EXTENDS RiskManager, Sequences, FiniteSets, FiniteSetsExt

CONSTANTS SYMBOLS,      \* config.SYMBOLS, in the order of the loop
          Prices,       \* the prices a candle can close at
          Ratios,       \* the position_size_ratio of the regimes, percent
          Volatilities, \* the multipliers the volatility job can publish
          Deposit,      \* PAPER_BALANCE
          DayLength,    \* clock ticks of a UTC day
          LastDay,      \* bound: the clock stops at the end of this day
          RedisFaults   \* whether Redis reads and writes of the loop can fail

Symbols == {SYMBOLS[i] : i \in 1 .. Len(SYMBOLS)}

Days == 0 .. LastDay

ASSUME LoopAssumption ==
  /\ SYMBOLS \in Seq(STRING) /\ SYMBOLS # <<>>
  /\ \A i, j \in 1 .. Len(SYMBOLS) : SYMBOLS[i] = SYMBOLS[j] => i = j
  /\ Prices \subseteq Nat \ {0}
  /\ Ratios \subseteq 0 .. 100
  /\ Volatilities # {} /\ Volatilities \subseteq {50, 100}
  /\ Deposit \in Nat
  /\ DayLength \in Nat \ {0}
  /\ LastDay \in Nat
  /\ RedisFaults \in BOOLEAN

VARIABLES
  db,          \* the committed rows: account_state, positions, daily_risk_state
  session,     \* the same rows as the open session sees them (db between cycles)
  pc,          \* where the loop is
  turn,        \* index in SYMBOLS of the symbol being processed
  order,       \* the order between its sizing and its execution
  day, hour,   \* the UTC clock
  snapshot,    \* Redis coinpilot:reference_equity:<day>, 0 when absent
  volatility   \* Redis coinpilot:volatility_state, as a multiplier in percent

vars == <<db, session, pc, turn, order, day, hour, snapshot, volatility>>

-----------------------------------------------------------------------------
(* Rows *)

\* A position is a row of `positions`: its quantity and what it was bought
\* for (quantity times avg_price).  No row is quantity 0.
Position == [qty : Nat, cost : Nat]

NoPosition == [qty |-> 0, cost |-> 0]

Book == [balance : Int, pos : [Symbols -> Position], daily : [Days -> Row]]

OpeningBook == [balance |-> Deposit,
                pos |-> [s \in Symbols |-> NoPosition],
                daily |-> [d \in Days |-> FreshRow]]

Held(book) == {s \in Symbols : book.pos[s].qty > 0}

Now == day * DayLength + hour

Symbol == SYMBOLS[turn]

\* An order of bot_loop; its day and volatility are history: those it was
\* validated under.
Order == [price : Nat, amount : Int, qty : Int, day : Days, volatility : Volatilities \cup {0}]

NoOrder == [price |-> 0, amount |-> 0, qty |-> 0, day |-> 0, volatility |-> 0]

-----------------------------------------------------------------------------
(* Valuation: get_total_exposure reads the latest close of every held      *)
(* symbol in a session of its own, so any price may be seen for each.      *)

MarketValue(book, mark) ==
  MapThenSumSet(LAMBDA s : book.pos[s].qty * mark[s], Held(book))

Exposures(book) ==
  {MarketValue(book, mark) : mark \in [Symbols -> Prices]} \cap Nat

\* get_reference_equity: today's snapshot when Redis has it, else cash plus
\* exposure.
References ==
  LET equities == {session.balance + exposure : exposure \in Exposures(session)}
  IN  IF snapshot[day] = 0 THEN equities
      ELSE {snapshot[day]} \cup (IF RedisFaults THEN equities ELSE {})

\* What was computed becomes today's snapshot, unless the write fails.
KeepReference(reference) ==
  \/ snapshot' = [snapshot EXCEPT ![day] = reference]
  \/ RedisFaults /\ UNCHANGED snapshot

-----------------------------------------------------------------------------
(* The cycle *)

Init ==
  /\ db = OpeningBook
  /\ session = OpeningBook
  /\ pc = "idle"
  /\ turn = 1
  /\ order = NoOrder
  /\ day = 0 /\ hour = 0
  /\ snapshot = [d \in Days |-> 0]
  /\ volatility \in Volatilities

BeginCycle ==
  /\ pc = "idle"
  /\ pc' = "scan"
  /\ UNCHANGED <<db, session, turn, order, day, hour, snapshot, volatility>>

\* A symbol without a trade: too few or stale candles, no signal, a held
\* position that is kept, or an error the loop swallows for this symbol.
PassSymbol ==
  /\ pc = "scan" /\ turn <= Len(SYMBOLS)
  /\ turn' = turn + 1
  /\ UNCHANGED <<db, session, pc, order, day, hour, snapshot, volatility>>

MutantSoldAtCost(book, s, price) ==
  [book EXCEPT !.balance = @ + book.pos[s].cost, !.pos[s] = NoPosition]

MutantSoldTwice(book, s, price) ==
  [book EXCEPT !.balance = @ + price * book.pos[s].qty,
               !.pos[s] = [qty |-> @.qty - 2 * @.qty, cost |-> 0]]

\* execute_order, SELL of the whole quantity.
Sold(book, s, price) ==
  [book EXCEPT !.balance = @ + price * book.pos[s].qty, !.pos[s] = NoPosition]

\* An exit signal: the sale and update_after_trade with its profit.
SellSymbol ==
  /\ pc = "scan" /\ turn <= Len(SYMBOLS)
  /\ session.pos[Symbol].qty > 0
  /\ \E price \in Prices :
       LET pos == session.pos[Symbol] IN
       session' = [Sold(session, Symbol, price) EXCEPT
                     !.daily[day] = RowAfterSell(@, price * pos.qty - pos.cost, Now)]
  /\ turn' = turn + 1
  /\ UNCHANGED <<db, pc, order, day, hour, snapshot, volatility>>

\* The order amount: the least of the target, cash and exposure caps.
OrderAmount(reference, ratio, balance, exposure) ==
  Min({(reference * MaxPerOrder * ratio) \div 10000,
       (balance * (100 - FeeBuffer)) \div 100,
       (reference * MaxTotalExposure) \div 100 - exposure})

\* An entry signal on a symbol that is not held: size the order, or skip the
\* symbol when nothing is left to invest.
SizeOrder ==
  /\ pc = "scan" /\ turn <= Len(SYMBOLS)
  /\ session.pos[Symbol].qty = 0
  /\ \E price \in Prices, ratio \in Ratios,
        reference \in References, exposure \in Exposures(session) :
         LET amount == OrderAmount(reference, ratio, session.balance, exposure) IN
         /\ KeepReference(reference)
         /\ IF amount > 0
            THEN /\ order' = [NoOrder EXCEPT !.price = price, !.amount = amount,
                                             !.qty = amount \div price]
                 /\ pc' = "check"
                 /\ UNCHANGED turn
            ELSE /\ turn' = turn + 1
                 /\ UNCHANGED <<order, pc>>
  /\ UNCHANGED <<db, session, day, hour, volatility>>

\* get_volatility_multiplier: 100 percent when Redis cannot be read.
Multipliers == {volatility} \cup (IF RedisFaults THEN {100} ELSE {})

\* check_order_validity reaches the loss limit: the day is halted and the
\* order refused.
HaltDay ==
  /\ pc = "check"
  /\ ~DayClosed(session.daily[day], Now)
  /\ \E reference \in References :
       /\ reference > 0
       /\ LossLimitReached(session.daily[day], reference)
       /\ KeepReference(reference)
  /\ session' = [session EXCEPT !.daily[day].halted = TRUE]
  /\ pc' = "scan" /\ turn' = turn + 1 /\ order' = NoOrder
  /\ UNCHANGED <<db, day, hour, volatility>>

\* check_order_validity refuses the order and changes no row.
RefuseOrder ==
  /\ pc = "check"
  /\ \E reference \in References, exposure \in Exposures(session),
        multiplier \in Multipliers :
       /\ KeepReference(reference)
       /\ \/ reference = 0
          \/ order.qty = 0
          \/ DayClosed(session.daily[day], Now)
          \/ /\ ~LossLimitReached(session.daily[day], reference)
             /\ ~WithinLimits(order.amount, reference, session.balance, exposure,
                              Cardinality(Held(session)), multiplier)
  /\ pc' = "scan" /\ turn' = turn + 1 /\ order' = NoOrder
  /\ UNCHANGED <<db, session, day, hour, volatility>>

\* check_order_validity accepts: the agents are asked about the order.
AcceptOrder ==
  /\ pc = "check"
  /\ order.qty > 0
  /\ \E reference \in References, exposure \in Exposures(session),
        multiplier \in Multipliers :
       /\ reference > 0
       /\ KeepReference(reference)
       /\ ~DayClosed(session.daily[day], Now)
       /\ ~LossLimitReached(session.daily[day], reference)
       /\ WithinLimits(order.amount, reference, session.balance, exposure,
                       Cardinality(Held(session)), multiplier)
  /\ order' = [order EXCEPT !.day = day, !.volatility = volatility]
  /\ pc' = "ai"
  /\ UNCHANGED <<db, session, turn, day, hour, volatility>>

\* The order is dropped: pre-filter, guardrail block, rejection, timeout, or
\* an error inside execute_order, which turns it into a refusal.
DropOrder ==
  /\ pc = "ai"
  /\ pc' = "scan" /\ turn' = turn + 1 /\ order' = NoOrder
  /\ UNCHANGED <<db, session, day, hour, snapshot, volatility>>

MutantOverdraw(book, s, price, qty) ==
  [book EXCEPT !.balance = @ - 2 * price * qty,
               !.pos[s] = [qty |-> @.qty + qty, cost |-> @.cost + price * qty]]

\* execute_order, BUY: pay, then open the position or add to it.
Bought(book, s, price, qty) ==
  [book EXCEPT !.balance = @ - price * qty,
               !.pos[s] = [qty |-> @.qty + qty, cost |-> @.cost + price * qty]]

\* The agents approve and the cash still covers the order: execute it at the
\* price read before the call, and count it on the day it is now.
ExecuteBuy ==
  /\ pc = "ai"
  /\ order.price * order.qty <= session.balance
  /\ session' = [Bought(session, Symbol, order.price, order.qty) EXCEPT
                   !.daily[day] = RowAfterBuy(@)]
  /\ pc' = "scan" /\ turn' = turn + 1 /\ order' = NoOrder
  /\ UNCHANGED <<db, day, hour, snapshot, volatility>>

\* All symbols done: the session commits.
Commit ==
  /\ pc = "scan" /\ turn > Len(SYMBOLS)
  /\ db' = session
  /\ pc' = "idle" /\ turn' = 1
  /\ UNCHANGED <<session, order, day, hour, snapshot, volatility>>

MutantKeepSession == session

\* A session that ends without a commit shows the committed rows again.
Reverted == db

\* A database error or a failed flush at any step: get_db_session rolls the
\* whole cycle back and the loop goes on with the next one.
Rollback ==
  /\ pc \in {"scan", "check", "ai"}
  /\ session' = Reverted
  /\ pc' = "idle" /\ turn' = 1 /\ order' = NoOrder
  /\ UNCHANGED <<db, day, hour, snapshot, volatility>>

\* The process dies; the open transaction is lost with it.
Crash ==
  /\ pc # "down"
  /\ session' = Reverted
  /\ pc' = "down" /\ turn' = 1 /\ order' = NoOrder
  /\ UNCHANGED <<db, day, hour, snapshot, volatility>>

\* The process starts again; Redis still has what the last one published.
Restart ==
  /\ pc = "down"
  /\ pc' = "idle"
  /\ UNCHANGED <<db, session, turn, order, day, hour, snapshot, volatility>>

\* retrain_volatility_job, a task next to the loop: started with the process and
\* at 00:05 UTC, up to an hour late.  It may publish at any await of a cycle.
RetrainVolatility ==
  /\ pc # "down"
  /\ volatility' \in Volatilities
  /\ UNCHANGED <<db, session, pc, turn, order, day, hour, snapshot>>

-----------------------------------------------------------------------------
(* The environment *)

\* Time passes, at any point of a cycle.
Tick ==
  /\ hour + 1 < DayLength
  /\ hour' = hour + 1
  /\ UNCHANGED <<db, session, pc, turn, order, day, snapshot, volatility>>

\* A UTC day ends.
NextDay ==
  /\ hour + 1 = DayLength
  /\ day < LastDay
  /\ day' = day + 1 /\ hour' = 0
  /\ UNCHANGED <<db, session, pc, turn, order, snapshot, volatility>>

\* Redis restarts without its keys.
LoseRedisKeys ==
  /\ RedisFaults
  /\ snapshot' = [d \in Days |-> 0]
  /\ UNCHANGED <<db, session, pc, turn, order, day, hour, volatility>>

Next ==
  \/ BeginCycle \/ PassSymbol \/ SellSymbol
  \/ SizeOrder \/ HaltDay \/ RefuseOrder \/ AcceptOrder \/ DropOrder \/ ExecuteBuy
  \/ Commit \/ Rollback \/ Crash \/ Restart \/ RetrainVolatility
  \/ Tick \/ NextDay \/ LoseRedisKeys

Spec == Init /\ [][Next]_vars

-----------------------------------------------------------------------------
(* Invariants *)

TypeOK ==
  /\ db \in Book
  /\ session \in Book
  /\ pc \in {"down", "idle", "scan", "check", "ai"}
  /\ turn \in 1 .. Len(SYMBOLS) + 1
  /\ pc \in {"check", "ai"} => turn <= Len(SYMBOLS)
  /\ order \in Order
  /\ day \in Days
  /\ hour \in 0 .. DayLength - 1
  /\ snapshot \in [Days -> Int]
  /\ volatility \in Volatilities

\* Cash never goes below zero, neither in the committed account nor in the
\* session, although sizing, validation and execution each read the balance
\* at a moment of their own and several symbols draw on it in one cycle.
NeverOverdrawn == db.balance >= 0 /\ session.balance >= 0

Invested(book) == SumFunction([s \in Symbols |-> book.pos[s].cost])

Realized(book) == SumFunction([d \in Days |-> book.daily[d].pnl])

\* Three tables agree in every committed and every session view: the cash
\* plus what the open positions cost is the deposit plus the profit booked
\* on the daily rows.  A trade that reached only some of account_state,
\* positions and daily_risk_state breaks it, and so does a torn cycle.
BooksBalance ==
  \A book \in {db, session} :
    book.balance + Invested(book) = Deposit + Realized(book)

Entries(book) == SumFunction([d \in Days |-> book.daily[d].buys])

Exits(book) == SumFunction([d \in Days |-> book.daily[d].sells])

\* The counters of the daily rows account for the positions: what was
\* entered and not exited is held, also when an entry validated before
\* midnight is counted on the next day.
CountsMatchHoldings ==
  \A book \in {db, session} :
    Entries(book) - Exits(book) = Cardinality(Held(book))

\* The three tables tell one story, in every committed and session view.
BooksAgree == BooksBalance /\ CountsMatchHoldings

\* No UTC day has more entries than max_daily_trades, even when an order is
\* validated on one day and executed on the next.
EntriesWithinLimit ==
  \A d \in Days : /\ db.daily[d].buys <= MaxDailyTrades
                  /\ session.daily[d].buys <= MaxDailyTrades

\* Never more than MAX_CONCURRENT_POSITIONS symbols are held at once.
HoldingsWithinLimit ==
  /\ Cardinality(Held(db)) <= MaxConcurrent
  /\ Cardinality(Held(session)) <= MaxConcurrent

\* No day's losing streak outlives the configured length: the exit that
\* completes it starts the cooldown and clears it, so that no reader of the
\* row sees the streak that started a cooldown.
StreakFollowsConfig ==
  \A d \in Days : session.daily[d].losses < CooldownAfter

-----------------------------------------------------------------------------
(* Action properties.  Entry: a BUY is executed in this step.              *)

Entry == session'.daily[day].buys > session.daily[day].buys

\* A halted day has no further entry, whatever profit later exits of the day
\* bring: the loss limit is a latch, not a threshold.
HaltIsFinal == [][Entry => ~session.daily[day].halted]_vars

\* No entry while a cooldown of the same day runs, also when the cooldown
\* started earlier in the same, uncommitted cycle.
CooldownHonoured == [][Entry => session.daily[day].cooldown <= Now]_vars

\* No entry on a day whose realized loss has reached max_daily_loss of the
\* day's reference equity.
LossLimitHonoured ==
  [][Entry /\ snapshot[day] > 0 =>
       100 * session.daily[day].pnl > -(snapshot[day] * MaxDailyLoss)]_vars

\* What an entry spends stays within max_per_order of the reference equity of
\* the day it was validated on, halved when volatility was high at that moment,
\* although it is executed after the agents were asked: at the price read before,
\* perhaps after midnight, or after the model was retrained.
EntryWithinCap ==
  [][Entry =>
       10000 * (session.balance - session'.balance)
         <= snapshot[order.day] * MaxPerOrder * order.volatility]_vars

\* A cooldown of two hours blocks entries for two hours, on whatever day it
\* started.
CooldownSpansMidnight ==
  [][Entry => \A d \in Days : session.daily[d].cooldown <= Now]_vars

-----------------------------------------------------------------------------
(* The paper account the loop implements. *)

LedgerView(book) == [cash |-> book.balance, hold |-> book.pos]

Account == INSTANCE Ledger
             WITH settled <- LedgerView(db), working <- LedgerView(session),
                  open <- pc \in {"scan", "check", "ai"}

\* Every step of the loop is a whole trade, the beginning of a cycle, the
\* commit or the abandonment of all its trades, or invisible to the account;
\* no trade of an abandoned cycle is left in the next one.
ImplementsLedger == Account!Spec

=============================================================================
