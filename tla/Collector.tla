------------------------------- MODULE Collector -------------------------------
(***************************************************************************)
(* The candle collector (collector/main.py): at start it backfills the     *)
(* minutes missed since the newest stored candle, page by page from the    *)
(* newest minute back, then stores the newest candle of every symbol about *)
(* once a minute.  A call may fail and the process may die at any point.   *)
(* Only which minutes are stored is modelled, not what a candle holds.     *)
(***************************************************************************)
EXTENDS Integers, Sequences, FiniteSetsExt

CONSTANTS SYMBOLS,     \* config.SYMBOLS, in the order of the collectors
          Page,        \* the candles of one request, 200 in the code
          FirstMinute, \* the clock when the collector is first started
          LastMinute,  \* bound: the clock stops here
          Silent       \* minutes without a trade, for which there is no candle

Symbols == {SYMBOLS[i] : i \in 1 .. Len(SYMBOLS)}

ASSUME CollectorAssumption ==
  /\ SYMBOLS \in Seq(STRING) /\ SYMBOLS # <<>>
  /\ \A i, j \in 1 .. Len(SYMBOLS) : SYMBOLS[i] = SYMBOLS[j] => i = j
  /\ Page \in Nat \ {0}
  /\ FirstMinute \in Nat \ {0} /\ LastMinute \in Nat /\ FirstMinute <= LastMinute
  /\ Silent \subseteq 2 .. LastMinute

VARIABLES
  stored,  \* market_data: the minutes stored for each symbol
  now,     \* the current minute
  pc,      \* "down", "check" and "paging" (backfill), "round", "sleep"
  turn,    \* index in SYMBOLS of the collector at work
  gap      \* the local variables of backfill

vars == <<stored, now, pc, turn, gap>>

-----------------------------------------------------------------------------
(* fetch_candles: the newest candles that began before a minute.           *)

\* The minutes the exchange has a candle of, the one in progress included.
Traded(minute) == (1 .. minute) \ Silent

Newest(count, before) ==
  LET known == Traded(now) \cap (1 .. before - 1)
  IN  {m \in known : Cardinality({later \in known : later > m}) < count}

\* save_candles: what is stored already is left alone.
Saved(s, candles) == [stored EXCEPT ![s] = @ \cup candles]

NoGap == [last |-> 0, start |-> 0, before |-> 0, remaining |-> 0]

Current == SYMBOLS[turn]

\* The next collector's backfill, or the main loop after the last one.
NextBackfill ==
  /\ gap' = NoGap
  /\ IF turn < Len(SYMBOLS)
     THEN turn' = turn + 1 /\ pc' = "check"
     ELSE turn' = 1 /\ pc' = "round"

-----------------------------------------------------------------------------

Init ==
  /\ stored = [s \in Symbols |-> {}]
  /\ now = FirstMinute
  /\ pc = "down" /\ turn = 1
  /\ gap = NoGap

Start ==
  /\ pc = "down"
  /\ pc' = "check" /\ turn' = 1
  /\ UNCHANGED <<stored, now, gap>>

\* A symbol without data: one page of history.
FetchInitial ==
  /\ pc = "check" /\ stored[Current] = {}
  /\ stored' = Saved(Current, Newest(Page, now + 1))
  /\ NextBackfill
  /\ UNCHANGED now

UpToDate ==
  /\ pc = "check" /\ stored[Current] # {}
  /\ now - Max(stored[Current]) <= 1
  /\ NextBackfill
  /\ UNCHANGED <<stored, now>>

FindGap ==
  /\ pc = "check" /\ stored[Current] # {}
  /\ LET last == Max(stored[Current]) IN
     /\ now - last > 1
     /\ gap' = [last |-> last, start |-> now, before |-> now + 1, remaining |-> now - last]
  /\ pc' = "paging"
  /\ UNCHANGED <<stored, now, turn>>

MutantPastOldest(candles) == Min(candles) - 1

\* The next page ends before the oldest candle of this one.
Oldest(candles) == Min(candles)

FetchPage ==
  /\ pc = "paging"
  /\ LET wanted  == Min({gap.remaining, Page})
         candles == Newest(wanted, gap.before)
         got     == Cardinality(candles)
     IN  /\ stored' = Saved(Current, candles)
         /\ IF got = wanted /\ got < gap.remaining
            THEN /\ gap' = [gap EXCEPT !.before = Oldest(candles), !.remaining = @ - got]
                 /\ UNCHANGED <<turn, pc>>
            ELSE NextBackfill
  /\ UNCHANGED now

\* The exchange or the database fails: the next collector goes on.
FailBackfill ==
  /\ pc \in {"check", "paging"}
  /\ NextBackfill
  /\ UNCHANGED <<stored, now>>

Collect(i) ==
  /\ pc = "round" /\ turn = i
  /\ stored' = Saved(SYMBOLS[i], Newest(1, now + 1))
  /\ turn' = turn + 1
  /\ UNCHANGED <<now, pc, gap>>

MutantResumed == turn

\* A round begins with the first collector.
Rewound == 1

\* All symbols are done, or one of them fails and the rest of the round with it.
EndRound ==
  /\ pc = "round"
  /\ pc' = "sleep" /\ turn' = Rewound
  /\ UNCHANGED <<stored, now, gap>>

Wake ==
  /\ pc = "sleep"
  /\ pc' = "round"
  /\ UNCHANGED <<stored, now, turn, gap>>

Crash ==
  /\ pc # "down"
  /\ pc' = "down" /\ turn' = 1 /\ gap' = NoGap
  /\ UNCHANGED <<stored, now>>

Tick ==
  /\ now < LastMinute
  /\ now' = now + 1
  /\ UNCHANGED <<stored, pc, turn, gap>>

Backfilling == FetchInitial \/ UpToDate \/ FindGap \/ FetchPage \/ FailBackfill

Collecting == \E i \in 1 .. Len(SYMBOLS) : Collect(i)

Next ==
  \/ Start \/ Backfilling
  \/ Collecting \/ EndRound \/ Wake \/ Crash \/ Tick

Spec == Init /\ [][Next]_vars

\* The process is restarted and its loop goes on.  Calls fail and crashes
\* happen, but they do not always hit the same collector: one that gets its
\* turn again and again ends its backfill, one way or the other, and stores a
\* candle again and again.
Fairness ==
  /\ WF_vars(Tick)
  /\ WF_vars(Start) /\ WF_vars(Wake) /\ WF_vars(EndRound)
  /\ \A i \in 1 .. Len(SYMBOLS) :
       /\ SF_vars(Backfilling /\ turn = i /\ gap' = NoGap)
       /\ SF_vars(Collect(i))

FairSpec == Spec /\ Fairness

-----------------------------------------------------------------------------

TypeOK ==
  /\ stored \in [Symbols -> SUBSET ((1 .. LastMinute) \ Silent)]
  /\ now \in FirstMinute .. LastMinute
  /\ pc \in {"down", "check", "paging", "round", "sleep"}
  /\ turn \in 1 .. Len(SYMBOLS) + 1
  /\ pc \in {"check", "paging"} => turn <= Len(SYMBOLS)
  /\ gap \in [last : 0 .. LastMinute, start : 0 .. LastMinute,
              before : 0 .. LastMinute + 1, remaining : 0 .. LastMinute]

\* A backfill that runs to its end leaves no candle out between the newest
\* one it found stored and the minute it started in: its pages overlap
\* nowhere and skip nothing, also where minutes without a trade make a page
\* reach further back than its count, and while the clock moves on.
BackfillClosesGap ==
  [][FetchPage /\ gap' = NoGap =>
       (Traded(gap.start) \ (1 .. gap.last)) \subseteq stored'[Current]]_vars

\* Every symbol, the last of the list too, gets the candles of the present
\* in the end, although a failure ends the round for all symbols after it.
EverySymbolKeepsUp ==
  \A s \in Symbols : <>(\E m \in stored[s] : Traded(LastMinute) \subseteq 1 .. m)

=============================================================================
