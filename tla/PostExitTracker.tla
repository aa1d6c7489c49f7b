---------------------------- MODULE PostExitTracker ----------------------------
(***************************************************************************)
(* The post-exit tracker (analytics/post_exit_tracker.py) on the candles   *)
(* the collector stores: every few minutes it looks up, for each SELL and  *)
(* each window after it, the close nearest to the end of the window, and   *)
(* writes it into the SELL's row once.  A close is named by its minute.    *)
(***************************************************************************)
EXTENDS Collector

CONSTANTS
  Window,     \* TRACK_WINDOWS: label -> minutes after the SELL
  Tolerance,  \* tolerance_minutes
  ScanLimit,  \* the newest SELLs a run of the job looks at
  MaxSales    \* bound: SELLs in a behaviour

ASSUME TrackerAssumption ==
  /\ \A w \in DOMAIN Window : Window[w] \in Nat \ {0}
  /\ Tolerance \in Nat /\ {ScanLimit, MaxSales} \subseteq Nat \ {0}

VARIABLE sales  \* the SELL rows of trading_history, oldest first

trackerVars == <<vars, sales>>

Labels == DOMAIN Window

NoPoint == [candle |-> 0, at |-> 0, late |-> FALSE]

Distance(a, b) == IF a >= b THEN a - b ELSE b - a

-----------------------------------------------------------------------------

Target(sale, w) == sale.at + Window[w]

\* The stored candles within the tolerance of a minute.
Around(symbol, target) == {m \in stored[symbol] : Distance(m, target) <= Tolerance}

MutantAnyClose(symbol, target) == Around(symbol, target)

\* _get_nearest_close_price: the nearest one; which of two is not determined.
NearestCloses(symbol, target) ==
  {m \in Around(symbol, target) :
     \A other \in Around(symbol, target) : Distance(m, target) <= Distance(other, target)}

\* History: a candle up to the target was missing when the point was written.
BehindAt(symbol, target) ==
  \E m \in Traded(target) \ stored[symbol] : Distance(m, target) <= Tolerance

MutantEarlyLookup(sale, w) == sale.points[w] = NoPoint

MutantLookedUpOnce(sale, w) == sale.points[w] = NoPoint /\ now = Target(sale, w)

\* A window whose end has come and that has no point yet.
Due(sale, w) == sale.points[w] = NoPoint /\ now >= Target(sale, w)

\* What a run of the job can leave in the window: a point, or what was there.
PointAfter(sale, w) ==
  LET closes == NearestCloses(sale.symbol, Target(sale, w)) IN
  IF ~Due(sale, w) \/ closes = {} THEN {sale.points[w]}
  ELSE {[candle |-> m, at |-> now, late |-> BehindAt(sale.symbol, Target(sale, w))] :
          m \in closes}

\* What a run of the job can make of a row.
RowsAfter(sale) ==
  LET choices == UNION {PointAfter(sale, w) : w \in Labels}
  IN  {[sale EXCEPT !.points = points] :
         points \in {p \in [Labels -> choices] : \A w \in Labels : p[w] \in PointAfter(sale, w)}}

\* The newest SELLs, by LIMIT.
Scanned == {i \in DOMAIN sales : i > Len(sales) - ScanLimit}

\* track_post_exit_prices: one run of the job, one transaction.
Track ==
  /\ sales' \in {rows \in [DOMAIN sales -> UNION {RowsAfter(sales[i]) : i \in DOMAIN sales}] :
                  \A i \in DOMAIN sales :
                    rows[i] \in IF i \in Scanned THEN RowsAfter(sales[i]) ELSE {sales[i]}}
  /\ UNCHANGED vars

\* The bot sells.
Sell(symbol) ==
  /\ Len(sales) < MaxSales
  /\ sales' = Append(sales, [symbol |-> symbol, at |-> now,
                             points |-> [w \in Labels |-> NoPoint]])
  /\ UNCHANGED vars

TrackerInit == Init /\ sales = <<>>

TrackerNext ==
  \/ Next /\ UNCHANGED sales
  \/ Track
  \/ \E symbol \in Symbols : Sell(symbol)

TrackerSpec == TrackerInit /\ [][TrackerNext]_trackerVars

\* The scheduler runs the job every ten minutes, and again after a failure.
TrackerFairSpec == TrackerSpec /\ Fairness /\ WF_trackerVars(Track)

-----------------------------------------------------------------------------

SalesTypeOK ==
  /\ TypeOK
  /\ sales \in Seq([symbol : Symbols, at : FirstMinute .. LastMinute,
                    points : [Labels -> [candle : 0 .. LastMinute, at : 0 .. LastMinute,
                                         late : BOOLEAN]]])
  /\ Len(sales) <= MaxSales

\* A point is never taken before the window has ended, its candle lies within
\* the tolerance of that moment, and no candle up to it that was stored by then
\* was nearer: only a lagging collector makes a tracked close farther from its
\* window than it has to be.
PointsAreNearest ==
  /\ SalesTypeOK
  /\ \A i \in DOMAIN sales, w \in Labels :
       LET point  == sales[i].points[w]
           target == Target(sales[i], w)
       IN  point # NoPoint =>
             /\ point.at >= target
             /\ Distance(point.candle, target) <= Tolerance
             /\ ~point.late => \A m \in stored[sales[i].symbol] \cap (1 .. target) :
                                Distance(point.candle, target) <= Distance(m, target)

\* Every window is tracked once its end has come and a candle of it is stored,
\* however late that candle is.
WindowsAreTracked ==
  \A i \in 1 .. MaxSales, w \in Labels :
    (/\ i \in DOMAIN sales
     /\ now >= Target(sales[i], w)
     /\ Around(sales[i].symbol, Target(sales[i], w)) # {})
      ~> (i \in DOMAIN sales /\ sales[i].points[w] # NoPoint)

=============================================================================
