------------------------------- MODULE ExitProofs -------------------------------
(***************************************************************************)
(* Proofs about ExitStrategy and SellAdvice, for every table of exit       *)
(* parameters and every set of prices: what the row remembers of the peak, *)
(* the trailing stop and the entry stop that rest on it, and the advice.   *)
(***************************************************************************)
EXTENDS SellAdvice, TLAPS

-----------------------------------------------------------------------------
(* Arithmetic and the exit parameters *)

\* The larger of two numbers is one of them and below neither.
LEMMA LargerBounds ==
  ASSUME NEW a \in Int, NEW b \in Int
  PROVE  /\ Larger(a, b) \in {a, b}
         /\ Larger(a, b) >= a /\ Larger(a, b) >= b
BY DEF Larger

\* A larger factor gives a larger product.
LEMMA ProductGrows ==
  ASSUME NEW a \in Nat, NEW b \in Nat, NEW n \in Nat, a <= b
  PROVE  a * n <= b * n /\ a * n \in Nat /\ b * n \in Nat
OBVIOUS

\* The smaller of two numbers is below neither of them.
LEMMA MinOfTwo ==
  ASSUME NEW a \in Nat, NEW b \in Nat
  PROVE  Min({a, b}) \in {a, b} /\ Min({a, b}) <= a /\ Min({a, b}) <= b
<1>1. \E x \in {a, b} : \A y \in {a, b} : x <= y
  OBVIOUS
<1>2. Min({a, b}) \in {a, b} /\ \A y \in {a, b} : Min({a, b}) <= y
  BY <1>1 DEF Min
<1> QED
  BY <1>2

\* An adjusted parameter set is that of the current regime, but for a stop
\* that is no looser than either regime's.
LEMMA AdjustedStop ==
  ASSUME NEW entryRegime \in Regimes, NEW regime \in Readings
  PROVE  LET config == AdjustedExit(entryRegime, regime) IN
         /\ ExitOf(regime) \in ExitConfig /\ config \in ExitConfig
         /\ config.stop <= Exit[entryRegime].stop
         /\ config = [ExitOf(regime) EXCEPT !.stop = config.stop]
<1> DEFINE current == ExitOf(regime)
           entry == Exit[entryRegime]
<1>1. ExitOf(entryRegime) = entry
  BY DEF ExitOf
<1>2. entry \in ExitConfig /\ current \in ExitConfig
  BY ExitAssumption DEF ExitOf, Readings
<1>3. entry.stop \in Nat /\ current.stop \in Nat
  BY <1>2 DEF ExitConfig
<1> DEFINE stop == Min({entry.stop, current.stop})
<1>4. stop \in Nat /\ stop <= entry.stop
  BY <1>3, MinOfTwo
<1>5. AdjustedExit(entryRegime, regime) = [current EXCEPT !.stop = stop]
  BY <1>1 DEF AdjustedExit
<1> HIDE DEF stop, current
<1>6. /\ [current EXCEPT !.stop = stop] \in ExitConfig
      /\ [current EXCEPT !.stop = stop].stop = stop
  BY <1>2, <1>4 DEF ExitConfig
<1> QED
  BY <1>2, <1>4, <1>5, <1>6 DEF current

-----------------------------------------------------------------------------
(* The invariant: HwmIsPeak and SaleRecordsPeak are inductive together,     *)
(* because a sale takes its peak from the mark of the open row.             *)

PeakInv == HwmIsPeak /\ SaleRecordsPeak

\* What a row holds are numbers.
LEMMA RowTyped ==
  ASSUME NEW row \in Row
  PROVE  row.entry \in Nat /\ row.hwm \in Nat /\ row.peak \in Nat
<1>1. /\ row.entry \in EntryPrices \cup {0}
      /\ row.hwm \in Prices \cup {0} /\ row.peak \in Prices \cup {0}
  BY DEF Row
<1>2. \A price \in Prices \cup {0} : price \in Nat
  BY ExitAssumption
<1>3. EntryPrices \cup {0} \subseteq Prices \cup {0}
  BY ExitAssumption
<1> QED
  BY <1>1, <1>2, <1>3

\* An open row has a regime of its entry, no sale, and its peak as its mark
\* unless it lost one.
LEMMA OpenRow ==
  ASSUME PeakInv, NEW row \in {db, session}, Open(row)
  PROVE  /\ row \in Row /\ row.regime \in Regimes /\ row.sale = NoSale
         /\ ~row.lost => row.hwm = row.peak
BY DEF PeakInv, HwmIsPeak, TypeOK

\* A row of a new position is a row of the table, without a sale.
LEMMA OpenedTyped ==
  ASSUME NEW price \in EntryPrices, NEW regime \in Regimes
  PROVE  LET row == Opened(price, regime) IN
         /\ row \in Row /\ row.regime = regime /\ row.sale = NoSale
         /\ row.hwm = row.peak
BY ExitAssumption DEF Opened, NoPosition, Row, Readings, NoSale

\* A position starts as no position.
LEMMA InitPeakInv == Init => PeakInv
BY ExitAssumption
DEF Init, PeakInv, HwmIsPeak, SaleRecordsPeak, TypeOK, NoPosition, NoSale, Row, Open,
   Readings, Unread

\* The row of a closed position, with the sale that closed it.
ClosedRow(row, price, reason) ==
  [NoPosition EXCEPT !.peak = Larger(row.peak, price), !.lost = row.lost,
                     !.sale = [reason |-> reason, hwm |-> RecordedPeak(row, price, reason)]]

\* A sale closes the row and records the peak unless the mark was lost or the
\* stop sold.
LEMMA ClosedTyped ==
  ASSUME NEW row \in Row, NEW price \in Prices, NEW reason \in Reasons,
         ~row.lost => row.hwm = row.peak
  PROVE  /\ ClosedRow(row, price, reason) \in Row
         /\ ~Open(ClosedRow(row, price, reason))
         /\ LET closed == ClosedRow(row, price, reason) IN
            closed.sale.reason \notin {"NONE", "STOP_LOSS"} /\ ~closed.lost
              => closed.sale.hwm = closed.peak
<1> DEFINE peak == Larger(row.peak, price)
           mark == RecordedPeak(row, price, reason)
           closed == ClosedRow(row, price, reason)
<1>1. peak \in Prices \cup {0} /\ mark \in Prices \cup {0}
  BY DEF Row, Larger, RecordedPeak
<1>2. reason # "STOP_LOSS" /\ ~row.lost => mark = peak
  BY DEF RecordedPeak
<1> DEFINE sale == [reason |-> reason, hwm |-> mark]
<1> HIDE DEF peak, mark
<1>3. closed = [entry |-> 0, regime |-> "UNKNOWN", hwm |-> 0, peak |-> peak,
                lost |-> row.lost, sale |-> sale]
  <2>1. closed = [NoPosition EXCEPT !.peak = peak, !.lost = row.lost, !.sale = sale]
    BY DEF ClosedRow, peak, mark
  <2> HIDE DEF closed, sale
  <2> QED
    BY <2>1 DEF NoPosition
<1> HIDE DEF closed
<1>4. closed \in Row
  BY <1>1, <1>3 DEF Row, Readings
<1>5. ~Open(closed)
  BY <1>3 DEF Open
<1>6. closed.sale.reason \notin {"NONE", "STOP_LOSS"} /\ ~closed.lost
        => closed.sale.hwm = closed.peak
  BY <1>2, <1>3
<1> QED
  BY <1>4, <1>5, <1>6 DEF closed

\* A cycle that keeps the position raises mark and peak alike, or loses the mark.
LEMMA KeptTyped ==
  ASSUME NEW row \in Row, NEW price \in Prices, ~row.lost => row.hwm = row.peak,
         NEW kept \in {Kept(row, price),
                       [row EXCEPT !.peak = Larger(@, price), !.lost = TRUE]}
  PROVE  /\ kept \in Row
         /\ kept.entry = row.entry /\ kept.regime = row.regime /\ kept.sale = row.sale
         /\ kept.peak = Larger(row.peak, price)
         /\ ~kept.lost => kept.hwm = kept.peak
<1> DEFINE peak == Larger(row.peak, price)
           mark == Larger(row.hwm, price)
<1>1. peak \in Prices \cup {0} /\ mark \in Prices \cup {0}
  BY DEF Row, Larger
<1>2. ~row.lost => mark = peak
  OBVIOUS
<1>3. kept \in {[row EXCEPT !.hwm = mark, !.peak = peak],
                [row EXCEPT !.peak = peak, !.lost = TRUE]}
  BY DEF Kept
<1> HIDE DEF peak, mark
<1>4. CASE kept = [row EXCEPT !.hwm = mark, !.peak = peak]
  BY <1>1, <1>2, <1>4 DEF Row, peak
<1>5. CASE kept = [row EXCEPT !.peak = peak, !.lost = TRUE]
  BY <1>1, <1>5 DEF Row, peak
<1> QED
  BY <1>3, <1>4, <1>5

\* Every step keeps the invariant.
LEMMA NextPeakInv == PeakInv /\ [Next]_vars => PeakInv'
<1> SUFFICES ASSUME PeakInv, [Next]_vars PROVE PeakInv'
  OBVIOUS
<1> USE DEF PeakInv
<1>1. /\ TypeOK
      /\ \A row \in {db, session} : Open(row) /\ ~row.lost => row.hwm = row.peak
  BY DEF HwmIsPeak
<1>2. CASE Buy
  <2>1. PICK price \in EntryPrices, regime \in Regimes :
          /\ session' = Opened(price, regime)
          /\ seen' = [price |-> price, regime |-> regime]
    BY <1>2 DEF Buy
  <2>2. /\ session' \in Row /\ session'.regime \in Regimes /\ session'.sale = NoSale
        /\ session'.hwm = session'.peak
    BY <2>1, OpenedTyped
  <2>3. seen' \in [price : Prices \cup {0}, regime : Readings]
    BY <2>1, ExitAssumption DEF Readings
  <2>4. TypeOK'
    BY <1>1, <1>2, <2>2, <2>3, ExitAssumption DEF TypeOK, Buy
  <2> QED
    BY <1>1, <1>2, <2>2, <2>4 DEF HwmIsPeak, SaleRecordsPeak, Buy, NoSale
<1>3. CASE Sell
  <2>1. PICK price \in Prices, regime \in Readings, reason \in Reasons :
          /\ session' = ClosedRow(session, price, reason)
          /\ seen' = [price |-> price, regime |-> regime]
    BY <1>3 DEF Sell, ClosedRow
  <2>2. session \in Row /\ (~session.lost => session.hwm = session.peak)
    BY <1>1, <1>3 DEF TypeOK, Sell
  <2>3. /\ session' \in Row /\ ~Open(session')
        /\ session'.sale.reason \notin {"NONE", "STOP_LOSS"} /\ ~session'.lost
             => session'.sale.hwm = session'.peak
    BY <2>1, <2>2, ClosedTyped
  <2>4. seen' \in [price : Prices \cup {0}, regime : Readings]
    BY <2>1
  <2>5. TypeOK'
    BY <1>1, <1>3, <2>3, <2>4 DEF TypeOK, Sell
  <2> QED
    BY <1>1, <1>3, <2>3, <2>5 DEF HwmIsPeak, SaleRecordsPeak, Sell
<1>4. CASE Keep
  <2>1. PICK price \in Prices, regime \in Readings :
          /\ session' \in {Kept(session, price),
                           [session EXCEPT !.peak = Larger(@, price), !.lost = TRUE]}
          /\ seen' = [price |-> price, regime |-> regime]
    BY <1>4 DEF Keep
  <2>2. /\ session \in Row /\ (~session.lost => session.hwm = session.peak)
        /\ session.regime \in Regimes /\ session.sale = NoSale
    BY <1>1, <1>4 DEF TypeOK, Keep
  <2>3. /\ session' \in Row /\ session'.regime \in Regimes /\ session'.sale = NoSale
        /\ ~session'.lost => session'.hwm = session'.peak
    BY <2>1, <2>2, KeptTyped
  <2>4. seen' \in [price : Prices \cup {0}, regime : Readings]
    BY <2>1
  <2>5. TypeOK'
    BY <1>1, <1>4, <2>3, <2>4 DEF TypeOK, Keep
  <2> QED
    BY <1>1, <1>4, <2>3, <2>5 DEF HwmIsPeak, SaleRecordsPeak, Keep, NoSale
<1>5. CASE Skip \/ Commit \/ Rollback \/ Tick \/ UNCHANGED vars
  <2>1. db' \in {db, session} /\ session' \in {db, session}
    BY <1>5 DEF Skip, Commit, Rollback, Tick, vars
  <2>2. /\ pc' \in {"idle", "done"} /\ age' \in 0 .. AgeCap
        /\ seen' \in [price : Prices \cup {0}, regime : Readings]
    BY <1>1, <1>5, ExitAssumption
    DEF TypeOK, Skip, Commit, Rollback, Tick, vars, Unread, Readings
  <2>3. TypeOK'
    BY <1>1, <2>1, <2>2 DEF TypeOK
  <2> QED
    BY <1>1, <2>1, <2>3 DEF HwmIsPeak, SaleRecordsPeak
<1> QED
  BY <1>2, <1>3, <1>4, <1>5 DEF Next

\* Every state a position can be in satisfies the invariant.
THEOREM PeakInvariance == Spec => []PeakInv
<1> QED
  BY InitPeakInv, NextPeakInv, PTL DEF Spec

\* The stored mark is the highest close that committed cycles, or the open one,
\* have evaluated since the entry, unless one was lost to Redis.
THEOREM MarkIsPeak == Spec => []HwmIsPeak
<1>1. PeakInv => HwmIsPeak
  BY DEF PeakInv
<1> QED
  BY <1>1, PeakInvariance, PTL

\* The history row of a sale by any rule but the stop records the peak of the
\* position, unless a mark was lost.
THEOREM PeakIsRecorded == Spec => []SaleRecordsPeak
<1>1. PeakInv => SaleRecordsPeak
  BY DEF PeakInv
<1> QED
  BY <1>1, PeakInvariance, PTL

-----------------------------------------------------------------------------
(* The stops *)

\* An evaluated position that stays open was kept by check_exit_signal: no
\* rule fired at the close and the regime that were read.
LEMMA EvaluatedStep ==
  ASSUME PeakInv, [Next]_vars, Evaluated, Open(session')
  PROVE  \E price \in Prices, regime \in Readings, overbought \in BOOLEAN :
           /\ seen' = [price |-> price, regime |-> regime]
           /\ ExitReason(session, price, regime, overbought, age) = "NONE"
           /\ session'.peak = Larger(session.peak, price)
<1>1. pc = "idle" /\ pc' = "done" /\ Open(session) /\ seen'.price # 0
  BY DEF Evaluated
<1>2. session \in Row /\ (~session.lost => session.hwm = session.peak)
  BY <1>1 DEF PeakInv, HwmIsPeak, TypeOK
<1>3. ~Sell
  <2> SUFFICES ASSUME Sell PROVE ~Open(session')
    OBVIOUS
  <2>1. PICK price \in Prices, reason \in Reasons :
          session' = ClosedRow(session, price, reason)
    BY DEF Sell, ClosedRow
  <2> QED
    BY <1>2, <2>1, ClosedTyped
<1>4. Keep
  BY <1>1, <1>3 DEF Next, Buy, Skip, Unread, Commit, Rollback, Tick, vars
<1>5. PICK price \in Prices, regime \in Readings, overbought \in BOOLEAN :
        /\ ExitReason(session, price, regime, overbought, age) = "NONE"
        /\ session' \in {Kept(session, price),
                         [session EXCEPT !.peak = Larger(@, price), !.lost = TRUE]}
        /\ seen' = [price |-> price, regime |-> regime]
  BY <1>4 DEF Keep
<1>6. session'.peak = Larger(session.peak, price)
  BY <1>2, <1>5, KeptTyped
<1> QED
  BY <1>5, <1>6

\* A position is sold in the evaluation that finds it at a loss beyond the
\* stop of its entry regime, whatever regime is current or unknown.
THEOREM EntryStop == Spec => EntryStopHonoured
<1>1. ASSUME PeakInv, [Next]_vars, Evaluated,
             LossAtLeast(session.entry, seen'.price, Exit[session.regime].stop),
             Open(session')
      PROVE  FALSE
  <2>1. PICK price \in Prices, regime \in Readings, overbought \in BOOLEAN :
          /\ seen' = [price |-> price, regime |-> regime]
          /\ ExitReason(session, price, regime, overbought, age) = "NONE"
    BY <1>1, EvaluatedStep
  <2> DEFINE config == AdjustedExit(session.regime, regime)
             entry == session.entry
             stop == Exit[session.regime].stop
  <2>2. session.regime \in Regimes /\ entry \in Nat /\ price \in Nat
    BY <1>1, OpenRow, RowTyped, ExitAssumption DEF Evaluated
  <2>3. config.stop \in Nat /\ stop \in Nat /\ config.stop <= stop
    BY <2>2, AdjustedStop, ExitAssumption DEF ExitConfig
  <2>4. ~LossAtLeast(entry, price, config.stop)
    BY <2>1 DEF ExitReason
  <2>5. LossAtLeast(entry, price, stop)
    BY <1>1, <2>1
  <2> HIDE DEF config, entry, stop
  <2>6. config.stop * entry <= stop * entry /\ config.stop * entry \in Nat /\ stop * entry \in Nat
    BY <2>2, <2>3, ProductGrows
  <2> QED
    BY <2>2, <2>4, <2>5, <2>6 DEF LossAtLeast
<1>2. PeakInv /\ [Next]_vars
        => [Evaluated
            /\ LossAtLeast(session.entry, seen'.price, Exit[session.regime].stop)
              => ~Open(session)']_vars
  BY <1>1
<1> QED
  BY <1>2, PeakInvariance, PTL DEF Spec, EntryStopHonoured

\* A position is kept only above the trailing distance from the highest close
\* evaluated in a committed cycle or in this one, once any of them has armed the
\* stop.
THEOREM TrailingStop == Spec => TrailingNeverForgets
<1> DEFINE Above(config) ==
      \/ ~ProfitAtLeast(session.entry, session'.peak, config.arm)
      \/ 1000 * seen'.price > session'.peak * (1000 - config.trail)
<1>1. ASSUME PeakInv, [Next]_vars, EvaluatedAndKept, ~session.lost
      PROVE  Above(ExitOf(seen'.regime))
  <2>1. PICK price \in Prices, regime \in Readings, overbought \in BOOLEAN :
          /\ seen' = [price |-> price, regime |-> regime]
          /\ ExitReason(session, price, regime, overbought, age) = "NONE"
          /\ session'.peak = Larger(session.peak, price)
    BY <1>1, EvaluatedStep DEF EvaluatedAndKept
  <2> DEFINE config == AdjustedExit(session.regime, regime)
             current == ExitOf(regime)
             peak == Larger(session.peak, price)
  <2>2. /\ session.regime \in Regimes /\ session.hwm = session.peak
        /\ session.peak \in Nat /\ price \in Nat
    BY <1>1, OpenRow, RowTyped, ExitAssumption DEF EvaluatedAndKept, Evaluated
  <2>3. /\ config.arm = current.arm /\ config.trail = current.trail
        /\ current.trail \in 0 .. 1000
    BY <2>2, AdjustedStop DEF ExitConfig
  <2>4. ~TrailingFires(session.entry, session.hwm, price, config)
    BY <2>1 DEF ExitReason
  <2>5. peak \in Nat
    BY <2>2, LargerBounds
  <2> HIDE DEF config, current
  <2>6. \/ ~ProfitAtLeast(session.entry, peak, current.arm)
        \/ ~(1000 * price <= peak * (1000 - current.trail))
    BY <2>2, <2>3, <2>4 DEF TrailingFires
  <2> HIDE DEF peak
  <2>7. peak * (1000 - current.trail) \in Int
    <3>1. 1000 - current.trail \in Int
      <4>1. current.trail \in 0 .. 1000
        BY <2>3
      <4> QED
        BY ONLY <4>1, SMTT(30)
    <3> QED
      BY <2>5, <3>1
  <2>8. \/ ~ProfitAtLeast(session.entry, peak, current.arm)
        \/ 1000 * price > peak * (1000 - current.trail)
    BY <2>2, <2>6, <2>7
  <2> QED
    BY <2>1, <2>8 DEF peak, current
<1>2. PeakInv /\ [Next]_vars
        => [EvaluatedAndKept /\ ~session.lost =>
              LET config == ExitOf(seen'.regime) IN Above(config)]_vars
  BY <1>1
<1> QED
  BY <1>2, PeakInvariance, PTL DEF Spec, TrailingNeverForgets

-----------------------------------------------------------------------------
(* The advice *)

\* The advice is to sell exactly when one of its triggers is met.
LEMMA AdvisedSale ==
  ASSUME NEW row, NEW price, NEW regime, NEW overbought, NEW held
  PROVE  Recommendation(row, price, regime, overbought, held) = "SELL"
           <=> Triggered(row, price, AdvisedExit(row.regime, regime), overbought, held)
BY DEF Recommendation

\* As long as the entry regime lasts, loop and advice take the same parameters.
LEMMA SameConfig ==
  ASSUME NEW regime \in Regimes
  PROVE  AdvisedExit(regime, regime) = AdjustedExit(regime, regime)
BY ExitAssumption DEF AdvisedExit, LatestRegime, WrittenAs, AskedFor

\* A price at or below the trailing distance from the mark is not above it.
LEMMA BelowMark ==
  ASSUME NEW price \in Nat, NEW hwm \in Nat, NEW trail \in Nat, trail <= 1000,
         1000 * price <= hwm * (1000 - trail)
  PROVE  price <= hwm
<1>1. hwm * (1000 - trail) <= hwm * 1000
  OBVIOUS
<1> QED
  BY <1>1

\* A price is above its own trailing distance.
LEMMA AboveOwnDistance ==
  ASSUME NEW price \in Nat \ {0}, NEW trail \in Nat \ {0}
  PROVE  ~(1000 * price <= price * (1000 - trail))
<1>1. price * (1000 - trail) = 1000 * price - price * trail
  OBVIOUS
<1>2. price * trail > 0 /\ price * trail \in Int
  OBVIOUS
<1> QED
  BY <1>1, <1>2

\* But for a mark exactly on the arming price, both trailing stops agree.
LEMMA TrailingStopsAgree ==
  ASSUME NEW row, row.entry \in Nat, row.hwm \in Nat,
         NEW price \in Nat \ {0}, NEW config \in ExitConfig, config.trail > 0
  PROVE  /\ TrailingFires(row.entry, row.hwm, price, config) /\ ~OnTheArm(row, config)
              => AdvisedTrailing(row, price, config)
         /\ AdvisedTrailing(row, price, config)
              => TrailingFires(row.entry, row.hwm, price, config)
<1> DEFINE entry == row.entry
           hwm == row.hwm
           trail == config.trail
           armed == config.arm * entry
<1>1. trail \in Nat \ {0} /\ trail <= 1000 /\ config.arm \in Nat /\ armed \in Nat
  BY DEF ExitConfig
<1>2. ASSUME TrailingFires(entry, hwm, price, config), ~OnTheArm(row, config)
      PROVE  AdvisedTrailing(row, price, config)
  <2> DEFINE peak == Larger(hwm, price)
  <2>1. 1000 * (peak - entry) >= armed /\ 1000 * price <= peak * (1000 - trail)
    BY <1>2 DEF TrailingFires, ProfitAtLeast
  <2>2. peak = hwm
    <3>1. peak # price \/ price = hwm
      BY <1>1, <2>1, AboveOwnDistance, SMTT(30)
    <3> QED
      BY <3>1, LargerBounds
  <2> HIDE DEF peak
  <2>3. 1000 * (hwm - entry) > armed
    BY <1>1, <1>2, <2>1, <2>2 DEF OnTheArm
  <2> QED
    BY <2>1, <2>2, <2>3 DEF AdvisedTrailing
<1>3. ASSUME AdvisedTrailing(row, price, config)
      PROVE  TrailingFires(entry, hwm, price, config)
  <2>1. /\ 1000 * (price - entry) >= armed \/ 1000 * (hwm - entry) > armed
        /\ 1000 * price <= hwm * (1000 - trail)
    BY <1>3 DEF AdvisedTrailing, ProfitAtLeast
  <2>2. price <= hwm
    <3> HIDE DEF hwm, trail
    <3>1. hwm \in Nat
      BY DEF hwm
    <3>2. trail \in Nat /\ trail <= 1000 /\ 1000 * price <= hwm * (1000 - trail) /\ price \in Nat
      BY <1>1, <2>1
    <3> QED
      BY ONLY <3>1, <3>2, BelowMark, SMTT(30)
  <2>3. Larger(hwm, price) = hwm
    BY <2>2 DEF Larger
  <2>4. 1000 * (hwm - entry) >= armed
    BY <1>1, <2>1, <2>2
  <2> QED
    BY <2>1, <2>3, <2>4 DEF TrailingFires, ProfitAtLeast
<1> QED
  BY <1>2, <1>3

\* Where every regime has a trailing distance and a time limit, the advice and
\* the loop agree on every sale as long as the entry regime lasts, but for one
\* that only one of their two RSIs calls for, a mark exactly on the arming price
\* and a position exactly as old as its limit.
THEOREM AdviceAgrees ==
  ASSUME \A r \in Regimes : Exit[r].trail > 0 /\ Exit[r].limit > 0
  PROVE  Spec => []AdviceMatchesLoop
<1>1. ASSUME PeakInv, Open(db), NEW price \in Prices,
             NEW overbought \in BOOLEAN, NEW hot \in BOOLEAN
      PROVE  LET config == AdjustedExit(db.regime, db.regime)
                 sells == ExitReason(db, price, db.regime, overbought, age) # "NONE"
                 advised == Recommendation(db, price, db.regime, hot, age) = "SELL"
             IN  /\ sells => \/ advised
                             \/ OnTheArm(db, config)
                             \/ SoldByRsiAlone(price, db.regime, overbought, hot)
                 /\ advised => \/ sells
                               \/ age = config.limit
                               \/ AdvisedByRsiAlone(price, db.regime, overbought, hot)
  <2> DEFINE config == AdjustedExit(db.regime, db.regime)
             current == ExitOf(db.regime)
  <2>1. /\ db.regime \in Regimes /\ db.entry \in Nat /\ db.hwm \in Nat /\ age \in Nat
        /\ price \in Nat \ {0}
    <3>1. age \in 0 .. AgeCap /\ AgeCap \in Nat /\ price \in Nat \ {0}
      BY <1>1, ExitAssumption DEF PeakInv, HwmIsPeak, TypeOK
    <3> QED
      BY <1>1, <3>1, OpenRow, RowTyped
  <2>2. config \in ExitConfig /\ config.trail > 0 /\ config.limit > 0
    <3>1. /\ config \in ExitConfig /\ current \in ExitConfig
          /\ config = [current EXCEPT !.stop = config.stop]
      BY <2>1, AdjustedStop DEF Readings
    <3>2. current = Exit[db.regime]
      BY <2>1 DEF ExitOf
    <3> HIDE DEF config, current
    <3>3. config.trail = current.trail /\ config.limit = current.limit
      BY <3>1 DEF ExitConfig
    <3> QED
      BY <2>1, <3>1, <3>2, <3>3
  <2>3. \A rsi \in BOOLEAN :
          Recommendation(db, price, db.regime, rsi, age) = "SELL"
            <=> Triggered(db, price, config, rsi, age)
    BY <2>1, AdvisedSale, SameConfig
  <2> DEFINE fires == TrailingFires(db.entry, db.hwm, price, config)
             loses == LossAtLeast(db.entry, price, config.stop)
             takes == ProfitAtLeast(db.entry, price, config.take)
             wins == ProfitAtLeast(db.entry, price, config.minProfit)
  <2>4. /\ fires /\ ~OnTheArm(db, config) => AdvisedTrailing(db, price, config)
        /\ AdvisedTrailing(db, price, config) => fires
    BY <2>1, <2>2, TrailingStopsAgree
  <2>5. /\ ExitReason(db, price, db.regime, overbought, age) # "NONE"
             <=> loses \/ fires \/ takes \/ (overbought /\ wins) \/ age > config.limit
        /\ overbought /\ wins /\ ~loses /\ ~fires /\ ~takes
             => ExitReason(db, price, db.regime, overbought, age) = "RSI_OVERBOUGHT"
    BY DEF ExitReason
  <2>6. config.limit \in Nat
    BY <2>2 DEF ExitConfig
  <2>7. /\ Triggered(db, price, config, hot, age)
             <=> \/ loses \/ AdvisedTrailing(db, price, config) \/ takes
                 \/ hot /\ wins
                 \/ age >= config.limit
        /\ Triggered(db, price, config, FALSE, age)
             <=> \/ loses \/ AdvisedTrailing(db, price, config) \/ takes
                 \/ age >= config.limit
    BY <2>2 DEF Triggered
  <2> HIDE DEF config, fires, loses, takes, wins
  <2>8. age >= config.limit <=> age > config.limit \/ age = config.limit
    BY <2>1, <2>6
  <2>9. ASSUME ExitReason(db, price, db.regime, overbought, age) # "NONE"
        PROVE  \/ Triggered(db, price, config, hot, age)
               \/ OnTheArm(db, config)
               \/ SoldByRsiAlone(price, db.regime, overbought, hot)
    BY <2>4, <2>5, <2>7, <2>8, <2>9 DEF SoldByRsiAlone
  <2>10. ASSUME Triggered(db, price, config, hot, age)
         PROVE  \/ ExitReason(db, price, db.regime, overbought, age) # "NONE"
                \/ age = config.limit
                \/ AdvisedByRsiAlone(price, db.regime, overbought, hot)
    BY <2>3, <2>4, <2>5, <2>7, <2>8, <2>10 DEF AdvisedByRsiAlone
  <2> QED
    BY <2>3, <2>9, <2>10 DEF config
<1>2. PeakInv => AdviceMatchesLoop
  BY <1>1 DEF AdviceMatchesLoop, NoSaleUnadvised, NoFalseAlarm
<1> QED
  BY <1>2, PeakInvariance, PTL

=============================================================================
