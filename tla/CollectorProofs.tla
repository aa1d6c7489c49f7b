--------------------------- MODULE CollectorProofs ----------------------------
(***************************************************************************)
(* Proofs about Collector and PostExitTracker: a backfill which runs to its *)
(* end leaves nothing out, for any number of symbols, size of pages, length *)
(* of the gap and minutes without a trade; and the tracker takes the nearest *)
(* close there is, for any windows, tolerance and number of sales, while the *)
(* collector backfills, fails and lags behind.                             *)
(***************************************************************************)
EXTENDS PostExitTracker, FiniteSetTheorems, SequenceTheorems, TLAPS

-----------------------------------------------------------------------------
(* Least and greatest elements *)

\* A set of natural numbers that is not empty has a least element.
LEMMA LeastNat ==
  ASSUME NEW S \in SUBSET Nat, S # {}
  PROVE  \E x \in S : \A y \in S : x <= y
<1> DEFINE R == OpToRel(<, Nat)
<1>1. IsWellFoundedOn(R, Nat)
  BY NatLessThanWellFounded
<1>2. \A x \in Nat, y \in Nat : <<x, y>> \in R <=> x < y
  BY DEF OpToRel
<1> HIDE DEF R
<1>3. PICK x \in S : \A y \in S : ~(<<y, x>> \in R)
  BY <1>1, WFMin
<1>4. \A y \in S : ~(y < x)
  BY <1>2, <1>3
<1>5. \A y \in S : x <= y
  BY <1>4
<1> QED
  BY <1>5

\* Min of such a set is its least element.
LEMMA MinIsLeast ==
  ASSUME NEW S \in SUBSET Nat, S # {}
  PROVE  Min(S) \in S /\ \A y \in S : Min(S) <= y
BY LeastNat DEF Min

\* Max of a bounded set of natural numbers is its greatest element.
LEMMA MaxIsGreatest ==
  ASSUME NEW n \in Nat, NEW S \in SUBSET (0 .. n), S # {}
  PROVE  Max(S) \in S /\ \A y \in S : Max(S) >= y
<1> DEFINE mirrored == {n - x : x \in S}
<1>1. mirrored \in SUBSET Nat /\ mirrored # {}
  <2>1. \A x \in S : x \in 0 .. n /\ n - x \in Nat
    OBVIOUS
  <2>2. PICK x \in S : TRUE
    OBVIOUS
  <2>3. n - x \in mirrored
    BY <2>2
  <2> QED
    BY <2>1, <2>3
<1>2. PICK z \in mirrored : \A y \in mirrored : z <= y
  BY <1>1, LeastNat
<1>3. PICK x \in S : z = n - x
  OBVIOUS
<1>4. \A y \in S : n - x <= n - y
  BY <1>2, <1>3
<1>5. \A y \in S : x >= y
  BY <1>4
<1> QED
  BY <1>5 DEF Max

-----------------------------------------------------------------------------
(* What a page holds *)

\* The candles that the exchange can answer a page from.
Known(before) == Traded(now) \cap (1 .. before - 1)

LaterThan(m, before) == {later \in Known(before) : later > m}

\* The candles later than one of them are finitely many, and fit in between.
LEMMA LaterFit ==
  ASSUME now \in Nat, NEW before \in Nat, NEW m \in Nat, m < before
  PROVE  /\ IsFiniteSet(LaterThan(m, before))
         /\ Cardinality(LaterThan(m, before)) \in Nat
         /\ Cardinality(LaterThan(m, before)) <= before - 1 - m
<1>1. LaterThan(m, before) \in SUBSET ((m + 1) .. (before - 1))
  BY DEF LaterThan, Known, Traded
<1>2. /\ IsFiniteSet((m + 1) .. (before - 1))
      /\ Cardinality((m + 1) .. (before - 1)) = before - 1 - m
  <2>1. m + 1 \in Int /\ before - 1 \in Int
    OBVIOUS
  <2>2. /\ IsFiniteSet((m + 1) .. (before - 1))
        /\ Cardinality((m + 1) .. (before - 1))
             = IF m + 1 > before - 1 THEN 0 ELSE (before - 1) - (m + 1) + 1
    BY <2>1, FS_Interval
  <2> QED
    BY <2>2
<1>3. /\ IsFiniteSet(LaterThan(m, before))
      /\ Cardinality(LaterThan(m, before)) <= before - 1 - m
  BY <1>1, <1>2, FS_Subset
<1> QED
  BY <1>3, FS_CardinalityType

\* A page reaches from its end down to its oldest candle without a hole, is
\* complete if it is short, never longer than asked for, and what it leaves
\* for the next page is further back than its count.
LEMMA PageShape ==
  ASSUME now \in Nat, NEW count \in Nat \ {0}, NEW before \in Nat
  PROVE  LET page == Newest(count, before) IN
         /\ page \subseteq Known(before) /\ IsFiniteSet(page)
         /\ Cardinality(page) \in Nat /\ Cardinality(page) <= count
         /\ \A m \in page, later \in Known(before) : later > m => later \in page
         /\ \A m \in Known(before) \ page : count <= before - 1 - m
         /\ Cardinality(page) < count => page = Known(before)
         /\ \A m \in page :
              (\A other \in page : m <= other) => Cardinality(page) <= before - m
<1> DEFINE page == Newest(count, before)
           known == Known(before)
<1>1. page = {m \in known : Cardinality(LaterThan(m, before)) < count}
  BY DEF Newest, Known, LaterThan
<1>2. known \subseteq 1 .. (before - 1)
  BY DEF Known
<1>3. IsFiniteSet(known)
  <2>1. 1 \in Int /\ before - 1 \in Int
    OBVIOUS
  <2>2. IsFiniteSet(1 .. (before - 1))
    BY <2>1, FS_Interval
  <2> QED
    BY <1>2, <2>2, FS_Subset
<1> HIDE DEF page
<1>4. page \in SUBSET known
  BY <1>1
<1>5. IsFiniteSet(page) /\ Cardinality(page) \in Nat
  BY <1>3, <1>4, FS_Subset, FS_CardinalityType
<1>6. ASSUME NEW m \in known
      PROVE  /\ m \in Nat /\ 1 <= m /\ m < before
             /\ IsFiniteSet(LaterThan(m, before))
             /\ Cardinality(LaterThan(m, before)) \in Nat
             /\ Cardinality(LaterThan(m, before)) <= before - 1 - m
  <2>1. m \in Nat /\ 1 <= m /\ m < before
    BY <1>2
  <2> QED
    BY <2>1, LaterFit
<1>7. ASSUME NEW m \in page, NEW later \in known, later > m
      PROVE  later \in page
  <2>1. LaterThan(later, before) \in SUBSET LaterThan(m, before)
    <3>1. m \in Nat /\ later \in Nat /\ later > m
      BY <1>4, <1>6, <1>7
    <3>2. \A x \in known : x \in Nat /\ (x > later => x > m)
      BY <1>6, <3>1
    <3> QED
      BY <3>2 DEF LaterThan
  <2>2. Cardinality(LaterThan(later, before)) <= Cardinality(LaterThan(m, before))
    BY <1>4, <1>6, <2>1, FS_Subset
  <2>3. Cardinality(LaterThan(m, before)) < count
    BY <1>1
  <2>4. Cardinality(LaterThan(later, before)) < count
    BY <1>4, <1>6, <2>2, <2>3
  <2> QED
    BY <1>1, <2>4
<1>8. ASSUME NEW m \in known \ page
      PROVE  /\ Cardinality(LaterThan(m, before)) >= count
             /\ count <= before - 1 - m
  <2>1. ~(Cardinality(LaterThan(m, before)) < count)
    BY <1>1
  <2> QED
    BY <1>6, <2>1
<1>9. ASSUME NEW m \in page, \A other \in page : m <= other
      PROVE  /\ Cardinality(page) <= Cardinality(LaterThan(m, before)) + 1
             /\ Cardinality(page) <= before - m
             /\ Cardinality(page) <= count
  <2> DEFINE later == LaterThan(m, before)
  <2>1. m \in known
    BY <1>4
  <2>2. IsFiniteSet(later) /\ Cardinality(later) \in Nat /\ Cardinality(later) <= before - 1 - m
        /\ m \in Nat
    BY <1>6, <2>1
  <2>3. page \in SUBSET (later \cup {m})
    <3>1. \A x \in page : x \in known /\ x \in Nat /\ m <= x
      BY <1>4, <1>6, <1>9
    <3>2. \A x \in page : x = m \/ x > m
      BY <2>2, <3>1
    <3> QED
      BY <3>1, <3>2 DEF LaterThan
  <2>4. m \notin later
    BY <2>2 DEF LaterThan
  <2>5. Cardinality(later) < count
    BY <1>1
  <2> HIDE DEF later
  <2>6. IsFiniteSet(later \cup {m}) /\ Cardinality(later \cup {m}) = Cardinality(later) + 1
    BY <2>2, <2>4, FS_AddElement
  <2>7. Cardinality(page) <= Cardinality(later) + 1
    BY <2>3, <2>6, FS_Subset
  <2> QED
    BY <1>5, <2>2, <2>5, <2>7 DEF later
<1>10. Cardinality(page) <= count
  <2>1. CASE page = {}
    BY <2>1, FS_EmptySet
  <2>2. CASE page # {}
    <3>1. page \in SUBSET Nat
      BY <1>4, <1>6
    <3>2. PICK m \in page : \A other \in page : m <= other
      BY <2>2, <3>1, LeastNat
    <3> QED
      BY <1>9, <3>2
  <2> QED
    BY <2>1, <2>2
<1>11. ASSUME Cardinality(page) < count, page # known PROVE FALSE
  <2> DEFINE missing == known \ page
  <2>1. missing \in SUBSET (0 .. before) /\ missing # {}
    BY <1>2, <1>4, <1>11
  <2>2. PICK m \in missing : \A other \in missing : m >= other
    BY <2>1, MaxIsGreatest
  <2>3. LaterThan(m, before) \in SUBSET page
    <3>1. \A x \in missing : m >= x /\ x \in Nat
      BY <1>6, <2>2
    <3>2. \A x \in missing : ~(x > m)
      BY <2>2, <3>1
    <3> QED
      BY <3>2 DEF LaterThan
  <2>4. Cardinality(LaterThan(m, before)) <= Cardinality(page)
    BY <1>5, <2>3, FS_Subset
  <2>5. Cardinality(LaterThan(m, before)) >= count
    BY <1>8
  <2>6. Cardinality(LaterThan(m, before)) \in Nat
    BY <1>6
  <2> QED
    BY <1>5, <1>11, <2>4, <2>5, <2>6
<1> QED
  BY <1>4, <1>5, <1>7, <1>8, <1>9, <1>10, <1>11 DEF page

-----------------------------------------------------------------------------
(* The invariant of a backfill *)

\* What a backfill has fetched so far leaves no hole down to the end of its
\* next page, and the count it still wants is at least the minutes left, however
\* many of them had no trade.
PageInv ==
  pc = "paging" =>
    /\ gap.start >= FirstMinute /\ gap.start <= now
    /\ gap.before >= 1 /\ gap.before <= gap.start + 1
    /\ gap.remaining >= 1
    /\ gap.before - 1 - gap.last <= gap.remaining
    /\ (Traded(gap.start) \ (1 .. gap.before - 1)) \subseteq stored[Current]

IInv == TypeOK /\ PageInv

\* The number of collectors.
LEMMA LenTyped == Len(SYMBOLS) \in Nat /\ Len(SYMBOLS) >= 1
BY CollectorAssumption

\* A collector at work is that of a symbol.
LEMMA CurrentTyped ==
  ASSUME TypeOK, turn <= Len(SYMBOLS)
  PROVE  Current \in Symbols
<1>1. turn \in 1 .. Len(SYMBOLS)
  BY LenTyped DEF TypeOK
<1> QED
  BY <1>1 DEF Current, Symbols

\* The clock's minutes are numbers.
LEMMA NowTyped ==
  ASSUME TypeOK
  PROVE  /\ now \in Nat /\ now >= 1 /\ now <= LastMinute /\ now >= FirstMinute
         /\ FirstMinute \in Nat /\ FirstMinute >= 1 /\ LastMinute \in Nat
BY CollectorAssumption DEF TypeOK

\* Candles are stored for minutes that were traded.
LEMMA SavedTyped ==
  ASSUME TypeOK, NEW s \in Symbols, NEW count \in Nat \ {0}, NEW before \in Nat
  PROVE  /\ Saved(s, Newest(count, before))
              \in [Symbols -> SUBSET ((1 .. LastMinute) \ Silent)]
         /\ Saved(s, Newest(count, before))[s] = stored[s] \cup Newest(count, before)
<1>1. Newest(count, before) \in SUBSET ((1 .. LastMinute) \ Silent)
  BY NowTyped DEF Newest, Traded
<1> QED
  BY <1>1 DEF Saved, TypeOK

\* The next collector's backfill is typed, and pages nothing yet.
LEMMA NextBackfillTyped ==
  ASSUME TypeOK, pc \in {"check", "paging"}, NextBackfill
  PROVE  /\ gap' = NoGap /\ pc' \in {"check", "round"}
         /\ turn' \in 1 .. Len(SYMBOLS) + 1
         /\ pc' = "check" => turn' <= Len(SYMBOLS)
BY LenTyped DEF NextBackfill, TypeOK

\* A state that pages nothing is typed when its parts are.
LEMMA NotPaging ==
  ASSUME stored' \in [Symbols -> SUBSET ((1 .. LastMinute) \ Silent)],
         now' \in FirstMinute .. LastMinute,
         pc' \in {"down", "check", "round", "sleep"},
         turn' \in 1 .. Len(SYMBOLS) + 1, pc' = "check" => turn' <= Len(SYMBOLS),
         gap' = NoGap \/ gap' \in [last : 0 .. LastMinute, start : 0 .. LastMinute,
                                   before : 0 .. LastMinute + 1, remaining : 0 .. LastMinute]
  PROVE  IInv'
<1>1. NoGap \in [last : 0 .. LastMinute, start : 0 .. LastMinute,
                 before : 0 .. LastMinute + 1, remaining : 0 .. LastMinute]
  BY CollectorAssumption DEF NoGap
<1> QED
  BY <1>1 DEF IInv, TypeOK, PageInv

\* The collector starts with nothing stored.
LEMMA InitIInv == Init => IInv
<1> SUFFICES ASSUME Init PROVE IInv
  OBVIOUS
<1>1. NoGap \in [last : 0 .. LastMinute, start : 0 .. LastMinute,
                 before : 0 .. LastMinute + 1, remaining : 0 .. LastMinute]
  BY CollectorAssumption DEF NoGap
<1>2. now \in FirstMinute .. LastMinute /\ turn \in 1 .. Len(SYMBOLS) + 1
  BY CollectorAssumption, LenTyped DEF Init
<1> QED
  BY <1>1, <1>2 DEF Init, IInv, TypeOK, PageInv

\* Finding the gap.
LEMMA FindGapStep ==
  ASSUME IInv, FindGap
  PROVE  IInv'
<1> DEFINE last == Max(stored[Current])
<1>1. /\ TypeOK /\ Current \in Symbols /\ stored[Current] # {} /\ turn <= Len(SYMBOLS)
      /\ stored[Current] \in SUBSET ((1 .. LastMinute) \ Silent)
  BY CurrentTyped DEF FindGap, IInv, TypeOK
<1>2. last \in 1 .. LastMinute
  <2>1. stored[Current] \in SUBSET (0 .. LastMinute) /\ LastMinute \in Nat
    BY <1>1, NowTyped
  <2>2. last \in stored[Current]
    BY <1>1, <2>1, MaxIsGreatest
  <2> QED
    BY <1>1, <2>2
<1>3. /\ now - last > 1
      /\ gap' = [last |-> last, start |-> now, before |-> now + 1, remaining |-> now - last]
      /\ pc' = "paging" /\ UNCHANGED <<stored, now, turn>>
  BY DEF FindGap
<1> HIDE DEF last
<1>4. /\ now \in Nat /\ now >= 1 /\ now <= LastMinute /\ now >= FirstMinute
      /\ LastMinute \in Nat
  BY <1>1, NowTyped
<1>5. TypeOK'
  <2>1. gap' \in [last : 0 .. LastMinute, start : 0 .. LastMinute,
                  before : 0 .. LastMinute + 1, remaining : 0 .. LastMinute]
    BY <1>2, <1>3, <1>4
  <2> QED
    BY <1>1, <1>3, <2>1 DEF TypeOK
<1>6. PageInv'
  <2>1. /\ gap'.start = now /\ gap'.before = now + 1 /\ gap'.remaining = now - last
        /\ gap'.last = last
    BY <1>3
  <2>2. Traded(now) \ (1 .. (now + 1) - 1) = {}
    BY <1>4 DEF Traded
  <2> QED
    BY <1>2, <1>3, <1>4, <2>1, <2>2 DEF PageInv, Traded
<1> QED
  BY <1>5, <1>6 DEF IInv

\* What a page of the backfill adds, and whether it is the last one.
LEMMA FetchPageStep ==
  ASSUME IInv, FetchPage
  PROVE  /\ IInv'
         /\ gap' = NoGap
              => (Traded(gap.start) \ (1 .. gap.last)) \subseteq stored'[Current]
<1> DEFINE wanted == Min({gap.remaining, Page})
           page == Newest(wanted, gap.before)
           got == Cardinality(page)
           oldest == Min(page)
<1>1. /\ TypeOK /\ pc = "paging" /\ turn <= Len(SYMBOLS) /\ Current \in Symbols
      /\ now \in Nat /\ now >= 1 /\ now <= LastMinute /\ LastMinute \in Nat
      /\ FirstMinute >= 1 /\ FirstMinute \in Nat
  BY CurrentTyped, NowTyped DEF FetchPage, IInv, TypeOK
<1>2. /\ gap \in [last : 0 .. LastMinute, start : 0 .. LastMinute,
                  before : 0 .. LastMinute + 1, remaining : 0 .. LastMinute]
      /\ gap.start \in Nat /\ gap.start >= 1 /\ gap.start >= FirstMinute /\ gap.start <= now
      /\ gap.before \in Nat /\ gap.before >= 1 /\ gap.before <= gap.start + 1
      /\ gap.last \in Nat /\ gap.remaining \in Nat /\ gap.remaining >= 1
      /\ gap.before - 1 - gap.last <= gap.remaining
      /\ (Traded(gap.start) \ (1 .. gap.before - 1)) \subseteq stored[Current]
  BY <1>1 DEF IInv, TypeOK, PageInv
<1>3. /\ wanted \in Nat \ {0} /\ wanted <= gap.remaining
      /\ wanted \in {gap.remaining, Page}
  <2>1. {gap.remaining, Page} \in SUBSET Nat /\ 0 \notin {gap.remaining, Page}
    BY <1>2, CollectorAssumption
  <2>2. wanted \in {gap.remaining, Page} /\ \A y \in {gap.remaining, Page} : wanted <= y
    BY <2>1, MinIsLeast
  <2> QED
    BY <2>1, <2>2
<1>4. /\ stored' = Saved(Current, page) /\ UNCHANGED now
      /\ IF got = wanted /\ got < gap.remaining
         THEN /\ gap' = [gap EXCEPT !.before = oldest, !.remaining = gap.remaining - got]
              /\ UNCHANGED <<turn, pc>>
         ELSE NextBackfill
  BY DEF FetchPage, Oldest
<1> HIDE DEF wanted
<1>5. /\ page \subseteq Known(gap.before) /\ IsFiniteSet(page)
      /\ got \in Nat /\ got <= wanted
      /\ \A m \in page, later \in Known(gap.before) : later > m => later \in page
      /\ \A m \in Known(gap.before) \ page : wanted <= gap.before - 1 - m
      /\ got < wanted => page = Known(gap.before)
      /\ \A m \in page : (\A other \in page : m <= other) => got <= gap.before - m
  BY <1>1, <1>2, <1>3, PageShape
<1>6. /\ stored' \in [Symbols -> SUBSET ((1 .. LastMinute) \ Silent)]
      /\ stored'[Current] = stored[Current] \cup page
  BY <1>1, <1>2, <1>3, <1>4, SavedTyped
<1> HIDE DEF page, got, oldest
\* A traded minute of the gap is stored already or the page can hold it.
<1>7. ASSUME NEW m \in Traded(gap.start)
      PROVE  /\ m \in Nat /\ 1 <= m
             /\ m \in stored[Current] \/ (m \in Known(gap.before) /\ m < gap.before)
  <2>1. m \in Nat /\ 1 <= m /\ m <= gap.start /\ m \notin Silent
    BY <1>2 DEF Traded
  <2>2. CASE m < gap.before
    BY <1>1, <1>2, <2>1, <2>2 DEF Known, Traded
  <2>3. CASE ~(m < gap.before)
    <3>1. m \notin 1 .. gap.before - 1
      BY <1>2, <2>1, <2>3
    <3> QED
      BY <1>2, <2>1, <3>1
  <2> QED
    BY <2>1, <2>2, <2>3
<1>8. CASE got = wanted /\ got < gap.remaining
  <2>1. page \in SUBSET Nat /\ page # {}
    <3>1. page # {}
      <4>1. got # 0
        BY <1>3, <1>8
      <4> QED
        BY <4>1, FS_EmptySet DEF got
    <3>2. \A m \in page : m \in Nat
      BY <1>2, <1>5 DEF Known
    <3> QED
      BY <3>1, <3>2
  <2>2. oldest \in page /\ \A m \in page : oldest <= m
    BY <2>1, MinIsLeast DEF oldest
  <2>3. oldest \in Nat /\ oldest >= 1 /\ oldest < gap.before /\ got <= gap.before - oldest
    BY <1>2, <1>5, <2>2 DEF Known
  <2>4. /\ gap' = [gap EXCEPT !.before = oldest, !.remaining = gap.remaining - got]
        /\ UNCHANGED <<turn, pc, now>>
    BY <1>4, <1>8
  <2>5. /\ gap'.start = gap.start /\ gap'.last = gap.last /\ gap'.before = oldest
        /\ gap'.remaining = gap.remaining - got
        /\ gap' \in [last : 0 .. LastMinute, start : 0 .. LastMinute,
                     before : 0 .. LastMinute + 1, remaining : 0 .. LastMinute]
    <3>1. oldest \in 0 .. LastMinute + 1
      BY <1>1, <1>2, <1>5, <2>3
    <3>2. gap.remaining - got \in 0 .. LastMinute
      BY <1>1, <1>2, <1>5, <1>8
    <3> QED
      BY <1>2, <2>4, <3>1, <3>2
  <2>6. gap' # NoGap
    BY <1>2, <2>5 DEF NoGap
  <2>7. (Traded(gap.start) \ (1 .. oldest - 1)) \subseteq stored'[Current]
    <3> SUFFICES ASSUME NEW m \in Traded(gap.start), m \notin 1 .. oldest - 1
                 PROVE  m \in stored'[Current]
      OBVIOUS
    <3>1. m \in Nat /\ 1 <= m /\ (m \in stored[Current] \/ m \in Known(gap.before))
      BY <1>7
    <3>2. m = oldest \/ m > oldest
      BY <2>3, <3>1
    <3> QED
      BY <1>5, <1>6, <2>2, <3>1, <3>2
  <2>8. gap'.before - 1 - gap'.last <= gap'.remaining /\ gap'.remaining >= 1
    BY <1>2, <1>5, <1>8, <2>3, <2>5
  <2>9. Current' = Current
    BY <2>4 DEF Current
  <2>10. TypeOK'
    BY <1>1, <1>6, <2>4, <2>5 DEF TypeOK
  <2>11. PageInv'
    BY <1>2, <2>3, <2>4, <2>5, <2>7, <2>8, <2>9 DEF PageInv, Traded
  <2> QED
    BY <2>6, <2>10, <2>11 DEF IInv
<1>9. CASE ~(got = wanted /\ got < gap.remaining)
  <2>1. NextBackfill
    BY <1>4, <1>9
  <2>2. IInv'
    BY <1>1, <1>4, <1>6, <2>1, NextBackfillTyped, NotPaging DEF TypeOK
  <2>3. ASSUME NEW m \in Traded(gap.start), m \notin 1 .. gap.last
        PROVE  m \in stored'[Current]
    <3>1. m \in Nat /\ 1 <= m /\ (m \in stored[Current] \/ (m \in Known(gap.before) /\ m < gap.before))
      BY <1>7
    <3>2. m > gap.last
      BY <1>2, <2>3, <3>1
    <3>3. CASE got < wanted
      BY <1>5, <1>6, <3>1, <3>3
    <3>4. CASE ~(got < wanted)
      <4>1. wanted = gap.remaining
        BY <1>2, <1>3, <1>5, <1>9, <3>4
      <4>2. ~(wanted <= gap.before - 1 - m)
        BY <1>2, <3>1, <3>2, <4>1
      <4> QED
        BY <1>5, <1>6, <3>1, <4>2
    <3> QED
      BY <3>3, <3>4
  <2> QED
    BY <2>2, <2>3
<1> QED
  BY <1>8, <1>9

\* Every step keeps the invariant.
LEMMA NextIInv == IInv /\ [Next]_vars => IInv'
<1> SUFFICES ASSUME IInv, [Next]_vars PROVE IInv'
  OBVIOUS
<1>1. /\ TypeOK /\ Len(SYMBOLS) \in Nat /\ Len(SYMBOLS) >= 1
      /\ now \in Nat /\ now <= LastMinute /\ now >= FirstMinute
      /\ LastMinute \in Nat /\ FirstMinute \in Nat
  BY LenTyped, NowTyped DEF IInv
<1>2. CASE FetchInitial
  <2>1. pc = "check" /\ NextBackfill /\ UNCHANGED now
        /\ stored' = Saved(Current, Newest(Page, now + 1))
    BY <1>2 DEF FetchInitial
  <2>2. Current \in Symbols
    BY <1>1, <2>1, CurrentTyped DEF TypeOK
  <2>3. Page \in Nat \ {0} /\ now + 1 \in Nat
    BY <1>1, CollectorAssumption
  <2>4. stored' \in [Symbols -> SUBSET ((1 .. LastMinute) \ Silent)]
    BY <1>1, <2>1, <2>2, <2>3, SavedTyped
  <2> QED
    BY <1>1, <2>1, <2>4, NextBackfillTyped, NotPaging DEF TypeOK
<1>3. CASE UpToDate \/ FailBackfill
  <2>1. pc \in {"check", "paging"} /\ NextBackfill /\ UNCHANGED <<stored, now>>
    BY <1>3 DEF UpToDate, FailBackfill
  <2> QED
    BY <1>1, <2>1, NextBackfillTyped, NotPaging DEF TypeOK
<1>4. CASE FindGap
  BY <1>4, FindGapStep
<1>5. CASE FetchPage
  BY <1>5, FetchPageStep
<1>6. CASE Collecting
  <2>1. PICK i \in 1 .. Len(SYMBOLS) : Collect(i)
    BY <1>6 DEF Collecting
  <2>2. SYMBOLS[i] \in Symbols
    BY DEF Symbols
  <2>3. stored' = Saved(SYMBOLS[i], Newest(1, now + 1)) /\ turn' = i + 1
        /\ pc' = "round" /\ UNCHANGED <<now, gap>>
    BY <2>1 DEF Collect
  <2>4. 1 \in Nat \ {0} /\ now + 1 \in Nat
    BY <1>1
  <2>5. stored' \in [Symbols -> SUBSET ((1 .. LastMinute) \ Silent)]
    BY <1>1, <2>2, <2>3, <2>4, SavedTyped
  <2>6. turn' \in 1 .. Len(SYMBOLS) + 1
    BY <1>1, <2>3
  <2> QED
    BY <1>1, <2>3, <2>5, <2>6, NotPaging DEF TypeOK
<1>7. CASE Start \/ EndRound \/ Wake \/ Crash
  <2>1. /\ pc' \in {"down", "check", "round", "sleep"} /\ UNCHANGED <<stored, now>>
        /\ turn' \in {1, turn} /\ (pc' = "check" => turn' = 1)
        /\ gap' \in {NoGap, gap}
    BY <1>7 DEF Start, EndRound, Wake, Crash, Rewound
  <2>2. turn' \in 1 .. Len(SYMBOLS) + 1 /\ (pc' = "check" => turn' <= Len(SYMBOLS))
    BY <1>1, <2>1 DEF TypeOK
  <2> QED
    BY <1>1, <2>1, <2>2, NotPaging DEF TypeOK
<1>8. CASE Tick
  <2>1. now' = now + 1 /\ now < LastMinute /\ UNCHANGED <<stored, pc, turn, gap>>
    BY <1>8 DEF Tick
  <2>2. now' \in FirstMinute .. LastMinute
    BY <1>1, <2>1
  <2>3. TypeOK'
    BY <1>1, <2>1, <2>2 DEF TypeOK
  <2>4. gap.start <= now /\ gap.start \in Int => gap.start <= now'
    BY <1>1, <2>1
  <2>5. gap.start \in Int
    BY <1>1 DEF TypeOK
  <2>6. PageInv'
    BY <2>1, <2>4, <2>5 DEF IInv, PageInv, Current, Traded
  <2> QED
    BY <2>3, <2>6 DEF IInv
<1>9. CASE UNCHANGED vars
  BY <1>9 DEF vars, IInv, TypeOK, PageInv, Current, Traded
<1> QED
  BY <1>2, <1>3, <1>4, <1>5, <1>6, <1>7, <1>8, <1>9 DEF Next, Backfilling

\* Every state the collector can be in satisfies the invariant.
THEOREM CollectorInvariance == Spec => []IInv
BY InitIInv, NextIInv, PTL DEF Spec

\* A backfill that runs to its end leaves no traded minute out between the
\* newest one it found stored and the one it started in.
THEOREM GapIsClosed == Spec => BackfillClosesGap
<1>1. IInv /\ [Next]_vars
        => [FetchPage /\ gap' = NoGap =>
              (Traded(gap.start) \ (1 .. gap.last)) \subseteq stored'[Current]]_vars
  BY FetchPageStep
<1> QED
  BY <1>1, CollectorInvariance, PTL DEF Spec, BackfillClosesGap

-----------------------------------------------------------------------------
(* The invariant of the tracker *)

Point == [candle : 0 .. LastMinute, at : 0 .. LastMinute, late : BOOLEAN]

SaleRow == [symbol : Symbols, at : FirstMinute .. LastMinute, points : [Labels -> Point]]

\* No candle of the exchange up to the target is nearer than the one taken,
\* unless one was missing when it was taken.
NearestPoint(sale, w) ==
  LET point  == sale.points[w]
      target == Target(sale, w)
  IN  point # NoPoint =>
        /\ point.at >= target
        /\ Distance(point.candle, target) <= Tolerance
        /\ ~point.late => \A m \in Traded(target) :
                            Distance(point.candle, target) <= Distance(m, target)

GoodRows == {sale \in SaleRow : \A w \in Labels : NearestPoint(sale, w)}

TrackerInv == IInv /\ sales \in Seq(GoodRows) /\ Len(sales) <= MaxSales

LEMMA MinuteBounds ==
  /\ FirstMinute \in Nat \ {0} /\ LastMinute \in Nat /\ FirstMinute <= LastMinute
  /\ Tolerance \in Nat /\ MaxSales \in Nat
BY CollectorAssumption, TrackerAssumption

\* The end of a window is a minute.
LEMMA TargetTyped ==
  ASSUME NEW sale \in SaleRow, NEW w \in Labels
  PROVE  Target(sale, w) \in Nat /\ sale.points[w] \in Point /\ sale.symbol \in Symbols
<1>1. Window[w] \in Nat
  BY TrackerAssumption DEF Labels
<1>2. sale.at \in FirstMinute .. LastMinute
  BY DEF SaleRow
<1> QED
  BY <1>1, <1>2, MinuteBounds DEF Target, SaleRow

\* What the rows promise the reader of the window.
LEMMA PromiseKept == TrackerInv => PointsAreNearest
<1> SUFFICES ASSUME TrackerInv PROVE PointsAreNearest
  OBVIOUS
<1>1. /\ TypeOK /\ sales \in Seq(GoodRows) /\ Len(sales) <= MaxSales
  BY DEF TrackerInv, IInv
<1>2. GoodRows \subseteq SaleRow
  BY DEF GoodRows
<1>3. sales \in Seq(SaleRow)
  BY <1>1, <1>2, SeqMonotonic
<1>4. SalesTypeOK
  BY <1>1, <1>3 DEF SalesTypeOK, SaleRow, Point
<1>5. \A i \in DOMAIN sales : sales[i] \in GoodRows
  BY <1>1, LenProperties, ElementOfSeq
<1>6. ASSUME NEW i \in DOMAIN sales, NEW w \in Labels, sales[i].points[w] # NoPoint,
             NEW m \in stored[sales[i].symbol] \cap (1 .. Target(sales[i], w))
      PROVE  m \in Traded(Target(sales[i], w))
  <2>1. sales[i].symbol \in Symbols
    BY <1>2, <1>5, TargetTyped DEF SaleRow
  <2>2. m \notin Silent
    BY <1>1, <2>1 DEF TypeOK
  <2> QED
    BY <2>2 DEF Traded
<1>7. \A i \in DOMAIN sales, w \in Labels : NearestPoint(sales[i], w)
  BY <1>5 DEF GoodRows
<1> QED
  BY <1>4, <1>6, <1>7 DEF PointsAreNearest, NearestPoint

-----------------------------------------------------------------------------
(* The steps of the tracker *)

\* A nearest close among the candles stored is the nearest of all if none of
\* those within the tolerance is missing.
LEMMA NearestOfAll ==
  ASSUME NEW symbol, NEW target \in Nat, NEW m \in NearestCloses(symbol, target),
         m \in Nat, ~BehindAt(symbol, target)
  PROVE  \A other \in Traded(target) : Distance(m, target) <= Distance(other, target)
<1> SUFFICES ASSUME NEW other \in Traded(target)
             PROVE  Distance(m, target) <= Distance(other, target)
  OBVIOUS
<1>1. /\ Distance(m, target) \in Nat /\ Distance(m, target) <= Tolerance
      /\ \A near \in Around(symbol, target) : Distance(m, target) <= Distance(near, target)
  BY DEF NearestCloses, Around, Distance
<1>2. other \in Nat /\ Distance(other, target) \in Nat
  BY DEF Traded, Distance
<1>3. CASE Distance(other, target) <= Tolerance
  <2>1. other \in Around(symbol, target)
    BY <1>3 DEF BehindAt, Around
  <2> QED
    BY <1>1, <2>1
<1>4. CASE ~(Distance(other, target) <= Tolerance)
  BY <1>1, <1>2, <1>4, MinuteBounds
<1> QED
  BY <1>3, <1>4

\* A run leaves in a window what was there, or the nearest close.
LEMMA PointTyped ==
  ASSUME TypeOK, NEW sale \in GoodRows, NEW w \in Labels, NEW point \in PointAfter(sale, w)
  PROVE  /\ point \in Point
         /\ NearestPoint([sale EXCEPT !.points = [sale.points EXCEPT ![w] = point]], w)
<1> DEFINE target == Target(sale, w)
           closes == NearestCloses(sale.symbol, target)
           next == [sale EXCEPT !.points = [sale.points EXCEPT ![w] = point]]
<1>1. /\ sale \in SaleRow /\ NearestPoint(sale, w)
      /\ target \in Nat /\ sale.points[w] \in Point /\ sale.symbol \in Symbols
  BY TargetTyped DEF GoodRows
<1>2. sale.points \in [Labels -> Point]
  BY <1>1 DEF SaleRow
<1>3. next.points[w] = point /\ Target(next, w) = target
  BY <1>1, <1>2 DEF SaleRow, Target
<1> HIDE DEF target, next
<1>4. CASE point = sale.points[w]
  BY <1>1, <1>3, <1>4 DEF NearestPoint, target, next
<1>5. CASE /\ Due(sale, w)
           /\ \E m \in closes : point = [candle |-> m, at |-> now,
                                         late |-> BehindAt(sale.symbol, target)]
  <2>1. PICK m \in closes : point = [candle |-> m, at |-> now,
                                     late |-> BehindAt(sale.symbol, target)]
    BY <1>5
  <2>2. m \in stored[sale.symbol] /\ Distance(m, target) <= Tolerance
    BY DEF NearestCloses, Around
  <2>3. m \in 0 .. LastMinute /\ now \in 0 .. LastMinute
    BY <1>1, <2>2, MinuteBounds DEF TypeOK
  <2>4. BehindAt(sale.symbol, target) \in BOOLEAN
    BY DEF BehindAt
  <2>5. point \in Point
    BY <2>1, <2>3, <2>4 DEF Point
  <2>6. /\ point.candle = m /\ point.at = now
        /\ point.late = BehindAt(sale.symbol, target)
    BY <2>1
  <2>7. now >= target
    BY <1>5 DEF Due, target
  <2>8. ~point.late => \A other \in Traded(target) :
                         Distance(point.candle, target) <= Distance(other, target)
    <3>1. m \in Nat
      BY <2>3
    <3>2. ~BehindAt(sale.symbol, target) =>
            \A other \in Traded(target) : Distance(m, target) <= Distance(other, target)
      BY <1>1, <3>1, NearestOfAll
    <3> QED
      BY <2>6, <3>2
  <2>9. NearestPoint(next, w)
    BY <1>3, <2>2, <2>6, <2>7, <2>8 DEF NearestPoint
  <2> QED
    BY <2>5, <2>9 DEF next
<1> QED
  BY <1>4, <1>5 DEF PointAfter, target

\* A run makes a good row of a good row.
LEMMA RowTyped ==
  ASSUME TypeOK, NEW sale \in GoodRows, NEW row \in RowsAfter(sale)
  PROVE  row \in GoodRows
<1>1. PICK points : /\ \A w \in Labels : points[w] \in PointAfter(sale, w)
                    /\ \E choices : points \in [Labels -> choices]
                    /\ row = [sale EXCEPT !.points = points]
  BY DEF RowsAfter
<1>2. sale \in SaleRow
  BY DEF GoodRows
<1>3. \A w \in Labels : points[w] \in Point
  BY <1>1, PointTyped
<1>4. points \in [Labels -> Point]
  BY <1>1, <1>3
<1>5. row \in SaleRow /\ row.points = points /\ row.at = sale.at
  BY <1>1, <1>2, <1>4 DEF SaleRow
<1>6. ASSUME NEW w \in Labels PROVE NearestPoint(row, w)
  <2> DEFINE next == [sale EXCEPT !.points = [sale.points EXCEPT ![w] = points[w]]]
  <2>1. NearestPoint(next, w)
    BY <1>1, PointTyped
  <2>2. next.points[w] = points[w] /\ next.at = sale.at
    BY <1>2 DEF SaleRow
  <2> HIDE DEF next
  <2> QED
    BY <1>5, <2>1, <2>2 DEF NearestPoint, Target
<1> QED
  BY <1>5, <1>6 DEF GoodRows

\* A run of the job, the newest sales first or not.
LEMMA TrackStep == ASSUME TrackerInv, Track PROVE TrackerInv'
<1>1. UNCHANGED vars /\ DOMAIN sales' = DOMAIN sales
      /\ sales' = [i \in DOMAIN sales |-> sales'[i]]
      /\ \A i \in DOMAIN sales : sales'[i] \in RowsAfter(sales[i]) \/ sales'[i] = sales[i]
  BY DEF Track
<1>2. TypeOK /\ IInv /\ sales \in Seq(GoodRows) /\ Len(sales) <= MaxSales
  BY DEF TrackerInv, IInv
<1>3. /\ Len(sales) \in Nat /\ DOMAIN sales = 1 .. Len(sales)
      /\ \A i \in DOMAIN sales : sales[i] \in GoodRows
  BY <1>2, LenProperties, ElementOfSeq
<1>4. \A i \in DOMAIN sales : sales'[i] \in GoodRows
  BY <1>1, <1>2, <1>3, RowTyped
<1>5. sales' \in [1 .. Len(sales) -> GoodRows]
  BY <1>1, <1>3, <1>4
<1>6. sales' \in Seq(GoodRows) /\ Len(sales') = Len(sales)
  BY <1>3, <1>5
<1>7. IInv'
  BY <1>1, <1>2 DEF vars, IInv, TypeOK, PageInv, Current, Traded
<1> QED
  BY <1>2, <1>6, <1>7 DEF TrackerInv

\* A new sale has no point yet.
LEMMA SellStep == ASSUME TrackerInv, NEW symbol \in Symbols, Sell(symbol) PROVE TrackerInv'
<1> DEFINE row == [symbol |-> symbol, at |-> now, points |-> [w \in Labels |-> NoPoint]]
<1>1. Len(sales) < MaxSales /\ sales' = Append(sales, row) /\ UNCHANGED vars
  BY DEF Sell
<1>2. TypeOK /\ IInv /\ sales \in Seq(GoodRows)
  BY DEF TrackerInv, IInv
<1>3. NoPoint \in Point
  BY MinuteBounds DEF NoPoint, Point
<1>4. row \in SaleRow
  BY <1>2, <1>3 DEF SaleRow, TypeOK
<1>5. row \in GoodRows
  BY <1>4 DEF GoodRows, NearestPoint
<1> HIDE DEF row
<1>6. sales' \in Seq(GoodRows) /\ Len(sales') = Len(sales) + 1
  BY <1>1, <1>2, <1>5, AppendProperties
<1>7. Len(sales') <= MaxSales
  BY <1>1, <1>2, <1>6, LenProperties, MinuteBounds
<1>8. IInv'
  BY <1>1, <1>2 DEF vars, IInv, TypeOK, PageInv, Current, Traded
<1> QED
  BY <1>6, <1>7, <1>8 DEF TrackerInv

LEMMA InitTrackerInv == TrackerInit => TrackerInv
<1> SUFFICES ASSUME TrackerInit PROVE TrackerInv
  OBVIOUS
<1>1. Init /\ sales = <<>>
  BY DEF TrackerInit
<1> QED
  BY <1>1, InitIInv, EmptySeq, MinuteBounds DEF TrackerInv

LEMMA NextTrackerInv == TrackerInv /\ [TrackerNext]_trackerVars => TrackerInv'
<1> SUFFICES ASSUME TrackerInv, [TrackerNext]_trackerVars PROVE TrackerInv'
  OBVIOUS
<1>1. CASE (Next \/ UNCHANGED vars) /\ UNCHANGED sales
  <2>1. IInv'
    BY <1>1, NextIInv DEF TrackerInv
  <2> QED
    BY <1>1, <2>1 DEF TrackerInv
<1>2. CASE Track
  BY <1>2, TrackStep
<1>3. CASE \E symbol \in Symbols : Sell(symbol)
  BY <1>3, SellStep
<1> QED
  BY <1>1, <1>2, <1>3 DEF TrackerNext, trackerVars

-----------------------------------------------------------------------------
(* The theorems about the tracker *)

\* Every state of the collector and the tracker satisfies the invariant.
THEOREM TrackerInvariance == TrackerSpec => []TrackerInv
BY InitTrackerInv, NextTrackerInv, PTL DEF TrackerSpec

\* A point is taken after its window, within the tolerance, and no candle that
\* is stored up to the target is nearer, now or after a later backfill, unless
\* the collector lagged behind when the point was taken.
THEOREM NearestPoints == TrackerSpec => []PointsAreNearest
BY PromiseKept, TrackerInvariance, PTL

=============================================================================
