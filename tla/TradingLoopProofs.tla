-------------------------- MODULE TradingLoopProofs ---------------------------
(***************************************************************************)
(* Proofs about TradingLoop, for every set of symbols, prices, limits and  *)
(* every clock: type correctness, no overdraft, the daily entry limit, the *)
(* halt latch, the cooldown, the limits on holdings, losses and order sizes, *)
(* the losing streak, the books that agree with each other, that the loop  *)
(* implements Ledger, and what EntryAdvice says of a halted day.           *)
(***************************************************************************)
EXTENDS EntryAdvice, FoldTheorems

-----------------------------------------------------------------------------
(* The inductive invariant *)

\* What the place in the loop says of the session and of the order: a closed
\* cycle shows the committed rows, an order is for a symbol that is not held,
\* and an order the rules accepted still finds its day open.
CycleShape ==
  /\ pc \in {"down", "idle"} => session = db
  /\ pc \in {"check", "ai"} => /\ order.price \in Prices
                               /\ session.pos[Symbol] = NoPosition
  /\ pc = "ai" => /\ order.qty > 0
                  /\ ~session.daily[day].halted
                  /\ session.daily[day].cooldown <= Now
                  /\ session.daily[day].buys < MaxDailyTrades

\* No row of a day to come has been written.
FutureIsFresh ==
  \A d \in Days : d > day => db.daily[d] = FreshRow /\ session.daily[d] = FreshRow

\* A position without a quantity has no cost: there is no such row.
NoEmptyRow ==
  \A s \in Symbols : /\ db.pos[s].qty = 0 => db.pos[s] = NoPosition
                     /\ session.pos[s].qty = 0 => session.pos[s] = NoPosition

\* The open session has at least the entries that are committed.
EntriesOnlyGrow ==
  \A d \in Days : db.daily[d].buys <= session.daily[d].buys

IInv ==
  /\ TypeOK
  /\ NeverOverdrawn
  /\ EntriesWithinLimit
  /\ CycleShape
  /\ FutureIsFresh
  /\ NoEmptyRow
  /\ EntriesOnlyGrow

-----------------------------------------------------------------------------
(* The operators of a step *)

\* A product of naturals is a natural.
LEMMA ProductTyped == \A m, n \in Nat : m * n \in Nat
OBVIOUS

\* The symbol being processed is one of the configured symbols.
LEMMA SymbolTyped ==
  ASSUME turn \in 1 .. Len(SYMBOLS) PROVE Symbol \in Symbols
BY DEF Symbol, Symbols

\* The clock is a natural number that never runs backwards.
LEMMA NowTyped ==
  ASSUME day \in Days, hour \in 0 .. DayLength - 1 PROVE Now \in Nat
<1>1. day \in Nat /\ hour \in Nat /\ DayLength \in Nat
  BY LoopAssumption DEF Days
<1>2. day * DayLength \in Nat
  BY <1>1
<1> QED
  BY <1>1, <1>2 DEF Now

\* A row that has booked a sale is a row with the same entries.
LEMMA RowAfterSellTyped ==
  ASSUME NEW row \in Row, NEW pnl \in Int, NEW now \in Nat
  PROVE  RowAfterSell(row, pnl, now) \in Row /\ RowAfterSell(row, pnl, now).buys = row.buys
<1> DEFINE booked == [row EXCEPT !.sells = @ + 1, !.pnl = @ + pnl]
           counted(n) == [booked EXCEPT !.losses = n]
           cooling == [booked EXCEPT !.losses = 0, !.cooldown = now + CooldownTime]
<1>1. booked \in Row
  <2>1. \A n \in Nat, m \in Int : [row EXCEPT !.sells = n, !.pnl = m] \in Row
    BY DEF Row
  <2>2. row.sells + 1 \in Nat /\ row.pnl + pnl \in Int
    BY DEF Row
  <2> QED
    BY <2>1, <2>2
<1>2. booked.buys = row.buys
  BY DEF Row
<1>3. booked.losses = row.losses
  BY DEF Row
<1>4. now + CooldownTime \in Nat /\ row.losses + 1 \in Nat
  BY RiskAssumption DEF Row
<1>5. RowAfterSell(row, pnl, now) \in {counted(0), counted(row.losses + 1), cooling}
  BY <1>3 DEF RowAfterSell
<1> HIDE DEF booked
<1>6. ASSUME NEW n \in Nat PROVE counted(n) \in Row /\ counted(n).buys = row.buys
  <2>1. counted(n) \in Row
    BY <1>1 DEF Row
  <2>2. counted(n).buys = booked.buys
    BY <1>1 DEF Row
  <2> QED
    BY <2>1, <2>2, <1>2
<1>7. cooling \in Row
  BY <1>1, <1>4 DEF Row
<1>8. cooling.buys = row.buys
  BY <1>1, <1>2 DEF Row
<1> HIDE DEF counted, cooling
<1> QED
  BY <1>4, <1>5, <1>6, <1>7, <1>8

\* A row that has booked a purchase is a row with one more entry.
LEMMA RowAfterBuyTyped ==
  ASSUME NEW row \in Row
  PROVE  /\ RowAfterBuy(row) \in Row
         /\ RowAfterBuy(row).buys = row.buys + 1
BY DEF RowAfterBuy, Row

\* A book with another balance and another position is a book.
LEMMA BookUpdated ==
  ASSUME NEW book \in Book, NEW s \in Symbols, NEW cash \in Int, NEW p \in Position
  PROVE  [book EXCEPT !.balance = cash, !.pos[s] = p] \in Book
BY DEF Book

\* A book with another row for a day is a book.
LEMMA RowUpdated ==
  ASSUME NEW book \in Book, NEW d \in Days, NEW row \in Row
  PROVE  /\ [book EXCEPT !.daily[d] = row] \in Book
         /\ [book EXCEPT !.daily[d] = row].balance = book.balance
         /\ [book EXCEPT !.daily[d] = row].pos = book.pos
         /\ [book EXCEPT !.daily[d] = row].daily = [book.daily EXCEPT ![d] = row]
<1>1. [book EXCEPT !.daily[d] = row] \in Book
  BY DEF Book
<1>2. [book EXCEPT !.daily[d] = row].daily = [book.daily EXCEPT ![d] = row]
  BY DEF Book
<1> QED
  BY <1>1, <1>2 DEF Book

\* Selling a whole position keeps the book a book and adds to its cash.
LEMMA SoldTyped ==
  ASSUME NEW book \in Book, NEW s \in Symbols, NEW price \in Prices
  PROVE  /\ Sold(book, s, price) \in Book
         /\ Sold(book, s, price).balance = book.balance + price * book.pos[s].qty
         /\ price * book.pos[s].qty \in Nat
         /\ Sold(book, s, price).pos = [book.pos EXCEPT ![s] = NoPosition]
         /\ Sold(book, s, price).daily = book.daily
<1>1. price \in Nat /\ book.pos[s].qty \in Nat
  BY LoopAssumption DEF Book, Position
<1>2. price * book.pos[s].qty \in Nat
  BY <1>1
<1>3. NoPosition \in Position
  BY DEF NoPosition, Position
<1> DEFINE cash == book.balance + price * book.pos[s].qty
<1>4. Sold(book, s, price) = [book EXCEPT !.balance = cash, !.pos[s] = NoPosition]
  BY DEF Sold
<1>5. cash \in Int
  BY <1>2 DEF Book
<1> HIDE DEF cash
<1>6. Sold(book, s, price) \in Book
  <2>1. [book EXCEPT !.balance = cash, !.pos[s] = NoPosition] \in Book
    BY <1>3, <1>5, BookUpdated
  <2> QED
    BY <1>4, <2>1, Zenon
<1>7. Sold(book, s, price).balance = cash
  BY <1>4 DEF Book
<1>8. Sold(book, s, price).pos = [book.pos EXCEPT ![s] = NoPosition]
  BY <1>4 DEF Book
<1>9. Sold(book, s, price).daily = book.daily
  BY <1>4 DEF Book
<1> QED
  BY <1>2, <1>6, <1>7, <1>8, <1>9 DEF cash

\* Buying keeps the book a book and takes the price of the order.
LEMMA BoughtTyped ==
  ASSUME NEW book \in Book, NEW s \in Symbols, NEW price \in Prices, NEW qty \in Nat
  PROVE  /\ Bought(book, s, price, qty) \in Book
         /\ Bought(book, s, price, qty).balance = book.balance - price * qty
         /\ price * qty \in Nat
         /\ Bought(book, s, price, qty).pos[s].qty = book.pos[s].qty + qty
         /\ Bought(book, s, price, qty).pos[s].cost = book.pos[s].cost + price * qty
         /\ \A t \in Symbols \ {s} : Bought(book, s, price, qty).pos[t] = book.pos[t]
         /\ Bought(book, s, price, qty).daily = book.daily
<1> DEFINE cash == book.balance - price * qty
           pos  == [qty |-> book.pos[s].qty + qty, cost |-> book.pos[s].cost + price * qty]
<1>1. price \in Nat
  BY LoopAssumption
<1>2. price * qty \in Nat
  BY <1>1
<1>3. cash \in Int
  BY <1>2 DEF Book
<1>4. Bought(book, s, price, qty) = [book EXCEPT !.balance = cash, !.pos[s] = pos]
  BY DEF Bought
<1>5. pos \in Position
  BY <1>2 DEF Book, Position
<1> HIDE DEF cash, pos
<1>6. Bought(book, s, price, qty) \in Book
  <2>1. [book EXCEPT !.balance = cash, !.pos[s] = pos] \in Book
    BY <1>3, <1>5, BookUpdated
  <2> QED
    BY <1>4, <2>1, Zenon
<1>7. Bought(book, s, price, qty).balance = cash
  BY <1>4 DEF Book
<1>8. Bought(book, s, price, qty).pos = [book.pos EXCEPT ![s] = pos]
  BY <1>4 DEF Book
<1>9. Bought(book, s, price, qty).daily = book.daily
  BY <1>4 DEF Book
<1>10. Bought(book, s, price, qty).pos[s] = pos
  BY <1>8 DEF Book
<1>11. Bought(book, s, price, qty).pos[s].qty = book.pos[s].qty + qty
  BY <1>10 DEF pos
<1>12. Bought(book, s, price, qty).pos[s].cost = book.pos[s].cost + price * qty
  BY <1>10 DEF pos
<1>13. \A t \in Symbols \ {s} : Bought(book, s, price, qty).pos[t] = book.pos[t]
  BY <1>8 DEF Book
<1>14. Bought(book, s, price, qty).balance = book.balance - price * qty
  BY <1>7 DEF cash
<1> QED
  BY <1>2, <1>6, <1>9, <1>11, <1>12, <1>13, <1>14

-----------------------------------------------------------------------------
(* The invariant holds initially and is preserved by every step. *)

\* The opening book is a book without positions and with fresh rows.
LEMMA OpeningTyped ==
  /\ OpeningBook \in Book
  /\ OpeningBook.balance = Deposit
  /\ \A d \in Days : OpeningBook.daily[d] = FreshRow
  /\ \A s \in Symbols : OpeningBook.pos[s] = NoPosition
<1>1. FreshRow \in Row /\ NoPosition \in Position
  BY DEF FreshRow, Row, NoPosition, Position
<1> QED
  BY <1>1, LoopAssumption DEF OpeningBook, Book

\* The loop starts in a state of the invariant.
LEMMA InitIInv == Init => IInv
<1> SUFFICES ASSUME Init PROVE IInv
  OBVIOUS
<1>1. Len(SYMBOLS) \in Nat /\ Len(SYMBOLS) >= 1
  BY LoopAssumption
<1>2. TypeOK
  <2>1. 0 \in Days /\ 0 \in 0 .. DayLength - 1
    BY LoopAssumption DEF Days
  <2> QED
    BY <1>1, <2>1, OpeningTyped DEF Init, TypeOK, NoOrder, Order
<1>3. NeverOverdrawn
  BY OpeningTyped, LoopAssumption DEF Init, NeverOverdrawn
<1>4. EntriesWithinLimit
  BY OpeningTyped, RiskAssumption DEF Init, EntriesWithinLimit, FreshRow
<1>5. CycleShape /\ FutureIsFresh /\ NoEmptyRow /\ EntriesOnlyGrow
  BY OpeningTyped DEF Init, CycleShape, FutureIsFresh, NoEmptyRow, EntriesOnlyGrow, FreshRow
<1> QED
  BY <1>2, <1>3, <1>4, <1>5 DEF IInv

\* A reference equity is an integer.
LEMMA ReferenceTyped ==
  ASSUME TypeOK, NEW reference \in References PROVE reference \in Int
<1>1. snapshot[day] \in Int /\ session.balance \in Int
  BY DEF TypeOK, Book
<1>2. \A exposure \in Exposures(session) : session.balance + exposure \in Int
  BY <1>1 DEF Exposures
<1> QED
  BY <1>1, <1>2 DEF References

\* Keeping a reference keeps the snapshots integers.
LEMMA SnapshotTyped ==
  ASSUME TypeOK, NEW reference \in References, KeepReference(reference)
  PROVE  snapshot' \in [Days -> Int]
BY ReferenceTyped DEF TypeOK, KeepReference

\* The smallest of three integers is an integer.
LEMMA MinTyped ==
  ASSUME NEW a \in Int, NEW b \in Int, NEW c \in Int PROVE Min({a, b, c}) \in Int
<1>1. \E x \in {a, b, c} : \A y \in {a, b, c} : x <= y
  OBVIOUS
<1> QED
  BY <1>1 DEF Min

\* The order amount is an integer.
LEMMA OrderAmountTyped ==
  ASSUME NEW reference \in Int, NEW ratio \in Ratios, NEW balance \in Int, NEW exposure \in Nat
  PROVE  OrderAmount(reference, ratio, balance, exposure) \in Int
<1>1. /\ MaxPerOrder \in Int /\ MaxTotalExposure \in Int /\ FeeBuffer \in Int
      /\ ratio \in Int
  BY RiskAssumption, LoopAssumption
<1>2. /\ reference * MaxPerOrder * ratio \in Int
      /\ balance * (100 - FeeBuffer) \in Int
      /\ reference * MaxTotalExposure \in Int
  BY <1>1
<1>3. \A n \in Int : n \div 10000 \in Int /\ n \div 100 \in Int
  OBVIOUS
<1>4. /\ (reference * MaxPerOrder * ratio) \div 10000 \in Int
      /\ (balance * (100 - FeeBuffer)) \div 100 \in Int
      /\ (reference * MaxTotalExposure) \div 100 - exposure \in Int
  BY <1>2, <1>3
<1> QED
  BY <1>4, MinTyped DEF OrderAmount

\* Every step keeps the invariant.
LEMMA NextIInv == IInv /\ [Next]_vars => IInv'
<1> SUFFICES ASSUME IInv, [Next]_vars PROVE IInv'
  OBVIOUS
<1> USE DEF IInv
<1>a. Len(SYMBOLS) \in Nat /\ Len(SYMBOLS) >= 1
  BY LoopAssumption
<1>b. Now \in Nat
  BY NowTyped DEF TypeOK
<1>d. day \in Nat /\ \A d \in Days : d \in Nat
  BY LoopAssumption DEF TypeOK, Days
<1>e. NoOrder \in Order
  BY LoopAssumption DEF NoOrder, Order, Days
<1>c. day \in Days /\ session \in Book /\ db \in Book /\ session.daily[day] \in Row
  BY DEF TypeOK, Book
<1>f. \A d \in Days : db.daily[d].buys \in Nat /\ session.daily[d].buys \in Nat
  BY <1>c DEF Book, Row
<1>1. CASE BeginCycle
  BY <1>1 DEF BeginCycle, IInv, TypeOK, NeverOverdrawn, EntriesWithinLimit, CycleShape,
     FutureIsFresh, NoEmptyRow, EntriesOnlyGrow, Symbol, Now
<1>2. CASE PassSymbol
  BY <1>2, <1>a DEF PassSymbol, IInv, TypeOK, NeverOverdrawn, EntriesWithinLimit, CycleShape,
     FutureIsFresh, NoEmptyRow, EntriesOnlyGrow, Symbol, Now
<1>3. CASE SellSymbol
  <2>1. PICK price \in Prices :
          session' = [Sold(session, Symbol, price) EXCEPT
                        !.daily[day] = RowAfterSell(@, price * session.pos[Symbol].qty
                                                       - session.pos[Symbol].cost, Now)]
    BY <1>3 DEF SellSymbol
  <2>2. Symbol \in Symbols
    BY <1>3, <1>a, SymbolTyped DEF SellSymbol, TypeOK
  <2> DEFINE pnl == price * session.pos[Symbol].qty - session.pos[Symbol].cost
             sold == Sold(session, Symbol, price)
             row == RowAfterSell(session.daily[day], pnl, Now)
  <2>3. /\ sold \in Book
        /\ sold.balance >= session.balance
        /\ sold.pos = [session.pos EXCEPT ![Symbol] = NoPosition]
        /\ sold.daily = session.daily
    <3>1. session.balance \in Int
      BY <1>c DEF Book
    <3> QED
      BY <1>c, <2>2, <3>1, SoldTyped
  <2>a. pnl \in Int
    <3>1. session.pos[Symbol].cost \in Int
      BY <1>c, <2>2 DEF Book, Position
    <3>2. price * session.pos[Symbol].qty \in Nat
      BY <1>c, <2>2, SoldTyped
    <3> QED
      BY <3>1, <3>2
  <2>4. row \in Row /\ row.buys = session.daily[day].buys
    BY <1>b, <1>c, <2>a, RowAfterSellTyped
  <2>5. session' = [sold EXCEPT !.daily[day] = row]
    BY <2>1, <2>3
  <2> HIDE DEF pnl, sold, row
  <2>6. /\ session' \in Book
        /\ session'.balance >= session.balance
        /\ session'.pos = [session.pos EXCEPT ![Symbol] = NoPosition]
        /\ session'.daily = [session.daily EXCEPT ![day] = row]
    BY <1>c, <2>3, <2>4, <2>5, RowUpdated
  <2>7. TypeOK'
    BY <1>3, <1>a, <2>6 DEF SellSymbol, TypeOK
  <2>8. NeverOverdrawn'
    BY <1>3, <1>c, <2>6 DEF SellSymbol, NeverOverdrawn, Book
  <2>9. EntriesWithinLimit'
    BY <1>3, <1>c, <2>4, <2>6 DEF SellSymbol, EntriesWithinLimit, Book
  <2>10. CycleShape'
    BY <1>3 DEF SellSymbol, CycleShape
  <2>11. FutureIsFresh'
    BY <1>3, <1>c, <1>d, <2>6 DEF SellSymbol, FutureIsFresh, Book
  <2>12. NoEmptyRow'
    BY <1>3, <1>c, <2>2, <2>6 DEF SellSymbol, NoEmptyRow, Book
  <2>13. EntriesOnlyGrow'
    BY <1>3, <1>c, <2>4, <2>6 DEF SellSymbol, EntriesOnlyGrow, Book
  <2> QED
    BY <2>7, <2>8, <2>9, <2>10, <2>11, <2>12, <2>13
<1>4. CASE SizeOrder
  <2>1. PICK price \in Prices, ratio \in Ratios,
             reference \in References, exposure \in Exposures(session) :
          LET amount == OrderAmount(reference, ratio, session.balance, exposure) IN
          /\ KeepReference(reference)
          /\ IF amount > 0
             THEN /\ order' = [NoOrder EXCEPT !.price = price, !.amount = amount,
                                              !.qty = amount \div price]
                  /\ pc' = "check"
                  /\ UNCHANGED turn
             ELSE /\ turn' = turn + 1
                  /\ UNCHANGED <<order, pc>>
    BY <1>4 DEF SizeOrder
  <2> DEFINE amount == OrderAmount(reference, ratio, session.balance, exposure)
  <2>2. amount \in Int
    BY <1>c, ReferenceTyped, OrderAmountTyped DEF Exposures, Book
  <2> HIDE DEF amount
  <2>3. price \in Nat \ {0}
    BY LoopAssumption
  <2>4. amount \div price \in Int
    BY <2>2, <2>3
  <2>5. snapshot' \in [Days -> Int]
    BY <2>1, SnapshotTyped
  <2>6. /\ pc = "scan" /\ turn <= Len(SYMBOLS)
        /\ session.pos[Symbol].qty = 0
        /\ UNCHANGED <<db, session, day, hour, volatility>>
    BY <1>4 DEF SizeOrder
  <2>7. Symbol \in Symbols
    BY <1>a, <2>6, SymbolTyped DEF TypeOK
  <2>8. CASE amount > 0
    <3>1. order' = [NoOrder EXCEPT !.price = price, !.amount = amount, !.qty = amount \div price]
      BY <2>1, <2>8 DEF amount
    <3>2. pc' = "check" /\ turn' = turn
      BY <2>1, <2>8 DEF amount
    <3>3. order' \in Order /\ order'.price = price
      BY <1>e, <3>1, <2>2, <2>3, <2>4 DEF Order
    <3>4. session.pos[Symbol] = NoPosition
      BY <2>6, <2>7 DEF NoEmptyRow
    <3>5. TypeOK'
      BY <3>2, <3>3, <2>5, <2>6 DEF TypeOK
    <3>6. CycleShape'
      BY <3>2, <3>3, <3>4, <2>6 DEF CycleShape, Symbol
    <3> QED
      BY <2>6, <3>5, <3>6 DEF NeverOverdrawn, EntriesWithinLimit, FutureIsFresh, NoEmptyRow,
       EntriesOnlyGrow
  <2>9. CASE ~(amount > 0)
    <3>1. turn' = turn + 1 /\ UNCHANGED <<order, pc>>
      BY <2>1, <2>9 DEF amount
    <3> QED
      BY <3>1, <2>5, <2>6, <1>a DEF TypeOK, NeverOverdrawn, EntriesWithinLimit, CycleShape,
         FutureIsFresh, NoEmptyRow, EntriesOnlyGrow, Symbol, Now
  <2> QED
    BY <2>8, <2>9
<1>5. CASE HaltDay
  <2> DEFINE row == [session.daily[day] EXCEPT !.halted = TRUE]
  <2>1. row \in Row
    BY <1>c DEF Row
  <2>2. row.buys = session.daily[day].buys
    BY <1>c DEF Row
  <2>3. session' = [session EXCEPT !.daily[day] = row]
    BY <1>5 DEF HaltDay
  <2> HIDE DEF row
  <2>4. /\ session' \in Book
        /\ session'.balance = session.balance
        /\ session'.pos = session.pos
        /\ session'.daily = [session.daily EXCEPT ![day] = row]
    BY <1>c, <2>1, <2>3, RowUpdated
  <2>5. snapshot' \in [Days -> Int]
    BY <1>5, SnapshotTyped DEF HaltDay
  <2>6. /\ pc = "check" /\ pc' = "scan" /\ turn' = turn + 1 /\ order' = NoOrder
        /\ UNCHANGED <<db, day, hour, volatility>>
    BY <1>5 DEF HaltDay
  <2>7. TypeOK'
    BY <1>a, <1>e, <2>4, <2>5, <2>6 DEF TypeOK
  <2>8. NeverOverdrawn' /\ NoEmptyRow'
    BY <2>4, <2>6 DEF NeverOverdrawn, NoEmptyRow
  <2>9. EntriesWithinLimit'
    BY <1>c, <2>2, <2>4, <2>6 DEF EntriesWithinLimit, Book
  <2>10. CycleShape'
    BY <2>6 DEF CycleShape
  <2>11. FutureIsFresh'
    BY <1>c, <1>d, <2>4, <2>6 DEF FutureIsFresh, Book
  <2>12. EntriesOnlyGrow'
    BY <1>c, <2>2, <2>4, <2>6 DEF EntriesOnlyGrow, Book
  <2> QED
    BY <2>7, <2>8, <2>9, <2>10, <2>11, <2>12
<1>6. CASE RefuseOrder
  <2>1. snapshot' \in [Days -> Int]
    BY <1>6, SnapshotTyped DEF RefuseOrder
  <2>2. /\ pc = "check" /\ pc' = "scan" /\ turn' = turn + 1 /\ order' = NoOrder
        /\ UNCHANGED <<db, session, day, hour, volatility>>
    BY <1>6 DEF RefuseOrder
  <2> QED
    BY <2>1, <2>2, <1>a, <1>e DEF TypeOK, NeverOverdrawn, EntriesWithinLimit, CycleShape,
     FutureIsFresh, NoEmptyRow, EntriesOnlyGrow, Symbol, Now
<1>7. CASE AcceptOrder
  <2>1. /\ pc = "check" /\ pc' = "ai" /\ order.qty > 0
        /\ ~DayClosed(session.daily[day], Now)
        /\ order' = [order EXCEPT !.day = day, !.volatility = volatility]
        /\ UNCHANGED <<db, session, turn, day, hour, volatility>>
    BY <1>7 DEF AcceptOrder
  <2>2. snapshot' \in [Days -> Int]
    BY <1>7, SnapshotTyped DEF AcceptOrder
  <2>a. order' \in Order /\ order'.price = order.price /\ order'.qty = order.qty
    BY <1>c, <2>1 DEF TypeOK, Order
  <2>3. TypeOK'
    BY <2>1, <2>2, <2>a DEF TypeOK
  <2>4. /\ session.daily[day].cooldown \in Nat /\ session.daily[day].buys \in Nat
        /\ MaxDailyTrades \in Nat
    BY <1>c, RiskAssumption DEF Row
  <2>5. CycleShape'
    BY <1>b, <2>1, <2>4, <2>a DEF CycleShape, DayClosed, Symbol, Now
  <2> QED
    BY <2>1, <2>3, <2>5 DEF NeverOverdrawn, EntriesWithinLimit, FutureIsFresh, NoEmptyRow,
       EntriesOnlyGrow
<1>8. CASE DropOrder
  BY <1>8, <1>a, <1>e DEF DropOrder, IInv, TypeOK, NeverOverdrawn, EntriesWithinLimit, CycleShape,
     FutureIsFresh, NoEmptyRow, EntriesOnlyGrow, Symbol, Now
<1>9. CASE ExecuteBuy
  <2>1. /\ pc = "ai" /\ pc' = "scan" /\ turn' = turn + 1 /\ order' = NoOrder
        /\ order.price * order.qty <= session.balance
        /\ session' = [Bought(session, Symbol, order.price, order.qty) EXCEPT
                         !.daily[day] = RowAfterBuy(@)]
        /\ UNCHANGED <<db, day, hour, snapshot, volatility>>
    BY <1>9 DEF ExecuteBuy
  <2>2. Symbol \in Symbols
    BY <2>1, SymbolTyped, <1>a DEF TypeOK
  <2>3. order.price \in Prices /\ order.qty \in Nat /\ order.qty > 0
    BY <2>1 DEF TypeOK, CycleShape, Order
  <2> DEFINE bought == Bought(session, Symbol, order.price, order.qty)
             row == RowAfterBuy(session.daily[day])
  <2>4. /\ bought \in Book
        /\ bought.balance = session.balance - order.price * order.qty
        /\ order.price * order.qty \in Nat
        /\ bought.pos[Symbol].qty = session.pos[Symbol].qty + order.qty
        /\ \A t \in Symbols \ {Symbol} : bought.pos[t] = session.pos[t]
        /\ bought.daily = session.daily
    <3>1. session \in Book
      BY <1>c
    <3> QED
      BY ONLY <2>2, <2>3, <3>1, BoughtTyped
  <2>5. row \in Row /\ row.buys = session.daily[day].buys + 1
    BY <1>c, RowAfterBuyTyped
  <2>6. session' = [bought EXCEPT !.daily[day] = row]
    BY <2>1, <2>4
  <2>7. bought.pos[Symbol].qty > 0
    <3>1. session.pos[Symbol].qty \in Nat
      BY <1>c, <2>2 DEF Book, Position
    <3> QED
      BY <2>3, <2>4, <3>1
  <2>8. bought.balance >= 0
    <3>1. session.balance \in Int
      BY <1>c DEF Book
    <3> QED
      BY <2>1, <2>4, <3>1
  <2> HIDE DEF bought, row
  <2>9. /\ session' \in Book
        /\ session'.balance >= 0
        /\ session'.pos = bought.pos
        /\ session'.daily = [session.daily EXCEPT ![day] = row]
    BY <1>c, <2>4, <2>5, <2>6, <2>8, RowUpdated
  <2>10. TypeOK'
    BY <1>a, <1>e, <2>1, <2>9 DEF TypeOK
  <2>11. NeverOverdrawn'
    BY <2>1, <2>9 DEF NeverOverdrawn
  <2>12. EntriesWithinLimit'
    <3>1. session.daily[day].buys + 1 <= MaxDailyTrades
      <4>1. session.daily[day].buys < MaxDailyTrades
        BY <2>1 DEF CycleShape
      <4>2. session.daily[day].buys \in Nat /\ MaxDailyTrades \in Nat
        BY <1>c, RiskAssumption DEF Row
      <4> QED
        BY <4>1, <4>2
    <3> QED
      BY <1>c, <2>1, <2>5, <2>9, <3>1 DEF EntriesWithinLimit, Book
  <2>13. CycleShape'
    BY <2>1 DEF CycleShape
  <2>14. FutureIsFresh'
    BY <1>c, <1>d, <2>1, <2>9 DEF FutureIsFresh, Book
  <2>15. NoEmptyRow'
    <3>1. \A t \in Symbols : session'.pos[t].qty = 0 => session'.pos[t] = NoPosition
      BY <2>4, <2>7, <2>9 DEF NoEmptyRow
    <3> QED
      BY <2>1, <3>1 DEF NoEmptyRow
  <2>16. EntriesOnlyGrow'
    BY <1>c, <1>f, <2>1, <2>5, <2>9 DEF EntriesOnlyGrow, Book
  <2> QED
    BY <2>10, <2>11, <2>12, <2>13, <2>14, <2>15, <2>16
<1>10. CASE Commit
  BY <1>10, <1>a, <1>f DEF Commit, IInv, TypeOK, NeverOverdrawn, EntriesWithinLimit, CycleShape,
     FutureIsFresh, NoEmptyRow, EntriesOnlyGrow, Symbol, Now
<1>11. CASE Rollback
  BY <1>11, <1>a, <1>e, <1>f DEF Rollback, Reverted, IInv, TypeOK, NeverOverdrawn, EntriesWithinLimit, CycleShape,
     FutureIsFresh, NoEmptyRow, EntriesOnlyGrow, Symbol, Now
<1>12. CASE Crash
  BY <1>12, <1>a, <1>e, <1>f DEF Crash, Reverted, IInv, TypeOK, NeverOverdrawn, EntriesWithinLimit, CycleShape,
     FutureIsFresh, NoEmptyRow, EntriesOnlyGrow, Symbol, Now
<1>13. CASE Restart
  BY <1>13 DEF Restart, IInv, TypeOK, NeverOverdrawn, EntriesWithinLimit, CycleShape,
     FutureIsFresh, NoEmptyRow, EntriesOnlyGrow, Symbol, Now
<1>18. CASE RetrainVolatility
  BY <1>18 DEF RetrainVolatility, IInv, TypeOK, NeverOverdrawn, EntriesWithinLimit, CycleShape,
     FutureIsFresh, NoEmptyRow, EntriesOnlyGrow, Symbol, Now
<1>14. CASE Tick
  <2>1. /\ hour + 1 < DayLength /\ hour' = hour + 1
        /\ UNCHANGED <<db, session, pc, turn, order, day, snapshot, volatility>>
    BY <1>14 DEF Tick
  <2>2. hour \in Nat /\ DayLength \in Nat /\ day * DayLength \in Nat
    BY <1>d, LoopAssumption DEF TypeOK
  <2>3. TypeOK'
    BY <2>1, <2>2 DEF TypeOK
  <2>4. Now' = Now + 1
    BY <2>1, <2>2 DEF Now
  <2>5. session.daily[day].cooldown \in Nat
    BY <1>c DEF Row
  <2>6. CycleShape'
    BY <1>b, <2>1, <2>4, <2>5 DEF CycleShape, Symbol
  <2> QED
    BY <2>1, <2>3, <2>6 DEF NeverOverdrawn, EntriesWithinLimit, FutureIsFresh, NoEmptyRow,
       EntriesOnlyGrow
<1>15. CASE NextDay
  <2>1. /\ day < LastDay /\ day' = day + 1 /\ hour' = 0
        /\ UNCHANGED <<db, session, pc, turn, order, snapshot, volatility>>
    BY <1>15 DEF NextDay
  <2>2. LastDay \in Nat /\ DayLength \in Nat /\ DayLength > 0
    BY LoopAssumption
  <2>3. day' \in Days /\ day' > day
    BY <1>d, <2>1, <2>2 DEF Days
  <2>4. TypeOK'
    BY <2>1, <2>2, <2>3 DEF TypeOK
  <2>5. session.daily[day'] = FreshRow
    BY <2>3 DEF FutureIsFresh
  <2>6. Now' \in Nat
    <3>1. day' \in Days /\ hour' \in 0 .. DayLength - 1 /\ day' \in Nat /\ hour' \in Nat
      BY <1>d, <2>1, <2>2, <2>3
    <3>2. day' * DayLength \in Nat
      BY <3>1, <2>2, ProductTyped
    <3> QED
      BY <3>1, <3>2 DEF Now
  <2>7. pc = "ai" => 0 < MaxDailyTrades
    <3>1. session.daily[day].buys \in Nat /\ MaxDailyTrades \in Nat
      BY <1>c, RiskAssumption DEF Row
    <3> QED
      BY <3>1 DEF CycleShape
  <2>8. CycleShape'
    BY <2>1, <2>5, <2>6, <2>7 DEF CycleShape, Symbol, FreshRow
  <2>9. FutureIsFresh'
    <3>1. \A d \in Days : d > day' => d > day
      BY <1>d, <2>1
    <3> QED
      BY <2>1, <3>1 DEF FutureIsFresh
  <2> QED
    BY <2>1, <2>4, <2>8, <2>9 DEF NeverOverdrawn, EntriesWithinLimit, NoEmptyRow, EntriesOnlyGrow
<1>16. CASE LoseRedisKeys
  BY <1>16 DEF LoseRedisKeys, IInv, TypeOK, NeverOverdrawn, EntriesWithinLimit, CycleShape,
     FutureIsFresh, NoEmptyRow, EntriesOnlyGrow, Symbol, Now
<1>17. CASE UNCHANGED vars
  BY <1>17 DEF vars, TypeOK, NeverOverdrawn, EntriesWithinLimit, CycleShape,
     FutureIsFresh, NoEmptyRow, EntriesOnlyGrow, Symbol, Now
<1> QED
  BY <1>1, <1>2, <1>3, <1>4, <1>5, <1>6, <1>7, <1>8, <1>9, <1>10, <1>11, <1>12, <1>13,
     <1>14, <1>15, <1>16, <1>17, <1>18 DEF Next

\* Every state the loop can reach satisfies the invariant.
THEOREM Invariance == Spec => []IInv
<1>1. Init => IInv
  BY InitIInv
<1>2. IInv /\ [Next]_vars => IInv'
  BY NextIInv
<1> QED
  BY <1>1, <1>2, PTL DEF Spec

-----------------------------------------------------------------------------
(* The properties *)

\* The rows, the place in the loop, the order and the clock keep their types
\* in every run, for every configuration.
THEOREM TypeCorrect == Spec => []TypeOK
<1>1. IInv => TypeOK
  BY DEF IInv
<1> QED
  BY <1>1, Invariance, PTL

\* Neither the committed nor the session's cash is ever negative: execute_order
\* looks at the balance again after the agents' answer.
THEOREM NoOverdraft == Spec => []NeverOverdrawn
<1>1. IInv => NeverOverdrawn
  BY DEF IInv
<1> QED
  BY <1>1, Invariance, PTL

\* No UTC day has more entries than max_daily_trades, committed or not, with
\* the count checked before and booked after a call that may cross midnight.
THEOREM EntryLimit == Spec => []EntriesWithinLimit
<1>1. IInv => EntriesWithinLimit
  BY DEF IInv
<1> QED
  BY <1>1, Invariance, PTL

\* Only the execution of an accepted order enters: no sale, halt, rollback or
\* crash adds to the entries of a day.
LEMMA EntryIsBuy == IInv /\ [Next]_vars /\ Entry => pc = "ai"
<1> SUFFICES ASSUME IInv, [Next]_vars, Entry, pc # "ai" PROVE FALSE
  OBVIOUS
<1> USE DEF IInv
<1>1. day \in Days /\ session \in Book /\ db \in Book /\ session.daily[day] \in Row
  BY DEF TypeOK, Book
<1>2. /\ session.daily[day].buys \in Nat /\ db.daily[day].buys \in Nat
      /\ db.daily[day].buys <= session.daily[day].buys
  BY <1>1 DEF Book, Row, EntriesOnlyGrow
<1>3. session' # session /\ session' # db
  BY <1>2 DEF Entry
<1>4. CASE SellSymbol
  <2>1. PICK price \in Prices :
          session' = [Sold(session, Symbol, price) EXCEPT
                        !.daily[day] = RowAfterSell(@, price * session.pos[Symbol].qty
                                                       - session.pos[Symbol].cost, Now)]
    BY <1>4 DEF SellSymbol
  <2>2. Symbol \in Symbols
    BY <1>4, LoopAssumption, SymbolTyped DEF SellSymbol, TypeOK
  <2> DEFINE pnl == price * session.pos[Symbol].qty - session.pos[Symbol].cost
             sold == Sold(session, Symbol, price)
             row == RowAfterSell(session.daily[day], pnl, Now)
  <2>3. sold \in Book /\ sold.daily = session.daily
    BY <1>1, <2>2, SoldTyped
  <2>4. pnl \in Int
    <3>1. session.pos[Symbol].cost \in Int
      BY <1>1, <2>2 DEF Book, Position
    <3>2. price * session.pos[Symbol].qty \in Nat
      BY <1>1, <2>2, SoldTyped
    <3> QED
      BY <3>1, <3>2
  <2>5. Now \in Nat
    BY NowTyped DEF TypeOK
  <2>6. row \in Row /\ row.buys = session.daily[day].buys
    BY <1>1, <2>4, <2>5, RowAfterSellTyped
  <2>7. session' = [sold EXCEPT !.daily[day] = row]
    BY <2>1, <2>3
  <2> HIDE DEF pnl, sold, row
  <2>8. session'.daily = [session.daily EXCEPT ![day] = row]
    BY <1>1, <2>3, <2>6, <2>7, RowUpdated
  <2> QED
    BY <1>1, <1>2, <2>6, <2>8 DEF Entry, Book
<1>5. CASE HaltDay
  <2>1. session'.daily[day].buys = session.daily[day].buys
    BY <1>1, <1>5 DEF HaltDay, Book, Row
  <2> QED
    BY <1>2, <2>1 DEF Entry
<1>6. CASE \/ BeginCycle \/ PassSymbol \/ SizeOrder \/ RefuseOrder \/ AcceptOrder
           \/ Commit \/ Restart \/ RetrainVolatility \/ Tick \/ NextDay \/ LoseRedisKeys
  BY <1>3, <1>6 DEF BeginCycle, PassSymbol, SizeOrder, RefuseOrder, AcceptOrder, Commit,
     Restart, RetrainVolatility, Tick, NextDay, LoseRedisKeys
<1>7. CASE Rollback \/ Crash
  BY <1>3, <1>7 DEF Rollback, Crash, Reverted
<1>8. CASE UNCHANGED vars
  BY <1>3, <1>8 DEF vars
<1>9. ~DropOrder /\ ~ExecuteBuy
  BY DEF DropOrder, ExecuteBuy
<1> QED
  BY <1>4, <1>5, <1>6, <1>7, <1>8, <1>9 DEF Next

\* Once check_order_validity has halted a day no entry follows on it, neither
\* later in the cycle that halted it nor after any number of commits.
THEOREM HaltLatch == Spec => HaltIsFinal
<1>1. IInv /\ [Next]_vars => [Entry => ~session.daily[day].halted]_vars
  BY EntryIsBuy DEF IInv, CycleShape
<1> QED
  BY <1>1, Invariance, PTL DEF Spec, HaltIsFinal

\* No entry of a day is executed while that day's cooldown runs, even when
\* time passes between the check and the execution.
THEOREM CooldownBlocks == Spec => CooldownHonoured
<1>1. IInv /\ [Next]_vars => [Entry => session.daily[day].cooldown <= Now]_vars
  BY EntryIsBuy DEF IInv, CycleShape
<1> QED
  BY <1>1, Invariance, PTL DEF Spec, CooldownHonoured

-----------------------------------------------------------------------------
(* The loop implements the account *)

\* Shares bought at a positive price are no more than their price.
LEMMA QuantityBound ==
  ASSUME NEW price \in Nat \ {0}, NEW qty \in Nat PROVE qty <= price * qty
<1>1. (price - 1) * qty \in Nat
  BY ProductTyped
<1>2. price * qty = (price - 1) * qty + qty
  OBVIOUS
<1> QED
  BY <1>1, <1>2

\* The opening book is the opening of the account.
LEMMA RefinesInit == Init => Account!Init
<1>1. [s \in Symbols |-> NoPosition] = [s \in Symbols |-> Account!Nothing]
  BY DEF NoPosition, Account!Nothing
<1> QED
  BY <1>1 DEF Init, Account!Init, Account!Opening, LedgerView, OpeningBook

\* Every step of the loop is a step of the account or changes nothing of it.
LEMMA RefinesNext == IInv /\ [Next]_vars => [Account!Next]_(Account!ledgerVars)
<1> SUFFICES ASSUME IInv, [Next]_vars PROVE [Account!Next]_(Account!ledgerVars)
  OBVIOUS
<1> USE DEF IInv
<1>1. session \in Book /\ db \in Book /\ day \in Days /\ session.daily[day] \in Row
  BY DEF TypeOK, Book
<1>2. Len(SYMBOLS) \in Nat
  BY LoopAssumption
<1>3. CASE \/ PassSymbol \/ SizeOrder \/ RefuseOrder \/ AcceptOrder
           \/ DropOrder \/ Restart \/ RetrainVolatility \/ Tick \/ NextDay \/ LoseRedisKeys \/ UNCHANGED vars
  <2>1. db' = db /\ session' = session
    BY <1>3 DEF PassSymbol, SizeOrder, RefuseOrder, AcceptOrder, DropOrder,
       Restart, RetrainVolatility, Tick, NextDay, LoseRedisKeys, vars
  <2>2. CASE SizeOrder
    BY <2>1, <2>2 DEF SizeOrder, Account!ledgerVars, LedgerView
  <2>3. CASE \/ PassSymbol \/ RefuseOrder \/ AcceptOrder \/ DropOrder \/ Restart
    BY <2>1, <2>3 DEF PassSymbol, RefuseOrder, AcceptOrder, DropOrder, Restart,
       Account!ledgerVars, LedgerView
  <2>4. CASE \/ RetrainVolatility \/ Tick \/ NextDay \/ LoseRedisKeys \/ UNCHANGED vars
    BY <2>1, <2>4 DEF RetrainVolatility, Tick, NextDay, LoseRedisKeys, vars,
       Account!ledgerVars, LedgerView
  <2> QED
    BY <1>3, <2>2, <2>3, <2>4
<1>4. CASE SellSymbol
  <2>1. PICK price \in Prices :
          session' = [Sold(session, Symbol, price) EXCEPT
                        !.daily[day] = RowAfterSell(@, price * session.pos[Symbol].qty
                                                       - session.pos[Symbol].cost, Now)]
    BY <1>4 DEF SellSymbol
  <2>2. Symbol \in Symbols /\ session.pos[Symbol].qty > 0 /\ db' = db
    BY <1>2, <1>4, SymbolTyped DEF SellSymbol, TypeOK
  <2> DEFINE sold == Sold(session, Symbol, price)
  <2>3. /\ sold.balance = session.balance + price * session.pos[Symbol].qty
        /\ sold.pos = [session.pos EXCEPT ![Symbol] = NoPosition]
    BY <1>1, <2>2, SoldTyped
  <2>4. session'.balance = sold.balance /\ session'.pos = sold.pos
    BY <1>1, <2>1, <2>2, SoldTyped DEF Book
  <2> HIDE DEF sold
  <2>a. pc = "scan" /\ pc' = "scan"
    BY <1>4 DEF SellSymbol
  <2>5. Account!Sell(Symbol, price)
    BY <2>a, <2>2, <2>3, <2>4 DEF Account!Sell, Account!Nothing, NoPosition, LedgerView
  <2>6. session'.pos[Symbol] # session.pos[Symbol]
    BY <1>1, <2>2, <2>3, <2>4 DEF NoPosition, Book
  <2>7. LedgerView(session)'.hold[Symbol] # LedgerView(session).hold[Symbol]
    BY <2>6 DEF LedgerView
  <2> QED
    BY <2>2, <2>5, <2>7 DEF Account!Next
<1>5. CASE HaltDay
  <2>1. /\ session'.balance = session.balance /\ session'.pos = session.pos
        /\ db' = db /\ pc = "check" /\ pc' = "scan"
    BY <1>1, <1>5 DEF HaltDay, Book
  <2> QED
    BY <2>1 DEF Account!ledgerVars, LedgerView
<1>6. CASE ExecuteBuy
  <2>1. /\ order.price * order.qty <= session.balance
        /\ session' = [Bought(session, Symbol, order.price, order.qty) EXCEPT
                         !.daily[day] = RowAfterBuy(@)]
        /\ pc = "ai" /\ pc' = "scan" /\ db' = db
    BY <1>6 DEF ExecuteBuy
  <2>2. Symbol \in Symbols
    BY <1>2, <2>1, SymbolTyped DEF TypeOK
  <2>3. order.price \in Prices /\ order.qty \in Nat /\ order.qty > 0
    BY <2>1 DEF TypeOK, CycleShape, Order
  <2>4. session.pos[Symbol] = NoPosition
    BY <2>1 DEF CycleShape
  <2>a. session \in Book
    BY <1>1
  <2> DEFINE bought == Bought(session, Symbol, order.price, order.qty)
             held == [qty |-> order.qty, cost |-> order.price * order.qty]
  <2>5. bought.pos = [session.pos EXCEPT ![Symbol] = held]
    <3>1. /\ bought \in Book
          /\ bought.pos[Symbol].qty = session.pos[Symbol].qty + order.qty
          /\ bought.pos[Symbol].cost = session.pos[Symbol].cost + order.price * order.qty
          /\ \A t \in Symbols \ {Symbol} : bought.pos[t] = session.pos[t]
          /\ order.price * order.qty \in Nat
      BY ONLY <2>a, <2>2, <2>3, BoughtTyped, SMTT(30)
    <3> HIDE DEF bought
    <3>2. bought.pos[Symbol].qty = order.qty /\ bought.pos[Symbol].cost = order.price * order.qty
      BY <2>3, <2>4, <3>1 DEF NoPosition
    <3>3. bought.pos[Symbol] \in Position
      BY <2>2, <3>1 DEF Book
    <3>4. bought.pos[Symbol] = held
      BY <3>2, <3>3 DEF Position
    <3>5. bought.pos \in [Symbols -> Position] /\ session.pos \in [Symbols -> Position]
      BY <1>1, <3>1 DEF Book
    <3> QED
      BY <3>1, <3>4, <3>5
  <2>6. bought.balance = session.balance - order.price * order.qty
    BY ONLY <2>a, <2>2, <2>3, BoughtTyped, SMTT(30)
  <2>7. session'.balance = bought.balance /\ session'.pos = bought.pos
    BY <1>1, <2>1, <2>2, <2>3, BoughtTyped DEF Book
  <2>8. order.qty \in 1 .. session.balance
    <3>1. order.qty <= order.price * order.qty
      <4>1. order.price \in Nat \ {0}
        BY <2>3, LoopAssumption
      <4> QED
        BY ONLY <2>3, <4>1, QuantityBound
    <3>2. order.price * order.qty \in Nat /\ session.balance \in Int
      BY ONLY <2>a, <2>2, <2>3, BoughtTyped DEF Book
    <3> QED
      BY <2>1, <2>3, <3>1, <3>2
  <2> HIDE DEF bought
  <2>9. Account!Buy(Symbol, order.price, order.qty)
    BY <2>1, <2>4, <2>5, <2>6, <2>7 DEF Account!Buy, Account!Nothing, NoPosition, LedgerView
  <2>10. session'.pos[Symbol] # session.pos[Symbol]
    BY <1>1, <2>2, <2>3, <2>4, <2>5, <2>7 DEF NoPosition, Book
  <2>11. LedgerView(session)'.hold[Symbol] # LedgerView(session).hold[Symbol]
    BY <2>10 DEF LedgerView
  <2>12. order.qty \in 1 .. LedgerView(session).cash
    BY <2>8 DEF LedgerView
  <2> QED
    BY <2>2, <2>3, <2>9, <2>11, <2>12 DEF Account!Next
<1>7. CASE Commit
  BY <1>7 DEF Commit, Account!Next, Account!Settle, LedgerView
<1>8. CASE Rollback \/ Crash
  <2>1. CASE pc = "idle"
    BY <1>8, <2>1 DEF Rollback, Crash, Reverted, CycleShape, Account!ledgerVars, LedgerView
  <2>2. CASE pc \in {"scan", "check", "ai"}
    BY <1>8, <2>2 DEF Rollback, Crash, Reverted, Account!Next, Account!Abandon, LedgerView
  <2> QED
    BY <1>8, <2>1, <2>2 DEF Rollback, Crash, TypeOK
<1>9. CASE BeginCycle
  BY <1>9 DEF BeginCycle, Account!Next, Account!Begin, LedgerView
<1> QED
  BY <1>3, <1>4, <1>5, <1>6, <1>7, <1>8, <1>9 DEF Next

\* The loop, its executor and its session implement the paper account: every
\* visible change is a whole trade, a settlement or an abandonment.
THEOREM Refinement == Spec => ImplementsLedger
<1>1. Init => Account!Init
  BY RefinesInit
<1>2. IInv /\ [Next]_vars => [Account!Next]_(Account!ledgerVars)
  BY RefinesNext
<1> QED
  BY <1>1, <1>2, Invariance, PTL DEF Spec, ImplementsLedger, Account!Spec

-----------------------------------------------------------------------------
(* The strengthened invariant *)

\* No row holds a streak that should have started a cooldown.
StreakBelow ==
  \A d \in Days : db.daily[d].losses < LossStreak /\ session.daily[d].losses < LossStreak

\* The open session has every halt that is committed.
HaltKept == \A d \in Days : db.daily[d].halted => session.daily[d].halted

\* An accepted order still finds a free slot.
SlotFree == pc = "ai" => Cardinality(Held(session)) < MaxConcurrent

RiskInv ==
  /\ IInv
  /\ StreakBelow
  /\ HaltKept
  /\ HoldingsWithinLimit
  /\ SlotFree

-----------------------------------------------------------------------------
(* Rows and books *)

\* A sale leaves a streak below its limit and the halt as it was.
LEMMA RowAfterSellRisk ==
  ASSUME NEW row \in Row, NEW pnl \in Int, NEW now \in Nat, row.losses < LossStreak
  PROVE  /\ RowAfterSell(row, pnl, now).losses < LossStreak
         /\ RowAfterSell(row, pnl, now).halted = row.halted
<1> DEFINE booked == [row EXCEPT !.sells = @ + 1, !.pnl = @ + pnl]
<1>1. booked \in Row /\ booked.losses = row.losses /\ booked.halted = row.halted
  <2>1. \A n \in Nat, m \in Int :
          /\ [row EXCEPT !.sells = n, !.pnl = m] \in Row
          /\ [row EXCEPT !.sells = n, !.pnl = m].losses = row.losses
          /\ [row EXCEPT !.sells = n, !.pnl = m].halted = row.halted
    BY DEF Row
  <2>2. row.sells + 1 \in Nat /\ row.pnl + pnl \in Int
    BY DEF Row
  <2> QED
    BY <2>1, <2>2
<1>2. row.losses \in Nat
  BY DEF Row
<1> HIDE DEF booked
<1>3. CASE pnl >= 0
  <2>1. RowAfterSell(row, pnl, now) = [booked EXCEPT !.losses = 0]
    BY <1>3 DEF RowAfterSell, booked
  <2> QED
    BY <1>1, <2>1 DEF Row, LossStreak
<1>4. CASE ~(pnl >= 0) /\ row.losses + 1 < LossStreak
  <2>1. RowAfterSell(row, pnl, now) = [booked EXCEPT !.losses = @ + 1]
    BY <1>4 DEF RowAfterSell, booked
  <2> QED
    BY <1>1, <1>4, <2>1 DEF Row
<1>5. CASE ~(pnl >= 0) /\ ~(row.losses + 1 < LossStreak)
  <2>1. RowAfterSell(row, pnl, now)
          = [booked EXCEPT !.losses = 0, !.cooldown = now + CooldownTime]
    BY <1>5 DEF RowAfterSell, booked
  <2> QED
    BY <1>1, <2>1 DEF Row, LossStreak
<1> QED
  BY <1>3, <1>4, <1>5

\* A sale books a row of the day and empties the position of its symbol.
LEMMA SellEffect ==
  ASSUME IInv, SellSymbol
  PROVE  /\ Symbol \in Symbols
         /\ session'.pos = [session.pos EXCEPT ![Symbol] = NoPosition]
         /\ \E pnl \in Int :
              /\ session'.balance = session.balance + (session.pos[Symbol].cost + pnl)
              /\ session'.daily = [session.daily EXCEPT ![day] =
                                     RowAfterSell(session.daily[day], pnl, Now)]
<1> USE DEF IInv
<1>1. session \in Book /\ day \in Days /\ session.daily[day] \in Row /\ Now \in Nat
  BY NowTyped DEF TypeOK, Book
<1>2. PICK price \in Prices :
        session' = [Sold(session, Symbol, price) EXCEPT
                      !.daily[day] = RowAfterSell(@, price * session.pos[Symbol].qty
                                                     - session.pos[Symbol].cost, Now)]
  BY DEF SellSymbol
<1>3. Symbol \in Symbols
  BY LoopAssumption, SymbolTyped DEF SellSymbol, TypeOK
<1> DEFINE pnl == price * session.pos[Symbol].qty - session.pos[Symbol].cost
           sold == Sold(session, Symbol, price)
           row == RowAfterSell(session.daily[day], pnl, Now)
<1>4. /\ sold \in Book
      /\ sold.balance = session.balance + price * session.pos[Symbol].qty
      /\ sold.pos = [session.pos EXCEPT ![Symbol] = NoPosition]
      /\ sold.daily = session.daily
      /\ price * session.pos[Symbol].qty \in Nat
  BY <1>1, <1>3, SoldTyped
<1>5. session.pos[Symbol].cost \in Int
  BY <1>1, <1>3 DEF Book, Position
<1>6. pnl \in Int
  BY <1>4, <1>5
<1>7. session' = [sold EXCEPT !.daily[day] = row]
  BY <1>2, <1>4
<1>10. sold.balance = session.balance + (session.pos[Symbol].cost + pnl)
  <2>1. session.balance \in Int
    BY <1>1 DEF Book
  <2> QED
    BY <1>4, <1>5, <2>1
<1> HIDE DEF pnl, sold
<1>8. row \in Row
  BY <1>1, <1>6, RowAfterSellTyped
<1> HIDE DEF row
<1>9. /\ session'.balance = sold.balance /\ session'.pos = sold.pos
      /\ session'.daily = [session.daily EXCEPT ![day] = row]
  BY <1>1, <1>4, <1>7, <1>8, RowUpdated
<1> QED
  BY <1>3, <1>4, <1>6, <1>9, <1>10 DEF row

\* A halt changes nothing but the flag of the day's row.
LEMMA HaltEffect ==
  ASSUME IInv, HaltDay
  PROVE  /\ session'.pos = session.pos
         /\ session'.daily = [session.daily EXCEPT ![day].halted = TRUE]
<1>1. session \in Book
  BY DEF IInv, TypeOK
<1> QED
  BY <1>1 DEF HaltDay, Book

\* An entry pays its order from the cash, opens one position and counts on the day.
LEMMA BuyEffect ==
  ASSUME IInv, ExecuteBuy
  PROVE  /\ Symbol \in Symbols
         /\ order.price \in Prices /\ order.qty \in Nat
         /\ session'.balance = session.balance - order.price * order.qty
         /\ \A t \in Symbols \ {Symbol} : session'.pos[t] = session.pos[t]
         /\ session'.daily = [session.daily EXCEPT ![day] = RowAfterBuy(session.daily[day])]
<1> USE DEF IInv
<1>1. session \in Book /\ day \in Days /\ session.daily[day] \in Row
  BY DEF TypeOK, Book
<1>2. /\ pc = "ai"
      /\ session' = [Bought(session, Symbol, order.price, order.qty) EXCEPT
                       !.daily[day] = RowAfterBuy(@)]
  BY DEF ExecuteBuy
<1>3. Symbol \in Symbols
  BY <1>2, LoopAssumption, SymbolTyped DEF TypeOK
<1>4. order.price \in Prices /\ order.qty \in Nat
  BY <1>2 DEF TypeOK, CycleShape, Order
<1> DEFINE bought == Bought(session, Symbol, order.price, order.qty)
           row == RowAfterBuy(session.daily[day])
<1>5. /\ bought \in Book
      /\ bought.balance = session.balance - order.price * order.qty
      /\ \A t \in Symbols \ {Symbol} : bought.pos[t] = session.pos[t]
      /\ bought.daily = session.daily
  BY <1>1, <1>3, <1>4, BoughtTyped
<1>6. row \in Row
  BY <1>1, RowAfterBuyTyped
<1>7. session' = [bought EXCEPT !.daily[day] = row]
  BY <1>2, <1>5
<1> HIDE DEF bought, row
<1>8. /\ session'.balance = bought.balance /\ session'.pos = bought.pos
      /\ session'.daily = [session.daily EXCEPT ![day] = row]
  BY <1>1, <1>5, <1>6, <1>7, RowUpdated
<1> QED
  BY <1>3, <1>4, <1>5, <1>8 DEF row

\* Any other step leaves the session or shows the committed rows again, and
\* the committed rows change to those of the session only.
LEMMA OtherSteps ==
  ASSUME [Next]_vars, ~SellSymbol, ~HaltDay, ~ExecuteBuy
  PROVE  session' \in {session, db}
BY DEF Next, BeginCycle, PassSymbol, SizeOrder, RefuseOrder, AcceptOrder, DropOrder, Commit,
   Rollback, Crash, Reverted, Restart, RetrainVolatility, Tick, NextDay, LoseRedisKeys, vars

\* A commit is the only step that changes committed rows.
LEMMA CommittedSteps ==
  ASSUME [Next]_vars
  PROVE  \/ db' = db
         \/ Commit /\ db' = session /\ session' = session
BY DEF Next, BeginCycle, PassSymbol, SellSymbol, SizeOrder, HaltDay, RefuseOrder, AcceptOrder,
   DropOrder, ExecuteBuy, Commit, Rollback, Crash, Restart, RetrainVolatility, Tick, NextDay, LoseRedisKeys, vars

-----------------------------------------------------------------------------
(* The holdings *)

\* The symbols are finitely many.
LEMMA SymbolsFinite == IsFiniteSet(Symbols)
<1>1. Len(SYMBOLS) \in Nat
  BY LoopAssumption
<1> DEFINE list == [i \in 1 .. Len(SYMBOLS) |-> SYMBOLS[i]]
<1>2. list \in Surjection(1 .. Len(SYMBOLS), Symbols)
  BY DEF Surjection, Symbols
<1> QED
  BY <1>1, <1>2, FS_NatSurjection DEF ExistsSurjection

\* The held symbols are finitely many, in every view.
LEMMA HeldFinite == ASSUME NEW book PROVE IsFiniteSet(Held(book))
<1>1. Held(book) \in SUBSET Symbols
  BY DEF Held
<1> QED
  BY <1>1, SymbolsFinite, FS_Subset

\* A sale holds one symbol less.
LEMMA SaleFreesSlot ==
  ASSUME IInv, SellSymbol
  PROVE  Cardinality(Held(session')) <= Cardinality(Held(session))
<1>1. session \in Book
  BY DEF IInv, TypeOK
<1>2. Held(session') \in SUBSET Held(session)
  <2>1. \A s \in Symbols : session'.pos[s].qty > 0 => session.pos[s].qty > 0
    BY <1>1, SellEffect DEF Book, NoPosition
  <2> QED
    BY <2>1 DEF Held
<1> QED
  BY <1>2, HeldFinite, FS_Subset

\* An entry holds one symbol more at most.
LEMMA EntryTakesSlot ==
  ASSUME IInv, ExecuteBuy
  PROVE  Cardinality(Held(session')) <= Cardinality(Held(session)) + 1
<1> DEFINE more == Held(session) \cup {Symbol}
<1>1. Held(session') \in SUBSET more
  BY BuyEffect DEF Held
<1>2. IsFiniteSet(more) /\ Cardinality(more) <= Cardinality(Held(session)) + 1
  <2>1. Cardinality(Held(session)) \in Nat
    BY HeldFinite, FS_CardinalityType
  <2>2. /\ IsFiniteSet(more)
        /\ Cardinality(more) = IF Symbol \in Held(session) THEN Cardinality(Held(session))
                               ELSE Cardinality(Held(session)) + 1
    BY HeldFinite, FS_AddElement
  <2> QED
    BY <2>1, <2>2
<1> HIDE DEF more
<1>3. Cardinality(Held(session')) <= Cardinality(more)
  BY <1>1, <1>2, FS_Subset
<1>4. /\ Cardinality(Held(session')) \in Nat /\ Cardinality(Held(session)) \in Nat
      /\ Cardinality(more) \in Nat
  BY <1>2, HeldFinite, FS_CardinalityType
<1> QED
  BY <1>2, <1>3, <1>4

-----------------------------------------------------------------------------
(* The strengthened invariant is inductive. *)

\* The loop starts in a state of the strengthened invariant.
LEMMA InitRiskInv == Init => RiskInv
<1> SUFFICES ASSUME Init PROVE RiskInv
  OBVIOUS
<1>1. IInv
  BY InitIInv
<1>2. StreakBelow /\ HaltKept
  BY OpeningTyped DEF Init, StreakBelow, HaltKept, FreshRow, LossStreak
<1>3. Held(OpeningBook) = {}
  BY OpeningTyped DEF Held, NoPosition
<1>4. HoldingsWithinLimit /\ SlotFree
  BY <1>3, RiskAssumption, FS_EmptySet DEF Init, HoldingsWithinLimit, SlotFree
<1> QED
  BY <1>1, <1>2, <1>4 DEF RiskInv

\* No step leaves a streak at its limit.
LEMMA StreakStep == RiskInv /\ [Next]_vars => StreakBelow'
<1> SUFFICES ASSUME RiskInv, [Next]_vars PROVE StreakBelow'
  OBVIOUS
<1> USE DEF RiskInv
<1>1. /\ session \in Book /\ day \in Days /\ session.daily[day] \in Row /\ Now \in Nat
      /\ session.daily \in [Days -> Row]
  BY NowTyped DEF IInv, TypeOK, Book
<1>2. ASSUME \A d \in Days : session'.daily[d].losses < LossStreak PROVE StreakBelow'
  BY <1>2, CommittedSteps DEF StreakBelow
<1>3. CASE SellSymbol
  <2>1. PICK pnl \in Int :
          session'.daily = [session.daily EXCEPT ![day] =
                              RowAfterSell(session.daily[day], pnl, Now)]
    BY <1>3, SellEffect
  <2>2. RowAfterSell(session.daily[day], pnl, Now).losses < LossStreak
    BY <1>1, RowAfterSellRisk DEF StreakBelow
  <2> QED
    BY <1>1, <1>2, <2>1, <2>2 DEF StreakBelow
<1>4. CASE HaltDay
  <2>1. session'.daily = [session.daily EXCEPT ![day].halted = TRUE]
    BY <1>4, HaltEffect
  <2> QED
    BY <1>1, <1>2, <2>1 DEF StreakBelow, Row
<1>5. CASE ExecuteBuy
  <2>1. session'.daily = [session.daily EXCEPT ![day] = RowAfterBuy(session.daily[day])]
    BY <1>5, BuyEffect
  <2> QED
    BY <1>1, <1>2, <2>1 DEF StreakBelow, RowAfterBuy, Row
<1>6. CASE ~SellSymbol /\ ~HaltDay /\ ~ExecuteBuy
  BY <1>2, <1>6, OtherSteps DEF StreakBelow
<1> QED
  BY <1>3, <1>4, <1>5, <1>6

\* No step takes a halt back, committed or not.
LEMMA HaltStep == RiskInv /\ [Next]_vars => HaltKept'
<1> SUFFICES ASSUME RiskInv, [Next]_vars PROVE HaltKept'
  OBVIOUS
<1> USE DEF RiskInv
<1>1. /\ session \in Book /\ day \in Days /\ session.daily[day] \in Row /\ Now \in Nat
      /\ session.daily \in [Days -> Row]
  BY NowTyped DEF IInv, TypeOK, Book
<1>2. ASSUME \A d \in Days : session.daily[d].halted => session'.daily[d].halted,
             db' = db
      PROVE  HaltKept'
  BY <1>2 DEF HaltKept
<1>3. CASE SellSymbol
  <2>1. PICK pnl \in Int :
          session'.daily = [session.daily EXCEPT ![day] =
                              RowAfterSell(session.daily[day], pnl, Now)]
    BY <1>3, SellEffect
  <2>2. RowAfterSell(session.daily[day], pnl, Now).halted = session.daily[day].halted
    BY <1>1, RowAfterSellRisk DEF StreakBelow
  <2>3. db' = db
    BY <1>3 DEF SellSymbol
  <2> QED
    BY <1>1, <1>2, <2>1, <2>2, <2>3
<1>4. CASE HaltDay
  <2>1. session'.daily = [session.daily EXCEPT ![day].halted = TRUE] /\ db' = db
    BY <1>4, HaltEffect DEF HaltDay
  <2> QED
    BY <1>1, <1>2, <2>1 DEF Row
<1>5. CASE ExecuteBuy
  <2>1. /\ session'.daily = [session.daily EXCEPT ![day] = RowAfterBuy(session.daily[day])]
        /\ db' = db
    BY <1>5, BuyEffect DEF ExecuteBuy
  <2> QED
    BY <1>1, <1>2, <2>1 DEF RowAfterBuy, Row
<1>6. CASE ~SellSymbol /\ ~HaltDay /\ ~ExecuteBuy
  BY <1>6, OtherSteps, CommittedSteps DEF HaltKept
<1> QED
  BY <1>3, <1>4, <1>5, <1>6

\* No step holds more symbols than permitted, and none takes the slot of an
\* order that waits for the agents.
LEMMA SlotStep == RiskInv /\ [Next]_vars => HoldingsWithinLimit' /\ SlotFree'
<1> SUFFICES ASSUME RiskInv, [Next]_vars PROVE HoldingsWithinLimit' /\ SlotFree'
  OBVIOUS
<1> USE DEF RiskInv
<1>1. /\ Cardinality(Held(session)) \in Nat /\ Cardinality(Held(session')) \in Nat
      /\ MaxConcurrent \in Nat
  BY HeldFinite, FS_CardinalityType, RiskAssumption
<1>2. ASSUME Cardinality(Held(session')) <= MaxConcurrent PROVE HoldingsWithinLimit'
  BY <1>2, CommittedSteps DEF HoldingsWithinLimit
<1>3. CASE SellSymbol
  <2>1. Cardinality(Held(session')) <= MaxConcurrent
    BY <1>1, <1>3, SaleFreesSlot DEF HoldingsWithinLimit
  <2>2. pc' = "scan"
    BY <1>3 DEF SellSymbol
  <2> QED
    BY <1>2, <2>1, <2>2 DEF SlotFree
<1>4. CASE HaltDay
  <2>1. Held(session') = Held(session) /\ pc' = "scan"
    BY <1>4, HaltEffect DEF Held, HaltDay
  <2> QED
    BY <1>2, <2>1 DEF HoldingsWithinLimit, SlotFree
<1>5. CASE ExecuteBuy
  <2>1. pc = "ai" /\ pc' = "scan"
    BY <1>5 DEF ExecuteBuy
  <2>2. Cardinality(Held(session')) <= MaxConcurrent
    BY <1>1, <1>5, <2>1, EntryTakesSlot DEF SlotFree
  <2> QED
    BY <1>2, <2>1, <2>2 DEF SlotFree
<1>6. CASE AcceptOrder
  <2>1. Cardinality(Held(session)) < MaxConcurrent /\ session' = session
    BY <1>6 DEF AcceptOrder, WithinLimits
  <2> QED
    BY <1>2, <2>1 DEF HoldingsWithinLimit, SlotFree
<1>7. CASE ~SellSymbol /\ ~HaltDay /\ ~ExecuteBuy /\ ~AcceptOrder
  <2>1. HoldingsWithinLimit'
    BY <1>2, <1>7, OtherSteps DEF HoldingsWithinLimit
  <2>2. pc' = "ai" => pc = "ai" /\ session' = session
    BY <1>7 DEF Next, BeginCycle, PassSymbol, SizeOrder, RefuseOrder, DropOrder, Commit,
       Rollback, Crash, Restart, RetrainVolatility, Tick, NextDay, LoseRedisKeys, vars
  <2> QED
    BY <2>1, <2>2 DEF SlotFree
<1> QED
  BY <1>3, <1>4, <1>5, <1>6, <1>7

\* Every state the loop can reach satisfies the strengthened invariant.
THEOREM RiskInvariance == Spec => []RiskInv
<1>1. Init => RiskInv
  BY InitRiskInv
<1>2. RiskInv /\ [Next]_vars => RiskInv'
  BY NextIInv, StreakStep, HaltStep, SlotStep DEF RiskInv
<1> QED
  BY <1>1, <1>2, PTL DEF Spec

\* Never more symbols are held than permitted, in the session or committed,
\* although several symbols of one cycle may enter and the agents are asked in
\* between.
THEOREM SlotLimit == Spec => []HoldingsWithinLimit
<1>1. RiskInv => HoldingsWithinLimit
  BY DEF RiskInv
<1> QED
  BY <1>1, RiskInvariance, PTL

\* Where COOLDOWN_AFTER_CONSECUTIVE_LOSSES is at least the literal that the
\* code goes by, no row shows a longer streak than configured.
THEOREM StreakLimit ==
  ASSUME CooldownAfter >= LossStreak
  PROVE  Spec => []StreakFollowsConfig
<1>1. RiskInv => StreakFollowsConfig
  <2> SUFFICES ASSUME RiskInv, NEW d \in Days PROVE session.daily[d].losses < CooldownAfter
    BY DEF StreakFollowsConfig
  <2>1. session.daily[d].losses \in Int /\ session.daily[d].losses < LossStreak
    BY DEF RiskInv, IInv, TypeOK, StreakBelow, Book, Row
  <2>2. CooldownAfter \in Int
    BY RiskAssumption
  <2> QED
    BY <2>1, <2>2 DEF LossStreak
<1> QED
  BY <1>1, RiskInvariance, PTL

-----------------------------------------------------------------------------
(* What the assistant says of a halted day *)

\* A halted row is told as such, whatever else there is to say.
LEMMA HaltedIsTold ==
  ASSUME NEW book, NEW d, book.daily[d].halted
  PROVE  AdvisedAgainst(book, d)
<1>1. \A concentrated, audits : RiskLevel(book.daily[d], concentrated, audits) = "HIGH_RISK"
  BY DEF RiskLevel
<1> QED
  BY <1>1 DEF AdvisedAgainst, Recommendation

\* A committed halt outlives every commit of its day, and as long as it stands
\* the assistant advises against entries.
THEOREM HaltIsTold == Spec => HaltStaysTold
<1>1. ASSUME RiskInv, [Next]_vars, db.daily[day].halted
      PROVE  AdvisedAgainst(db', day)
  <2>1. session.daily[day].halted
    BY <1>1 DEF RiskInv, IInv, TypeOK, HaltKept
  <2>2. db'.daily[day].halted
    BY <1>1, <2>1, CommittedSteps
  <2> QED
    BY <2>2, HaltedIsTold
<1>2. RiskInv /\ [Next]_vars
        => [db.daily[day].halted /\ day' = day => AdvisedAgainst(db', day)]_vars
  BY <1>1
<1> QED
  BY <1>2, RiskInvariance, PTL DEF Spec, HaltStaysTold

-----------------------------------------------------------------------------
(* The limits that are percentages of the day's reference equity.  They     *)
(* hold as long as Redis keeps the reference: a lost one is computed anew.  *)

\* A quotient rounded down, times the divisor, is no more than the dividend.
LEMMA QuotientBound ==
  ASSUME NEW a \in Nat, NEW b \in Nat \ {0} PROVE b * (a \div b) <= a
OBVIOUS

\* The day's reference is that of its snapshot; days to come have none.
FutureUnpriced == \A d \in Days : d > day => snapshot[d] = 0

\* An order costs no more than the amount it was sized at.
OrderFits == pc \in {"check", "ai"} => order.price * order.qty <= order.amount

\* An accepted order still meets the loss limit of the day it is now, and the
\* order limit it was validated against.
OrderPriced ==
  pc = "ai" =>
    /\ snapshot[day] > 0 => 100 * session.daily[day].pnl > -(snapshot[day] * MaxDailyLoss)
    /\ 10000 * order.amount <= snapshot[order.day] * MaxPerOrder * order.volatility

PricedInv == IInv /\ FutureUnpriced /\ OrderFits /\ OrderPriced

\* Without Redis faults a step that takes a reference takes the day's, and
\* keeps it.
LEMMA ReferenceKept ==
  ASSUME ~RedisFaults, TypeOK, NEW reference \in References, KeepReference(reference)
  PROVE  /\ snapshot' = [snapshot EXCEPT ![day] = reference]
         /\ snapshot'[day] = reference
BY DEF KeepReference, TypeOK

\* The loop starts without a reference and without an order.
LEMMA InitPricedInv == Init => PricedInv
BY InitIInv DEF Init, PricedInv, FutureUnpriced, OrderFits, OrderPriced

\* Every step keeps the references, the orders and the limits they met.
LEMMA NextPricedInv ==
  ASSUME ~RedisFaults
  PROVE  PricedInv /\ [Next]_vars => PricedInv'
<1> SUFFICES ASSUME PricedInv, [Next]_vars
             PROVE  FutureUnpriced' /\ OrderFits' /\ OrderPriced'
  BY NextIInv DEF PricedInv
<1> USE DEF PricedInv
<1>1. TypeOK /\ day \in Days /\ day \in Nat /\ \A d \in Days : d \in Nat
  BY LoopAssumption DEF IInv, TypeOK, Days
<1>2. CASE SizeOrder
  <2>1. PICK price \in Prices, ratio \in Ratios,
             reference \in References, exposure \in Exposures(session) :
          LET amount == OrderAmount(reference, ratio, session.balance, exposure) IN
          /\ KeepReference(reference)
          /\ IF amount > 0
             THEN /\ order' = [NoOrder EXCEPT !.price = price, !.amount = amount,
                                              !.qty = amount \div price]
                  /\ pc' = "check"
                  /\ UNCHANGED turn
             ELSE /\ turn' = turn + 1
                  /\ UNCHANGED <<order, pc>>
    BY <1>2 DEF SizeOrder
  <2> DEFINE amount == OrderAmount(reference, ratio, session.balance, exposure)
  <2>2. amount \in Int
    BY <1>1, ReferenceTyped, OrderAmountTyped DEF Exposures, TypeOK, Book
  <2>3. /\ pc = "scan" /\ day' = day
        /\ \/ amount > 0 /\ pc' = "check"
              /\ order'.price = price /\ order'.amount = amount /\ order'.qty = amount \div price
           \/ pc' = "scan"
    BY <1>2, <2>1 DEF SizeOrder, NoOrder
  <2> HIDE DEF amount
  <2>4. FutureUnpriced'
    BY <1>1, <2>1, <2>3, ReferenceKept DEF FutureUnpriced, TypeOK
  <2>5. amount > 0 => price * (amount \div price) <= amount
    BY <2>2, LoopAssumption, QuotientBound
  <2>6. OrderFits'
    BY <2>3, <2>5 DEF OrderFits
  <2> QED
    BY <2>3, <2>4, <2>6 DEF OrderPriced
<1>3. CASE HaltDay \/ RefuseOrder
  <2>1. PICK reference \in References : KeepReference(reference)
    BY <1>3 DEF HaltDay, RefuseOrder
  <2>2. pc' = "scan" /\ day' = day
    BY <1>3 DEF HaltDay, RefuseOrder
  <2>3. FutureUnpriced'
    BY <1>1, <2>1, <2>2, ReferenceKept DEF FutureUnpriced, TypeOK
  <2> QED
    BY <2>2, <2>3 DEF OrderFits, OrderPriced
<1>4. CASE AcceptOrder
  <2>1. PICK reference \in References, exposure \in Exposures(session), multiplier \in Multipliers :
          /\ KeepReference(reference)
          /\ ~LossLimitReached(session.daily[day], reference)
          /\ WithinLimits(order.amount, reference, session.balance, exposure,
                          Cardinality(Held(session)), multiplier)
    BY <1>4 DEF AcceptOrder
  <2>2. /\ pc = "check" /\ pc' = "ai" /\ UNCHANGED <<session, day, volatility>>
        /\ order'.price = order.price /\ order'.qty = order.qty /\ order'.amount = order.amount
        /\ order'.day = day /\ order'.volatility = volatility
    BY <1>1, <1>4 DEF AcceptOrder, TypeOK, Order
  <2>3. snapshot' = [snapshot EXCEPT ![day] = reference] /\ snapshot'[day] = reference
    BY <1>1, <2>1, ReferenceKept
  <2>4. FutureUnpriced'
    BY <1>1, <2>2, <2>3 DEF FutureUnpriced, TypeOK
  <2>5. multiplier = volatility
    BY DEF Multipliers
  <2>6. 10000 * order.amount <= reference * MaxPerOrder * volatility
    BY <2>1, <2>5 DEF WithinLimits
  <2>7. 100 * session.daily[day].pnl > -(reference * MaxDailyLoss)
    <3>1. session.daily[day].pnl \in Int
      BY <1>1 DEF TypeOK, Book, Row
    <3>2. reference * MaxDailyLoss \in Int
      BY <1>1, ReferenceTyped, RiskAssumption
    <3>3. ~(100 * session.daily[day].pnl <= -(reference * MaxDailyLoss))
      BY <2>1 DEF LossLimitReached
    <3> QED
      BY <3>1, <3>2, <3>3
  <2>8. OrderFits' /\ OrderPriced'
    BY <2>2, <2>3, <2>6, <2>7 DEF OrderFits, OrderPriced
  <2> QED
    BY <2>4, <2>8
<1>5. CASE NextDay
  <2>1. day' = day + 1 /\ day' \in Days /\ UNCHANGED <<session, pc, order, snapshot>>
    BY <1>1, <1>5, LoopAssumption DEF NextDay, Days
  <2>2. snapshot'[day'] = 0
    BY <1>1, <2>1 DEF FutureUnpriced
  <2>3. FutureUnpriced'
    BY <1>1, <2>1 DEF FutureUnpriced
  <2> QED
    BY <2>1, <2>2, <2>3 DEF OrderFits, OrderPriced
<1>6. CASE Tick \/ RetrainVolatility \/ UNCHANGED vars
  BY <1>6 DEF Tick, RetrainVolatility, vars, FutureUnpriced, OrderFits, OrderPriced
<1>7. CASE \/ BeginCycle \/ PassSymbol \/ SellSymbol \/ DropOrder \/ ExecuteBuy
           \/ Commit \/ Rollback \/ Crash \/ Restart
  <2>1. pc' \notin {"check", "ai"} /\ UNCHANGED <<day, snapshot>>
    BY <1>7 DEF BeginCycle, PassSymbol, SellSymbol, DropOrder, ExecuteBuy, Commit, Rollback,
       Crash, Restart
  <2> QED
    BY <2>1 DEF FutureUnpriced, OrderFits, OrderPriced
<1>8. ~LoseRedisKeys
  BY DEF LoseRedisKeys
<1> QED
  BY <1>2, <1>3, <1>4, <1>5, <1>6, <1>7, <1>8 DEF Next

\* An entry is the execution of an accepted order, and nothing else.
LEMMA EntryIsExecuted == IInv /\ [Next]_vars /\ Entry => pc = "ai" /\ ExecuteBuy
<1> SUFFICES ASSUME IInv, [Next]_vars, Entry PROVE pc = "ai" /\ ExecuteBuy
  OBVIOUS
<1>1. pc = "ai"
  BY EntryIsBuy
<1>2. /\ session.daily[day].buys \in Nat /\ db.daily[day].buys \in Nat
      /\ db.daily[day].buys <= session.daily[day].buys
  BY DEF IInv, TypeOK, Book, Row, EntriesOnlyGrow
<1>3. session' # session /\ session' # db
  BY <1>2 DEF Entry
<1>4. ~SellSymbol /\ ~HaltDay
  BY <1>1 DEF SellSymbol, HaltDay
<1> QED
  BY <1>1, <1>3, <1>4, OtherSteps

\* While Redis keeps the day's reference, no entry follows on a day whose
\* realized loss has reached its limit.
THEOREM LossLimit ==
  ASSUME ~RedisFaults
  PROVE  Spec => LossLimitHonoured
<1>1. Init => PricedInv
  BY InitPricedInv
<1>2. PricedInv /\ [Next]_vars => PricedInv'
  BY NextPricedInv
<1>3. PricedInv /\ [Next]_vars
        => [Entry /\ snapshot[day] > 0 =>
              100 * session.daily[day].pnl > -(snapshot[day] * MaxDailyLoss)]_vars
  BY EntryIsExecuted DEF PricedInv, OrderPriced
<1> QED
  BY <1>1, <1>2, <1>3, PTL DEF Spec, LossLimitHonoured

\* While Redis keeps the references, an entry spends no more than its share of
\* that of the day it was validated on, halved if volatility was high then.
THEOREM OrderCap ==
  ASSUME ~RedisFaults
  PROVE  Spec => EntryWithinCap
<1>1. Init => PricedInv
  BY InitPricedInv
<1>2. PricedInv /\ [Next]_vars => PricedInv'
  BY NextPricedInv
<1>3. ASSUME PricedInv, [Next]_vars, Entry
      PROVE  10000 * (session.balance - session'.balance)
               <= snapshot[order.day] * MaxPerOrder * order.volatility
  <2>1. pc = "ai" /\ ExecuteBuy
    BY <1>3, EntryIsExecuted DEF PricedInv
  <2>2. /\ order.price \in Nat /\ order.qty \in Nat /\ order.amount \in Int
        /\ session.balance \in Int
        /\ session'.balance = session.balance - order.price * order.qty
    BY <1>3, <2>1, BuyEffect DEF PricedInv, IInv, TypeOK, Book, Order
  <2>3. order.price * order.qty <= order.amount
    BY <1>3, <2>1 DEF PricedInv, OrderFits
  <2>4. 10000 * order.amount <= snapshot[order.day] * MaxPerOrder * order.volatility
    BY <1>3, <2>1 DEF PricedInv, OrderPriced
  <2> DEFINE cost == order.price * order.qty
             cap == snapshot[order.day] * MaxPerOrder * order.volatility
  <2>5. cost \in Nat
    BY <2>2, ProductTyped
  <2>6. cap \in Int
    <3>1. snapshot \in [Days -> Int] /\ order \in Order
      BY <1>3 DEF PricedInv, IInv, TypeOK
    <3>4. order.day \in Days /\ order.volatility \in Volatilities \cup {0}
      BY <3>1 DEF Order
    <3>6. \A v \in Volatilities : v \in Int
      BY LoopAssumption
    <3>5. snapshot[order.day] \in Int /\ order.volatility \in Int
      BY ONLY <3>1, <3>4, <3>6
    <3>2. MaxPerOrder \in Nat
      BY RiskAssumption
    <3>3. snapshot[order.day] * MaxPerOrder \in Int
      BY ONLY <3>5, <3>2
    <3> QED
      BY ONLY <3>5, <3>3 DEF cap
  <2>7. session.balance - session'.balance = cost
    BY <2>2, <2>5
  <2> HIDE DEF cost, cap
  <2>8. 10000 * cost <= cap
    BY <2>2, <2>3, <2>4, <2>5, <2>6 DEF cost, cap
  <2> QED
    BY <2>7, <2>8 DEF cap
<1>4. PricedInv /\ [Next]_vars
        => [Entry =>
              10000 * (session.balance - session'.balance)
                <= snapshot[order.day] * MaxPerOrder * order.volatility]_vars
  BY <1>3
<1> QED
  BY <1>1, <1>2, <1>4, PTL DEF Spec, EntryWithinCap

-----------------------------------------------------------------------------
(* The books *)

\* Sums over the positions and over the daily rows of a book.
Costs(book) == [s \in Symbols |-> book.pos[s].cost]
Profits(book) == [d \in Days |-> book.daily[d].pnl]
BuyCounts(book) == [d \in Days |-> book.daily[d].buys]
SellCounts(book) == [d \in Days |-> book.daily[d].sells]

LEMMA BookSums ==
  ASSUME NEW book \in Book
  PROVE  /\ Costs(book) \in [Symbols -> Int] /\ Profits(book) \in [Days -> Int]
         /\ BuyCounts(book) \in [Days -> Int] /\ SellCounts(book) \in [Days -> Int]
         /\ Invested(book) = SumFunction(Costs(book))
         /\ Realized(book) = SumFunction(Profits(book))
         /\ Entries(book) = SumFunction(BuyCounts(book))
         /\ Exits(book) = SumFunction(SellCounts(book))
<1>1. /\ \A s \in Symbols : book.pos[s].cost \in Int
      /\ \A d \in Days : /\ book.daily[d].pnl \in Int /\ book.daily[d].buys \in Int
                         /\ book.daily[d].sells \in Int
  BY DEF Book, Position, Row
<1> QED
  BY <1>1 DEF Invested, Realized, Entries, Exits, Costs, Profits, BuyCounts, SellCounts

LEMMA DaysFinite == IsFiniteSet(Days)
<1>1. 0 \in Int /\ LastDay \in Int
  BY LoopAssumption
<1> QED
  BY <1>1, FS_Interval DEF Days

\* What is invested changes with the cost of a position.
LEMMA InvestedChanged ==
  ASSUME NEW book \in Book, NEW after \in Book, NEW s \in Symbols,
         \A t \in Symbols : t # s => after.pos[t] = book.pos[t]
  PROVE  /\ Invested(book) \in Int
         /\ Invested(after) = Invested(book) + (after.pos[s].cost - book.pos[s].cost)
<1>1. /\ Costs(book) \in [Symbols -> Int] /\ Costs(after) \in [Symbols -> Int]
      /\ Invested(book) = SumFunction(Costs(book))
      /\ Invested(after) = SumFunction(Costs(after))
  BY BookSums
<1>2. \A t \in Symbols : t # s => Costs(after)[t] = Costs(book)[t]
  BY DEF Costs
<1>3. Costs(book)[s] = book.pos[s].cost /\ Costs(after)[s] = after.pos[s].cost
  BY DEF Costs
<1>4. /\ SumFunction(Costs(book)) \in Int
      /\ SumFunction(Costs(after)) = SumFunction(Costs(book)) + (Costs(after)[s] - Costs(book)[s])
  BY <1>1, <1>2, SymbolsFinite, SumChanged
<1> QED
  BY <1>1, <1>3, <1>4

\* Profit and counters change with the row of a day.
LEMMA DailyChanged ==
  ASSUME NEW book \in Book, NEW after \in Book, NEW d \in Days,
         \A e \in Days : e # d => after.daily[e] = book.daily[e]
  PROVE  /\ Realized(book) \in Int /\ Entries(book) \in Int /\ Exits(book) \in Int
         /\ Realized(after) = Realized(book) + (after.daily[d].pnl - book.daily[d].pnl)
         /\ Entries(after) = Entries(book) + (after.daily[d].buys - book.daily[d].buys)
         /\ Exits(after) = Exits(book) + (after.daily[d].sells - book.daily[d].sells)
<1>1. /\ Profits(book) \in [Days -> Int] /\ Profits(after) \in [Days -> Int]
      /\ BuyCounts(book) \in [Days -> Int] /\ BuyCounts(after) \in [Days -> Int]
      /\ SellCounts(book) \in [Days -> Int] /\ SellCounts(after) \in [Days -> Int]
      /\ Realized(book) = SumFunction(Profits(book))
      /\ Realized(after) = SumFunction(Profits(after))
      /\ Entries(book) = SumFunction(BuyCounts(book))
      /\ Entries(after) = SumFunction(BuyCounts(after))
      /\ Exits(book) = SumFunction(SellCounts(book))
      /\ Exits(after) = SumFunction(SellCounts(after))
  BY BookSums
<1>2. /\ \A e \in Days : e # d => Profits(after)[e] = Profits(book)[e]
      /\ Profits(book)[d] = book.daily[d].pnl /\ Profits(after)[d] = after.daily[d].pnl
  BY DEF Profits
<1>3. /\ \A e \in Days : e # d => BuyCounts(after)[e] = BuyCounts(book)[e]
      /\ BuyCounts(book)[d] = book.daily[d].buys /\ BuyCounts(after)[d] = after.daily[d].buys
  BY DEF BuyCounts
<1>4. /\ \A e \in Days : e # d => SellCounts(after)[e] = SellCounts(book)[e]
      /\ SellCounts(book)[d] = book.daily[d].sells /\ SellCounts(after)[d] = after.daily[d].sells
  BY DEF SellCounts
<1>5. /\ SumFunction(Profits(book)) \in Int
      /\ SumFunction(Profits(after))
           = SumFunction(Profits(book)) + (Profits(after)[d] - Profits(book)[d])
  BY <1>1, <1>2, DaysFinite, SumChanged
<1>6. /\ SumFunction(BuyCounts(book)) \in Int
      /\ SumFunction(BuyCounts(after))
           = SumFunction(BuyCounts(book)) + (BuyCounts(after)[d] - BuyCounts(book)[d])
  BY <1>1, <1>3, DaysFinite, SumChanged
<1>7. /\ SumFunction(SellCounts(book)) \in Int
      /\ SumFunction(SellCounts(after))
           = SumFunction(SellCounts(book)) + (SellCounts(after)[d] - SellCounts(book)[d])
  BY <1>1, <1>4, DaysFinite, SumChanged
<1> QED
  BY <1>1, <1>2, <1>3, <1>4, <1>5, <1>6, <1>7

\* Both parts of BooksAgree, of one view.
Agrees(book) ==
  /\ book.balance + Invested(book) = Deposit + Realized(book)
  /\ Entries(book) - Exits(book) = Cardinality(Held(book))

LEMMA BooksAgreeIs == BooksAgree <=> Agrees(db) /\ Agrees(session)
BY DEF BooksAgree, BooksBalance, CountsMatchHoldings, Agrees

\* The opening book agrees: nothing is held and nothing was booked.
LEMMA OpeningAgrees == Agrees(OpeningBook)
<1> DEFINE book == OpeningBook
<1>1. /\ book \in Book /\ book.balance = Deposit
      /\ \A d \in Days : book.daily[d] = FreshRow
      /\ \A s \in Symbols : book.pos[s] = NoPosition
  BY OpeningTyped
<1> HIDE DEF book
<1>2. Costs(book) \in [Symbols -> {0}]
  BY <1>1 DEF Costs, NoPosition
<1>3. /\ Profits(book) \in [Days -> {0}] /\ BuyCounts(book) \in [Days -> {0}]
      /\ SellCounts(book) \in [Days -> {0}]
  BY <1>1 DEF Profits, BuyCounts, SellCounts, FreshRow
<1>4. SumFunction(Costs(book)) = 0
  BY <1>2, SymbolsFinite, SumOfZeros
<1>5. /\ SumFunction(Profits(book)) = 0 /\ SumFunction(BuyCounts(book)) = 0
      /\ SumFunction(SellCounts(book)) = 0
  BY <1>3, DaysFinite, SumOfZeros
<1>6. Invested(book) = 0 /\ Realized(book) = 0 /\ Entries(book) = 0 /\ Exits(book) = 0
  BY <1>1, <1>4, <1>5, BookSums
<1>7. Held(book) = {}
  BY <1>1 DEF Held, NoPosition
<1>8. Cardinality(Held(book)) = 0
  BY <1>7, FS_EmptySet
<1> QED
  BY <1>1, <1>6, <1>8, LoopAssumption DEF Agrees, book

\* A sale books its profit and one exit on the row.
LEMMA RowAfterSellBooks ==
  ASSUME NEW row \in Row, NEW pnl \in Int, NEW now \in Nat
  PROVE  /\ RowAfterSell(row, pnl, now).pnl = row.pnl + pnl
         /\ RowAfterSell(row, pnl, now).sells = row.sells + 1
<1> DEFINE booked == [row EXCEPT !.sells = @ + 1, !.pnl = @ + pnl]
<1>1. booked \in Row
  <2>1. \A n \in Nat, m \in Int : [row EXCEPT !.sells = n, !.pnl = m] \in Row
    BY DEF Row
  <2>2. row.sells + 1 \in Nat /\ row.pnl + pnl \in Int
    BY DEF Row
  <2> QED
    BY <2>1, <2>2
<1>2. booked.sells = row.sells + 1 /\ booked.pnl = row.pnl + pnl
  BY DEF Row
<1>3. \/ RowAfterSell(row, pnl, now) = [booked EXCEPT !.losses = 0]
      \/ RowAfterSell(row, pnl, now) = [booked EXCEPT !.losses = @ + 1]
      \/ RowAfterSell(row, pnl, now) = [booked EXCEPT !.losses = 0, !.cooldown = now + CooldownTime]
  BY DEF RowAfterSell, booked
<1> HIDE DEF booked
<1>4. /\ [booked EXCEPT !.losses = 0].pnl = booked.pnl
      /\ [booked EXCEPT !.losses = 0].sells = booked.sells
  BY <1>1 DEF Row
<1>5. /\ [booked EXCEPT !.losses = @ + 1].pnl = booked.pnl
      /\ [booked EXCEPT !.losses = @ + 1].sells = booked.sells
  BY <1>1 DEF Row
<1>6. /\ [booked EXCEPT !.losses = 0, !.cooldown = now + CooldownTime].pnl = booked.pnl
      /\ [booked EXCEPT !.losses = 0, !.cooldown = now + CooldownTime].sells = booked.sells
  BY <1>1 DEF Row
<1> QED
  BY <1>2, <1>3, <1>4, <1>5, <1>6

\* An entry opens a position that there was not.
LEMMA BuyOpens ==
  ASSUME IInv, ExecuteBuy
  PROVE  /\ session.pos[Symbol] = NoPosition /\ order.qty > 0
         /\ session'.pos[Symbol].qty = order.qty
         /\ session'.pos[Symbol].cost = order.price * order.qty
<1>1. /\ session \in Book /\ day \in Days /\ session.daily[day] \in Row
  BY DEF IInv, TypeOK, Book
<1>2. /\ Symbol \in Symbols /\ order.price \in Prices /\ order.qty \in Nat
  BY BuyEffect
<1>3. session.pos[Symbol] = NoPosition /\ order.qty > 0
  BY DEF ExecuteBuy, IInv, CycleShape
<1> DEFINE bought == Bought(session, Symbol, order.price, order.qty)
           row == RowAfterBuy(session.daily[day])
<1>4. /\ bought \in Book /\ bought.daily = session.daily
      /\ bought.pos[Symbol].qty = session.pos[Symbol].qty + order.qty
      /\ bought.pos[Symbol].cost = session.pos[Symbol].cost + order.price * order.qty
      /\ order.price * order.qty \in Nat
  BY <1>1, <1>2, BoughtTyped
<1>5. row \in Row
  BY <1>1, RowAfterBuyTyped
<1>6. session' = [bought EXCEPT !.daily[day] = row]
  BY <1>4 DEF ExecuteBuy
<1> HIDE DEF bought, row
<1>7. session'.pos = bought.pos
  BY <1>1, <1>4, <1>5, <1>6, RowUpdated
<1> QED
  BY <1>2, <1>3, <1>4, <1>7 DEF NoPosition

\* A sale turns the cost of a position and its profit into cash, and counts
\* one exit for one symbol less.
LEMMA SaleAgrees ==
  ASSUME IInv, SellSymbol, Agrees(session)
  PROVE  Agrees(session')
<1>1. /\ session \in Book /\ session' \in Book /\ day \in Days /\ Now \in Nat
      /\ session.daily \in [Days -> Row] /\ session.pos \in [Symbols -> Position]
  BY NextIInv, NowTyped DEF IInv, TypeOK, Book, Next
<1>2. /\ Symbol \in Symbols
      /\ session'.pos = [session.pos EXCEPT ![Symbol] = NoPosition]
  BY SellEffect
<1>3. PICK pnl \in Int :
        /\ session'.balance = session.balance + (session.pos[Symbol].cost + pnl)
        /\ session'.daily = [session.daily EXCEPT ![day] =
                               RowAfterSell(session.daily[day], pnl, Now)]
  BY SellEffect
<1> DEFINE row == session.daily[day]
           new == RowAfterSell(session.daily[day], pnl, Now)
<1>4. row \in Row /\ new \in Row /\ new.buys = row.buys
  BY <1>1, RowAfterSellTyped
<1>5. new.pnl = row.pnl + pnl /\ new.sells = row.sells + 1
  BY <1>1, RowAfterSellBooks
<1>6. session'.daily[day] = new /\ \A e \in Days : e # day => session'.daily[e] = session.daily[e]
  BY <1>1, <1>3
<1>7. /\ session'.pos[Symbol] = NoPosition
      /\ \A t \in Symbols : t # Symbol => session'.pos[t] = session.pos[t]
  BY <1>1, <1>2
<1> HIDE DEF new, row
<1>8. /\ Invested(session) \in Int
      /\ Invested(session') = Invested(session) + (0 - session.pos[Symbol].cost)
  <2>1. /\ Invested(session) \in Int
        /\ Invested(session')
             = Invested(session) + (session'.pos[Symbol].cost - session.pos[Symbol].cost)
    BY <1>1, <1>2, <1>7, InvestedChanged
  <2> QED
    BY <1>7, <2>1 DEF NoPosition
<1>9. /\ Realized(session) \in Int /\ Entries(session) \in Int /\ Exits(session) \in Int
      /\ Realized(session') = Realized(session) + (new.pnl - row.pnl)
      /\ Entries(session') = Entries(session) + (new.buys - row.buys)
      /\ Exits(session') = Exits(session) + (new.sells - row.sells)
  BY <1>1, <1>6, DailyChanged DEF row
<1>10. session.balance \in Int /\ session.pos[Symbol].cost \in Int
  BY <1>1, <1>2 DEF Book, Position
<1>11. row.pnl \in Int /\ row.buys \in Int /\ row.sells \in Int
  BY <1>4 DEF Row
<1>12. session'.balance + Invested(session') = Deposit + Realized(session')
  <2>1. session.balance + Invested(session) = Deposit + Realized(session)
    BY DEF Agrees
  <2>2. Deposit \in Int
    BY LoopAssumption
  <2>3. session'.balance = session.balance + (session.pos[Symbol].cost + pnl)
    BY <1>3
  <2>4. Realized(session') = Realized(session) + pnl
    BY <1>5, <1>9, <1>11
  <2> QED
    BY <1>8, <1>9, <1>10, <2>1, <2>2, <2>3, <2>4
<1>13. Cardinality(Held(session')) = Cardinality(Held(session)) - 1
  <2>1. session.pos[Symbol].qty > 0
    BY DEF SellSymbol
  <2>2. Symbol \in Held(session)
    BY <1>2, <2>1 DEF Held
  <2>3. Held(session') = Held(session) \ {Symbol}
    BY <1>7 DEF Held, NoPosition
  <2> QED
    BY <2>2, <2>3, HeldFinite, FS_RemoveElement
<1>14. Entries(session') - Exits(session') = Cardinality(Held(session'))
  BY <1>4, <1>5, <1>9, <1>11, <1>13 DEF Agrees
<1> QED
  BY <1>12, <1>14 DEF Agrees

\* An entry turns cash into the cost of a position, and counts one entry for
\* one symbol more.
LEMMA EntryAgrees ==
  ASSUME IInv, ExecuteBuy, Agrees(session)
  PROVE  Agrees(session')
<1>1. /\ session \in Book /\ session' \in Book /\ day \in Days
      /\ session.daily \in [Days -> Row] /\ session.pos \in [Symbols -> Position]
  BY NextIInv DEF IInv, TypeOK, Book, Next
<1>2. /\ Symbol \in Symbols /\ order.price \in Nat /\ order.qty \in Nat
      /\ session'.balance = session.balance - order.price * order.qty
      /\ \A t \in Symbols \ {Symbol} : session'.pos[t] = session.pos[t]
      /\ session'.daily = [session.daily EXCEPT ![day] = RowAfterBuy(session.daily[day])]
  BY BuyEffect, LoopAssumption
<1>3. /\ session.pos[Symbol] = NoPosition /\ order.qty > 0
      /\ session'.pos[Symbol].qty = order.qty
      /\ session'.pos[Symbol].cost = order.price * order.qty
  BY BuyOpens
<1> DEFINE row == session.daily[day]
           new == RowAfterBuy(session.daily[day])
           spent == order.price * order.qty
<1>4. row \in Row /\ new.buys = row.buys + 1 /\ new.pnl = row.pnl /\ new.sells = row.sells
  <2>1. row \in Row
    BY <1>1
  <2> QED
    BY <2>1 DEF RowAfterBuy, Row
<1>5. session'.daily[day] = new /\ \A e \in Days : e # day => session'.daily[e] = session.daily[e]
  BY <1>1, <1>2
<1>6. spent \in Int
  BY <1>2, ProductTyped
<1> HIDE DEF new, row, spent
<1>7. /\ Invested(session) \in Int
      /\ Invested(session') = Invested(session) + spent
  <2>1. /\ Invested(session) \in Int
        /\ Invested(session')
             = Invested(session) + (session'.pos[Symbol].cost - session.pos[Symbol].cost)
    BY <1>1, <1>2, InvestedChanged
  <2>2. session'.pos[Symbol].cost = spent /\ session.pos[Symbol].cost = 0
    BY <1>3 DEF NoPosition, spent
  <2> QED
    BY <1>6, <2>1, <2>2
<1>8. /\ Realized(session) \in Int /\ Entries(session) \in Int /\ Exits(session) \in Int
      /\ Realized(session') = Realized(session) + (new.pnl - row.pnl)
      /\ Entries(session') = Entries(session) + (new.buys - row.buys)
      /\ Exits(session') = Exits(session) + (new.sells - row.sells)
  BY <1>1, <1>5, DailyChanged DEF row
<1>9. /\ session.balance \in Int /\ row.pnl \in Int /\ row.buys \in Int /\ row.sells \in Int
  BY <1>1, <1>4 DEF Book, Row
<1>10. session'.balance + Invested(session') = Deposit + Realized(session')
  <2>1. session.balance + Invested(session) = Deposit + Realized(session)
    BY DEF Agrees
  <2>2. Deposit \in Int
    BY LoopAssumption
  <2>3. session'.balance = session.balance - spent
    BY <1>2 DEF spent
  <2>4. Realized(session') = Realized(session)
    BY <1>4, <1>8, <1>9
  <2> QED
    BY <1>6, <1>7, <1>8, <1>9, <2>1, <2>2, <2>3, <2>4
<1>11. Cardinality(Held(session')) = Cardinality(Held(session)) + 1
  <2>1. Symbol \notin Held(session)
    BY <1>3 DEF Held, NoPosition
  <2>2. Held(session') = Held(session) \cup {Symbol}
    BY <1>2, <1>3 DEF Held
  <2> QED
    BY <2>1, <2>2, HeldFinite, FS_AddElement
<1>12. Cardinality(Held(session)) \in Nat
  BY HeldFinite, FS_CardinalityType
<1>13. Entries(session') - Exits(session') = Cardinality(Held(session'))
  BY <1>4, <1>8, <1>9, <1>11, <1>12 DEF Agrees
<1> QED
  BY <1>10, <1>13 DEF Agrees

\* A halt books nothing.
LEMMA HaltAgrees ==
  ASSUME IInv, HaltDay, Agrees(session)
  PROVE  Agrees(session')
<1>1. /\ session \in Book /\ session' \in Book /\ day \in Days /\ session.daily \in [Days -> Row]
  BY NextIInv DEF IInv, TypeOK, Book, Next
<1>2. /\ session'.balance = session.balance /\ session'.pos = session.pos
      /\ session'.daily = [session.daily EXCEPT ![day].halted = TRUE]
  BY <1>1 DEF HaltDay, Book
<1>3. /\ session'.daily[day].pnl = session.daily[day].pnl
      /\ session'.daily[day].buys = session.daily[day].buys
      /\ session'.daily[day].sells = session.daily[day].sells
      /\ \A e \in Days : e # day => session'.daily[e] = session.daily[e]
  BY <1>1, <1>2 DEF Row
<1>4. /\ Realized(session) \in Int /\ Entries(session) \in Int /\ Exits(session) \in Int
      /\ Realized(session') = Realized(session) + (session'.daily[day].pnl - session.daily[day].pnl)
      /\ Entries(session') = Entries(session) + (session'.daily[day].buys - session.daily[day].buys)
      /\ Exits(session') = Exits(session) + (session'.daily[day].sells - session.daily[day].sells)
  BY <1>1, <1>3, DailyChanged
<1>5. /\ session.daily[day].pnl \in Int /\ session.daily[day].buys \in Int
      /\ session.daily[day].sells \in Int
  BY <1>1 DEF Row
<1>6. /\ Realized(session') = Realized(session) /\ Entries(session') = Entries(session)
      /\ Exits(session') = Exits(session)
  BY <1>3, <1>4, <1>5
<1>7. Invested(session') = Invested(session) /\ Held(session') = Held(session)
  BY <1>2 DEF Invested, Held
<1> QED
  BY <1>2, <1>6, <1>7 DEF Agrees

\* No step leaves the books in disagreement.
LEMMA NextBooks == IInv /\ BooksAgree /\ [Next]_vars => BooksAgree'
<1> SUFFICES ASSUME IInv, BooksAgree, [Next]_vars PROVE BooksAgree'
  OBVIOUS
<1>1. Agrees(db) /\ Agrees(session)
  BY BooksAgreeIs
<1>2. Agrees(session')
  <2>1. CASE ~SellSymbol /\ ~HaltDay /\ ~ExecuteBuy
    <3>1. session' = session \/ session' = db
      BY <2>1, OtherSteps
    <3> QED
      BY <1>1, <3>1
  <2> QED
    BY <1>1, <2>1, SaleAgrees, HaltAgrees, EntryAgrees
<1>3. Agrees(db')
  <2>1. db' = db \/ db' = session
    BY CommittedSteps
  <2> QED
    BY <1>1, <2>1
<1> QED
  BY <1>2, <1>3 DEF BooksAgree, BooksBalance, CountsMatchHoldings, Agrees

\* The balance, the positions and the daily rows account for one another in
\* every committed and every session view, whatever a trade, a rollback, a
\* crash or a midnight comes between (engine/executor.py, engine/risk_manager.py).
THEOREM Bookkeeping == Spec => []BooksAgree
<1>1. Init => BooksAgree
  BY OpeningAgrees, BooksAgreeIs DEF Init
<1> QED
  BY <1>1, NextBooks, Invariance, PTL DEF Spec

=============================================================================
