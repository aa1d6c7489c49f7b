-------------------------------- MODULE Ledger --------------------------------
(***************************************************************************)
(* What the paper account promises: cash and holdings move together, one   *)
(* whole trade at a time at a market price, trades are made in batches,    *)
(* and a batch becomes visible as a whole or leaves no trace.  TradingLoop *)
(* implements this specification.                                          *)
(***************************************************************************)
EXTENDS Integers

CONSTANTS Symbols,   \* the traded symbols
          Prices,    \* the prices a trade can be filled at
          Deposit    \* the initial balance

VARIABLES settled,   \* what every other reader of the database sees
          working,   \* settled plus the trades of the batch in progress
          open       \* whether a batch is in progress

ledgerVars == <<settled, working, open>>

Nothing == [qty |-> 0, cost |-> 0]

Opening == [cash |-> Deposit, hold |-> [s \in Symbols |-> Nothing]]

Init == settled = Opening /\ working = Opening /\ open = FALSE

Begin ==
  /\ ~open
  /\ open' = TRUE
  /\ UNCHANGED <<settled, working>>

\* A purchase opens a holding, paid in full from the cash at hand.
Buy(s, price, qty) ==
  /\ open
  /\ working.hold[s] = Nothing
  /\ price * qty <= working.cash
  /\ working' = [cash |-> working.cash - price * qty,
                 hold |-> [working.hold EXCEPT
                             ![s] = [qty |-> qty, cost |-> price * qty]]]
  /\ UNCHANGED <<settled, open>>

\* A sale closes a holding as a whole.
Sell(s, price) ==
  /\ open
  /\ working.hold[s] # Nothing
  /\ working' = [cash |-> working.cash + price * working.hold[s].qty,
                 hold |-> [working.hold EXCEPT ![s] = Nothing]]
  /\ UNCHANGED <<settled, open>>

Settle ==
  /\ open
  /\ settled' = working /\ open' = FALSE
  /\ UNCHANGED working

Abandon ==
  /\ open
  /\ working' = settled /\ open' = FALSE
  /\ UNCHANGED settled

Next ==
  \/ Begin
  \/ Settle
  \/ Abandon
  \/ \E s \in Symbols :
       /\ working'.hold[s] # working.hold[s]
       /\ \E price \in Prices :
            \/ Sell(s, price)
            \/ \E qty \in 1 .. working.cash : Buy(s, price, qty)

Spec == Init /\ [][Next]_ledgerVars

=============================================================================
