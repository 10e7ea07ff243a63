----------------------------- MODULE LedgerBooks -----------------------------
(***************************************************************************)
(* The reads of the ledger (backend/app/services/ledger_service.py) over   *)
(* the tables the payment API writes.                                      *)
(***************************************************************************)
EXTENDS Payments, FiniteSetsExt

Total(rows) == MapThenSumSet(LAMBDA x : x.amount, rows)

\* Mutant: the currency is left out of the WHERE clause.
GetBalanceAnyCurrency(m, cur) ==
    Total({e \in ledger : e.merchant = m /\ e.type = "CREDIT" /\ e.account = "MERCHANT"})

\* get_balance: SUM(amount) of the merchant's credits in one currency.
GetBalance(m, cur) ==
    Total({e \in ledger : e.merchant = m /\ e.currency = cur
                          /\ e.type = "CREDIT" /\ e.account = "MERCHANT"})

\* The balance a merchant is shown is the money of its SUCCEEDED payments in
\* that currency, at every moment and with confirms in flight.
BalanceIsSucceeded ==
    \A m \in Merchants, cur \in Currencies :
        GetBalance(m, cur) =
            Total({row \in {intents[i] : i \in Intents} \ {None} :
                      row.merchant = m /\ row.currency = cur /\ row.status = "SUCCEEDED"})

\* "SUM(DEBIT) == SUM(CREDIT) must always hold", over the whole table and for
\* each merchant and currency of it.
BooksBalance ==
    \A m \in Merchants, cur \in Currencies :
        LET of(type) == {e \in ledger : e.merchant = m /\ e.currency = cur /\ e.type = type}
        IN  Total(of("DEBIT")) = Total(of("CREDIT"))
=============================================================================
