----------------------------- MODULE MCPayments -----------------------------
(***************************************************************************)
(* Instances of Payments and LedgerBooks for TLC.  Each run chooses the    *)
(* calls its clients make, so that the interesting ones meet within a few  *)
(* requests.                                                               *)
(***************************************************************************)
EXTENDS LedgerBooks, PaymentsInvariant, TLC

CONSTANTS m1, m2, k1, usd, eur

Symmetry == Permutations(Requests)

Creates(ms, ks, as) ==
    [op : {"create"}, merchant : ms, key : ks, amount : as, currency : Currencies]
Confirms(ms, ks) ==
    [op : {"confirm"}, merchant : ms, key : ks, intent : Requests]

\* A client that sends the header without a value.
EmptyKeyCalls == Creates({m1}, {EmptyKey}, {10})

\* Two merchants that use the same key, also for several intents, and know the
\* ids of each other's intents; one of them also confirms without a key, so that
\* the row lock and the status have to hold what the cache lets through.
ClientCalls == Creates({m1}, {None, k1}, {10}) \cup Creates({m2}, {k1}, {10})
                 \cup Confirms({m1}, {None, k1}) \cup Confirms({m2}, {k1})

\* Payments of several merchants, amounts and currencies, with every outcome of
\* the bank and of the INSERT: 99 is more than its column holds, k1 is longer.
BookCalls ==
    {[op |-> "create", merchant |-> m, key |-> k, amount |-> a, currency |-> cur] :
        <<m, k, a, cur>> \in {<<m1, None, 10, usd>>, <<m1, None, 20, eur>>,
                              <<m1, None, 11, usd>>, <<m1, None, 12, usd>>,
                              <<m1, None, 99, usd>>, <<m2, k1, 10, usd>>,
                              <<m2, EmptyKey, 10, usd>>}}
      \cup Confirms({m1, m2}, {None})
=============================================================================
