-------------------------- MODULE LedgerBooksProofs --------------------------
(***************************************************************************)
(* Proofs about the sums of the ledger, for every number of payments,      *)
(* merchants, currencies and amounts: the balance a merchant is shown is   *)
(* the money of its SUCCEEDED payments, and debits equal credits.          *)
(*                                                                         *)
(* Total is a fold: it takes the rows one after the other, in an order     *)
(* that CHOOSE fixes.  The first part shows that the order does not        *)
(* matter, by a smallest set for which it would; the second that each      *)
(* success adds its amount to all the sums that are compared.              *)
(***************************************************************************)
EXTENDS LedgerBooks, PaymentsProofs, FiniteSetTheorems

-----------------------------------------------------------------------------
(* Sums over finite sets. *)

\* A set of subsets of a finite set has a least one.
LEMMA LeastSet ==
    ASSUME NEW S, IsFiniteSet(S), NEW B \in SUBSET SUBSET S, B # {}
    PROVE  \E T \in B : \A U \in B : U \subseteq T => U = T
<1>1. B \subseteq FiniteSubsetsOf(S)
  BY FS_Subset DEF FiniteSubsetsOf
<1>2. PICK T \in B : \A U \in B : ~(<<U, T>> \in StrictSubsetOrdering(S))
  BY <1>1, FS_StrictSubsetOrderingWellFounded, WFMin
<1>3. ASSUME NEW U \in B, U \subseteq T, U # T PROVE FALSE
  BY <1>2, <1>3 DEF StrictSubsetOrdering
<1> QED BY <1>3

\* The row that the fold takes next.
Pick(s) == CHOOSE x \in s : TRUE

\* g adds up each subset of S as Total does.
Adds(g, S) ==
    g = [s \in SUBSET S |-> IF s = {} THEN 0 ELSE Pick(s).amount + g[s \ {Pick(s)}]]

Adding(S) == CHOOSE g : Adds(g, S)

\* The fold is such a function.
LEMMA TotalIsAdding == ASSUME NEW S PROVE Total(S) = Adding(S)[S]
  BY DEF Total, MapThenSumSet, MapThenFoldSet, Adding, Adds, Pick

LEMMA PickIn == \A s : s # {} => Pick(s) \in s
  BY DEF Pick

\* Two such functions agree on what both are defined for.
LEMMA AddsAgree ==
    ASSUME NEW S, NEW T, NEW g, NEW h, Adds(g, S), Adds(h, T),
           NEW V, V \subseteq S, V \subseteq T, IsFiniteSet(V)
    PROVE  g[V] = h[V]
<1> DEFINE B == {U \in SUBSET V : g[U] # h[U]}
<1>1. SUFFICES ASSUME B # {} PROVE FALSE
  OBVIOUS
<1>2. PICK U \in B : \A W \in B : W \subseteq U => W = U
  <2> HIDE DEF B
  <2>1. B \in SUBSET SUBSET V
    BY DEF B
  <2> QED BY <1>1, <2>1, LeastSet
<1>3. /\ U \in SUBSET S /\ U \in SUBSET T /\ g[U] # h[U]
      /\ g[U] = IF U = {} THEN 0 ELSE Pick(U).amount + g[U \ {Pick(U)}]
      /\ h[U] = IF U = {} THEN 0 ELSE Pick(U).amount + h[U \ {Pick(U)}]
  BY DEF Adds
<1>4. U # {}
  BY <1>3
<1>5. U \ {Pick(U)} \in SUBSET V /\ U \ {Pick(U)} # U
  BY <1>4, PickIn
<1>6. g[U \ {Pick(U)}] = h[U \ {Pick(U)}]
  BY <1>2, <1>5
<1> QED BY <1>3, <1>4, <1>6

\* There is one for every finite set.
LEMMA AddsExists == ASSUME NEW S, IsFiniteSet(S) PROVE Adds(Adding(S), S)
<1> DEFINE B == {T \in SUBSET S : ~Adds(Adding(T), T)}
<1>1. SUFFICES ASSUME B # {} PROVE FALSE
  OBVIOUS
<1>2. PICK T \in B : \A U \in B : U \subseteq T => U = T
  <2> HIDE DEF B
  <2>1. B \in SUBSET SUBSET S
    BY DEF B
  <2> QED BY <1>1, <2>1, LeastSet
<1>3. T \in SUBSET S /\ IsFiniteSet(T)
  BY FS_Subset
<1>4. ASSUME NEW U \in SUBSET T, U # T
      PROVE  Adds(Adding(U), U) /\ IsFiniteSet(U)
  <2>1. U \in SUBSET S /\ U \notin B
    BY <1>2, <1>3, <1>4
  <2> QED BY <1>3, <2>1, FS_Subset
<1>5. ASSUME NEW U \in SUBSET T, U # T
      PROVE  Adding(U)[U] = IF U = {} THEN 0
                            ELSE Pick(U).amount + Adding(U \ {Pick(U)})[U \ {Pick(U)}]
  <2>1. Adding(U)[U] = IF U = {} THEN 0 ELSE Pick(U).amount + Adding(U)[U \ {Pick(U)}]
    BY <1>4, <1>5 DEF Adds
  <2>2. CASE U # {}
    <3> DEFINE V == U \ {Pick(U)}
    <3>1. V \in SUBSET T /\ V # T /\ V \subseteq U
      BY <1>5
    <3>2. Adds(Adding(V), V) /\ IsFiniteSet(V) /\ Adds(Adding(U), U)
      BY <1>4, <1>5, <3>1
    <3>3. Adding(U)[V] = Adding(V)[V]
      <4> HIDE DEF V
      <4> QED BY <3>1, <3>2, AddsAgree
    <3> QED BY <2>1, <2>2, <3>3
  <2> QED BY <2>1, <2>2
<1> DEFINE g == [s \in SUBSET T |->
                    IF s = {} THEN 0
                    ELSE Pick(s).amount + Adding(s \ {Pick(s)})[s \ {Pick(s)}]]
<1>6. ASSUME NEW s \in SUBSET T, s # {}
      PROVE  g[s \ {Pick(s)}] = Adding(s \ {Pick(s)})[s \ {Pick(s)}]
  <2>1. s \ {Pick(s)} \in SUBSET T /\ s \ {Pick(s)} # T
    BY <1>6, PickIn
  <2> DEFINE U == s \ {Pick(s)}
  <2>2. g[U] = IF U = {} THEN 0 ELSE Pick(U).amount + Adding(U \ {Pick(U)})[U \ {Pick(U)}]
    BY <2>1
  <2> HIDE DEF U, g
  <2> QED BY <1>5, <2>1, <2>2 DEF U
<1>7. Adds(g, T)
  BY <1>6 DEF Adds
<1>8. Adds(Adding(T), T)
  <2> HIDE DEF g
  <2> QED BY <1>7 DEF Adding
<1> QED BY <1>2, <1>8

\* The sum of no rows is 0, ...
LEMMA TotalEmpty == Total({}) = 0
<1>1. Adds(Adding({}), {})
  BY FS_EmptySet, AddsExists
<1> QED BY <1>1, TotalIsAdding DEF Adds

\* ... of others it is the amount of one of them and the sum of the rest, ...
LEMMA TotalPick ==
    ASSUME NEW S, IsFiniteSet(S), S # {}
    PROVE  Total(S) = Pick(S).amount + Total(S \ {Pick(S)})
<1> DEFINE V == S \ {Pick(S)}
<1>1. IsFiniteSet(V) /\ V \subseteq S
  BY FS_RemoveElement
<1>2. Adds(Adding(S), S) /\ Adds(Adding(V), V)
  BY <1>1, AddsExists
<1>3. Adding(S)[V] = Adding(V)[V]
  BY <1>1, <1>2, AddsAgree
<1>4. Adding(S)[S] = Pick(S).amount + Adding(S)[V]
  BY <1>2 DEF Adds
<1> QED BY <1>3, <1>4, TotalIsAdding

\* ... so it is a number ...
LEMMA TotalType ==
    ASSUME NEW S, IsFiniteSet(S), \A x \in S : x.amount \in Nat
    PROVE  Total(S) \in Nat
<1> DEFINE B == {T \in SUBSET S : Total(T) \notin Nat}
<1>1. SUFFICES ASSUME B # {} PROVE FALSE
  OBVIOUS
<1>2. PICK T \in B : \A U \in B : U \subseteq T => U = T
  <2> HIDE DEF B
  <2>1. B \in SUBSET SUBSET S
    BY DEF B
  <2> QED BY <1>1, <2>1, LeastSet
<1>3. T \in SUBSET S /\ IsFiniteSet(T) /\ T # {}
  <2>1. T \in SUBSET S /\ IsFiniteSet(T)
    BY FS_Subset
  <2>2. Total(T) \notin Nat
    OBVIOUS
  <2> QED BY <2>1, <2>2, TotalEmpty
<1>4. T \ {Pick(T)} \in SUBSET S /\ T \ {Pick(T)} # T /\ Pick(T) \in S
  BY <1>3, PickIn
<1>5. Total(T \ {Pick(T)}) \in Nat
  BY <1>2, <1>4
<1>6. Total(T) \in Nat
  BY <1>3, <1>4, <1>5, TotalPick
<1> QED BY <1>2, <1>6

\* ... and any of the rows may be taken first.
LEMMA TotalRemove ==
    ASSUME NEW S, IsFiniteSet(S), \A x \in S : x.amount \in Nat, NEW e \in S
    PROVE  Total(S) = e.amount + Total(S \ {e})
<1> DEFINE Wrong(T) == \E x \in T : Total(T) # x.amount + Total(T \ {x})
           B == {T \in SUBSET S : Wrong(T)}
<1>1. SUFFICES ASSUME B # {} PROVE FALSE
  OBVIOUS
<1>2. PICK T \in B : \A U \in B : U \subseteq T => U = T
  <2> HIDE DEF B
  <2>1. B \in SUBSET SUBSET S
    BY DEF B
  <2> QED BY <1>1, <2>1, LeastSet
<1>3. PICK x \in T : Total(T) # x.amount + Total(T \ {x})
  OBVIOUS
<1> DEFINE c == Pick(T)
<1>4. T \in SUBSET S /\ IsFiniteSet(T) /\ T # {} /\ c \in T
  BY <1>3, FS_Subset, PickIn
<1>5. Total(T) = c.amount + Total(T \ {c})
  BY <1>4, TotalPick
<1>6. x # c
  BY <1>3, <1>5
<1>7. /\ ~Wrong(T \ {c}) /\ x \in T \ {c}
      /\ ~Wrong(T \ {x}) /\ c \in T \ {x}
  <2>1. /\ T \ {c} \in SUBSET S /\ T \ {c} # T /\ T \ {c} \subseteq T
        /\ T \ {x} \in SUBSET S /\ T \ {x} # T /\ T \ {x} \subseteq T
    BY <1>4
  <2>2. \A U \in SUBSET S : U \subseteq T /\ U # T => ~Wrong(U)
    BY <1>2
  <2> HIDE DEF Wrong, B, c
  <2> QED BY <1>4, <1>6, <2>1, <2>2
<1>8. /\ Total(T \ {c}) = x.amount + Total((T \ {c}) \ {x})
      /\ Total(T \ {x}) = c.amount + Total((T \ {x}) \ {c})
  BY <1>7
<1> DEFINE rest == Total((T \ {c}) \ {x})
<1>9. Total((T \ {x}) \ {c}) = rest
  <2>1. (T \ {c}) \ {x} = (T \ {x}) \ {c}
    OBVIOUS
  <2> QED BY <2>1
<1>10. rest \in Nat /\ x.amount \in Nat /\ c.amount \in Nat
  <2>1. IsFiniteSet((T \ {c}) \ {x}) /\ \A y \in (T \ {c}) \ {x} : y.amount \in Nat
    BY <1>4, FS_Subset
  <2> HIDE DEF c
  <2> QED BY <1>4, <2>1, TotalType
<1>11. Total(T) = x.amount + Total(T \ {x})
  <2>1. Total(T) = c.amount + (x.amount + rest) /\ Total(T \ {x}) = c.amount + rest
    BY <1>5, <1>8, <1>9
  <2> HIDE DEF c, rest
  <2> QED BY <1>10, <2>1
<1> QED BY <1>3, <1>11

\* One more row adds its amount.
LEMMA TotalAdd ==
    ASSUME NEW S, IsFiniteSet(S), \A x \in S : x.amount \in Nat,
           NEW e, e \notin S, e.amount \in Nat
    PROVE  Total(S \cup {e}) = Total(S) + e.amount
<1>1. IsFiniteSet(S \cup {e}) /\ (S \cup {e}) \ {e} = S /\ \A x \in S \cup {e} : x.amount \in Nat
  BY FS_AddElement
<1>2. Total(S \cup {e}) = e.amount + Total(S)
  BY <1>1, TotalRemove
<1> QED BY <1>2, TotalType

-----------------------------------------------------------------------------
(* The books. *)

\* The sums that the properties speak of, by the rows they add up.
Entries(m, cur, type) ==
    {e \in ledger : e.merchant = m /\ e.currency = cur /\ e.type = type}

Credits(m, cur) ==
    {e \in ledger : e.merchant = m /\ e.currency = cur
                    /\ e.type = "CREDIT" /\ e.account = "MERCHANT"}

Paid(m, cur) ==
    {row \in {intents[i] : i \in Intents} \ {None} :
        row.merchant = m /\ row.currency = cur /\ row.status = "SUCCEEDED"}

\* Only finitely many rows are there to add up, and the sums agree.
BooksInv ==
    /\ IsFiniteSet(ledger)
    /\ \A m \in Merchants, cur \in Currencies :
          /\ IsFiniteSet(Paid(m, cur))
          /\ Total(Credits(m, cur)) = Total(Paid(m, cur))
          /\ Total(Entries(m, cur, "DEBIT")) = Total(Entries(m, cur, "CREDIT"))

LEMMA BooksInit == Init => BooksInv
<1> SUFFICES ASSUME Init PROVE BooksInv
  OBVIOUS
<1>1. ledger = {} /\ \A i \in Intents : intents[i] = None
  BY DEF Init
<1>2. ASSUME NEW m, NEW cur
      PROVE  /\ Paid(m, cur) = {} /\ Credits(m, cur) = {}
             /\ Entries(m, cur, "DEBIT") = {} /\ Entries(m, cur, "CREDIT") = {}
  BY <1>1 DEF Paid, Credits, Entries
<1> QED BY <1>1, <1>2, FS_EmptySet DEF BooksInv

\* The amounts that are added up are numbers.
LEMMA BooksAmounts ==
    ASSUME TypeOK, BooksInv, NEW m \in Merchants, NEW cur \in Currencies,
           NEW type \in {"DEBIT", "CREDIT"}
    PROVE  /\ IsFiniteSet(Credits(m, cur)) /\ \A e \in Credits(m, cur) : e.amount \in Nat
           /\ IsFiniteSet(Entries(m, cur, type))
           /\ \A e \in Entries(m, cur, type) : e.amount \in Nat
           /\ IsFiniteSet(Paid(m, cur)) /\ \A row \in Paid(m, cur) : row.amount \in Nat
<1>1. \A e \in ledger : e.amount \in Nat
  BY AmountsAssumption DEF TypeOK, Entry
<1>2. \A i \in Intents : intents[i] # None => intents[i].amount \in Nat
  BY AmountsAssumption DEF TypeOK, Row
<1>3. Credits(m, cur) \subseteq ledger /\ Entries(m, cur, type) \subseteq ledger
  BY DEF Credits, Entries
<1>4. \A row \in Paid(m, cur) : row.amount \in Nat
  BY <1>2 DEF Paid
<1> QED BY <1>1, <1>3, <1>4, FS_Subset DEF BooksInv

\* The rows that are there to be paid out change only when a row succeeds.
LEMMA PaidKept ==
    ASSUME TypeOK, NEW i \in Intents, NEW row \in Row, intents' = [intents EXCEPT ![i] = row],
           intents[i] # None => intents[i].status # "SUCCEEDED", row.status # "SUCCEEDED",
           NEW m, NEW cur
    PROVE  Paid(m, cur)' = Paid(m, cur)
<1>1. intents'[i] = row /\ \A j \in Intents \ {i} : intents'[j] = intents[j]
  BY DEF TypeOK
<1>2. Paid(m, cur)' \subseteq Paid(m, cur)
  BY <1>1 DEF Paid
<1>3. Paid(m, cur) \subseteq Paid(m, cur)'
  BY <1>1 DEF Paid
<1> QED BY <1>2, <1>3

\* A success adds its amount to the debits, to the credits and to the balance of
\* its merchant in its currency, and to no other.
LEMMA SuccessStep ==
    ASSUME CoreInv, SettlementAtomic, BooksInv, NEW r \in Requests, NEW i \in Intents,
           intents[i] # None, intents[i].status = "CREATED",
           NEW row \in Row, row.id = i, row.status = "SUCCEEDED",
           intents' = [intents EXCEPT ![i] = row],
           ledger' = ledger \cup DoubleEntry(r, row)
    PROVE  BooksInv'
<1>1. TypeOK
  BY DEF CoreInv
<1>2. /\ row.amount \in Nat
      /\ row.merchant \in Merchants /\ row.currency \in Currencies
  BY AmountsAssumption DEF Row
<1> DEFINE debit == [by |-> r, intent |-> row.id, merchant |-> row.merchant,
                     type |-> "DEBIT", account |-> "CUSTOMER",
                     amount |-> row.amount, currency |-> row.currency]
           credit == [by |-> r, intent |-> row.id, merchant |-> row.merchant,
                      type |-> "CREDIT", account |-> "MERCHANT",
                      amount |-> row.amount, currency |-> row.currency]
<1>3. ledger' = (ledger \cup {debit}) \cup {credit}
  BY DEF DoubleEntry
<1>4. debit \notin ledger /\ credit \notin ledger
  <2>1. {e \in ledger : e.intent = i} = {}
    BY <1>1 DEF SettlementAtomic, EntriesOf
  <2>2. debit.intent = i /\ credit.intent = i
    BY <1>2
  <2> HIDE DEF debit, credit
  <2> QED BY <2>1, <2>2
<1>5. IsFiniteSet(ledger)'
  <2> HIDE DEF debit, credit
  <2>1. IsFiniteSet(ledger \cup {debit})
    BY FS_AddElement DEF BooksInv
  <2>2. IsFiniteSet((ledger \cup {debit}) \cup {credit})
    BY <2>1, FS_AddElement
  <2> QED BY <1>3, <2>2
<1>6. ASSUME NEW m \in Merchants, NEW cur \in Currencies
      PROVE  (/\ IsFiniteSet(Paid(m, cur))
              /\ Total(Credits(m, cur)) = Total(Paid(m, cur))
              /\ Total(Entries(m, cur, "DEBIT")) = Total(Entries(m, cur, "CREDIT")))'
  <2>1. /\ IsFiniteSet(Paid(m, cur))
        /\ Total(Credits(m, cur)) = Total(Paid(m, cur))
        /\ Total(Entries(m, cur, "DEBIT")) = Total(Entries(m, cur, "CREDIT"))
    BY DEF BooksInv
  <2>2. /\ debit.merchant = row.merchant /\ debit.currency = row.currency
        /\ debit.type = "DEBIT" /\ debit.amount = row.amount
        /\ credit.merchant = row.merchant /\ credit.currency = row.currency
        /\ credit.type = "CREDIT" /\ credit.account = "MERCHANT" /\ credit.amount = row.amount
    OBVIOUS
  <2>3. \A j \in Intents \ {i} : intents[j] # row
    <3> SUFFICES ASSUME NEW j \in Intents \ {i}, intents[j] = row PROVE FALSE
      OBVIOUS
    <3>1. intents[j] # None /\ intents[j].id = i
      BY <1>2, NoneAssumption
    <3> QED BY <3>1 DEF CoreInv, RowInv
  <2>4. IF row.merchant = m /\ row.currency = cur
        THEN Paid(m, cur)' = Paid(m, cur) \cup {row} /\ row \notin Paid(m, cur)
        ELSE Paid(m, cur)' = Paid(m, cur)
    <3> HIDE DEF debit, credit
    <3> DEFINE new == IF row.merchant = m /\ row.currency = cur THEN {row} ELSE {}
    <3>1. intents'[i] = row /\ \A j \in Intents \ {i} : intents'[j] = intents[j]
      BY <1>1 DEF TypeOK
    <3>2. row # None /\ row.status = "SUCCEEDED" /\ intents[i].status # "SUCCEEDED"
      BY <1>2, NoneAssumption
    <3>3. row \notin Paid(m, cur)
      BY <2>3, <3>2 DEF Paid
    <3>4. Paid(m, cur)' \subseteq Paid(m, cur) \cup new
      BY <3>1 DEF Paid
    <3>5. Paid(m, cur) \cup new \subseteq Paid(m, cur)'
      BY <3>1, <3>2 DEF Paid
    <3> QED BY <3>3, <3>4, <3>5
  <2> HIDE DEF debit, credit
  <2>5. CASE row.merchant = m /\ row.currency = cur
    <3>1. /\ Credits(m, cur)' = Credits(m, cur) \cup {credit}
          /\ credit \notin Credits(m, cur)
      BY <1>3, <1>4, <2>2, <2>5 DEF Credits
    <3>2. /\ Entries(m, cur, "DEBIT")' = Entries(m, cur, "DEBIT") \cup {debit}
          /\ debit \notin Entries(m, cur, "DEBIT")
      BY <1>3, <1>4, <2>2, <2>5 DEF Entries
    <3>3. /\ Entries(m, cur, "CREDIT")' = Entries(m, cur, "CREDIT") \cup {credit}
          /\ credit \notin Entries(m, cur, "CREDIT")
      BY <1>3, <1>4, <2>2, <2>5 DEF Entries
    <3>4. Total(Credits(m, cur) \cup {credit}) = Total(Credits(m, cur)) + row.amount
      BY <1>1, <1>2, <2>2, <3>1, BooksAmounts, TotalAdd
    <3>5. Total(Paid(m, cur) \cup {row}) = Total(Paid(m, cur)) + row.amount
      <4>1. IsFiniteSet(Paid(m, cur)) /\ \A x \in Paid(m, cur) : x.amount \in Nat
        BY <1>1, BooksAmounts
      <4>2. row \notin Paid(m, cur)
        BY <2>4, <2>5
      <4> QED BY <1>2, <4>1, <4>2, TotalAdd, Zenon
    <3>6. Total(Entries(m, cur, "DEBIT") \cup {debit})
            = Total(Entries(m, cur, "DEBIT")) + row.amount
      BY <1>1, <1>2, <2>2, <3>2, BooksAmounts, TotalAdd
    <3>7. Total(Entries(m, cur, "CREDIT") \cup {credit})
            = Total(Entries(m, cur, "CREDIT")) + row.amount
      BY <1>1, <1>2, <2>2, <3>3, BooksAmounts, TotalAdd
    <3>8. IsFiniteSet(Paid(m, cur))'
      BY <2>1, <2>4, <2>5, FS_AddElement
    <3>9. Total(Credits(m, cur)') = Total(Paid(m, cur)')
      BY <2>1, <2>4, <2>5, <3>1, <3>4, <3>5
    <3>10. Total(Entries(m, cur, "DEBIT")') = Total(Entries(m, cur, "CREDIT")')
      BY <2>1, <3>2, <3>3, <3>6, <3>7
    <3> QED BY <3>8, <3>9, <3>10
  <2>6. CASE ~(row.merchant = m /\ row.currency = cur)
    <3>1. /\ Credits(m, cur)' = Credits(m, cur)
          /\ Entries(m, cur, "DEBIT")' = Entries(m, cur, "DEBIT")
          /\ Entries(m, cur, "CREDIT")' = Entries(m, cur, "CREDIT")
      BY <1>3, <2>2, <2>6 DEF Credits, Entries
    <3> QED BY <2>1, <2>4, <2>6, <3>1
  <2> QED BY <2>5, <2>6
<1> QED BY <1>5, <1>6 DEF BooksInv

\* Any other change of the tables leaves the sums as they are.
LEMMA SumsKept ==
    ASSUME BooksInv, ledger' = ledger,
           \A m \in Merchants, cur \in Currencies : Paid(m, cur)' = Paid(m, cur)
    PROVE  BooksInv'
<1>1. \A m \in Merchants, cur \in Currencies :
         /\ Credits(m, cur)' = Credits(m, cur)
         /\ Entries(m, cur, "DEBIT")' = Entries(m, cur, "DEBIT")
         /\ Entries(m, cur, "CREDIT")' = Entries(m, cur, "CREDIT")
  BY DEF Credits, Entries
<1> QED BY <1>1 DEF BooksInv

LEMMA BooksStep == CoreInv /\ SettlementAtomic /\ BooksInv /\ [Next]_vars => BooksInv'
<1> SUFFICES ASSUME CoreInv, SettlementAtomic, BooksInv, [Next]_vars PROVE BooksInv'
  OBVIOUS
<1>1. TypeOK
  BY DEF CoreInv
<1>2. CASE UNCHANGED database
  BY <1>2, SumsKept DEF database, Paid
<1>3. ASSUME NEW r \in Requests, Commit(r) PROVE BooksInv'
  <2>1. ASSUME NEW i \in Intents, NEW s \in Settled,
               intents[i] # None, intents[i].status = "CREATED",
               tx[r].row = [intents[i] EXCEPT !.status = s],
               intents' = [intents EXCEPT ![i] = tx[r].row],
               ledger' = ledger \cup (IF s = "SUCCEEDED" THEN DoubleEntry(r, tx[r].row) ELSE {})
        PROVE  BooksInv'
    <3>1. intents[i] \in Row /\ intents[i].id = i /\ s \in Statuses
      BY <1>1, <2>1 DEF TypeOK, Statuses, CoreInv, RowInv
    <3>2. tx[r].row \in Row /\ tx[r].row.status = s /\ tx[r].row.id = i
      BY <2>1, <3>1, StatusType DEF Row
    <3>3. CASE s = "SUCCEEDED"
      <4>1. ledger' = ledger \cup DoubleEntry(r, tx[r].row)
        BY <2>1, <3>3
      <4> QED BY <2>1, <3>2, <3>3, <4>1, SuccessStep
    <3>4. CASE s # "SUCCEEDED"
      <4>1. ledger' = ledger
        BY <2>1, <3>4
      <4> QED BY <1>1, <2>1, <3>2, <3>4, <4>1, PaidKept, SumsKept
    <3> QED BY <3>3, <3>4
  <2>2. ASSUME NEW row \in Row, intents[r] = None, row.status = "CREATED",
               intents' = [intents EXCEPT ![r] = row], ledger' = ledger
        PROVE  BooksInv'
    BY <1>1, <2>2, PaidKept, SumsKept DEF Intents
  <2> QED BY <1>2, <1>3, <2>1, <2>2, CommitRows
<1> QED BY <1>2, <1>3, OnlyCommit

\* In every state the rows to add up are finitely many, and of each merchant and
\* currency credits, debits and SUCCEEDED payments come to the same.
THEOREM BooksInvariant == Spec => []BooksInv
<1>1. CoreInv /\ SettlementAtomic /\ BooksInv /\ [Next]_vars => BooksInv'
  BY BooksStep
<1> QED BY BooksInit, <1>1, CoreInvariant, BooksMatchStatus, PTL DEF Spec

\* The balance a merchant is shown is the money of its SUCCEEDED payments in that
\* currency, at every moment and with confirms in flight.
THEOREM BalancesAreTrue == Spec => []BalanceIsSucceeded
<1>1. BooksInv => BalanceIsSucceeded
  BY DEF BooksInv, BalanceIsSucceeded, GetBalance, Credits, Paid
<1> QED BY <1>1, BooksInvariant, PTL

\* Debits and credits of every merchant and currency add up to the same.
THEOREM BooksAlwaysBalance == Spec => []BooksBalance
<1>1. BooksInv => BooksBalance
  BY DEF BooksInv, BooksBalance, Entries
<1> QED BY <1>1, BooksInvariant, PTL
=============================================================================
