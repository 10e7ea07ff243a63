-------------------------- MODULE DashboardProofs --------------------------
(***************************************************************************)
(* Proofs about the dashboard, for every page size and any number of       *)
(* payments, refreshes and pages: nothing is skipped on the way down the   *)
(* list, and what the banner announces is in the table.                    *)
(*                                                                         *)
(* The table is read page by page, by offset, from a list in which other   *)
(* clients insert.  An insertion only pushes rows down, so what a page has *)
(* still to show of the list it began with lies behind the next offset.    *)
(* That is Covers; it holds of what is shown and, while a page is on its   *)
(* way, of what will be shown.                                             *)
(***************************************************************************)
EXTENDS Dashboard, Integers, SequenceTheorems, TLAPS

\* What a list of rows shows.
Ids(rows) == {row.id : row \in ToSet(rows)}

Distinct(b) == \A i, j \in DOMAIN b : b[i] = b[j] => i = j

\* l is b with payments put in between: they push down what is under them.
Within(b, l) ==
    /\ Distinct(b)
    /\ ToSet(b) \subseteq ToSet(l)
    /\ \A j \in DOMAIN b, x \in DOMAIN l : l[x] = b[j] => j <= x
    /\ \A i, j \in DOMAIN b, x, y \in DOMAIN l :
          i < j /\ l[x] = b[i] /\ l[y] = b[j] => x < y

\* view shows b from the top without a gap, and what it has still to show of it
\* is further down l than view is long.
Covers(view, b, l) ==
    /\ Len(view) <= Len(l)
    /\ \A i, j \in DOMAIN b : i < j /\ b[j] \in Ids(view) => b[i] \in Ids(view)
    /\ \A x \in DOMAIN l : l[x] \in ToSet(b) \ Ids(view) => Len(view) < x

\* The rows are the first page of b.
FirstPage(rows, b) ==
    /\ Len(rows) <= Len(b)
    /\ Len(rows) = PageSize \/ Len(rows) = Len(b)
    /\ \A i \in DOMAIN rows : rows[i].id = b[i]

\* Payment p, with status s, is in b, and if on its first page also in the rows.
Told(p, s, rows, b) ==
    /\ p \in ToSet(b)
    /\ p \in {b[i] : i \in DOMAIN b \cap 1..PageSize} => [id |-> p, status |-> s] \in ToSet(rows)

-----------------------------------------------------------------------------
(* Lists. *)

\* What ToSet is of a list.
LEMMA Elements == ASSUME NEW S, NEW s \in Seq(S)
                  PROVE  /\ ToSet(s) = {s[i] : i \in 1..Len(s)} /\ ToSet(s) \subseteq S
                         /\ DOMAIN s = 1..Len(s)
  BY DEF ToSet

\* handleLoadMore shows the rows of both lists.
LEMMA Appended ==
    ASSUME NEW S, NEW s \in Seq(S), NEW t \in Seq(S)
    PROVE  s \o t \in Seq(S) /\ ToSet(s \o t) = ToSet(s) \cup ToSet(t)
<1>1. s \o t \in Seq(S) /\ Len(s \o t) = Len(s) + Len(t)
  OBVIOUS
<1>2. \A i \in 1..Len(s) : (s \o t)[i] = s[i]
  OBVIOUS
<1>3. \A i \in 1..Len(t) : (s \o t)[Len(s) + i] = t[i]
  OBVIOUS
<1>4. /\ ToSet(s) = {s[i] : i \in 1..Len(s)} /\ ToSet(t) = {t[i] : i \in 1..Len(t)}
      /\ ToSet(s \o t) = {(s \o t)[i] : i \in 1..Len(s \o t)}
  BY <1>1, Elements
<1>5. ASSUME NEW i \in 1..Len(s \o t) PROVE (s \o t)[i] \in ToSet(s) \cup ToSet(t)
  <2>1. CASE i <= Len(s)
    BY <1>1, <1>2, <1>4, <2>1
  <2>2. CASE i > Len(s)
    <3>1. i - Len(s) \in 1..Len(t) /\ Len(s) + (i - Len(s)) = i
      BY <1>1, <2>2
    <3>2. (s \o t)[i] = t[i - Len(s)]
      BY <1>3, <3>1
    <3> QED BY <1>4, <3>1, <3>2
  <2> QED BY <1>1, <2>1, <2>2
<1>6. ASSUME NEW i \in 1..Len(s) PROVE s[i] \in ToSet(s \o t)
  <2>1. i \in 1..Len(s \o t)
    BY <1>1
  <2> QED BY <1>2, <1>4, <2>1
<1>7. ASSUME NEW i \in 1..Len(t) PROVE t[i] \in ToSet(s \o t)
  <2>1. Len(s) + i \in 1..Len(s \o t)
    BY <1>1
  <2> QED BY <1>3, <1>4, <2>1
<1> QED BY <1>1, <1>4, <1>5, <1>6, <1>7

LEMMA IdsAre == ASSUME NEW rows \in Seq(Row)
                PROVE  Ids(rows) = {rows[i].id : i \in 1..Len(rows)}
<1>1. ToSet(rows) = {rows[i] : i \in 1..Len(rows)}
  BY Elements
<1> QED BY <1>1, Zenon DEF Ids

LEMMA AppendedIds ==
    ASSUME NEW s \in Seq(Row), NEW t \in Seq(Row) PROVE Ids(s \o t) = Ids(s) \cup Ids(t)
  BY Appended DEF Ids

\* A row that commits pushes down those that began before it.
LEMMA Inserted ==
    ASSUME NEW s \in Seq(Payments), NEW i \in 1..Len(s) + 1, NEW p \in Payments
    PROVE  /\ InsertAt(s, i, p) \in Seq(Payments)
           /\ Len(InsertAt(s, i, p)) = Len(s) + 1
           /\ InsertAt(s, i, p)[i] = p
           /\ \A k \in 1..Len(s) : k < i => InsertAt(s, i, p)[k] = s[k]
           /\ \A k \in 1..Len(s) : i <= k => InsertAt(s, i, p)[k + 1] = s[k]
<1> DEFINE above == SubSeq(s, 1, i - 1)
           below == SubSeq(s, i, Len(s))
<1>1. above \in Seq(Payments) /\ Len(above) = i - 1
      /\ \A k \in 1..(i - 1) : above[k] = s[k]
  OBVIOUS
<1>2. below \in Seq(Payments) /\ Len(below) = Len(s) - i + 1
      /\ \A k \in 1..(Len(s) - i + 1) : below[k] = s[i + k - 1]
  OBVIOUS
<1>3. InsertAt(s, i, p) = above \o <<p>> \o below
  BY DEF InsertAt
<1> HIDE DEF above, below
<1>4. (above \o <<p>>) \in Seq(Payments) /\ Len(above \o <<p>>) = i
      /\ (above \o <<p>>)[i] = p
      /\ \A k \in 1..(i - 1) : (above \o <<p>>)[k] = s[k]
  BY <1>1
<1> DEFINE top == above \o <<p>>
<1> HIDE DEF top
<1>5. top \in Seq(Payments) /\ Len(top) = i /\ top[i] = p
      /\ \A k \in 1..(i - 1) : top[k] = s[k]
  BY <1>4 DEF top
<1>6. top \o below \in Seq(Payments) /\ Len(top \o below) = Len(s) + 1
      /\ (top \o below)[i] = p
  BY <1>2, <1>5
<1>7. \A k \in 1..Len(s) : k < i => (top \o below)[k] = s[k]
  BY <1>2, <1>5
<1>8. ASSUME NEW k \in 1..Len(s), i <= k PROVE (top \o below)[k + 1] = s[k]
  <2>1. k + 1 - i \in 1..(Len(s) - i + 1)
    BY <1>8
  <2>2. (top \o below)[k + 1] = below[k + 1 - i]
    BY <1>2, <1>5, <1>8, <2>1
  <2>3. below[k + 1 - i] = s[i + (k + 1 - i) - 1] /\ i + (k + 1 - i) - 1 = k
    BY <1>2, <2>1
  <2> QED BY <2>2, <2>3
<1> QED BY <1>3, <1>6, <1>7, <1>8 DEF top

\* A list is within what it becomes when a new payment is inserted in it.
LEMMA WithinGrows ==
    ASSUME NEW l \in Seq(Payments), NEW i \in 1..Len(l) + 1, NEW p \in Payments \ ToSet(l),
           NEW b \in Seq(Payments), Within(b, l)
    PROVE  Within(b, InsertAt(l, i, p))
<1> DEFINE m == InsertAt(l, i, p)
<1>1. /\ m \in Seq(Payments) /\ Len(m) = Len(l) + 1 /\ m[i] = p
      /\ \A k \in 1..Len(l) : k < i => m[k] = l[k]
      /\ \A k \in 1..Len(l) : i <= k => m[k + 1] = l[k]
  BY Inserted
<1> HIDE DEF m
<1>2. ASSUME NEW x \in 1..Len(m), m[x] \in ToSet(l)
      PROVE  \/ x < i /\ x \in 1..Len(l) /\ m[x] = l[x]
             \/ x > i /\ x - 1 \in 1..Len(l) /\ m[x] = l[x - 1]
  <2>1. x # i
    BY <1>1, <1>2
  <2>2. CASE x < i
    BY <1>1, <2>2
  <2>3. CASE x > i
    <3>1. x - 1 \in 1..Len(l) /\ i <= x - 1 /\ (x - 1) + 1 = x
      BY <1>1, <2>3
    <3> QED BY <1>1, <2>3, <3>1
  <2> QED BY <1>1, <2>1, <2>2, <2>3
<1>3. Distinct(b) /\ \A j \in 1..Len(b) : b[j] \in ToSet(l)
  BY Elements DEF Within
<1>4. ToSet(b) \subseteq ToSet(m)
  <2>1. ASSUME NEW k \in 1..Len(l) PROVE l[k] \in ToSet(m)
    <3>1. CASE k < i
      BY <1>1, <3>1, Elements
    <3>2. CASE i <= k
      BY <1>1, <3>2, Elements
    <3> QED BY <3>1, <3>2
  <2>2. ToSet(l) \subseteq ToSet(m)
    BY <2>1, Elements
  <2> QED BY <2>2 DEF Within
<1>5. ASSUME NEW j \in 1..Len(b), NEW x \in 1..Len(m), m[x] = b[j] PROVE j <= x
  <2>1. \A y \in 1..Len(l) : l[y] = b[j] => j <= y
    BY Elements DEF Within
  <2> QED BY <1>2, <1>3, <1>5, <2>1
<1>6. ASSUME NEW h \in 1..Len(b), NEW j \in 1..Len(b), h < j,
             NEW x \in 1..Len(m), NEW y \in 1..Len(m), m[x] = b[h], m[y] = b[j]
      PROVE  x < y
  <2>1. \A v, w \in 1..Len(l) : l[v] = b[h] /\ l[w] = b[j] => v < w
    BY <1>6, Elements, SMTT(30) DEF Within
  <2>2. m[x] \in ToSet(l) /\ m[y] \in ToSet(l)
    BY <1>3, <1>6
  <2>3. /\ \/ x < i /\ x \in 1..Len(l) /\ b[h] = l[x]
           \/ x > i /\ x - 1 \in 1..Len(l) /\ b[h] = l[x - 1]
        /\ \/ y < i /\ y \in 1..Len(l) /\ b[j] = l[y]
           \/ y > i /\ y - 1 \in 1..Len(l) /\ b[j] = l[y - 1]
    BY <1>2, <1>6, <2>2
  <2> QED BY <2>1, <2>3
<1>7. DOMAIN b = 1..Len(b) /\ DOMAIN m = 1..Len(m)
  BY <1>1
<1>8. Within(b, m)
  BY <1>3, <1>4, <1>5, <1>6, <1>7 DEF Within
<1> QED BY <1>8 DEF m

\* Nor does what a view has still to show come any closer.
LEMMA CoversGrows ==
    ASSUME NEW l \in Seq(Payments), NEW i \in 1..Len(l) + 1, NEW p \in Payments \ ToSet(l),
           NEW b \in Seq(Payments), Within(b, l),
           NEW view \in Seq(Row), Covers(view, b, l)
    PROVE  Covers(view, b, InsertAt(l, i, p))
<1> DEFINE m == InsertAt(l, i, p)
<1>1. /\ m \in Seq(Payments) /\ Len(m) = Len(l) + 1 /\ m[i] = p
      /\ \A k \in 1..Len(l) : k < i => m[k] = l[k]
      /\ \A k \in 1..Len(l) : i <= k => m[k + 1] = l[k]
  BY Inserted
<1> HIDE DEF m
<1>2. Len(view) <= Len(l) /\ Len(view) \in Nat
      /\ \A x \in 1..Len(l) : l[x] \in ToSet(b) \ Ids(view) => Len(view) < x
  BY DEF Covers
<1>3. ASSUME NEW x \in 1..Len(m), m[x] \in ToSet(b) \ Ids(view) PROVE Len(view) < x
  <2>1. x # i
    BY <1>1, <1>3 DEF Within
  <2>2. CASE x < i
    BY <1>1, <1>2, <1>3, <2>2
  <2>3. CASE x > i
    <3>1. x - 1 \in 1..Len(l) /\ i <= x - 1 /\ (x - 1) + 1 = x
      BY <1>1, <2>3
    <3>2. Len(view) < x - 1
      BY <1>1, <1>2, <1>3, <3>1
    <3> QED BY <1>2, <3>1, <3>2
  <2> QED BY <1>1, <2>1, <2>2, <2>3
<1>4. Covers(view, b, m)
  BY <1>1, <1>2, <1>3 DEF Covers
<1> QED BY <1>4 DEF m

LEMMA DistinctGrows ==
    ASSUME NEW l \in Seq(Payments), NEW i \in 1..Len(l) + 1, NEW p \in Payments \ ToSet(l),
           Distinct(l)
    PROVE  Distinct(InsertAt(l, i, p)) /\ ToSet(InsertAt(l, i, p)) = ToSet(l) \cup {p}
<1> DEFINE m == InsertAt(l, i, p)
<1>1. /\ m \in Seq(Payments) /\ Len(m) = Len(l) + 1 /\ m[i] = p
      /\ \A k \in 1..Len(l) : k < i => m[k] = l[k]
      /\ \A k \in 1..Len(l) : i <= k => m[k + 1] = l[k]
  BY Inserted
<1> HIDE DEF m
<1>2. ASSUME NEW x \in 1..Len(m)
      PROVE  \/ x = i /\ m[x] = p
             \/ x < i /\ x \in 1..Len(l) /\ m[x] = l[x]
             \/ x > i /\ x - 1 \in 1..Len(l) /\ m[x] = l[x - 1]
  <2>1. CASE x <= i
    BY <1>1, <2>1
  <2>2. CASE x > i
    <3>1. x - 1 \in 1..Len(l) /\ i <= x - 1 /\ (x - 1) + 1 = x
      BY <1>1, <2>2
    <3> QED BY <1>1, <2>2, <3>1
  <2> QED BY <1>1, <2>1, <2>2
<1>3. \A y \in 1..Len(l) : l[y] # p
  BY Elements
<1>4. \A x, y \in 1..Len(l) : l[x] = l[y] => x = y
  BY DEF Distinct
<1>5. ASSUME NEW x \in 1..Len(m), NEW y \in 1..Len(m), m[x] = m[y] PROVE x = y
  <2>1. i \in Nat /\ x \in Nat /\ y \in Nat
    BY <1>1
  <2>2. CASE x = i
    <3>1. m[y] = p
      BY <1>1, <1>5, <2>2
    <3> QED BY <1>2, <1>3, <2>2, <3>1
  <2>3. CASE y = i
    <3>1. m[x] = p
      BY <1>1, <1>5, <2>3
    <3> QED BY <1>2, <1>3, <2>3, <3>1
  <2>4. CASE x # i /\ y # i
    <3>1. PICK v \in 1..Len(l) : m[x] = l[v] /\ ((v = x /\ x < i) \/ (v = x - 1 /\ x > i))
      BY <1>2, <2>4
    <3>2. PICK w \in 1..Len(l) : m[y] = l[w] /\ ((w = y /\ y < i) \/ (w = y - 1 /\ y > i))
      BY <1>2, <2>4
    <3>3. v = w
      BY <1>4, <1>5, <3>1, <3>2
    <3> QED BY <2>1, <3>1, <3>2, <3>3
  <2> QED BY <2>2, <2>3, <2>4
<1>6. Distinct(m)
  BY <1>1, <1>5 DEF Distinct
<1>7. ToSet(m) \subseteq ToSet(l) \cup {p}
  BY <1>1, <1>2, Elements
<1>8. ASSUME NEW k \in 1..Len(l) PROVE l[k] \in ToSet(m)
  <2>1. CASE k < i
    BY <1>1, <2>1, Elements
  <2>2. CASE i <= k
    BY <1>1, <2>2, Elements
  <2> QED BY <2>1, <2>2
<1>9. p \in ToSet(m) /\ ToSet(l) \subseteq ToSet(m)
  BY <1>1, <1>8, Elements, SMTT(30)
<1> QED BY <1>6, <1>7, <1>9 DEF m

LEMMA WithinItself == ASSUME NEW l \in Seq(Payments), Distinct(l) PROVE Within(l, l)
  BY DEF Within, Distinct

-----------------------------------------------------------------------------
(* Pages. *)

\* The first page of a list covers it, whatever was inserted in it since.
LEMMA FirstPageCovers ==
    ASSUME NEW l \in Seq(Payments), NEW b \in Seq(Payments), Within(b, l),
           NEW rows \in Seq(Row), FirstPage(rows, b)
    PROVE  /\ Covers(rows, b, l)
           /\ Len(rows) # PageSize => ToSet(b) \subseteq Ids(rows)
<1>1. Len(rows) \in Nat /\ Len(b) \in Nat /\ Len(l) \in Nat /\ Len(rows) <= Len(b)
      /\ DOMAIN b = 1..Len(b) /\ DOMAIN l = 1..Len(l) /\ DOMAIN rows = 1..Len(rows)
  BY DEF FirstPage
<1>2. Ids(rows) = {b[i] : i \in 1..Len(rows)}
  <2>1. \A i \in 1..Len(rows) : rows[i].id = b[i]
    BY <1>1 DEF FirstPage
  <2> QED BY <2>1, IdsAre
<1>3. ToSet(b) = {b[i] : i \in 1..Len(b)} /\ ToSet(l) = {l[x] : x \in 1..Len(l)}
  BY Elements
<1>4. \A j \in 1..Len(b) : b[j] \in Ids(rows) <=> j <= Len(rows)
  BY <1>1, <1>2, SMTT(30) DEF Within, Distinct
<1>5. Len(rows) <= Len(l)
  <2>1. CASE Len(rows) = 0
    BY <1>1, <2>1
  <2>2. CASE Len(rows) > 0
    <3>1. Len(rows) \in 1..Len(b)
      BY <1>1, <2>2
    <3>2. PICK x \in 1..Len(l) : l[x] = b[Len(rows)]
      BY <1>3, <3>1 DEF Within
    <3>3. Len(rows) <= x
      BY <1>1, <3>1, <3>2 DEF Within
    <3> QED BY <1>1, <3>2, <3>3
  <2> QED BY <1>1, <2>1, <2>2
<1>6. ASSUME NEW x \in 1..Len(l), l[x] \in ToSet(b) \ Ids(rows) PROVE Len(rows) < x
  <2>1. PICK j \in 1..Len(b) : b[j] = l[x]
    BY <1>3, <1>6
  <2>2. j > Len(rows) /\ j <= x
    BY <1>1, <1>4, <1>6, <2>1 DEF Within
  <2> QED BY <1>1, <2>1, <2>2
<1>7. Covers(rows, b, l)
  BY <1>1, <1>4, <1>5, <1>6 DEF Covers
<1>8. ASSUME Len(rows) # PageSize PROVE ToSet(b) \subseteq Ids(rows)
  BY <1>1, <1>2, <1>3, <1>8 DEF FirstPage
<1> QED BY <1>7, <1>8

\* The next page, at the offset of what is shown, continues the way down.
LEMMA NextPageCovers ==
    ASSUME NEW l \in Seq(Payments), NEW b \in Seq(Payments), Within(b, l), Distinct(l),
           NEW view \in Seq(Row), NEW n \in Nat, n = Len(view), Covers(view, b, l),
           NEW rows \in Seq(Row), NEW k \in Nat, k = Len(rows),
           NEW z \in Nat, z = Len(l), n + k <= z, k # PageSize => n + k = z,
           \A i \in 1..k : rows[i].id = l[n + i]
    PROVE  /\ Covers(view \o rows, b, l)
           /\ k # PageSize => ToSet(b) \subseteq Ids(view \o rows)
<1>1. DOMAIN b = 1..Len(b) /\ DOMAIN l = 1..z
  OBVIOUS
<1>2. Len(view \o rows) = n + k
  OBVIOUS
<1>3. ToSet(b) = {b[i] : i \in 1..Len(b)} /\ ToSet(l) = {l[x] : x \in 1..z}
  BY Elements
<1>4. Ids(view \o rows) = Ids(view) \cup Ids(rows)
  BY AppendedIds
<1>5. Ids(rows) = {l[n + i] : i \in 1..k}
  <2>1. \A i \in 1..k : rows[i].id = l[n + i]
    OBVIOUS
  <2>2. Ids(rows) = {rows[i].id : i \in 1..k}
    BY IdsAre
  <2> QED BY <2>1, <2>2
<1>6. ASSUME NEW x \in 1..z, l[x] \in ToSet(b) \ Ids(view)
      PROVE  n < x /\ (l[x] \in Ids(rows) <=> x <= n + k)
  <2>1. n < x
    BY <1>1, <1>6 DEF Covers
  <2>2. ASSUME x <= n + k PROVE l[x] \in Ids(rows)
    <3>1. x - n \in 1..k /\ n + (x - n) = x
      BY <2>1, <2>2
    <3> QED BY <1>5, <3>1
  <2>3. ASSUME l[x] \in Ids(rows) PROVE x <= n + k
    <3>1. PICK i \in 1..k : l[x] = l[n + i]
      BY <1>5, <2>3
    <3>2. n + i \in 1..z /\ n + i <= n + k
      OBVIOUS
    <3>3. x = n + i
      BY <1>1, <3>1, <3>2 DEF Distinct
    <3> QED BY <3>2, <3>3
  <2> QED BY <2>1, <2>2, <2>3
<1>7. ASSUME NEW i \in 1..Len(b), NEW j \in 1..Len(b), i < j, b[j] \in Ids(view \o rows)
      PROVE  b[i] \in Ids(view \o rows)
  <2>1. CASE b[j] \in Ids(view)
    BY <1>1, <1>4, <1>7, <2>1 DEF Covers
  <2>2. CASE b[i] \notin Ids(view) /\ b[j] \notin Ids(view)
    <3>1. b[i] \in ToSet(l) /\ b[j] \in ToSet(l) /\ b[i] \in ToSet(b) /\ b[j] \in ToSet(b)
      BY <1>3 DEF Within
    <3>2. PICK x \in 1..z, y \in 1..z : l[x] = b[i] /\ l[y] = b[j]
      BY <1>3, <3>1
    <3>3. x < y
      BY <1>1, <1>7, <3>2 DEF Within
    <3>4. l[y] \in Ids(rows)
      BY <1>4, <1>7, <2>2, <3>2
    <3>5. y <= n + k
      BY <1>6, <2>2, <3>2, <3>1, <3>4
    <3>6. x <= n + k
      BY <3>3, <3>5
    <3>7. l[x] \in Ids(rows)
      BY <1>6, <2>2, <3>2, <3>1, <3>6
    <3> QED BY <1>4, <3>2, <3>7
  <2> QED BY <1>4, <2>1, <2>2
<1>8. ASSUME NEW x \in 1..z, l[x] \in ToSet(b) \ Ids(view \o rows)
      PROVE  Len(view \o rows) < x
  <2>1. l[x] \in ToSet(b) \ Ids(view) /\ l[x] \notin Ids(rows)
    BY <1>4, <1>8
  <2>2. ~(x <= n + k)
    BY <1>6, <2>1
  <2> QED BY <1>2, <2>2
<1>9. ASSUME k # PageSize, NEW q \in ToSet(b) PROVE q \in Ids(view \o rows)
  <2>1. PICK x \in 1..z : l[x] = q
    BY <1>3 DEF Within
  <2>2. x <= n + k
    BY <1>2, <1>9
  <2> QED BY <1>4, <1>6, <1>9, <2>1, <2>2
<1>10. Covers(view \o rows, b, l)
  BY <1>1, <1>2, <1>7, <1>8 DEF Covers
<1> QED BY <1>9, <1>10

-----------------------------------------------------------------------------
(* The invariant. *)

\* A refresh and a Load More, with what they have been answered so far.
RefreshRow == [open : BOOLEAN, rows : Seq(Row) \cup {None},
               balance : (SUBSET Payments) \cup {None}, base : Seq(Payments)]
MoreRow == [offset : Nat, rows : Seq(Row) \cup {None}, late : BOOLEAN]

\* The types by induction: TypeOK, with the pages as the sequences they are.
Types ==
    /\ list \in Seq(Payments)
    /\ status \in [Payments -> {"ABSENT", "CREATED"} \cup Final]
    /\ form \in [at : {"idle", "creating", "created", "confirming", "confirmed"},
                 intent : Payments \cup {None}]
    /\ sent \in 0..MaxRefreshes
    /\ refresh \in [Refreshes -> RefreshRow]
    /\ more \in MoreRow \cup {None}
    /\ shown \in Seq(Row)
    /\ balance \subseteq Payments
    /\ hasMore \in BOOLEAN /\ torn \in BOOLEAN
    /\ announced \in Payments \cup {None}
    /\ landed \in 0..sent
    /\ base \in Seq(Payments)

\* The list holds each payment that there is, once.
Listed == Distinct(list) /\ \A p \in Payments : p \in ToSet(list) <=> status[p] # "ABSENT"

\* What a refresh has read is the first page of a list that is within the one of
\* now; those not sent yet have read nothing.
Reading ==
    \A n \in Refreshes :
        /\ refresh[n].open => n <= sent
        /\ n > sent => refresh[n] = Closed
        /\ refresh[n].rows # None => /\ Within(refresh[n].base, list)
                                     /\ FirstPage(refresh[n].rows, refresh[n].base)

\* The rows shown, and those with the page that is on its way, cover the list that
\* the last refresh read, unless a page of another list was or will be appended.
Paging ==
    /\ Within(base, list)
    /\ ~torn => Covers(shown, base, list) /\ (~hasMore => ToSet(base) \subseteq Ids(shown))
    /\ more # None /\ ~more.late => more.offset = Len(shown)
    /\ more # None /\ more.rows # None /\ ~more.late /\ ~torn =>
          /\ Covers(shown \o more.rows, base, list)
          /\ Len(more.rows) # PageSize => ToSet(base) \subseteq Ids(shown \o more.rows)

\* The form is done with a payment only when its status is final.
Submitting ==
    /\ form.at \in {"created", "confirming", "confirmed"} => form.intent \in Payments
    /\ form.at = "confirmed" => status[form.intent] \in Final

\* The refresh that was sent last, in flight or landed, read what is announced.
Announcing ==
    announced # None =>
        LET p == announced
        IN  /\ status[p] \in Final /\ sent \in Refreshes
            /\ refresh[sent].rows # None =>
                  Told(p, status[p], refresh[sent].rows, refresh[sent].base)
            /\ refresh[sent].balance # None /\ status[p] = "SUCCEEDED" =>
                  p \in refresh[sent].balance
            /\ landed = sent => /\ Told(p, status[p], shown, base)
                                /\ status[p] = "SUCCEEDED" => p \in balance

Inv == Types /\ Listed /\ Reading /\ Paging /\ Submitting /\ Announcing

\* LIMIT and OFFSET: a page is the next PageSize rows, or those that are left.
LEMMA PageIs ==
    ASSUME Types, Listed, NEW o \in Nat
    PROVE  /\ Page(o) \in Seq(Row)
           /\ \A i \in 1..Len(Page(o)) :
                 /\ o + i \in 1..Len(list)
                 /\ Page(o)[i] = [id |-> list[o + i], status |-> status[list[o + i]]]
           /\ o <= Len(list) => /\ o + Len(Page(o)) <= Len(list)
                                /\ Len(Page(o)) # PageSize => o + Len(Page(o)) = Len(list)
<1> DEFINE top == IF o + PageSize < Len(list) THEN o + PageSize ELSE Len(list)
           ids == SubSeq(list, o + 1, top)
<1>1. PageSize \in Nat /\ Len(list) \in Nat /\ list \in Seq(Payments)
  BY DashboardAssumption DEF Types
<1>2. top \in Nat /\ top <= Len(list)
  BY <1>1
<1>3. o <= Len(list) => o <= top /\ (top - o # PageSize => top = Len(list))
  BY <1>1
<1> HIDE DEF top
<1>4. /\ ids \in Seq(Payments)
      /\ Len(ids) = IF o + 1 <= top THEN top - (o + 1) + 1 ELSE 0
      /\ \A i \in 1..(top - (o + 1) + 1) : ids[i] = list[o + 1 + i - 1]
  <2>1. \A i \in (o + 1)..top : list[i] \in Payments
    BY <1>1, <1>2
  <2>2. o + 1 \in Int /\ top \in Int
    BY <1>2
  <2> QED BY <2>1, <2>2, SubSeqProperties
<1>5. Len(ids) \in Nat /\ (Len(ids) = 0 \/ Len(ids) = top - o)
      /\ (o <= top => Len(ids) = top - o)
  BY <1>2, <1>4
<1>6. ASSUME NEW i \in 1..Len(ids) PROVE o + i \in 1..Len(list) /\ ids[i] = list[o + i]
  <2>1. i \in 1..(top - (o + 1) + 1) /\ o + 1 + i - 1 = o + i /\ o + i <= top
    BY <1>2, <1>5
  <2>2. ids[i] = list[o + 1 + i - 1]
    BY <1>4, <2>1
  <2> QED BY <1>1, <1>2, <2>1, <2>2
<1> HIDE DEF ids
<1>7. Page(o) = [i \in 1..Len(ids) |-> [id |-> ids[i], status |-> status[ids[i]]]]
  BY <1>4 DEF Page, ids, top
<1>8. ASSUME NEW i \in 1..Len(ids)
      PROVE  [id |-> ids[i], status |-> status[ids[i]]] \in Row
  <2>1. ids[i] \in ToSet(list) /\ ids[i] \in Payments
    BY <1>1, <1>6, Elements
  <2> QED BY <2>1 DEF Types, Listed, Row
<1>9. Page(o) \in Seq(Row) /\ Len(Page(o)) = Len(ids)
  BY <1>5, <1>7, <1>8
<1>10. o <= Len(list) => /\ o + Len(Page(o)) <= Len(list)
                         /\ Len(Page(o)) # PageSize => o + Len(Page(o)) = Len(list)
  BY <1>1, <1>2, <1>3, <1>5, <1>9
<1> QED BY <1>6, <1>7, <1>9, <1>10

-----------------------------------------------------------------------------
(* The tables only grow, and what is settled stays. *)

\* What any step does to the tables, as far as the page depends on them.
Grows ==
    /\ list' \in Seq(Payments) /\ status' \in [Payments -> {"ABSENT", "CREATED"} \cup Final]
    /\ Listed'
    /\ \A b \in Seq(Payments) : Within(b, list) => Within(b, list')
    /\ \A b \in Seq(Payments), view \in Seq(Row) :
          Within(b, list) /\ Covers(view, b, list) => Covers(view, b, list')
    /\ \A p \in Payments : status[p] \in Final => status'[p] = status[p]

LEMMA CreateGrows == ASSUME Types, Listed, NEW p \in Payments, CreateRow(p) PROVE Grows
<1>1. PICK i \in 1..Len(list) + 1 : list' = InsertAt(list, i, p)
  BY DEF CreateRow
<1>2. status[p] = "ABSENT" /\ status' = [status EXCEPT ![p] = "CREATED"]
  BY DEF CreateRow
<1>3. list \in Seq(Payments) /\ p \in Payments \ ToSet(list) /\ Distinct(list)
  BY <1>2 DEF Types, Listed
<1>4. list' \in Seq(Payments)
  BY <1>1, <1>3, Inserted
<1>5. status' \in [Payments -> {"ABSENT", "CREATED"} \cup Final]
  BY <1>2 DEF Types
<1>6. Distinct(list') /\ ToSet(list') = ToSet(list) \cup {p}
  BY <1>1, <1>3, DistinctGrows
<1>7. Listed'
  BY <1>2, <1>6 DEF Listed, Types
<1>8. \A b \in Seq(Payments) : Within(b, list) => Within(b, list')
  BY <1>1, <1>3, WithinGrows
<1>9. \A b \in Seq(Payments), view \in Seq(Row) :
         Within(b, list) /\ Covers(view, b, list) => Covers(view, b, list')
  BY <1>1, <1>3, CoversGrows
<1>10. \A q \in Payments : status[q] \in Final => status'[q] = status[q]
  BY <1>2 DEF Final, Types
<1> QED BY <1>4, <1>5, <1>7, <1>8, <1>9, <1>10 DEF Grows

LEMMA SettleGrows == ASSUME Types, Listed, NEW p \in Payments, SettleRow(p)
                     PROVE  Grows /\ status'[p] \in Final
<1>1. list' = list
  BY DEF SettleRow
<1>2. PICK s \in Final : status' = [status EXCEPT ![p] = s]
  BY DEF SettleRow
<1>3. status[p] = "CREATED"
  BY DEF SettleRow
<1>4. status' \in [Payments -> {"ABSENT", "CREATED"} \cup Final] /\ status'[p] \in Final
  BY <1>2 DEF Types
<1>5. \A q \in Payments : status'[q] = "ABSENT" <=> status[q] = "ABSENT"
  BY <1>2, <1>3 DEF Types, Final
<1>6. \A q \in Payments : status[q] \in Final => status'[q] = status[q]
  BY <1>2, <1>3 DEF Types, Final
<1>7. Listed'
  BY <1>1, <1>5 DEF Listed
<1> QED BY <1>1, <1>4, <1>6, <1>7 DEF Grows, Types

LEMMA SameGrows == ASSUME Types, Listed, UNCHANGED tables PROVE Grows
<1>1. list' = list /\ status' = status
  BY DEF tables
<1>2. Listed'
  BY <1>1 DEF Listed
<1> QED BY <1>1, <1>2 DEF Grows, Types

LEMMA NextGrows == ASSUME Types, Listed, Submitting, [Next]_vars PROVE Grows
<1>1. CASE UNCHANGED tables
  BY <1>1, SameGrows
<1>2. ASSUME NEW p \in Payments, OtherClient(p) PROVE Grows
  BY <1>2, CreateGrows, SettleGrows DEF OtherClient
<1>3. ASSUME NEW p \in FormPayments, ServeCreate(p) PROVE Grows
  BY <1>3, CreateGrows, DashboardAssumption DEF ServeCreate
<1>4. CASE ServeConfirm
  BY <1>4, SettleGrows DEF ServeConfirm, Submitting
<1>5. ASSUME NEW n \in Refreshes, ReadList(n) \/ ReadBalance(n) \/ Land(n) \/ FailRefresh(n)
      PROVE  UNCHANGED tables
  BY <1>5 DEF ReadList, ReadBalance, Land, FailRefresh, tables
<1>6. CASE Open \/ LoadMore \/ ReadMore \/ LandMore \/ FailMore
  BY <1>6, SameGrows DEF Open, LoadMore, ReadMore, LandMore, FailMore
<1>7. CASE Submit \/ Confirm \/ PaymentComplete \/ FailForm \/ HideBanner
  BY <1>7, SameGrows DEF Submit, Confirm, PaymentComplete, FailForm, HideBanner
<1>8. CASE UNCHANGED vars
  BY <1>8, SameGrows DEF vars
<1> QED BY <1>1, <1>2, <1>3, <1>4, <1>5, <1>6, <1>7, <1>8 DEF Next

-----------------------------------------------------------------------------
(* The invariant by induction. *)

LEMMA InitInv == Init => Inv
<1> SUFFICES ASSUME Init PROVE Inv
  OBVIOUS
<1>1. /\ list = <<>> /\ shown = <<>> /\ base = <<>>
      /\ ToSet(<<>>) = {}
  BY DEF Init, ToSet
<1>2. Closed \in RefreshRow
  BY DEF Closed, RefreshRow
<1>3. Types
  <2>1. list \in Seq(Payments) /\ shown \in Seq(Row) /\ base \in Seq(Payments)
    BY <1>1
  <2>2. status \in [Payments -> {"ABSENT", "CREATED"} \cup Final]
    BY DEF Init
  <2>3. form \in [at : {"idle", "creating", "created", "confirming", "confirmed"},
                 intent : Payments \cup {None}]
    BY DEF Init, Idle
  <2>4. sent \in 0..MaxRefreshes /\ landed \in 0..sent
    BY DashboardAssumption DEF Init
  <2>5. refresh \in [Refreshes -> RefreshRow]
    BY <1>2 DEF Init
  <2> QED BY <2>1, <2>2, <2>3, <2>4, <2>5 DEF Init, Types
<1>4. Listed
  BY <1>1 DEF Init, Listed, Distinct
<1>5. Reading
  BY DEF Init, Reading, Closed
<1>6. Paging
  <2>1. Within(base, list) /\ Covers(shown, base, list)
    BY <1>1 DEF Within, Covers, Distinct
  <2> QED BY <1>1, <2>1 DEF Init, Paging
<1>7. Submitting /\ Announcing
  BY DEF Init, Submitting, Announcing, Idle
<1> QED BY <1>3, <1>4, <1>5, <1>6, <1>7 DEF Inv

LEMMA StartTypes == ASSUME Types, StartRefresh
                    PROVE  /\ sent' \in 0..MaxRefreshes /\ sent' = sent + 1
                           /\ sent + 1 \in Refreshes
                           /\ refresh' \in [Refreshes -> RefreshRow]
                           /\ landed \in 0..sent'
<1>1. sent \in Nat /\ sent < MaxRefreshes /\ MaxRefreshes \in Nat /\ sent' = sent + 1
      /\ landed \in 0..sent
  BY DashboardAssumption DEF Types, StartRefresh
<1>2. sent + 1 \in Refreshes
  BY <1>1 DEF Refreshes
<1>3. refresh' \in [Refreshes -> RefreshRow]
  BY <1>2 DEF StartRefresh, Types, RefreshRow
<1> QED BY <1>1, <1>2, <1>3

LEMMA TypesStep == ASSUME Inv, [Next]_vars PROVE Types'
<1> USE DEF Types
<1>1. Grows /\ Types /\ Listed
  BY NextGrows DEF Inv
<1>2. list' \in Seq(Payments) /\ status' \in [Payments -> {"ABSENT", "CREATED"} \cup Final]
  BY <1>1 DEF Grows
<1>3. ASSUME NEW p \in Payments, OtherClient(p) PROVE Types'
  BY <1>1, <1>2, <1>3 DEF OtherClient, state, ghosts
<1>4. ASSUME NEW p \in FormPayments, ServeCreate(p) PROVE Types'
  BY <1>1, <1>2, <1>4, DashboardAssumption DEF ServeCreate, state, ghosts
<1>5. CASE ServeConfirm
  BY <1>1, <1>2, <1>5 DEF ServeConfirm, state, ghosts
<1>6. CASE Open
  BY <1>1, <1>2, <1>6, StartTypes DEF Open, state, ghosts
<1>7. CASE PaymentComplete
  BY <1>1, <1>2, <1>7, StartTypes DEF PaymentComplete, Idle, ghosts
<1>8. ASSUME NEW n \in Refreshes, ReadList(n) PROVE Types'
  <2>1. Page(0) \in Seq(Row)
    BY <1>1, PageIs
  <2>2. refresh' \in [Refreshes -> RefreshRow]
    <3> DEFINE R == [open |-> refresh[n].open, rows |-> Page(0),
                     balance |-> refresh[n].balance, base |-> list]
    <3>1. refresh[n] \in RefreshRow
      BY <1>1
    <3>2. R \in RefreshRow
      BY <1>1, <2>1, <3>1 DEF RefreshRow
    <3>3. refresh'[n] = R
      BY <1>1, <1>8, <3>1 DEF ReadList, RefreshRow
    <3>4. /\ refresh' \in [Refreshes -> {refresh'[m] : m \in Refreshes}]
          /\ \A m \in Refreshes : m # n => refresh'[m] = refresh[m]
      BY <1>1, <1>8 DEF ReadList
    <3> HIDE DEF R
    <3> QED BY <1>1, <3>2, <3>3, <3>4
  <2> QED BY <1>1, <1>2, <1>8, <2>2 DEF ReadList, state, ghosts
<1>9. ASSUME NEW n \in Refreshes, ReadBalance(n) PROVE Types'
  <2>1. refresh' \in [Refreshes -> RefreshRow]
    BY <1>1, <1>9 DEF ReadBalance, RefreshRow
  <2> QED BY <1>1, <1>2, <1>9, <2>1 DEF ReadBalance, state, ghosts
<1>10. ASSUME NEW n \in Refreshes, Land(n) PROVE Types'
  <2>1. refresh[n] \in RefreshRow /\ refresh[n].rows \in Seq(Row)
        /\ refresh[n].balance \subseteq Payments /\ refresh[n].base \in Seq(Payments)
    BY <1>1, <1>10 DEF Land, RefreshRow
  <2>2. n \in 0..sent
    BY <1>1, <1>10 DEF Inv, Reading, Land, Refreshes
  <2>3. more' \in MoreRow \cup {None}
    BY <1>1, <1>10 DEF Land, MoreRow
  <2>4. refresh' \in [Refreshes -> RefreshRow]
    BY <1>1, <1>10 DEF Land, RefreshRow, Closed
  <2> QED BY <1>1, <1>2, <1>10, <2>1, <2>2, <2>3, <2>4 DEF Land
<1>11. ASSUME NEW n \in Refreshes, FailRefresh(n) PROVE Types'
  <2>1. refresh' \in [Refreshes -> RefreshRow]
    BY <1>1, <1>11 DEF FailRefresh, RefreshRow, Closed
  <2> QED BY <1>1, <1>2, <1>11, <2>1 DEF FailRefresh, state, ghosts
<1>12. CASE LoadMore
  <2>1. more' \in MoreRow
    BY <1>1, <1>12 DEF LoadMore, MoreRow, Offset
  <2> QED BY <1>1, <1>2, <1>12, <2>1 DEF LoadMore, state, ghosts
<1>13. CASE ReadMore
  <2>1. more \in MoreRow
    BY <1>1, <1>13 DEF ReadMore
  <2>2. Page(more.offset) \in Seq(Row)
    BY <1>1, <2>1, PageIs DEF MoreRow
  <2>3. more' \in MoreRow
    BY <1>13, <2>1, <2>2 DEF ReadMore, MoreRow
  <2> QED BY <1>1, <1>2, <1>13, <2>3 DEF ReadMore, state, ghosts
<1>14. CASE LandMore
  <2>1. more.rows \in Seq(Row) /\ more.late \in BOOLEAN
    BY <1>1, <1>14 DEF LandMore, MoreRow
  <2>2. shown' \in Seq(Row)
    BY <1>1, <1>14, <2>1 DEF LandMore
  <2> QED BY <1>1, <1>2, <1>14, <2>1, <2>2 DEF LandMore
<1>15. CASE FailMore
  BY <1>1, <1>2, <1>15 DEF FailMore, state, ghosts
<1>16. CASE Submit \/ Confirm \/ FailForm
  <2>1. form' \in [at : {"idle", "creating", "created", "confirming", "confirmed"},
                  intent : Payments \cup {None}]
    <3>1. CASE Submit
      BY <3>1 DEF Submit
    <3>2. CASE Confirm
      BY <1>1, <3>2 DEF Confirm
    <3>3. CASE FailForm
      BY <3>3 DEF FailForm, Idle
    <3> QED BY <1>16, <3>1, <3>2, <3>3
  <2>2. UNCHANGED <<tables, sent, refresh, more, state, ghosts>>
    BY <1>16 DEF Submit, Confirm, FailForm
  <2> QED BY <1>1, <1>2, <2>1, <2>2 DEF state, ghosts
<1>17. CASE HideBanner
  BY <1>1, <1>2, <1>17 DEF HideBanner, ghosts
<1>18. CASE UNCHANGED vars
  BY <1>1, <1>2, <1>18 DEF vars, state, ghosts
<1> QED BY <1>3, <1>4, <1>5, <1>6, <1>7, <1>8, <1>9, <1>10, <1>11, <1>12, <1>13, <1>14,
           <1>15, <1>16, <1>17, <1>18 DEF Next

\* Refreshes in flight: only a read of the list fills in the rows, and it reads
\* the list as it is.
LEMMA ReadingStep == ASSUME Inv, [Next]_vars PROVE Reading'
<1> USE DEF Inv
<1>1. Grows
  BY NextGrows
<1>2. \A m \in Refreshes : refresh[m].base \in Seq(Payments)
  BY DEF Types, RefreshRow
<1>3. ASSUME NEW m \in Refreshes, refresh'[m] = refresh[m], sent' \in Nat, sent <= sent',
             m <= sent' => m <= sent \/ refresh[m] = Closed
      PROVE  /\ refresh'[m].open => m <= sent'
             /\ m > sent' => refresh'[m] = Closed
             /\ refresh'[m].rows # None => /\ Within(refresh'[m].base, list')
                                           /\ FirstPage(refresh'[m].rows, refresh'[m].base)
  <2>1. /\ refresh[m].open => m <= sent
        /\ m > sent => refresh[m] = Closed
        /\ refresh[m].rows # None => /\ Within(refresh[m].base, list)
                                     /\ FirstPage(refresh[m].rows, refresh[m].base)
    BY DEF Reading
  <2>2. m \in Nat /\ sent \in Nat
    BY DEF Refreshes, Types
  <2> QED BY <1>1, <1>2, <1>3, <2>1, <2>2 DEF Grows
<1>4. CASE UNCHANGED <<refresh, sent>>
  BY <1>3, <1>4 DEF Reading, Types, Refreshes
<1>5. CASE StartRefresh
  <2>1. sent' = sent + 1 /\ sent + 1 \in Refreshes /\ sent \in Nat
    BY <1>5, StartTypes DEF Types
  <2>2. refresh[sent + 1] = Closed
    BY <2>1 DEF Reading
  <2>3. refresh'[sent + 1].rows = None
    BY <1>5, <2>1, <2>2 DEF StartRefresh, Types, Closed
  <2>4. \A m \in Refreshes \ {sent + 1} : refresh'[m] = refresh[m]
    BY <1>5 DEF StartRefresh, Types
  <2>5. ASSUME NEW m \in Refreshes, m # sent + 1, m <= sent' PROVE m <= sent
    BY <2>1, <2>5 DEF Refreshes
  <2> QED BY <1>3, <2>1, <2>3, <2>4, <2>5 DEF Reading
<1>6. ASSUME NEW n \in Refreshes, ReadList(n) PROVE Reading'
  <2>1. sent' = sent /\ list' = list /\ list \in Seq(Payments)
    BY <1>6 DEF ReadList, tables, Types
  <2>2. refresh'[n].rows = Page(0) /\ refresh'[n].base = list
        /\ refresh'[n].open = refresh[n].open /\ refresh[n].open
    BY <1>6 DEF ReadList, Types, RefreshRow
  <2>3. \A m \in Refreshes \ {n} : refresh'[m] = refresh[m]
    BY <1>6 DEF ReadList, Types
  <2>4. Within(list, list)
    BY <2>1, WithinItself DEF Listed
  <2>5. FirstPage(Page(0), list)
    <3>1. Len(Page(0)) \in Nat /\ Len(list) \in Nat /\ DOMAIN Page(0) = 1..Len(Page(0))
      BY <2>1, PageIs
    <3>2. Len(Page(0)) <= Len(list) /\ (Len(Page(0)) = PageSize \/ Len(Page(0)) = Len(list))
      <4>1. 0 <= Len(list) => /\ 0 + Len(Page(0)) <= Len(list)
                              /\ Len(Page(0)) # PageSize => 0 + Len(Page(0)) = Len(list)
        BY PageIs
      <4> QED BY <3>1, <4>1
    <3>3. ASSUME NEW i \in 1..Len(Page(0)) PROVE Page(0)[i].id = list[i]
      <4>1. Page(0)[i] = [id |-> list[0 + i], status |-> status[list[0 + i]]]
        BY PageIs
      <4>2. 0 + i = i
        BY <3>1
      <4> QED BY <4>1, <4>2
    <3> QED BY <3>1, <3>2, <3>3 DEF FirstPage
  <2>6. n <= sent
    BY <2>2 DEF Reading
  <2>7. n \in Nat /\ sent \in Nat
    BY DEF Refreshes, Types
  <2> QED BY <1>3, <2>1, <2>2, <2>3, <2>4, <2>5, <2>6, <2>7 DEF Reading
<1>7. ASSUME NEW n \in Refreshes, ReadBalance(n) PROVE Reading'
  <2>1. sent' = sent /\ list' = list
    BY <1>7 DEF ReadBalance, tables
  <2>2. refresh'[n].rows = refresh[n].rows /\ refresh'[n].base = refresh[n].base
        /\ refresh'[n].open = refresh[n].open /\ refresh[n].open
    BY <1>7 DEF ReadBalance, Types, RefreshRow
  <2>3. \A m \in Refreshes \ {n} : refresh'[m] = refresh[m]
    BY <1>7 DEF ReadBalance, Types
  <2>4. n <= sent /\ n \in Nat /\ sent \in Nat
    BY <2>2 DEF Reading, Refreshes, Types
  <2>5. refresh'[n].rows # None => /\ Within(refresh'[n].base, list')
                                   /\ FirstPage(refresh'[n].rows, refresh'[n].base)
    BY <2>1, <2>2 DEF Reading
  <2> QED BY <1>3, <2>1, <2>2, <2>3, <2>4, <2>5 DEF Reading
<1>8. ASSUME NEW n \in Refreshes, sent' = sent, refresh' = [refresh EXCEPT ![n] = Closed]
      PROVE  Reading'
  <2>1. refresh'[n].rows = None /\ refresh'[n].open = FALSE /\ refresh'[n] = Closed
    BY <1>8 DEF Closed, Types
  <2>2. \A m \in Refreshes \ {n} : refresh'[m] = refresh[m]
    BY <1>8 DEF Types
  <2>3. sent \in Nat
    BY DEF Types
  <2> QED BY <1>3, <1>8, <2>1, <2>2, <2>3 DEF Reading
<1>9. ASSUME (\E p \in Payments : OtherClient(p)) \/ (\E p \in FormPayments : ServeCreate(p))
             \/ LoadMore \/ ReadMore \/ LandMore \/ FailMore
             \/ Submit \/ Confirm \/ ServeConfirm \/ FailForm \/ HideBanner \/ UNCHANGED vars
      PROVE  UNCHANGED <<refresh, sent>>
  BY <1>9 DEF OtherClient, ServeCreate, LoadMore, ReadMore, LandMore, FailMore,
              Submit, Confirm, ServeConfirm, FailForm, HideBanner, vars
<1>10. ASSUME NEW n \in Refreshes, Land(n) \/ FailRefresh(n) PROVE Reading'
  BY <1>8, <1>10 DEF Land, FailRefresh
<1> QED BY <1>4, <1>5, <1>6, <1>7, <1>9, <1>10 DEF Next, Open, PaymentComplete

\* The table of the page: a page that is asked for at the end of what is shown, of
\* the list that it shows, continues it, whatever is inserted meanwhile.
LEMMA PagingStep == ASSUME Inv, [Next]_vars PROVE Paging'
<1> USE DEF Inv
<1>1. Grows
  BY NextGrows
<1>2. /\ list \in Seq(Payments) /\ base \in Seq(Payments) /\ shown \in Seq(Row)
      /\ more # None => more \in MoreRow
      /\ torn \in BOOLEAN
  BY DEF Types
<1>3. /\ Within(base, list)
      /\ ~torn => Covers(shown, base, list) /\ (~hasMore => ToSet(base) \subseteq Ids(shown))
      /\ more # None /\ ~more.late => more.offset = Len(shown)
      /\ more # None /\ more.rows # None /\ ~more.late /\ ~torn =>
            /\ Covers(shown \o more.rows, base, list)
            /\ Len(more.rows) # PageSize => ToSet(base) \subseteq Ids(shown \o more.rows)
  BY DEF Paging
<1>4. Within(base, list')
  BY <1>1, <1>2, <1>3 DEF Grows
<1>5. ~torn => Covers(shown, base, list')
  BY <1>1, <1>2, <1>3 DEF Grows
<1>6. ASSUME more # None, more.rows # None, ~more.late, ~torn
      PROVE  Covers(shown \o more.rows, base, list')
  <2>1. more.rows \in Seq(Row)
    BY <1>2, <1>6 DEF MoreRow
  <2>2. shown \o more.rows \in Seq(Row)
    BY <1>2, <2>1
  <2> QED BY <1>1, <1>2, <1>3, <1>6, <2>2 DEF Grows
<1>7. CASE UNCHANGED <<more, shown, hasMore, base, torn>>
  BY <1>3, <1>4, <1>5, <1>6, <1>7 DEF Paging
<1>8. ASSUME NEW n \in Refreshes, Land(n) PROVE Paging'
  <2>1. /\ refresh[n].rows \in Seq(Row) /\ refresh[n].base \in Seq(Payments)
        /\ Within(refresh[n].base, list) /\ FirstPage(refresh[n].rows, refresh[n].base)
    BY <1>8 DEF Land, Reading, Types, RefreshRow
  <2>2. /\ shown' = refresh[n].rows /\ base' = refresh[n].base /\ list' = list
        /\ hasMore' = (Len(refresh[n].rows) = PageSize)
    BY <1>8 DEF Land, tables
  <2>3. /\ Covers(shown', base', list')
        /\ ~hasMore' => ToSet(base') \subseteq Ids(shown')
    BY <1>2, <2>1, <2>2, FirstPageCovers
  <2>4. more' # None => more'.late
    BY <1>2, <1>8 DEF Land, MoreRow
  <2> QED BY <2>1, <2>2, <2>3, <2>4 DEF Paging
<1>9. CASE LoadMore
  <2>1. /\ more' = [offset |-> Len(shown), rows |-> None, late |-> FALSE]
        /\ UNCHANGED <<list, shown, hasMore, base, torn>>
    BY <1>9 DEF LoadMore, Offset, tables, state, ghosts
  <2>2. more'.rows = None /\ more'.offset = Len(shown)
    BY <2>1
  <2> QED BY <1>3, <2>1, <2>2 DEF Paging
<1>10. CASE ReadMore
  <2>1. /\ more \in MoreRow /\ more # None
        /\ more' = [more EXCEPT !.rows = Page(more.offset)]
        /\ UNCHANGED <<list, shown, hasMore, base, torn>>
    BY <1>2, <1>10 DEF ReadMore, tables, state, ghosts
  <2>2. /\ more'.rows = Page(more.offset) /\ more'.offset = more.offset
        /\ more'.late = more.late /\ more.offset \in Nat
    BY <2>1 DEF MoreRow
  <2>3. ASSUME ~more.late, ~torn
        PROVE  /\ Covers(shown \o more'.rows, base, list)
               /\ Len(more'.rows) # PageSize => ToSet(base) \subseteq Ids(shown \o more'.rows)
    <3>1. more.offset = Len(shown) /\ Covers(shown, base, list) /\ Len(shown) <= Len(list)
      BY <1>3, <2>1, <2>3 DEF Covers
    <3>2. /\ Page(more.offset) \in Seq(Row)
          /\ \A i \in 1..Len(Page(more.offset)) :
                /\ more.offset + i \in 1..Len(list)
                /\ Page(more.offset)[i] = [id |-> list[more.offset + i],
                                           status |-> status[list[more.offset + i]]]
          /\ more.offset + Len(Page(more.offset)) <= Len(list)
          /\ Len(Page(more.offset)) # PageSize =>
                more.offset + Len(Page(more.offset)) = Len(list)
      BY <2>2, <3>1, PageIs
    <3>3. ASSUME NEW i \in 1..Len(Page(more.offset))
          PROVE  Page(more.offset)[i].id = list[more.offset + i]
      <4>1. Page(more.offset)[i] = [id |-> list[more.offset + i],
                                    status |-> status[list[more.offset + i]]]
        BY <3>2
      <4> QED BY <4>1
    <3>4. Len(Page(more.offset)) \in Nat /\ Len(list) \in Nat
      BY <1>2, <3>2
    <3>5. Distinct(list)
      BY DEF Listed
    <3> QED BY <1>2, <1>3, <2>2, <3>1, <3>2, <3>3, <3>4, <3>5, NextPageCovers
  <2> QED BY <1>3, <2>1, <2>2, <2>3 DEF Paging
<1>11. CASE LandMore
  <2>1. /\ shown' = shown \o more.rows /\ more' = None /\ more # None /\ more.rows # None
        /\ hasMore' = (Len(more.rows) = PageSize)
        /\ torn' = (torn \/ more.late)
        /\ UNCHANGED <<list, base>>
    BY <1>11 DEF LandMore, tables
  <2> QED BY <1>3, <2>1 DEF Paging
<1>12. CASE FailMore
  <2>1. more' = None /\ UNCHANGED <<list, shown, hasMore, base, torn>>
    BY <1>12 DEF FailMore, tables, state, ghosts
  <2> QED BY <1>3, <2>1 DEF Paging
<1>13. ASSUME NEW n \in Refreshes, ReadList(n) \/ ReadBalance(n) \/ FailRefresh(n)
       PROVE  UNCHANGED <<more, shown, hasMore, base, torn>>
  BY <1>13 DEF ReadList, ReadBalance, FailRefresh, state, ghosts
<1>14. ASSUME (\E p \in Payments : OtherClient(p)) \/ (\E p \in FormPayments : ServeCreate(p))
              \/ Open \/ Submit \/ Confirm \/ ServeConfirm
       PROVE  UNCHANGED <<more, shown, hasMore, base, torn>>
  BY <1>14 DEF OtherClient, ServeCreate, Open, Submit, Confirm, ServeConfirm, state, ghosts
<1>15. ASSUME PaymentComplete \/ FailForm \/ HideBanner \/ UNCHANGED vars
       PROVE  UNCHANGED <<more, shown, hasMore, base, torn>>
  BY <1>15 DEF PaymentComplete, FailForm, HideBanner, vars, state, ghosts
<1> QED BY <1>7, <1>8, <1>9, <1>10, <1>11, <1>12, <1>13, <1>14, <1>15 DEF Next

LEMMA SubmittingStep == ASSUME Inv, [Next]_vars PROVE Submitting'
<1> USE DEF Inv
<1>1. Grows
  BY NextGrows
<1>2. \A p \in Payments : status[p] \in Final => status'[p] \in Final
  BY <1>1 DEF Grows
<1>3. CASE UNCHANGED form
  BY <1>2, <1>3 DEF Submitting
<1>4. ASSUME NEW p \in FormPayments, ServeCreate(p) PROVE Submitting'
  BY <1>4, DashboardAssumption DEF ServeCreate, Submitting
<1>5. CASE ServeConfirm
  <2>1. form.intent \in Payments
    BY <1>5 DEF ServeConfirm, Submitting
  <2>2. form'.intent = form.intent /\ status'[form.intent] \in Final
    BY <1>5, <2>1, SettleGrows DEF ServeConfirm, Types
  <2> QED BY <2>1, <2>2 DEF Submitting
<1>6. CASE Confirm
  <2>1. form'.at = "confirming" /\ form'.intent = form.intent /\ form.at = "created"
    BY <1>6 DEF Confirm, Types
  <2> QED BY <2>1 DEF Submitting
<1>7. CASE Submit \/ PaymentComplete \/ FailForm
  <2>1. form'.at \in {"idle", "creating"}
    BY <1>7 DEF Submit, PaymentComplete, FailForm, Idle
  <2> QED BY <2>1 DEF Submitting
<1>8. ASSUME NEW n \in Refreshes, ReadList(n) \/ ReadBalance(n) \/ Land(n) \/ FailRefresh(n)
      PROVE  UNCHANGED form
  BY <1>8 DEF ReadList, ReadBalance, Land, FailRefresh
<1>9. ASSUME (\E p \in Payments : OtherClient(p)) \/ Open \/ LoadMore \/ ReadMore \/ LandMore
             \/ FailMore \/ HideBanner \/ UNCHANGED vars
      PROVE  UNCHANGED form
  BY <1>9 DEF OtherClient, Open, LoadMore, ReadMore, LandMore, FailMore, HideBanner, vars
<1> QED BY <1>3, <1>4, <1>5, <1>6, <1>7, <1>8, <1>9 DEF Next

\* A payment that has its final status when a refresh is sent is in what it reads.
LEMMA ToldByRead ==
    ASSUME Types, Listed, NEW p \in Payments, status[p] \in Final
    PROVE  Told(p, status[p], Page(0), list)
<1>1. p \in ToSet(list)
  BY DEF Listed, Final
<1>2. ASSUME p \in {list[i] : i \in DOMAIN list \cap 1..PageSize}
      PROVE  [id |-> p, status |-> status[p]] \in ToSet(Page(0))
  <2>1. PICK i \in DOMAIN list \cap 1..PageSize : p = list[i]
    BY <1>2
  <2>2. /\ list \in Seq(Payments) /\ Len(list) \in Nat /\ PageSize \in Nat
        /\ i \in 1..Len(list) /\ i <= PageSize
    BY <2>1, DashboardAssumption DEF Types
  <2>3. Page(0) \in Seq(Row) /\ Len(Page(0)) \in Nat
    BY PageIs
  <2>4. Len(Page(0)) # PageSize => Len(Page(0)) = Len(list)
    <3>1. 0 <= Len(list) => (Len(Page(0)) # PageSize => 0 + Len(Page(0)) = Len(list))
      BY PageIs
    <3> QED BY <2>2, <2>3, <3>1
  <2>5. i \in 1..Len(Page(0))
    BY <2>2, <2>3, <2>4
  <2>6. Page(0)[i] = [id |-> list[0 + i], status |-> status[list[0 + i]]]
    BY <2>5, PageIs
  <2>7. 0 + i = i
    BY <2>2
  <2>8. Page(0)[i] = [id |-> p, status |-> status[p]]
    BY <2>1, <2>6, <2>7
  <2> QED BY <2>3, <2>5, <2>8, Elements
<1> QED BY <1>1, <1>2 DEF Told

\* A page that is appended takes nothing away.
LEMMA ToldAppended ==
    ASSUME NEW p, NEW st, NEW b, NEW rows \in Seq(Row), NEW rest \in Seq(Row),
           Told(p, st, rows, b)
    PROVE  Told(p, st, rows \o rest, b)
  BY Appended DEF Told

\* The banner: the refresh that is sent with it is the last one or an older one
\* than the last, and each of them reads after the payment was settled.
LEMMA AnnouncingStep == ASSUME Inv, [Next]_vars PROVE Announcing'
<1> USE DEF Inv
<1>1. Grows
  BY NextGrows
<1> DEFINE p == announced
<1>2. SUFFICES ASSUME announced' # None PROVE Announcing'
  BY DEF Announcing
<1>3. ASSUME announced # None
      PROVE  /\ p \in Payments /\ status[p] \in Final /\ status'[p] = status[p]
             /\ sent \in Refreshes
             /\ refresh[sent].rows # None =>
                   Told(p, status[p], refresh[sent].rows, refresh[sent].base)
             /\ refresh[sent].balance # None /\ status[p] = "SUCCEEDED" =>
                   p \in refresh[sent].balance
             /\ landed = sent => /\ Told(p, status[p], shown, base)
                                 /\ status[p] = "SUCCEEDED" => p \in balance
  BY <1>1, <1>3 DEF Announcing, Grows, Types
<1>4. CASE UNCHANGED <<announced, refresh, sent, landed, shown, base, balance>>
  BY <1>2, <1>3, <1>4 DEF Announcing
<1>5. ASSUME StartRefresh, UNCHANGED <<landed, shown, base, balance>>,
             announced' \in Payments, status'[announced'] \in Final
      PROVE  Announcing'
  <2>1. sent' = sent + 1 /\ sent + 1 \in Refreshes /\ sent \in Nat /\ landed \in 0..sent
    BY <1>5, StartTypes DEF Types
  <2>2. refresh[sent + 1] = Closed
    BY <2>1 DEF Reading
  <2>3. refresh'[sent'].rows = None /\ refresh'[sent'].balance = None
    BY <1>5, <2>1, <2>2 DEF StartRefresh, Types, Closed
  <2>4. landed' # sent'
    BY <1>5, <2>1
  <2> QED BY <1>5, <2>1, <2>3, <2>4 DEF Announcing
<1>6. CASE Open
  <2>1. announced' = announced
    BY <1>6 DEF Open, state
  <2> QED BY <1>2, <1>3, <1>5, <1>6, <2>1 DEF Open, state, ghosts
<1>7. CASE PaymentComplete
  <2>1. form.at = "confirmed" /\ announced' = form.intent /\ form.intent \in Payments
        /\ status[form.intent] \in Final /\ status' = status
    BY <1>7 DEF PaymentComplete, Submitting, tables
  <2> QED BY <1>5, <1>7, <2>1 DEF PaymentComplete, ghosts
<1>8. ASSUME NEW n \in Refreshes, ReadList(n) PROVE Announcing'
  <2>1. UNCHANGED <<list, status, announced, sent, landed, shown, base, balance>>
    BY <1>8 DEF ReadList, tables, state, ghosts
  <2>2. refresh'[n].rows = Page(0) /\ refresh'[n].base = list
        /\ refresh'[n].balance = refresh[n].balance
    BY <1>8 DEF ReadList, Types, RefreshRow
  <2>3. \A m \in Refreshes \ {n} : refresh'[m] = refresh[m]
    BY <1>8 DEF ReadList, Types
  <2>4. Told(p, status[p], Page(0), list)
    BY <1>2, <1>3, <2>1, ToldByRead
  <2> QED BY <1>2, <1>3, <2>1, <2>2, <2>3, <2>4 DEF Announcing
<1>9. ASSUME NEW n \in Refreshes, ReadBalance(n) PROVE Announcing'
  <2>1. UNCHANGED <<list, status, announced, sent, landed, shown, base, balance>>
    BY <1>9 DEF ReadBalance, tables, state, ghosts
  <2>2. refresh'[n].rows = refresh[n].rows /\ refresh'[n].base = refresh[n].base
        /\ refresh'[n].balance = {q \in Payments : status[q] = "SUCCEEDED"}
    BY <1>9 DEF ReadBalance, Types, RefreshRow
  <2>3. \A m \in Refreshes \ {n} : refresh'[m] = refresh[m]
    BY <1>9 DEF ReadBalance, Types
  <2> QED BY <1>2, <1>3, <2>1, <2>2, <2>3 DEF Announcing
<1>10. ASSUME NEW n \in Refreshes, refresh' = [refresh EXCEPT ![n] = Closed]
       PROVE  /\ \A m \in Refreshes \ {n} : refresh'[m] = refresh[m]
              /\ refresh'[n].rows = None /\ refresh'[n].balance = None
  BY <1>10 DEF Types, Closed
<1>11. ASSUME NEW n \in Refreshes, Land(n) PROVE Announcing'
  <2>1. UNCHANGED <<status, announced, sent>> /\ landed' = n /\ shown' = refresh[n].rows
        /\ base' = refresh[n].base /\ balance' = refresh[n].balance
        /\ refresh[n].rows # None /\ refresh[n].balance # None
        /\ refresh' = [refresh EXCEPT ![n] = Closed]
    BY <1>11 DEF Land, tables
  <2>2. CASE n = sent
    BY <1>2, <1>3, <1>10, <2>1, <2>2 DEF Announcing
  <2>3. CASE n # sent
    BY <1>2, <1>3, <1>10, <2>1, <2>3 DEF Announcing
  <2> QED BY <2>2, <2>3
<1>12. ASSUME NEW n \in Refreshes, FailRefresh(n) PROVE Announcing'
  <2>1. UNCHANGED <<status, announced, sent, landed, shown, base, balance>>
        /\ refresh' = [refresh EXCEPT ![n] = Closed]
    BY <1>12 DEF FailRefresh, tables, state, ghosts
  <2> QED BY <1>2, <1>3, <1>10, <2>1 DEF Announcing
<1>13. CASE LandMore
  <2>1. UNCHANGED <<status, announced, refresh, sent, landed, base, balance>>
        /\ shown' = shown \o more.rows
    BY <1>13 DEF LandMore, tables
  <2>2. shown \in Seq(Row) /\ more.rows \in Seq(Row)
    BY <1>13 DEF LandMore, Types, MoreRow
  <2>3. Told(p, status[p], shown, base) => Told(p, status[p], shown', base)
    BY <2>1, <2>2, ToldAppended
  <2> QED BY <1>2, <1>3, <2>1, <2>3 DEF Announcing
<1>14. CASE HideBanner
  BY <1>2, <1>14 DEF HideBanner
<1>15. ASSUME (\E q \in Payments : OtherClient(q)) \/ (\E q \in FormPayments : ServeCreate(q))
              \/ LoadMore \/ ReadMore \/ FailMore
       PROVE  UNCHANGED <<announced, refresh, sent, landed, shown, base, balance>>
  BY <1>15 DEF OtherClient, ServeCreate, LoadMore, ReadMore, FailMore, state, ghosts
<1>16. ASSUME Submit \/ Confirm \/ ServeConfirm \/ FailForm \/ UNCHANGED vars
       PROVE  UNCHANGED <<announced, refresh, sent, landed, shown, base, balance>>
  BY <1>16 DEF Submit, Confirm, ServeConfirm, FailForm, vars, state, ghosts
<1> QED BY <1>4, <1>6, <1>7, <1>8, <1>9, <1>11, <1>12, <1>13, <1>14, <1>15, <1>16 DEF Next

LEMMA NextInv == Inv /\ [Next]_vars => Inv'
<1> SUFFICES ASSUME Inv, [Next]_vars PROVE Inv'
  OBVIOUS
<1>1. Listed'
  BY NextGrows DEF Inv, Grows
<1> QED BY <1>1, TypesStep, ReadingStep, PagingStep, SubmittingStep, AnnouncingStep DEF Inv

-----------------------------------------------------------------------------
(* Theorems. *)

\* The invariant holds in every state, for every page size and any number of
\* payments, refreshes and pages.
THEOREM Invariance == Spec => []Inv
  BY InitInv, NextInv, PTL DEF Spec

\* Every table and every state of the page keeps its type.
THEOREM TypeCorrect == Spec => []TypeOK
<1>1. ASSUME Inv PROVE TypeOK
  <2>1. Types /\ Within(base, list)
    BY <1>1 DEF Inv, Paging
  <2>2. ToSet(list) \subseteq Payments /\ ToSet(shown) \subseteq Row
    BY <2>1, Elements DEF Types
  <2>3. ASSUME NEW n \in Refreshes
        PROVE  /\ refresh[n].open \in BOOLEAN
               /\ refresh[n].rows # None => ToSet(refresh[n].rows) \subseteq Row
               /\ refresh[n].balance # None => refresh[n].balance \subseteq Payments
    <3>1. /\ refresh[n].open \in BOOLEAN /\ refresh[n].rows \in Seq(Row) \cup {None}
          /\ refresh[n].balance \in (SUBSET Payments) \cup {None}
      BY <2>1 DEF Types, RefreshRow
    <3> QED BY <3>1, Elements
  <2>4. more # None /\ more.rows # None => ToSet(more.rows) \subseteq Row
    <3>1. more # None => more.rows \in Seq(Row) \cup {None}
      BY <2>1 DEF Types, MoreRow
    <3> QED BY <3>1, Elements
  <2> QED BY <2>1, <2>2, <2>3, <2>4 DEF Types, TypeOK, Within
<1> QED BY <1>1, Invariance, PTL

\* No payment of the last refresh is skipped on the way down the list, and Load
\* More is gone only when all are shown, however many payments are created
\* between two pages and however long an answer takes.
THEOREM NoneIsSkipped == Spec => []NothingSkipped
<1>1. ASSUME Inv PROVE NothingSkipped
  <2> SUFFICES ASSUME ~torn
               PROVE  /\ \A i, j \in DOMAIN base :
                            i < j /\ base[j] \in ShownIds => base[i] \in ShownIds
                      /\ ~hasMore => ToSet(base) \subseteq ShownIds
                      /\ list = base => Len(shown) <= Len(base)
    BY DEF NothingSkipped
  <2>1. Covers(shown, base, list) /\ (~hasMore => ToSet(base) \subseteq Ids(shown))
    BY <1>1 DEF Inv, Paging
  <2>2. Ids(shown) = ShownIds
    BY DEF Ids, ShownIds
  <2> QED BY <2>1, <2>2 DEF Covers
<1> QED BY <1>1, Invariance, PTL

\* What the banner announces is in the table and in the balance as soon as the
\* refresh that was sent last has landed last.
THEOREM AnnouncedShows == Spec => []AnnouncedIsListed
<1>1. ASSUME Inv PROVE AnnouncedIsListed
  BY <1>1 DEF Inv, Announcing, Told, AnnouncedIsListed
<1> QED BY <1>1, Invariance, PTL
=============================================================================
