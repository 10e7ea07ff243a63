------------------------ MODULE ConnectionPoolProofs ------------------------
(***************************************************************************)
(* Proofs about the connections of the API, for every number of requests,  *)
(* connections and faults: the pool stays clean and bounded, nobody is     *)
(* refused but by a crowd, charges exclude each other as long as sessions  *)
(* last, and the payment is settled once although they do not.             *)
(***************************************************************************)
EXTENDS ConnectionPool, FiniteSetTheorems, TLAPS

\* A confirm between SELECT ... FOR UPDATE and its COMMIT.
InTx(r) == /\ stage[r] = "handler" /\ r \in Confirms
           /\ pc[r] \in {"process", "charge", "update", "commit"}

\* Each stretch of code has its stage, a connection in hand or none, and no
\* outcome before the end; without the process there are no requests.
CtlInv ==
    /\ \A r \in Requests :
          /\ Inside(r) <=> held[r] # None
          /\ pc[r] \in {"lock", "process", "charge", "update", "abort"} =>
                stage[r] = "handler" /\ r \in Confirms
          /\ pc[r] = "query" => ~(stage[r] = "handler" /\ r \in Confirms)
          /\ pc[r] \notin {"abort", "return", "done"} => outcome[r] = None
          /\ pc[r] = "abort" => outcome[r] = "conflict"
    /\ ~running => \A r \in Requests : pc[r] \in {"idle", "done"}

\* A connection is in one place, and a closed one on its way out.
ConnInv ==
    /\ \A r, s \in Used : held[r] = held[s] => r = s
    /\ \A r \in Used : held[r] \notin idle
    /\ \A c \in idle : session[c] \in {"open", "lost"}
    /\ \A r \in Used : /\ session[held[r]] # "none"
                       /\ session[held[r]] = "closed" => pc[r] = "return"

\* The row lock is that of an open session, and of the confirm in whose hands it
\* is; the payment is not settled behind the back of such a confirm.
LockInv ==
    /\ locker # None =>
          /\ session[locker] = "open"
          /\ \E r \in Used : held[r] = locker /\ (InTx(r) \/ pc[r] = "abort")
    /\ \A r \in Requests : InTx(r) /\ Live(r) => locker = held[r] /\ settled = None

\* What is known of the confirm that settled the payment, and of the others.
OutInv ==
    \A r \in Confirms :
        /\ InTx(r) /\ pc[r] \in {"update", "commit"} => r \in charged
        /\ settled = r => /\ r \in charged
                          /\ stage[r] = "handler"
                          /\ pc[r] \in {"reply", "return", "done"}
                          /\ outcome[r] \in {None, "ok", "error"}
        /\ stage[r] = "handler" /\ pc[r] \in {"reply", "return"} /\ outcome[r] = None =>
              settled = r
        /\ outcome[r] = "ok" => settled = r

SizeInv == Cardinality(idle) + Cardinality(Used) <= MaxConn

Inv == TypeOK /\ CtlInv /\ ConnInv /\ LockInv /\ OutInv /\ SizeInv

-----------------------------------------------------------------------------
LEMMA Sets == /\ IsFiniteSet(Used) /\ Cardinality(Used) \in Nat
              /\ \A C \in SUBSET Conns : IsFiniteSet(C) /\ Cardinality(C) \in Nat
  BY PoolAssumption, FS_Subset, FS_CardinalityType DEF Used

LEMMA InitInv == Init => Inv
<1> SUFFICES ASSUME Init PROVE Inv
  OBVIOUS
<1> USE PoolAssumption DEF Init
<1>1. TypeOK
  BY DEF TypeOK, Opened
<1>2. Used = {}
  BY DEF Used
<1>3. CtlInv /\ LockInv /\ OutInv
  <2>1. CtlInv
    BY DEF CtlInv, Inside
  <2>2. LockInv
    BY DEF LockInv, InTx
  <2>3. OutInv
    BY DEF OutInv, InTx
  <2> QED BY <2>1, <2>2, <2>3
<1>4. ConnInv
  BY <1>2 DEF ConnInv, Opened
<1>5. SizeInv
  BY <1>2, FS_EmptySet DEF SizeInv
<1> QED BY <1>1, <1>3, <1>4, <1>5 DEF Inv

LEMMA TypeStep == Inv /\ [Next]_vars => TypeOK'
<1> SUFFICES ASSUME Inv, [Next]_vars PROVE TypeOK'
  OBVIOUS
<1> USE DEF Inv, TypeOK, Goto, server
<1>1. ASSUME NEW r \in Requests, Arrive(r) \/ Take(r) \/ Connect(r) \/ Refuse(r) PROVE TypeOK'
  <2>1. FirstStatement(r) \in {"lock", "query"}
    BY DEF FirstStatement
  <2> QED BY <1>1, <2>1 DEF Arrive, Take, Connect, Refuse, Fresh
<1>2. ASSUME NEW r \in Requests, Query(r) \/ LockRow(r) \/ MarkProcessing(r) PROVE TypeOK'
  BY <1>2 DEF Query, LockRow, MarkProcessing
<1>3. ASSUME NEW r \in Requests, Charge(r) \/ Update(r) PROVE TypeOK'
  <2>1. CASE Charge(r)
    BY <2>1 DEF Charge, CtlInv
  <2>2. CASE Update(r)
    BY <2>2 DEF Update
  <2> QED BY <1>3, <2>1, <2>2
<1>4. ASSUME NEW r \in Requests, Commit(r) \/ Committed(r) \/ Rollback(r) \/ Break(r) PROVE TypeOK'
  BY <1>4 DEF Commit, Committed, Rollback, Break, Unlock
<1>5. ASSUME NEW r \in Requests, Return(r) PROVE TypeOK'
  <2>1. held[r] \in Conns
    BY <1>5 DEF Return, CtlInv, Inside
  <2> QED BY <1>5, <2>1 DEF Return, Kept
<1>6. CASE Shutdown \/ Startup
  <2>1. CASE Shutdown
    BY <2>1 DEF Shutdown
  <2>2. CASE Startup
    <3>1. PICK C \in SUBSET Conns :
             /\ idle' = C
             /\ session' = [c \in Conns |-> IF c \in C THEN "open" ELSE session[c]]
      BY <2>2 DEF Startup, Fresh
    <3>2. /\ running' = TRUE
          /\ UNCHANGED <<server, pc, stage, held, outcome, charged>>
      BY <2>2 DEF Startup
    <3> QED BY <3>1, <3>2
  <2> QED BY <1>6, <2>1, <2>2
<1>7. CASE Cut \/ Outage
  <2>1. ASSUME NEW C \in SUBSET Conns, Lose(C) PROVE TypeOK' \/ up' \notin BOOLEAN
    BY <2>1, Sets, PoolAssumption DEF Lose
  <2> QED BY <1>7, <2>1 DEF Cut, Outage, Open
<1>8. CASE Recover \/ UNCHANGED vars
  BY <1>8 DEF Recover, vars
<1> QED BY <1>1, <1>2, <1>3, <1>4, <1>5, <1>6, <1>7, <1>8 DEF Next, Step

LEMMA CtlStep == Inv /\ [Next]_vars => CtlInv'
<1> SUFFICES ASSUME Inv, [Next]_vars PROVE CtlInv'
  OBVIOUS
<1> USE PoolAssumption DEF Inv, TypeOK, Goto, server, CtlInv, Inside
<1>1. ASSUME NEW r \in Requests, Arrive(r) \/ Refuse(r) PROVE CtlInv'
  BY <1>1 DEF Arrive, Refuse
<1>2. ASSUME NEW r \in Requests, Take(r) \/ Connect(r) PROVE CtlInv'
  BY <1>2 DEF Take, Connect, Fresh, FirstStatement
<1>3. ASSUME NEW r \in Requests, Query(r) \/ LockRow(r) \/ MarkProcessing(r) \/ Charge(r) \/ Update(r)
      PROVE  CtlInv'
  BY <1>3 DEF Query, LockRow, MarkProcessing, Charge, Update
<1>4. ASSUME NEW r \in Requests, Commit(r) \/ Committed(r) \/ Rollback(r) \/ Break(r) PROVE CtlInv'
  BY <1>4 DEF Commit, Committed, Rollback, Break
<1>5. ASSUME NEW r \in Requests, Return(r) PROVE CtlInv'
  BY <1>5 DEF Return
<1>6. CASE Shutdown \/ Startup
  BY <1>6 DEF Shutdown, Startup
<1>7. CASE Cut \/ Outage \/ Recover \/ UNCHANGED vars
  BY <1>7 DEF Cut, Outage, Lose, Recover, vars
<1> QED BY <1>1, <1>2, <1>3, <1>4, <1>5, <1>6, <1>7 DEF Next, Step

LEMMA UsedIs == ASSUME Inv, [Next]_vars
                PROVE  /\ \A r \in Requests : r \in Used <=> Inside(r)
                       /\ \A r \in Requests : r \in Used' <=> Inside(r)'
  BY CtlStep DEF Inv, CtlInv, Used

LEMMA ConnStep == Inv /\ [Next]_vars => ConnInv'
<1> SUFFICES ASSUME Inv, [Next]_vars PROVE ConnInv'
  OBVIOUS
<1> USE PoolAssumption DEF Inv, TypeOK, Goto, server, ConnInv, Used
<1>1. ASSUME NEW r \in Requests, Arrive(r) \/ Refuse(r) PROVE ConnInv'
  BY <1>1 DEF Arrive, Refuse, CtlInv, Inside
<1>2. ASSUME NEW r \in Requests, Take(r) \/ Connect(r) PROVE ConnInv'
  BY <1>2 DEF Take, Connect, Fresh, FirstStatement, CtlInv, Inside
<1>3. ASSUME NEW r \in Requests, Query(r) \/ LockRow(r) \/ MarkProcessing(r) \/ Charge(r) \/ Update(r)
      PROVE  ConnInv'
  BY <1>3 DEF Query, LockRow, MarkProcessing, Charge, Update, Live
<1>4. ASSUME NEW r \in Requests, Commit(r) \/ Committed(r) \/ Rollback(r) PROVE ConnInv'
  BY <1>4 DEF Commit, Committed, Rollback, Live
<1>5. ASSUME NEW r \in Requests, Break(r) PROVE ConnInv'
  BY <1>5 DEF Break, CtlInv, Inside
<1>6. ASSUME NEW r \in Requests, Return(r) PROVE ConnInv'
  BY <1>6 DEF Return, Kept, CtlInv, Inside
<1>7. CASE Shutdown \/ Startup
  BY <1>7 DEF Shutdown, Startup, Fresh, CtlInv, Inside
<1>8. ASSUME NEW C \in SUBSET Open, Lose(C) PROVE ConnInv'
  BY <1>8 DEF Lose, Open
<1>9. CASE Cut \/ Outage
  <2>1. \E C \in SUBSET Open : Lose(C)
    BY <1>9 DEF Cut, Outage
  <2> QED BY <2>1, <1>8
<1>10. CASE Recover \/ UNCHANGED vars
  BY <1>10 DEF Recover, vars
<1> QED BY <1>1, <1>2, <1>3, <1>4, <1>5, <1>6, <1>7, <1>9, <1>10 DEF Next, Step

LEMMA LockStep == Inv /\ [Next]_vars => LockInv'
<1> SUFFICES ASSUME Inv, [Next]_vars PROVE LockInv'
  OBVIOUS
<1> USE PoolAssumption DEF Inv, TypeOK, Goto, server, LockInv, Used, InTx, Live
<1>1. ASSUME NEW r \in Requests, Arrive(r) \/ Refuse(r) PROVE LockInv'
  BY <1>1 DEF Arrive, Refuse, CtlInv, Inside
<1>2. ASSUME NEW r \in Requests, Take(r) \/ Connect(r) PROVE LockInv'
  BY <1>2 DEF Take, Connect, Fresh, FirstStatement, CtlInv, Inside, ConnInv
<1>3. ASSUME NEW r \in Requests, Query(r) \/ MarkProcessing(r) \/ Charge(r) \/ Update(r)
      PROVE  LockInv'
  BY <1>3 DEF Query, MarkProcessing, Charge, Update, CtlInv, Inside
<1>4. ASSUME NEW r \in Requests, LockRow(r) PROVE LockInv'
  BY <1>4 DEF LockRow, CtlInv, Inside
<1>5. ASSUME NEW r \in Requests, Commit(r) PROVE LockInv'
  BY <1>5 DEF Commit, Unlock, ConnInv, CtlInv, Inside
<1>6. ASSUME NEW r \in Requests, Committed(r) \/ Rollback(r) PROVE LockInv'
  BY <1>6 DEF Committed, Rollback, Unlock, ConnInv, CtlInv, Inside
<1>7. ASSUME NEW r \in Requests, Break(r) PROVE LockInv'
  BY <1>7 DEF Break, CtlInv, Inside, ConnInv
<1>8. ASSUME NEW r \in Requests, Return(r) PROVE LockInv'
  BY <1>8 DEF Return, Kept, CtlInv, Inside, ConnInv
<1>9. CASE Shutdown \/ Startup
  BY <1>9 DEF Shutdown, Startup, Fresh, CtlInv, Inside
<1>10. ASSUME NEW C \in SUBSET Open, Lose(C) PROVE LockInv'
  BY <1>10 DEF Lose, Open, CtlInv, Inside
<1>11. CASE Cut \/ Outage
  <2>1. \E C \in SUBSET Open : Lose(C)
    BY <1>11 DEF Cut, Outage
  <2> QED BY <2>1, <1>10
<1>12. CASE Recover \/ UNCHANGED vars
  BY <1>12 DEF Recover, vars
<1> QED BY <1>1, <1>2, <1>3, <1>4, <1>5, <1>6, <1>7, <1>8, <1>9, <1>11, <1>12 DEF Next, Step

LEMMA OutStep == Inv /\ [Next]_vars => OutInv'
<1> SUFFICES ASSUME Inv, [Next]_vars PROVE OutInv'
  OBVIOUS
<1> USE PoolAssumption DEF Inv, TypeOK, Goto, server, OutInv, InTx
<1>1. ASSUME NEW r \in Requests, Arrive(r) \/ Refuse(r) PROVE OutInv'
  BY <1>1 DEF Arrive, Refuse, CtlInv
<1>2. ASSUME NEW r \in Requests, Take(r) \/ Connect(r) PROVE OutInv'
  BY <1>2 DEF Take, Connect, FirstStatement, CtlInv
<1>3. ASSUME NEW r \in Requests, Query(r) \/ MarkProcessing(r) \/ Charge(r) \/ Update(r)
      PROVE  OutInv'
  BY <1>3 DEF Query, MarkProcessing, Charge, Update, CtlInv
<1>4. ASSUME NEW r \in Requests, LockRow(r) PROVE OutInv'
  BY <1>4 DEF LockRow, CtlInv
<1>5. ASSUME NEW r \in Requests, Commit(r) PROVE OutInv'
  BY <1>5 DEF Commit, LockInv, Live, CtlInv
<1>6. ASSUME NEW r \in Requests, Committed(r) \/ Rollback(r) \/ Break(r) PROVE OutInv'
  BY <1>6 DEF Committed, Rollback, Break, CtlInv
<1>7. ASSUME NEW r \in Requests, Return(r) PROVE OutInv'
  BY <1>7 DEF Return, CtlInv
<1>8. CASE Shutdown \/ Startup
  BY <1>8 DEF Shutdown, Startup
<1>9. CASE Cut \/ Outage \/ Recover \/ UNCHANGED vars
  BY <1>9 DEF Cut, Outage, Lose, Recover, vars
<1> QED BY <1>1, <1>2, <1>3, <1>4, <1>5, <1>6, <1>7, <1>8, <1>9 DEF Next, Step

-----------------------------------------------------------------------------
(* The size of the pool. *)

LEMMA SizeKept == ASSUME Inv, idle' = idle, held' = held PROVE SizeInv'
  BY DEF Inv, SizeInv, Used

\* A connection taken from the pool, or a new one, goes to one more request.
LEMMA SizeTaken ==
    ASSUME Inv, NEW r \in Requests, NEW c \in Conns, pc[r] = "take",
           held' = [held EXCEPT ![r] = c]
    PROVE  Cardinality(Used') = Cardinality(Used) + 1
<1>1. r \notin Used
  BY DEF Inv, CtlInv, Inside, Used
<1>2. Used' = Used \cup {r}
  BY PoolAssumption DEF Inv, TypeOK, Used
<1> QED BY <1>1, <1>2, Sets, FS_AddElement

LEMMA SizeReturned ==
    ASSUME Inv, NEW r \in Requests, Return(r)
    PROVE  Cardinality(Used') = Cardinality(Used) - 1
<1>1. r \in Used
  BY DEF Inv, CtlInv, Inside, Used, Return
<1>2. Used' = Used \ {r}
  BY DEF Inv, TypeOK, Used, Return
<1> QED BY <1>1, <1>2, Sets, FS_RemoveElement

LEMMA SizeStep == Inv /\ [Next]_vars => SizeInv'
<1> SUFFICES ASSUME Inv, [Next]_vars PROVE SizeInv'
  OBVIOUS
<1> DEFINE n == Cardinality(idle)
           m == Cardinality(Used)
<1>1. n \in Nat /\ m \in Nat /\ n + m <= MaxConn /\ IsFiniteSet(idle)
  BY Sets DEF Inv, TypeOK, SizeInv
<1>2. ASSUME NEW r \in Requests, Take(r) PROVE SizeInv'
  <2>1. PICK c \in idle : held' = [held EXCEPT ![r] = c] /\ idle' = idle \ {c}
    BY <1>2 DEF Take
  <2>2. Cardinality(idle') = n - 1
    BY <1>1, <2>1, FS_RemoveElement
  <2>3. Cardinality(Used') = m + 1
    BY <1>2, <2>1, SizeTaken DEF Take, Inv, TypeOK
  <2> QED BY <1>1, <2>2, <2>3 DEF SizeInv
<1>3. ASSUME NEW r \in Requests, Connect(r) PROVE SizeInv'
  <2>1. PICK c \in Fresh : held' = [held EXCEPT ![r] = c]
    BY <1>3 DEF Connect
  <2>2. Cardinality(Used') = m + 1
    BY <1>3, <2>1, SizeTaken DEF Connect, Fresh
  <2>3. Cardinality(idle') = 0 /\ m < MaxConn
    BY <1>3, FS_EmptySet DEF Connect
  <2> QED BY <1>1, <2>2, <2>3, PoolAssumption DEF SizeInv
<1>4. ASSUME NEW r \in Requests, Return(r) PROVE SizeInv'
  <2>1. Cardinality(Used') = m - 1
    BY <1>4, SizeReturned
  <2>2. idle' = idle \/ idle' = idle \cup {held[r]}
    BY <1>4 DEF Return
  <2>3. Cardinality(idle') <= n + 1 /\ Cardinality(idle') \in Nat
    BY <1>1, <2>2, FS_AddElement
  <2> QED BY <1>1, <2>1, <2>3, PoolAssumption DEF SizeInv
<1>5. CASE Shutdown
  <2>1. Used' = Used /\ Cardinality(idle') = 0
    BY <1>5, FS_EmptySet DEF Shutdown, Used
  <2> QED BY <1>1, <2>1, PoolAssumption DEF SizeInv
<1>6. CASE Startup
  <2>1. Used' = {}
    BY <1>6 DEF Startup, Used, Inv, CtlInv, Inside
  <2>2. Cardinality(idle') = MinConn
    BY <1>6 DEF Startup
  <2> QED BY <2>1, <2>2, FS_EmptySet, PoolAssumption DEF SizeInv
<1>7. ASSUME NEW r \in Requests,
             \/ Arrive(r) \/ Refuse(r) \/ Query(r) \/ LockRow(r) \/ MarkProcessing(r)
             \/ Charge(r) \/ Update(r) \/ Commit(r) \/ Committed(r) \/ Rollback(r) \/ Break(r)
      PROVE  SizeInv'
  <2>1. idle' = idle /\ held' = held
    BY <1>7 DEF Arrive, Refuse, Query, LockRow, MarkProcessing, Charge, Update, Commit,
                Committed, Rollback, Break
  <2> QED BY <2>1, SizeKept
<1>8. CASE Cut \/ Outage \/ Recover \/ UNCHANGED vars
  BY <1>8, SizeKept DEF Cut, Outage, Lose, Recover, vars
<1> QED BY <1>2, <1>3, <1>4, <1>5, <1>6, <1>7, <1>8 DEF Next, Step

-----------------------------------------------------------------------------
\* The whole invariant holds in every state.
THEOREM Invariance == Spec => []Inv
<1>1. Inv /\ [Next]_vars => Inv'
  BY TypeStep, CtlStep, ConnStep, LockStep, OutStep, SizeStep DEF Inv
<1> QED BY InitInv, <1>1, PTL DEF Spec

\* However many requests, connections and faults, the variables keep their types.
THEOREM TypeCorrect == Spec => []TypeOK
<1>1. Inv => TypeOK
  BY DEF Inv
<1> QED BY <1>1, Invariance, PTL

\* Connections are never shared, and the pool never outgrows MaxConn, whatever
\* sessions break and wherever handlers raise.
THEOREM PoolStaysClean == Spec => []PoolIsClean
<1>1. Inv => PoolIsClean
  BY DEF Inv, ConnInv, LockInv, SizeInv, PoolIsClean
<1> QED BY <1>1, Invariance, PTL

\* Charges of one payment exclude each other as long as the sessions last.
THEOREM LockProtectsCharges == Spec => []LiveChargesExclude
<1>1. Inv => LiveChargesExclude
  <2> SUFFICES ASSUME Inv, NEW r \in Requests, Charging(r), Live(r)
               PROVE  /\ settled = None
                      /\ \A s \in Requests : Charging(s) /\ Live(s) => r = s
    BY DEF LiveChargesExclude
  <2>1. \A s \in Requests : Charging(s) /\ Live(s) =>
           s \in Used /\ locker = held[s] /\ settled = None
    BY DEF Inv, CtlInv, LockInv, Charging, InTx, Inside, Used
  <2> QED BY <2>1 DEF Inv, ConnInv
<1> QED BY <1>1, Invariance, PTL

\* A confirm answered with success settled the payment; one answered with a 409
\* or refused did not.
THEOREM OutcomesAreTrue == Spec => []OutcomeIsTrue
<1>1. Inv => OutcomeIsTrue
  BY PoolAssumption DEF Inv, OutInv, OutcomeIsTrue
<1> QED BY <1>1, Invariance, PTL

\* A confirm that lost its session never settles what another has settled.
THEOREM SettlesOnce == Spec => SettledOnce
<1>1. Inv /\ [Next]_vars => (settled # None => settled' = settled)
  <2> SUFFICES ASSUME Inv, [Next]_vars, settled # None PROVE settled' = settled
    OBVIOUS
  <2>1. ASSUME NEW r \in Requests, Commit(r) PROVE settled' = settled
    BY <2>1 DEF Commit, Inv, LockInv, InTx
  <2>2. ASSUME NEW r \in Requests, Arrive(r) \/ (Step(r) /\ ~Commit(r)) PROVE settled' = settled
    BY <2>2 DEF Step, server, Arrive, Take, Connect, Refuse, Query, LockRow, MarkProcessing,
                Charge, Update, Committed, Rollback, Break, Return
  <2>3. CASE Shutdown \/ Startup \/ Cut \/ Outage \/ Recover \/ UNCHANGED vars
    BY <2>3 DEF server, Shutdown, Startup, Cut, Outage, Lose, Recover, vars
  <2> QED BY <2>1, <2>2, <2>3 DEF Next
<1> QED BY <1>1, Invariance, PTL DEF Spec, SettledOnce

\* With PostgreSQL up, whoever is refused met MaxConn others inside get_conn().
THEOREM OnlyCrowdsRefuse == Spec => RefusedByCrowd
<1>1. Inv /\ [Next]_vars =>
        \A r \in Requests : outcome'[r] = "refused" /\ outcome[r] # "refused" =>
          ~up \/ Cardinality({s \in Requests : Inside(s)}) >= MaxConn
  <2> SUFFICES ASSUME Inv, [Next]_vars, NEW r \in Requests,
                      outcome'[r] = "refused", outcome[r] # "refused"
               PROVE  ~up \/ Cardinality({s \in Requests : Inside(s)}) >= MaxConn
    OBVIOUS
  <2>1. Used = {s \in Requests : Inside(s)}
    BY DEF Inv, CtlInv, Used
  <2>2. ASSUME NEW s \in Requests, Arrive(s) \/ (Step(s) /\ ~Refuse(s)) PROVE FALSE
    BY <2>2, PoolAssumption
    DEF Inv, TypeOK, Step, server, Arrive, Take, Connect, Query, LockRow, MarkProcessing,
        Charge, Update, Commit, Committed, Rollback, Break, Return
  <2>3. ASSUME NEW s \in Requests, Refuse(s)
        PROVE  ~up \/ Cardinality({t \in Requests : Inside(t)}) >= MaxConn
    BY <2>1, <2>3, PoolAssumption DEF Refuse
  <2>4. CASE Shutdown \/ Startup \/ Cut \/ Outage \/ Recover \/ UNCHANGED vars
    BY <2>4 DEF server, Shutdown, Startup, Cut, Outage, Lose, Recover, vars
  <2> QED BY <2>2, <2>3, <2>4 DEF Next
<1> QED BY <1>1, Invariance, PTL DEF Spec, RefusedByCrowd

-----------------------------------------------------------------------------
(* A lost session costs one request. *)

Bad == {c \in Conns : session[c] \in {"lost", "closed"}}
Failed == {r \in Requests : outcome[r] = "error"}
Gone == {r \in Requests : outcome[r] = "error" /\ held[r] = None}

\* A request that has failed and not yet given its connection back holds a closed
\* one; the connections that are gone and the requests that are gone with one are
\* together no more than the sessions lost.
FailInv ==
    /\ \A r \in Failed : held[r] # None => session[held[r]] = "closed"
    /\ Cardinality(Bad) + Cardinality(Gone) <= lost

LEMMA BadSets == /\ IsFiniteSet(Bad) /\ Cardinality(Bad) \in Nat
                 /\ IsFiniteSet(Gone) /\ Cardinality(Gone) \in Nat
                 /\ IsFiniteSet(Failed) /\ Cardinality(Failed) \in Nat
  BY PoolAssumption, FS_Subset, FS_CardinalityType DEF Bad, Gone, Failed

LEMMA FailInit == Init => FailInv
<1> SUFFICES ASSUME Init PROVE FailInv
  OBVIOUS
<1>1. Bad = {} /\ Gone = {} /\ Failed = {}
  BY PoolAssumption DEF Init, Opened, Bad, Gone, Failed
<1> QED BY <1>1, FS_EmptySet DEF FailInv, Init

\* Steps after which no more is bad and no more is gone.
LEMMA FailKept ==
    ASSUME FailInv, Bad' \subseteq Bad, Gone' = Gone, lost' = lost, lost \in Nat,
           \A r \in Failed' : held'[r] # None => session'[held'[r]] = "closed"
    PROVE  FailInv'
<1>1. Cardinality(Bad') <= Cardinality(Bad) /\ Cardinality(Bad') \in Nat
  BY BadSets, FS_Subset, FS_CardinalityType
<1> QED BY <1>1, BadSets DEF FailInv

LEMMA FailStep == Inv /\ FailInv /\ [Next]_vars => FailInv'
<1> SUFFICES ASSUME Inv, FailInv, [Next]_vars PROVE FailInv'
  OBVIOUS
<1> USE PoolAssumption DEF Inv, TypeOK, Goto, server
<1>1. ASSUME NEW r \in Requests, Arrive(r) \/ Take(r) \/ Connect(r) \/ Refuse(r) PROVE FailInv'
  <2>1. /\ Bad' = Bad /\ lost' = lost
        /\ \A s \in Requests : outcome'[s] = "error" <=> outcome[s] = "error"
    <3>1. CASE Arrive(r) \/ Take(r)
      BY <3>1 DEF Arrive, Take, Bad
    <3>2. CASE Connect(r)
      BY <3>2 DEF Connect, Fresh, Bad
    <3>3. CASE Refuse(r)
      BY <3>3 DEF Refuse, Bad, CtlInv
    <3> QED BY <1>1, <3>1, <3>2, <3>3
  <2>2. outcome[r] # "error" /\ \A s \in Requests : s # r => held'[s] = held[s]
    BY <1>1 DEF Arrive, Take, Connect, Refuse, CtlInv
  <2>3. Failed' = Failed /\ Gone' = Gone
    BY <2>1, <2>2 DEF Failed, Gone
  <2>4. \A s \in Failed' : held'[s] # None => session'[held'[s]] = "closed"
    BY <1>1, <2>2, <2>3, <2>1 DEF Failed, FailInv, Arrive, Take, Connect, Refuse, Fresh
  <2> QED BY <2>1, <2>3, <2>4, FailKept
<1>2. ASSUME NEW r \in Requests,
             \/ Query(r) \/ LockRow(r) \/ MarkProcessing(r) \/ Charge(r) \/ Update(r)
             \/ Commit(r) \/ Committed(r) \/ Rollback(r)
      PROVE  FailInv'
  <2>1. session' = session /\ held' = held /\ lost' = lost
    BY <1>2 DEF Query, LockRow, MarkProcessing, Charge, Update, Commit, Committed, Rollback
  <2>2. \A s \in Requests : outcome'[s] = "error" <=> outcome[s] = "error"
    BY <1>2 DEF Query, LockRow, MarkProcessing, Charge, Update, Commit, Committed, Rollback,
                CtlInv
  <2>3. Bad' = Bad /\ Failed' = Failed /\ Gone' = Gone
    BY <2>1, <2>2 DEF Bad, Failed, Gone
  <2> QED BY <2>1, <2>3, FailKept DEF FailInv
<1>3. ASSUME NEW r \in Requests, Break(r) PROVE FailInv'
  <2>1. r \in Used /\ held[r] \in Conns /\ session[held[r]] = "lost"
    BY <1>3 DEF Break, Live, CtlInv, Inside, ConnInv, Used
  <2>2. Bad' = Bad /\ Gone' = Gone /\ lost' = lost
    BY <1>3, <2>1 DEF Break, Bad, Gone, Used
  <2>3. \A s \in Failed' : held'[s] # None => session'[held'[s]] = "closed"
    BY <1>3, <2>1 DEF Break, Failed, FailInv
  <2> QED BY <2>2, <2>3, FailKept
<1>4. ASSUME NEW r \in Requests, Return(r) PROVE FailInv'
  <2>1. r \in Used /\ held[r] \in Conns /\ lost' = lost
    BY <1>4 DEF Return, CtlInv, Inside, Used
  <2>2. Failed' = Failed
    BY <1>4 DEF Return, Failed
  <2>3. \A s \in Failed' : held'[s] # None => session'[held'[s]] = "closed"
    BY <1>4, <2>1, <2>2 DEF Return, Failed, FailInv, ConnInv, Used
  <2>4. Bad' \subseteq Bad
    BY <1>4, <2>1 DEF Return, Bad
  <2>5. CASE r \notin Failed
    <3>1. Gone' = Gone
      BY <1>4, <2>1, <2>2, <2>5 DEF Return, Gone, Failed, Used
    <3> QED BY <2>1, <2>3, <2>4, <3>1, FailKept
  <2>6. CASE r \in Failed
    <3>1. held[r] \in Bad /\ r \notin Gone
      BY <2>1, <2>6 DEF FailInv, Used, Bad, Gone
    <3>2. Bad' = Bad \ {held[r]}
      BY <1>4, <2>1, <2>6 DEF Return, Bad, Kept, FailInv, Used
    <3>3. Gone' = Gone \cup {r}
      BY <1>4, <2>1, <2>2, <2>6 DEF Return, Gone, Failed
    <3>4. /\ Cardinality(Bad') = Cardinality(Bad) - 1
          /\ Cardinality(Gone') = Cardinality(Gone) + 1
      BY <3>1, <3>2, <3>3, BadSets, FS_RemoveElement, FS_AddElement
    <3> QED BY <2>1, <2>3, <3>4, BadSets DEF FailInv
  <2> QED BY <2>5, <2>6
<1>5. CASE Shutdown \/ Startup
  <2>1. held' = held /\ outcome' = outcome /\ lost' = lost
    BY <1>5 DEF Shutdown, Startup
  <2>2. Bad' \subseteq Bad
    BY <1>5 DEF Shutdown, Startup, Bad, Fresh
  <2>3. Failed' = Failed /\ Gone' = Gone /\ \A s \in Failed : held[s] = None
    BY <1>5, <2>1 DEF Shutdown, Startup, Failed, Gone, CtlInv, Inside
  <2> QED BY <2>1, <2>2, <2>3, FailKept
<1>6. ASSUME NEW C \in SUBSET Open, Lose(C) PROVE FailInv'
  <2>1. C \in SUBSET Conns /\ IsFiniteSet(C) /\ Cardinality(C) \in Nat
    BY Sets DEF Open
  <2>2. Bad' = Bad \cup C /\ Bad \cap C = {}
    BY <1>6, <2>1 DEF Lose, Bad, Open
  <2>3. Cardinality(Bad') = Cardinality(Bad) + Cardinality(C)
    <3>1. Cardinality(Bad \cap C) = 0
      BY <2>2, FS_EmptySet
    <3>2. Cardinality(Bad \cup C) = Cardinality(Bad) + Cardinality(C) - Cardinality(Bad \cap C)
      BY <2>1, BadSets, FS_Union
    <3> QED BY <2>1, <2>2, <3>1, <3>2, BadSets
  <2>4. Gone' = Gone /\ lost' = lost + Cardinality(C)
    BY <1>6 DEF Lose, Gone
  <2>5. \A s \in Failed' : held'[s] # None => session'[held'[s]] = "closed"
    BY <1>6 DEF Lose, Failed, FailInv, Open
  <2> QED BY <2>1, <2>3, <2>4, <2>5, BadSets DEF FailInv
<1>7. CASE Cut \/ Outage
  <2>1. \E C \in SUBSET Open : Lose(C)
    BY <1>7 DEF Cut, Outage
  <2> QED BY <2>1, <1>6
<1>8. CASE Recover \/ UNCHANGED vars
  BY <1>8, FailKept DEF Recover, vars, Bad, Gone, Failed, FailInv
<1> QED BY <1>1, <1>2, <1>3, <1>4, <1>5, <1>7, <1>8 DEF Next, Step

\* However many requests come, a lost session makes at most one of them fail.
THEOREM LossesCostOneEach == Spec => []OneFailurePerLoss
<1>1. Inv /\ FailInv => OneFailurePerLoss
  <2> SUFFICES ASSUME Inv, FailInv PROVE Cardinality(Failed) <= lost
    BY DEF OneFailurePerLoss, Failed
  <2> DEFINE Here == Failed \ Gone
             f == [r \in Here |-> held[r]]
  <2>1. \A r \in Here : r \in Used /\ held[r] \in Bad
    BY DEF Inv, TypeOK, FailInv, Failed, Gone, Bad, Used
  <2>2. f \in Injection(Here, Bad)
    BY <2>1 DEF Injection, IsInjective, Inv, ConnInv
  <2>3. Cardinality(Here) <= Cardinality(Bad)
    BY <2>2, BadSets, FS_Injection
  <2>4. Failed = Gone \cup Here /\ Gone \cap Here = {} /\ Here \subseteq Failed
    BY DEF Failed, Gone
  <2>5. IsFiniteSet(Here) /\ Cardinality(Here) \in Nat
    BY <2>4, BadSets, FS_Subset, FS_CardinalityType
  <2>6. Cardinality(Failed) = Cardinality(Gone) + Cardinality(Here)
    BY <2>4, <2>5, BadSets, FS_Union, FS_EmptySet
  <2> QED BY <2>3, <2>5, <2>6, BadSets DEF FailInv, Inv, TypeOK
<1>2. Spec => []FailInv
  BY FailInit, FailStep, Invariance, PTL DEF Spec
<1> QED BY <1>1, <1>2, Invariance, PTL
=============================================================================
