--------------------------- MODULE PaymentsProofs ---------------------------
(***************************************************************************)
(* Proofs about Payments, for every number of requests, merchants, keys    *)
(* and amounts.  First the core invariant: types, what a handler holds at  *)
(* each point, charges, tables and books, and the refinement of            *)
(* PaymentLifecycle.  Then keys and answers: what the idempotency cache,   *)
(* the unique index and the recovery SELECT make of a retried call.        *)
(***************************************************************************)
EXTENDS PaymentsInvariant, TLAPS

-----------------------------------------------------------------------------
(* Typing. *)

\* What the steps that build a row need of the request that takes them.
LEMMA CallTypes ==
    ASSUME TypeOK, CallInv, NEW r \in Requests, pc[r] # "idle"
    PROVE  /\ call[r] \in CreateCalls \cup ConfirmCalls
           /\ call[r].op = "create" => call[r] \in CreateCalls
           /\ call[r].op = "confirm" => call[r] \in ConfirmCalls
           /\ call[r].op \in {"create", "confirm"}
           /\ call[r].merchant \in Merchants
           /\ call[r].key \in KeyValues
BY DEF TypeOK, CallInv, CreateCalls, ConfirmCalls

TxType == [row : Row \cup {None}, ledger : SUBSET Entry, outbox : SUBSET Event]

\* A request that answers None, or a body, keeps the types of what it touches.
LEMMA AnswerType ==
    ASSUME TypeOK, NEW r \in Requests, NEW code \in {200, 201, 404, 409, 500, None},
           NEW body \in Body \cup {None}, Answer(r, code, body)
    PROVE  /\ pc' \in [Requests -> {"idle", "cache", "insert", "recover", "lock", "charge",
                                    "ledger", "outbox", "commit", "store", "done"}]
           /\ resp' \in [Requests -> [code : {200, 201, 404, 409, 500, None},
                                      body : Body \cup {None}] \cup {None}]
           /\ view' \in [Requests -> Row \cup {None}]
BY DEF TypeOK, Answer, Goto

LEMMA NoTxType == NoTx \in TxType
BY DEF NoTx, TxType

LEMMA BodyType == ASSUME NEW row \in Row PROVE IntentToDict(row) \in Body
BY DEF Row, Body, IntentToDict

LEMMA StatusType ==
    ASSUME NEW row \in Row, NEW s \in Statuses
    PROVE  [row EXCEPT !.status = s] \in Row
BY DEF Row

LEMMA NewStatusType == ASSUME NEW a \in Nat PROVE NewStatus(a) \in Settled
BY DEF NewStatus, Settled

LEMMA BooksType ==
    ASSUME NEW r \in Requests, NEW row \in Row
    PROVE  DoubleEntry(r, row) \subseteq Entry /\ OutboxEvent(r, row) \in Event
BY DEF DoubleEntry, OutboxEvent, Row, Entry, Event

\* A confirm holds a row from the lock to the commit.
LEMMA HoldsRow ==
    ASSUME TypeOK, TxInv, NEW r \in Requests, pc[r] \in InConfirm
    PROVE  tx[r].row \in Row
<1>1. tx[r].row # None
  BY DEF TxInv, TxOk, Confirming, ConfirmTx
<1>2. tx[r] \in TxType
  BY DEF TypeOK, TxType
<1> QED
  BY <1>1, <1>2 DEF TxType

LEMMA TypeStep == TypeOK /\ CallInv /\ TxInv /\ [Next]_vars => TypeOK'
<1> SUFFICES ASSUME TypeOK, CallInv, TxInv, [Next]_vars PROVE TypeOK'
  OBVIOUS
<1>1. ASSUME NEW r \in Requests, Issue(r) PROVE TypeOK'
  BY <1>1, CallsAssumption DEF TypeOK, Issue, Goto, database
<1>2. ASSUME NEW r \in Requests, ServeFromCache(r) PROVE TypeOK'
  <2>1. call[r] \in CreateCalls \cup ConfirmCalls
    BY <1>2, CallTypes DEF ServeFromCache
  <2>2. Slot(call[r]) \in Slots
    BY <1>2, <2>1 DEF ServeFromCache, CacheHit, Slot, Slots, Scopes, Truthy, CreateCalls, ConfirmCalls
  <2>3. cache[Slot(call[r])] \in Body \cup {None}
    BY <2>2 DEF TypeOK
  <2> QED
    BY <1>2, <2>3, AnswerType DEF TypeOK, ServeFromCache, SuccessCode, database
<1>3. ASSUME NEW r \in Requests, MissCache(r) PROVE TypeOK'
  BY <1>3 DEF TypeOK, MissCache, Goto, database
<1>4. ASSUME NEW r \in Requests, InsertIntent(r) PROVE TypeOK'
  <2>1. NewRow(r, call[r]) \in Row
    BY <1>4, CallTypes DEF InsertIntent, NewRow, Row, CreateCalls, CallInv, Intents, Statuses
  <2>2. tx' \in [Requests -> TxType]
    <3>1. tx \in [Requests -> TxType] /\ tx' = [tx EXCEPT ![r].row = NewRow(r, call[r])]
      BY <1>4 DEF TypeOK, InsertIntent, TxType
    <3>2. [tx[r] EXCEPT !.row = NewRow(r, call[r])] \in TxType
      BY <2>1, <3>1 DEF TxType
    <3> QED BY <3>1, <3>2
  <2>3. view' \in [Requests -> Row \cup {None}]
    BY <1>4, <2>1 DEF TypeOK, InsertIntent
  <2>4. /\ pc' = [pc EXCEPT ![r] = "commit"]
        /\ UNCHANGED <<call, resp, intents, ledger, outbox, cache, charged>>
    BY <1>4 DEF InsertIntent, Goto, database
  <2> QED
    BY <2>2, <2>3, <2>4 DEF TypeOK, TxType
<1>5. ASSUME NEW r \in Requests, InsertOutOfRange(r) PROVE TypeOK'
  BY <1>5, AnswerType DEF TypeOK, InsertOutOfRange, database
<1>6. ASSUME NEW r \in Requests, InsertDuplicate(r) PROVE TypeOK'
  <2>1. CASE Goto(r, "recover") /\ UNCHANGED <<view, resp>>
    BY <1>6, <2>1 DEF TypeOK, InsertDuplicate, Goto, database
  <2>2. CASE Answer(r, 500, None)
    BY <1>6, <2>2, AnswerType DEF TypeOK, InsertDuplicate, database
  <2> QED
    BY <1>6, <2>1, <2>2 DEF InsertDuplicate
<1>7. ASSUME NEW r \in Requests, RecoverIntent(r) PROVE TypeOK'
  <2> DEFINE found == {i \in Intents : SameKey(intents[i], call[r])}
  <2>1. CASE found = {}
    BY <1>7, <2>1, AnswerType DEF TypeOK, RecoverIntent, database
  <2>2. CASE found # {}
    <3>1. PICK i \in Intents : intents[i] \in Row /\ view' = [view EXCEPT ![r] = intents[i]]
      BY <1>7, <2>2 DEF RecoverIntent, SameKey, TypeOK
    <3> QED
      BY <1>7, <2>2, <3>1 DEF TypeOK, RecoverIntent, Goto, database
  <2> QED
    BY <2>1, <2>2
<1>8. ASSUME NEW r \in Requests, NotFound(r) \/ Conflict(r) PROVE TypeOK'
  BY <1>8, AnswerType DEF TypeOK, NotFound, Conflict, database
<1>9. ASSUME NEW r \in Requests, LockIntent(r) PROVE TypeOK'
  <2> DEFINE row == [intents[call[r].intent] EXCEPT !.status = "PROCESSING"]
  <2>1. call[r].intent \in Intents
    BY <1>9, CallTypes DEF LockIntent, CallInv, ConfirmCalls, InConfirm
  <2>2. row \in Row
    <3>1. intents[call[r].intent] \in Row
      BY <1>9, <2>1 DEF LockIntent, TypeOK, Owned
    <3> QED
      BY <3>1, StatusType DEF Statuses
  <2>3. tx' \in [Requests -> TxType]
    <3>1. tx' = [tx EXCEPT ![r].row = row]
      BY <1>9 DEF LockIntent
    <3> HIDE DEF row
    <3> QED
      BY <2>2, <3>1 DEF TypeOK, TxType
  <2>4. /\ pc' = [pc EXCEPT ![r] = "charge"]
        /\ UNCHANGED <<call, view, resp, intents, ledger, outbox, cache, charged>>
    BY <1>9 DEF LockIntent, Goto, database
  <2> QED
    BY <2>3, <2>4 DEF TypeOK, TxType
<1>10. ASSUME NEW r \in Requests, ChargeBank(r) PROVE TypeOK'
  <2> DEFINE row == [tx[r].row EXCEPT !.status = NewStatus(tx[r].row.amount)]
  <2>1. tx[r].row \in Row
    BY <1>10, HoldsRow DEF ChargeBank, InConfirm
  <2>2. NewStatus(tx[r].row.amount) \in Statuses
    BY <2>1, NewStatusType, AmountsAssumption DEF Row, Statuses
  <2>3. row \in Row /\ row.id \in Intents
    BY <2>1, <2>2, StatusType DEF Row
  <2>4. tx' \in [Requests -> TxType]
    <3>1. tx' = [tx EXCEPT ![r].row = row]
      BY <1>10 DEF ChargeBank
    <3> HIDE DEF row
    <3> QED
      BY <2>3, <3>1 DEF TypeOK, TxType
  <2>5. charged' \in [Intents -> SUBSET Requests]
    BY <1>10, <2>3 DEF TypeOK, ChargeBank
  <2>6. view' \in [Requests -> Row \cup {None}]
    BY <1>10, <2>3 DEF TypeOK, ChargeBank
  <2>7. /\ pc' = [pc EXCEPT ![r] = "ledger"] \/ pc' = [pc EXCEPT ![r] = "commit"]
        /\ UNCHANGED <<call, resp, intents, ledger, outbox, cache>>
    BY <1>10 DEF ChargeBank, Goto, database
  <2> HIDE DEF row
  <2>8. pc' \in [Requests -> {"idle", "cache", "insert", "recover", "lock", "charge",
                              "ledger", "outbox", "commit", "store", "done"}]
    BY <2>7 DEF TypeOK
  <2>9. /\ call' = call /\ resp' = resp /\ intents' = intents
        /\ ledger' = ledger /\ outbox' = outbox /\ cache' = cache
    BY <2>7
  <2> QED
    BY <2>4, <2>5, <2>6, <2>8, <2>9, Zenon DEF TypeOK, TxType
<1>11. ASSUME NEW r \in Requests, WriteDoubleEntry(r) PROVE TypeOK'
  <2>1. view[r] \in Row
    BY <1>11, HoldsRow DEF WriteDoubleEntry, TxInv, TxOk, Confirming, ConfirmTx, InConfirm
  <2>2. DoubleEntry(r, view[r]) \subseteq Entry
    BY <2>1, BooksType
  <2>3. tx' \in [Requests -> TxType]
    BY <1>11, <2>2, SMTT(30) DEF TypeOK, WriteDoubleEntry, TxType
  <2>4. /\ pc' = [pc EXCEPT ![r] = "outbox"]
        /\ UNCHANGED <<call, view, resp, intents, ledger, outbox, cache, charged>>
    BY <1>11 DEF WriteDoubleEntry, Goto, database
  <2> QED
    BY <2>3, <2>4 DEF TypeOK, TxType
<1>12. ASSUME NEW r \in Requests, InsertOutboxEvent(r) PROVE TypeOK'
  <2>1. view[r] \in Row
    BY <1>12, HoldsRow DEF InsertOutboxEvent, TxInv, TxOk, Confirming, ConfirmTx, InConfirm
  <2>2. OutboxEvent(r, view[r]) \in Event
    BY <2>1, BooksType
  <2>3. tx' \in [Requests -> TxType]
    <3> DEFINE events == tx[r].outbox \cup {OutboxEvent(r, view[r])}
    <3>1. tx \in [Requests -> TxType]
      BY DEF TypeOK, TxType
    <3>2. events \in SUBSET Event
      BY <2>2, <3>1 DEF TxType
    <3>3. tx' = [tx EXCEPT ![r].outbox = events]
      BY <1>12 DEF InsertOutboxEvent
    <3> HIDE DEF events
    <3> QED
      BY <3>1, <3>2, <3>3 DEF TxType
  <2>4. /\ pc' = [pc EXCEPT ![r] = "commit"]
        /\ UNCHANGED <<call, view, resp, intents, ledger, outbox, cache, charged>>
    BY <1>12 DEF InsertOutboxEvent, Goto, database
  <2> QED
    BY <2>3, <2>4 DEF TypeOK, TxType
<1>13. ASSUME NEW r \in Requests, Commit(r) PROVE TypeOK'
  <2>1. intents' \in [Intents -> Row \cup {None}]
    BY <1>13 DEF TypeOK, Commit, Committed, Row
  <2>2. tx' \in [Requests -> TxType]
    BY <1>13, NoTxType DEF TypeOK, Commit, Rollback, TxType
  <2>3. ledger' \subseteq Entry /\ outbox' \subseteq Event
    BY <1>13 DEF TypeOK, Commit
  <2>4. /\ pc' = [pc EXCEPT ![r] = "store"]
        /\ UNCHANGED <<call, view, resp, cache, charged>>
    BY <1>13 DEF Commit, Goto
  <2> QED
    BY <2>1, <2>2, <2>3, <2>4 DEF TypeOK, TxType
<1>14. ASSUME NEW r \in Requests, StoreResponse(r) PROVE TypeOK'
  <2> DEFINE body == IntentToDict(view[r])
  <2>1. body \in Body
    BY <1>14, BodyType DEF StoreResponse, TypeOK, TxInv, TxOk
  <2>2. cache' \in [Slots -> Body \cup {None}]
    BY <1>14, <2>1 DEF TypeOK, StoreResponse
  <2>3. Answer(r, SuccessCode(call[r]), body) /\ UNCHANGED <<call, tx, intents, ledger, outbox, charged>>
    BY <1>14 DEF StoreResponse, database
  <2> QED
    BY <2>1, <2>2, <2>3, AnswerType DEF TypeOK, SuccessCode
<1>15. ASSUME NEW r \in Requests, Fail(r) PROVE TypeOK'
  <2>1. tx' \in [Requests -> TxType]
    BY <1>15, NoTxType DEF TypeOK, Fail, Rollback, TxType
  <2>2. Answer(r, None, None) /\ UNCHANGED <<call, intents, ledger, outbox, cache, charged>>
    BY <1>15 DEF Fail, database
  <2> QED
    BY <2>1, <2>2, AnswerType DEF TypeOK, TxType
<1>16. ASSUME NEW s \in Slots, Expire(s) PROVE TypeOK'
  BY <1>16 DEF TypeOK, Expire, database
<1>17. CASE UNCHANGED vars
  BY <1>17 DEF TypeOK, vars
<1> QED
  BY <1>1, <1>2, <1>3, <1>4, <1>5, <1>6, <1>7, <1>8, <1>9, <1>10, <1>11, <1>12, <1>13,
     <1>14, <1>15, <1>16, <1>17 DEF Next, Step, Create, Confirm

-----------------------------------------------------------------------------
(* Control. *)

\* An answer ends the request and changes no other.
LEMMA AnswerControl ==
    ASSUME TypeOK, CallInv, NEW r \in Requests, NEW code, NEW body,
           pc[r] # "idle", Answer(r, code, body), call' = call
    PROVE  CallInv'
BY DEF TypeOK, CallInv, Answer, Goto, InConfirm

\* A step of a handler moves its request alone to a place for its kind of call.
LEMMA GotoControl ==
    ASSUME TypeOK, CallInv, NEW r \in Requests, NEW p, p # "idle",
           pc[r] \notin {"idle", "done"}, Goto(r, p), call' = call, resp' = resp,
           p \in {"insert", "recover"} => call[r].op = "create",
           p \in InConfirm \cup {"lock"} => call[r].op = "confirm"
    PROVE  CallInv'
BY DEF TypeOK, CallInv, Goto, InConfirm

LEMMA CallStep == TypeOK /\ CallInv /\ [Next]_vars => CallInv'
<1> SUFFICES ASSUME TypeOK, CallInv, [Next]_vars PROVE CallInv'
  OBVIOUS
<1>1. ASSUME NEW r \in Requests, Issue(r) PROVE CallInv'
  <2>1. PICK c \in Calls : call' = [call EXCEPT ![r] = c]
    BY <1>1 DEF Issue
  <2>2. c # None
    BY CallsAssumption, NoneAssumption
  <2> QED
    BY <1>1, <2>1, <2>2 DEF TypeOK, CallInv, Issue, Goto, InConfirm
<1>2. ASSUME NEW r \in Requests, ServeFromCache(r) PROVE CallInv'
  BY <1>2, AnswerControl DEF ServeFromCache
<1>3. ASSUME NEW r \in Requests, MissCache(r) PROVE CallInv'
  <2>1. call[r].op \in {"create", "confirm"}
    BY <1>3, CallTypes DEF MissCache
  <2>2. CASE call[r].op = "create"
    BY <1>3, <2>2, GotoControl DEF MissCache, InConfirm
  <2>3. CASE call[r].op = "confirm"
    BY <1>3, <2>3, GotoControl DEF MissCache, InConfirm
  <2> QED
    BY <2>1, <2>2, <2>3
<1>4. ASSUME NEW r \in Requests, InsertIntent(r) PROVE CallInv'
  BY <1>4, GotoControl DEF InsertIntent, InConfirm
<1>5. ASSUME NEW r \in Requests, InsertOutOfRange(r) PROVE CallInv'
  BY <1>5, AnswerControl DEF InsertOutOfRange
<1>6. ASSUME NEW r \in Requests, InsertDuplicate(r) PROVE CallInv'
  <2>1. CASE Goto(r, "recover") /\ UNCHANGED <<view, resp>>
    BY <1>6, <2>1, GotoControl DEF InsertDuplicate, InConfirm, CallInv
  <2>2. CASE Answer(r, 500, None)
    BY <1>6, <2>2, AnswerControl DEF InsertDuplicate
  <2> QED
    BY <1>6, <2>1, <2>2 DEF InsertDuplicate
<1>7. ASSUME NEW r \in Requests, RecoverIntent(r) PROVE CallInv'
  <2>1. pc[r] = "recover" /\ call' = call
    BY <1>7 DEF RecoverIntent
  <2>2. Answer(r, 500, None) \/ (Goto(r, "commit") /\ resp' = resp)
    BY <1>7 DEF RecoverIntent
  <2> QED
    BY <2>1, <2>2, AnswerControl, GotoControl DEF InConfirm
<1>8. ASSUME NEW r \in Requests, NotFound(r) \/ Conflict(r) PROVE CallInv'
  BY <1>8, AnswerControl DEF NotFound, Conflict
<1>9. ASSUME NEW r \in Requests, LockIntent(r) PROVE CallInv'
  BY <1>9, GotoControl DEF LockIntent, InConfirm, CallInv
<1>10. ASSUME NEW r \in Requests, ChargeBank(r) PROVE CallInv'
  <2>1. pc[r] = "charge" /\ call' = call /\ resp' = resp
    BY <1>10 DEF ChargeBank
  <2>2. Goto(r, "ledger") \/ Goto(r, "commit")
    BY <1>10 DEF ChargeBank
  <2> QED
    BY <2>1, <2>2, GotoControl DEF CallInv, InConfirm
<1>11. ASSUME NEW r \in Requests, WriteDoubleEntry(r) PROVE CallInv'
  BY <1>11, GotoControl DEF WriteDoubleEntry, InConfirm, CallInv
<1>12. ASSUME NEW r \in Requests, InsertOutboxEvent(r) PROVE CallInv'
  BY <1>12, GotoControl DEF InsertOutboxEvent, InConfirm
<1>13. ASSUME NEW r \in Requests, Commit(r) PROVE CallInv'
  BY <1>13, GotoControl DEF Commit, InConfirm
<1>14. ASSUME NEW r \in Requests, StoreResponse(r) PROVE CallInv'
  BY <1>14, AnswerControl DEF StoreResponse
<1>15. ASSUME NEW r \in Requests, Fail(r) PROVE CallInv'
  BY <1>15, AnswerControl DEF Fail
<1>16. ASSUME NEW s \in Slots, Expire(s) PROVE CallInv'
  BY <1>16 DEF Expire, CallInv
<1>17. CASE UNCHANGED vars
  BY <1>17 DEF vars, CallInv
<1> QED
  BY <1>1, <1>2, <1>3, <1>4, <1>5, <1>6, <1>7, <1>8, <1>9, <1>10, <1>11, <1>12, <1>13,
     <1>14, <1>15, <1>16, <1>17 DEF Next, Step, Create, Confirm

-----------------------------------------------------------------------------
(* Rows, transactions, locks and charges. *)

DataInv == RowInv /\ TxInv /\ LockInv /\ ChargeInv

\* Request s neither runs nor has its row touched: its transaction stays right.
LEMMA OtherTx ==
    ASSUME NEW s \in Requests, TxOk(s),
           pc'[s] = pc[s], call'[s] = call[s], view'[s] = view[s], tx'[s] = tx[s],
           pc[s] = "commit" => intents'[s] = intents[s],
           Confirming(s) => /\ intents'[call[s].intent] = intents[call[s].intent]
                            /\ charged[call[s].intent] \subseteq charged'[call[s].intent]
    PROVE  TxOk(s)'
BY DEF TxOk, Confirming, ConfirmTx, CreateTx, IsSettled

\* A transaction that is not open holds no row, one that is holds a row that is
\* still CREATED in the table, or a new one under the request's own name.
LEMMA HeldRow ==
    ASSUME TypeOK, CallInv, TxInv, NEW s \in Requests, tx[s].row # None
    PROVE  \/ /\ Confirming(s) /\ call[s].op = "confirm" /\ call[s].intent \in Intents
              /\ tx[s].row.id = intents[call[s].intent].id
              /\ intents[call[s].intent] # None
              /\ intents[call[s].intent].status = "CREATED"
           \/ /\ Inserting(s) /\ intents[s] = None
              /\ tx[s].row.id = s
<1>1. pc[s] \in InConfirm \cup {"commit"}
  BY DEF TxInv, TxOk, NoTx
<1>2. call[s].op \in {"create", "confirm"}
  BY <1>1, CallTypes DEF InConfirm
<1>3. CASE Confirming(s)
  <2>1. call[s].op = "confirm" /\ call[s].intent \in Intents
    BY <1>1, <1>3, CallTypes DEF Confirming, CallInv, InConfirm, ConfirmCalls
  <2>2. ConfirmTx(s)
    BY <1>3 DEF TxInv, TxOk
  <2>3. intents[call[s].intent] \in Row
    BY <2>1, <2>2 DEF ConfirmTx, TypeOK
  <2>4. tx[s].row.id = intents[call[s].intent].id
    BY <2>2, <2>3 DEF ConfirmTx, Row
  <2> QED
    BY <1>3, <2>1, <2>2, <2>4 DEF ConfirmTx
<1>4. CASE pc[s] = "commit" /\ call[s].op = "create"
  <2>1. tx[s].row = NewRow(s, call[s]) /\ intents[s] = None
    BY <1>4 DEF TxInv, TxOk, CreateTx
  <2>2. NewRow(s, call[s]).id = s
    BY DEF NewRow
  <2> QED
    BY <1>4, <2>1, <2>2 DEF Inserting
<1> QED
  BY <1>1, <1>2, <1>3, <1>4 DEF Confirming

\* Who holds the row of intent i knows its name.
LEMMA HeldId ==
    ASSUME TypeOK, CallInv, RowInv, TxInv, NEW s \in Requests, Confirming(s)
    PROVE  /\ call[s].intent \in Intents /\ call[s].op = "confirm"
           /\ tx[s].row # None /\ tx[s].row.id = call[s].intent
           /\ intents[call[s].intent] # None
           /\ intents[call[s].intent].status = "CREATED"
<1>1. tx[s].row # None
  BY DEF TxInv, TxOk, ConfirmTx
<1>2. ~Inserting(s)
  BY DEF Inserting, Confirming, InConfirm
<1> QED
  BY <1>1, <1>2, HeldRow DEF RowInv

\* A step that leaves the tables and the bank alone, after which request r has
\* no transaction open.
LEMMA QuietStep ==
    ASSUME TypeOK, CallInv, DataInv, NEW r \in Requests,
           \/ pc'[r] = "done" /\ call'[r] = call[r]
           \/ /\ pc[r] \in {"idle", "cache", "insert"}
              /\ pc'[r] \in {"cache", "insert", "recover", "lock"},
           tx'[r] = NoTx,
           \A s \in Requests \ {r} : /\ pc'[s] = pc[s] /\ call'[s] = call[s]
                                     /\ view'[s] = view[s] /\ tx'[s] = tx[s],
           intents' = intents, charged' = charged
    PROVE  DataInv'
<1> USE DEF DataInv
<1>1. RowInv'
  BY DEF RowInv, Intents
<1>2. TxInv'
  <2>1. TxOk(r)'
    BY DEF TxOk, Confirming, InConfirm
  <2>2. ASSUME NEW s \in Requests \ {r} PROVE TxOk(s)'
    BY <2>2, OtherTx DEF TxInv
  <2> QED
    BY <2>1, <2>2 DEF TxInv
<1>3. LockInv'
  <2>1. tx'[r].row = None
    BY DEF NoTx
  <2>2. ASSUME NEW s \in Requests, NEW t \in Requests,
               tx'[s].row # None, tx'[t].row # None, tx'[s].row.id = tx'[t].row.id
        PROVE  s = t
    <3>1. tx'[s] = tx[s] /\ tx'[t] = tx[t]
      BY <2>1, <2>2
    <3> QED
      BY <2>2, <3>1 DEF LockInv
  <2> QED
    BY <2>2 DEF LockInv
<1>4. ChargeInv'
  BY DEF ChargeInv, IsSettled, Intents, TypeOK
<1> QED
  BY <1>1, <1>2, <1>3, <1>4

\* A step of r inside its transaction: the tables stay, and what r holds after
\* it nobody else holds.
LEMMA PrivateStep ==
    ASSUME TypeOK, CallInv, DataInv, NEW r \in Requests,
           pc[r] \notin {"idle", "store", "done"},
           pc'[r] \in InConfirm \cup {"commit"},
           pc[r] \in {"ledger", "outbox", "commit"} => pc'[r] \in {"ledger", "outbox", "commit"},
           call' = call, intents' = intents,
           \A s \in Requests \ {r} : pc'[s] = pc[s] /\ view'[s] = view[s] /\ tx'[s] = tx[s],
           TxOk(r)',
           \A s \in Requests \ {r} :
               tx'[r].row # None /\ tx[s].row # None => tx[s].row.id # tx'[r].row.id,
           \/ charged' = charged
           \/ /\ call[r].op = "confirm" /\ call[r].intent \in Intents
              /\ charged' = [charged EXCEPT ![call[r].intent] = @ \cup {r}]
              /\ pc'[r] \in {"ledger", "commit"}
    PROVE  DataInv'
<1> USE DEF DataInv
<1>1. RowInv'
  BY DEF RowInv, Intents
<1>2. TxInv'
  <2>1. ASSUME NEW s \in Requests \ {r} PROVE TxOk(s)'
    <3>1. Confirming(s) => call[s].intent \in Intents
      BY HeldId
    <3>2. \A i \in Intents : charged[i] \subseteq charged'[i]
      BY DEF TypeOK
    <3> QED
      BY <2>1, <3>1, <3>2, OtherTx DEF TxInv, Intents
  <2> QED
    BY <2>1 DEF TxInv
<1>3. LockInv'
  <2>1. ASSUME NEW s \in Requests, NEW t \in Requests,
               tx'[s].row # None, tx'[t].row # None, tx'[s].row.id = tx'[t].row.id
        PROVE  s = t
    <3>1. CASE s # r /\ t # r
      BY <2>1, <3>1 DEF LockInv
    <3> QED
      BY <2>1, <3>1
  <2> QED
    BY <2>1 DEF LockInv
<1>4. ChargeInv'
  <2>1. call[r] # None
    BY DEF CallInv
  <2>2. ASSUME NEW i \in Intents, NEW s \in charged'[i]
        PROVE  /\ call[s] # None /\ call[s].op = "confirm" /\ call[s].intent = i
               /\ pc'[s] \in {"ledger", "outbox", "commit", "store", "done"}
    <3>1. CASE s \in charged[i]
      <4>1. s \in Requests
        BY <3>1 DEF TypeOK
      <4> QED
        BY <3>1, <4>1 DEF ChargeInv
    <3>2. CASE s \notin charged[i]
      <4>1. s = r /\ i = call[r].intent /\ call[r].op = "confirm" /\ pc'[r] \in {"ledger", "commit"}
        BY <2>2, <3>2 DEF TypeOK
      <4> QED
        BY <2>1, <4>1
    <3> QED
      BY <3>1, <3>2
  <2>3. ASSUME NEW i \in Intents, IsSettled(i)' PROVE charged'[i] # {}
    <3>1. charged[i] # {} /\ charged[i] \subseteq charged'[i]
      BY <2>3 DEF ChargeInv, IsSettled, TypeOK
    <3> QED
      BY <3>1
  <2> QED
    BY <2>2, <2>3 DEF ChargeInv
<1> QED
  BY <1>1, <1>2, <1>3, <1>4

LEMMA InsertStep ==
    ASSUME TypeOK, CallInv, DataInv, NEW r \in Requests, InsertIntent(r)
    PROVE  DataInv'
<1> USE DEF DataInv
<1>1. /\ pc[r] = "insert" /\ pc' = [pc EXCEPT ![r] = "commit"]
      /\ tx' = [tx EXCEPT ![r].row = NewRow(r, call[r])]
      /\ view' = [view EXCEPT ![r] = NewRow(r, call[r])]
      /\ call' = call /\ intents' = intents /\ charged' = charged
  BY DEF InsertIntent, Goto, database
<1>2. tx[r] = NoTx /\ call[r].op = "create" /\ intents[r] = None
  BY <1>1 DEF TxInv, TxOk, CallInv, RowInv, Intents, InConfirm
<1>3. NewRow(r, call[r]) \in Row /\ NewRow(r, call[r]).id = r
  BY <1>1, <1>2, CallTypes DEF NewRow, Row, CreateCalls, Intents, Statuses
<1>4. tx'[r] = [row |-> NewRow(r, call[r]), ledger |-> {}, outbox |-> {}]
  <2> DEFINE row == NewRow(r, call[r])
  <2> HIDE DEF row
  <2>1. tx'[r] = [NoTx EXCEPT !.row = row]
    BY <1>1, <1>2 DEF TypeOK, row
  <2> QED
    BY <2>1 DEF NoTx, row
<1>5. \A s \in Requests \ {r} : pc'[s] = pc[s] /\ view'[s] = view[s] /\ tx'[s] = tx[s]
  BY <1>1 DEF TypeOK
<1>6. pc'[r] = "commit" /\ view'[r] = NewRow(r, call[r])
  BY <1>1 DEF TypeOK
<1>7. TxOk(r)'
  BY <1>1, <1>2, <1>3, <1>4, <1>6, NoneAssumption DEF TxOk, Confirming, CreateTx, InConfirm
<1>8. \A s \in Requests \ {r} : tx[s].row # None => tx[s].row.id # r
  BY <1>2, HeldRow DEF RowInv
<1> QED
  BY <1>1, <1>3, <1>4, <1>5, <1>6, <1>7, <1>8, PrivateStep DEF InConfirm

LEMMA RecoverStep ==
    ASSUME TypeOK, CallInv, DataInv, NEW r \in Requests, RecoverIntent(r)
    PROVE  DataInv'
<1> USE DEF DataInv
<1>1. /\ pc[r] = "recover" /\ UNCHANGED <<call, tx, intents, charged>>
      /\ \/ Answer(r, 500, None)
         \/ \E i \in Intents : /\ intents[i] # None
                               /\ view' = [view EXCEPT ![r] = intents[i]]
                               /\ pc' = [pc EXCEPT ![r] = "commit"]
  BY DEF RecoverIntent, SameKey, Goto, database
<1>2. tx[r] = NoTx /\ call[r].op = "create"
  BY <1>1 DEF TxInv, TxOk, CallInv, InConfirm
<1>3. \A s \in Requests \ {r} : pc'[s] = pc[s] /\ view'[s] = view[s]
  BY <1>1 DEF TypeOK, Answer, Goto
<1>4. CASE Answer(r, 500, None)
  <2>1. pc'[r] = "done"
    BY <1>4 DEF TypeOK, Answer, Goto
  <2> QED
    BY <1>1, <1>2, <1>3, <2>1, QuietStep
<1>5. ASSUME NEW i \in Intents, intents[i] # None, view' = [view EXCEPT ![r] = intents[i]],
             pc' = [pc EXCEPT ![r] = "commit"]
      PROVE  DataInv'
  <2>1. pc'[r] = "commit" /\ view'[r] # None
    BY <1>5 DEF TypeOK
  <2>2. tx'[r].row = None /\ tx'[r].ledger = {} /\ tx'[r].outbox = {}
    BY <1>1, <1>2 DEF NoTx
  <2>3. TxOk(r)'
    BY <1>1, <1>2, <2>1, <2>2 DEF TxOk, Confirming, CreateTx, InConfirm
  <2> QED
    BY <1>1, <1>3, <2>1, <2>2, <2>3, PrivateStep DEF InConfirm
<1> QED
  BY <1>1, <1>4, <1>5

LEMMA LockStep ==
    ASSUME TypeOK, CallInv, DataInv, NEW r \in Requests, LockIntent(r)
    PROVE  DataInv'
<1> USE DEF DataInv
<1> DEFINE i == call[r].intent
           row == [intents[i] EXCEPT !.status = "PROCESSING"]
<1>1. /\ pc[r] = "lock" /\ pc' = [pc EXCEPT ![r] = "charge"]
      /\ intents[i] # None /\ intents[i].merchant = call[r].merchant
      /\ intents[i].status = "CREATED"
      /\ ~Locked(i)
      /\ tx' = [tx EXCEPT ![r].row = row]
      /\ call' = call /\ view' = view /\ intents' = intents /\ charged' = charged
  BY DEF LockIntent, Goto, database, Owned, Confirmable
<1>2. tx[r] = NoTx /\ call[r].op = "confirm" /\ i \in Intents
  BY <1>1, CallTypes DEF TxInv, TxOk, CallInv, InConfirm, ConfirmCalls
<1>3. row \in Row /\ row.id = i /\ row.status = "PROCESSING"
  <2>1. intents[i] \in Row /\ intents[i].id = i
    BY <1>1, <1>2 DEF TypeOK, RowInv
  <2> QED
    BY <2>1, StatusType DEF Row, Statuses
<1>4. tx'[r] = [row |-> row, ledger |-> {}, outbox |-> {}]
  <2> HIDE DEF row
  <2>1. tx'[r] = [NoTx EXCEPT !.row = row]
    BY <1>1, <1>2 DEF TypeOK
  <2> QED
    BY <2>1 DEF NoTx
<1>5. /\ \A s \in Requests \ {r} : pc'[s] = pc[s] /\ view'[s] = view[s] /\ tx'[s] = tx[s]
      /\ pc'[r] = "charge"
      /\ tx'[r].row = row /\ tx'[r].ledger = {} /\ tx'[r].outbox = {}
  BY <1>1, <1>4 DEF TypeOK
<1>6. row = [intents[i] EXCEPT !.status = row.status]
  BY <1>3
<1> HIDE DEF row
<1>7. TxOk(r)'
  <2>1. ConfirmTx(r)'
    BY <1>1, <1>2, <1>3, <1>5, <1>6, NoneAssumption DEF ConfirmTx
  <2> QED
    BY <1>1, <1>2, <1>5, <2>1 DEF TxOk, InConfirm
<1>8. \A s \in Requests \ {r} :
          tx'[r].row # None /\ tx[s].row # None => tx[s].row.id # tx'[r].row.id
  BY <1>1, <1>3, <1>5 DEF Locked
<1>9. pc[r] \notin {"idle", "store", "done", "ledger", "outbox", "commit"}
  BY <1>1
<1>10. pc'[r] \in InConfirm \cup {"commit"}
  BY <1>5 DEF InConfirm
<1> QED
  BY <1>1, <1>5, <1>7, <1>8, <1>9, <1>10, PrivateStep

LEMMA ChargeStep ==
    ASSUME TypeOK, CallInv, DataInv, NEW r \in Requests, ChargeBank(r)
    PROVE  DataInv'
<1> USE DEF DataInv
<1> DEFINE i == call[r].intent
           old == tx[r].row
           row == [old EXCEPT !.status = NewStatus(old.amount)]
           next == IF HooksRun(row.status) THEN "ledger" ELSE "commit"
<1>1. /\ pc[r] = "charge" /\ pc' = [pc EXCEPT ![r] = next]
      /\ charged' = [charged EXCEPT ![row.id] = @ \cup {r}]
      /\ tx' = [tx EXCEPT ![r].row = row]
      /\ view' = [view EXCEPT ![r] = row]
      /\ call' = call /\ intents' = intents
  BY DEF ChargeBank, Goto, database
<1>2. Confirming(r) /\ ConfirmTx(r)
  BY <1>1 DEF TxInv, TxOk, Confirming, InConfirm
<1>3. /\ i \in Intents /\ call[r].op = "confirm" /\ old.id = i
      /\ tx[r].ledger = {} /\ tx[r].outbox = {}
      /\ intents[i] # None
  BY <1>1, <1>2, HeldId DEF ConfirmTx
<1>4. old \in Row /\ intents[i] \in Row
  BY <1>1, <1>3, HoldsRow DEF TypeOK, InConfirm
<1>5. NewStatus(old.amount) \in Settled
  BY <1>4, NewStatusType, AmountsAssumption DEF Row
<1>6. /\ row \in Row /\ row.id = i /\ row.amount = old.amount
      /\ row.status = NewStatus(row.amount)
  BY <1>3, <1>4, <1>5, StatusType DEF Row, Statuses
<1>7. row = [intents[i] EXCEPT !.status = row.status]
  BY <1>2, <1>4, <1>5 DEF ConfirmTx, Row
<1>8. /\ tx'[r].row = row /\ tx'[r].ledger = {} /\ tx'[r].outbox = {}
      /\ view'[r] = row /\ pc'[r] = next /\ r \in charged'[i]
      /\ \A s \in Requests \ {r} : pc'[s] = pc[s] /\ view'[s] = view[s] /\ tx'[s] = tx[s]
      /\ charged' = [charged EXCEPT ![i] = @ \cup {r}]
  <2>1. tx[r] \in TxType
    BY DEF TypeOK, TxType
  <2> HIDE DEF row, next
  <2> QED
    BY <1>1, <1>3, <1>6, <2>1 DEF TypeOK, TxType
<1> HIDE DEF row
<1>9. TxOk(r)'
  <2>1. \/ next = "ledger" /\ row.status = "SUCCEEDED"
        \/ next = "commit" /\ row.status # "SUCCEEDED"
    BY DEF HooksRun
  <2>2. row # None
    BY <1>6, NoneAssumption
  <2>3. ConfirmTx(r)'
    BY <1>1, <1>2, <1>3, <1>6, <1>7, <1>8, <2>1, <2>2 DEF ConfirmTx
  <2> QED
    BY <1>3, <1>1, <1>8, <2>1, <2>3 DEF TxOk, InConfirm
<1>10. \A s \in Requests \ {r} :
           tx'[r].row # None /\ tx[s].row # None => tx[s].row.id # tx'[r].row.id
  BY <1>2, <1>3, <1>6, <1>8 DEF LockInv, ConfirmTx
<1>11. pc'[r] \in {"ledger", "commit"}
  BY <1>8
<1> HIDE DEF next
<1>12. pc'[r] \in InConfirm \cup {"commit"}
  BY <1>11 DEF InConfirm
<1> QED
  BY <1>1, <1>3, <1>8, <1>9, <1>10, <1>11, <1>12, PrivateStep

LEMMA LedgerStep ==
    ASSUME TypeOK, CallInv, DataInv, NEW r \in Requests, WriteDoubleEntry(r)
    PROVE  DataInv'
<1> USE DEF DataInv
<1> DEFINE row == tx[r].row
           books == tx[r].ledger \cup DoubleEntry(r, view[r])
<1>1. /\ pc[r] = "ledger" /\ pc' = [pc EXCEPT ![r] = "outbox"]
      /\ tx' = [tx EXCEPT ![r].ledger = books]
      /\ call' = call /\ view' = view /\ intents' = intents /\ charged' = charged
  BY DEF WriteDoubleEntry, Goto, database
<1>2. Confirming(r) /\ ConfirmTx(r)
  BY <1>1 DEF TxInv, TxOk, Confirming, InConfirm
<1>3. view[r] = row /\ tx[r].ledger = {} /\ tx[r].outbox = {} /\ row.status = "SUCCEEDED"
  BY <1>1, <1>2 DEF ConfirmTx
<1>4. call[r].op = "confirm"
  BY <1>2, HeldId
<1>5. /\ tx'[r].row = row /\ tx'[r].ledger = books /\ tx'[r].outbox = {}
      /\ pc'[r] = "outbox"
      /\ \A s \in Requests \ {r} : pc'[s] = pc[s] /\ view'[s] = view[s] /\ tx'[s] = tx[s]
  <2>1. tx[r] \in TxType
    BY DEF TypeOK, TxType
  <2> HIDE DEF books
  <2> QED
    BY <1>1, <1>3, <2>1 DEF TypeOK, TxType
<1>6. books = DoubleEntry(r, row)
  BY <1>3
<1> HIDE DEF books, row
<1>7. TxOk(r)'
  <2>1. ConfirmTx(r)'
    BY <1>1, <1>2, <1>3, <1>5, <1>6 DEF ConfirmTx, row
  <2> QED
    BY <1>1, <1>4, <1>5, <2>1 DEF TxOk, InConfirm
<1>8. \A s \in Requests \ {r} :
          tx'[r].row # None /\ tx[s].row # None => tx[s].row.id # tx'[r].row.id
  BY <1>5 DEF LockInv, row
<1> QED
  BY <1>1, <1>5, <1>7, <1>8, PrivateStep DEF InConfirm

LEMMA OutboxStep ==
    ASSUME TypeOK, CallInv, DataInv, NEW r \in Requests, InsertOutboxEvent(r)
    PROVE  DataInv'
<1> USE DEF DataInv
<1> DEFINE row == tx[r].row
           events == tx[r].outbox \cup {OutboxEvent(r, view[r])}
<1>1. /\ pc[r] = "outbox" /\ pc' = [pc EXCEPT ![r] = "commit"]
      /\ tx' = [tx EXCEPT ![r].outbox = events]
      /\ call' = call /\ view' = view /\ intents' = intents /\ charged' = charged
  BY DEF InsertOutboxEvent, Goto, database
<1>2. Confirming(r) /\ ConfirmTx(r)
  BY <1>1 DEF TxInv, TxOk, Confirming, InConfirm
<1>3. /\ view[r] = row /\ tx[r].ledger = DoubleEntry(r, row) /\ tx[r].outbox = {}
      /\ row.status = "SUCCEEDED"
  BY <1>1, <1>2 DEF ConfirmTx
<1>4. call[r].op = "confirm"
  BY <1>2, HeldId
<1>5. /\ tx'[r].row = row /\ tx'[r].ledger = DoubleEntry(r, row) /\ tx'[r].outbox = events
      /\ pc'[r] = "commit"
      /\ \A s \in Requests \ {r} : pc'[s] = pc[s] /\ view'[s] = view[s] /\ tx'[s] = tx[s]
  <2>1. tx[r] \in TxType
    BY DEF TypeOK, TxType
  <2> HIDE DEF events
  <2> QED
    BY <1>1, <1>3, <2>1 DEF TypeOK, TxType
<1>6. events = {OutboxEvent(r, row)}
  BY <1>3
<1> HIDE DEF events, row
<1>7. TxOk(r)'
  <2>1. ConfirmTx(r)'
    BY <1>1, <1>2, <1>3, <1>5, <1>6 DEF ConfirmTx, row
  <2> QED
    BY <1>1, <1>4, <1>5, <2>1 DEF TxOk, InConfirm
<1>8. \A s \in Requests \ {r} :
          tx'[r].row # None /\ tx[s].row # None => tx[s].row.id # tx'[r].row.id
  BY <1>5 DEF LockInv, row
<1> QED
  BY <1>1, <1>5, <1>7, <1>8, PrivateStep DEF InConfirm

\* What the commit of r makes of the tables, for the three kinds of transaction.
LEMMA CommitEffect ==
    ASSUME TypeOK, CallInv, DataInv, NEW r \in Requests, Commit(r)
    PROVE  /\ pc[r] = "commit" /\ pc'[r] = "store" /\ tx'[r] = NoTx
           /\ \A s \in Requests \ {r} : pc'[s] = pc[s] /\ tx'[s] = tx[s]
           /\ UNCHANGED <<call, view, resp, cache, charged>>
           /\ \/ /\ call[r].op = "confirm" /\ ConfirmTx(r)
                 /\ call[r].intent \in Intents /\ tx[r].row.id = call[r].intent
                 /\ intents' = [intents EXCEPT ![call[r].intent] = tx[r].row]
              \/ /\ call[r].op = "create" /\ CreateTx(r) /\ tx[r].row # None
                 /\ tx[r].row.id = r
                 /\ intents' = [intents EXCEPT ![r] = tx[r].row]
              \/ /\ call[r].op = "create" /\ CreateTx(r) /\ tx[r].row = None
                 /\ intents' = intents
<1> USE DEF DataInv
<1>1. /\ pc[r] = "commit" /\ pc' = [pc EXCEPT ![r] = "store"]
      /\ tx' = [tx EXCEPT ![r] = NoTx]
      /\ UNCHANGED <<call, view, resp, cache, charged>>
      /\ intents' = Committed(r)
  BY DEF Commit, Goto, Rollback
<1>2. call[r].op \in {"create", "confirm"}
  BY <1>1, CallTypes
<1>3. CASE call[r].op = "confirm"
  <2>1. Confirming(r) /\ ConfirmTx(r)
    BY <1>1, <1>3 DEF TxInv, TxOk, Confirming
  <2>2. tx[r].row # None /\ tx[r].row.id = call[r].intent /\ call[r].intent \in Intents
    BY <2>1, HeldId
  <2> QED
    BY <1>1, <1>3, <2>1, <2>2 DEF Committed, TypeOK
<1>4. CASE call[r].op = "create"
  <2>1. CreateTx(r)
    BY <1>1, <1>4 DEF TxInv, TxOk
  <2>2. tx[r].row # None => tx[r].row.id = r
    BY <2>1 DEF CreateTx, NewRow
  <2>3. CASE tx[r].row = None
    <3>1. intents' = intents
      BY <1>1, <2>3 DEF Committed
    <3> QED
      BY <1>1, <1>4, <2>1, <2>3, <3>1 DEF TypeOK
  <2>4. CASE tx[r].row # None
    <3>1. intents' = [intents EXCEPT ![r] = tx[r].row]
      BY <1>1, <2>2, <2>4 DEF Committed
    <3> QED
      BY <1>1, <1>4, <2>1, <2>2, <2>4, <3>1 DEF TypeOK
  <2> QED
    BY <2>3, <2>4
<1> QED
  BY <1>2, <1>3, <1>4

LEMMA CommitStep ==
    ASSUME TypeOK, CallInv, DataInv, NEW r \in Requests, Commit(r)
    PROVE  DataInv'
<1> USE DEF DataInv
<1>1. /\ pc[r] = "commit" /\ pc'[r] = "store" /\ tx'[r] = NoTx
      /\ \A s \in Requests \ {r} : pc'[s] = pc[s] /\ tx'[s] = tx[s]
      /\ UNCHANGED <<call, view, resp, cache, charged>>
  BY CommitEffect
<1>2. call[r] # None
  BY <1>1 DEF CallInv
<1>3. /\ \A i \in Intents : intents[i] # None => i # r
      /\ \A s \in Requests \ {r} :
            Confirming(s) /\ tx[r].row # None => tx[r].row.id # call[s].intent
  <2>1. \A i \in Intents : intents[i] # None => i # r
    BY <1>1 DEF RowInv
  <2>2. ASSUME NEW s \in Requests \ {r}, Confirming(s), tx[r].row # None
        PROVE  tx[r].row.id # call[s].intent
    BY <2>2, HeldId DEF LockInv
  <2> QED
    BY <2>1, <2>2
<1>4. RowInv'
  <2>1. CASE /\ call[r].op = "confirm" /\ ConfirmTx(r) /\ call[r].intent \in Intents
             /\ tx[r].row.id = call[r].intent
             /\ intents' = [intents EXCEPT ![call[r].intent] = tx[r].row]
    <3>1. tx[r].row.status # "PROCESSING" /\ intents[call[r].intent] # None
      <4>1. intents[call[r].intent] \in Row
        BY <2>1 DEF ConfirmTx, TypeOK
      <4>2. tx[r].row.status = NewStatus(tx[r].row.amount) /\ tx[r].row \in Row
        BY <1>1, <2>1 DEF ConfirmTx, TypeOK, TxType
      <4>3. tx[r].row.status \in Settled
        BY <4>2, NewStatusType, AmountsAssumption DEF Row
      <4> QED
        BY <2>1, <4>3 DEF Settled, ConfirmTx
    <3> QED
      BY <1>1, <1>3, <2>1, <3>1 DEF RowInv, TypeOK, Intents
  <2>2. CASE /\ call[r].op = "create" /\ CreateTx(r) /\ tx[r].row # None
             /\ tx[r].row.id = r
             /\ intents' = [intents EXCEPT ![r] = tx[r].row]
    <3>1. tx[r].row.status = "CREATED"
      BY <2>2 DEF CreateTx, NewRow
    <3> QED
      BY <1>1, <1>2, <1>3, <2>2, <3>1 DEF RowInv, TypeOK, Intents
  <2>3. CASE intents' = intents
    BY <1>1, <1>3, <2>3 DEF RowInv, TypeOK, Intents
  <2> QED
    BY <2>1, <2>2, <2>3, CommitEffect
<1>5. TxInv'
  <2>1. TxOk(r)'
    <3>1. ASSUME ConfirmTx(r) PROVE view[r] # None
      <4>1. view[r] = tx[r].row /\ tx[r].row # None
        BY <1>1, <3>1 DEF ConfirmTx
      <4> QED
        BY <4>1
    <3>2. ASSUME CreateTx(r) PROVE view[r] # None
      BY <3>2 DEF CreateTx
    <3>3. view[r] # None
      BY <3>1, <3>2, CommitEffect
    <3> QED
      BY <1>1, <3>3 DEF TxOk, Confirming, InConfirm
  <2>2. ASSUME NEW s \in Requests \ {r} PROVE TxOk(s)'
    <3>1. pc[s] = "commit" => intents'[s] = intents[s]
      <4>1. \A i \in Intents : intents[i] # None => pc[i] \in {"store", "done"}
        BY DEF RowInv
      <4>2. pc[s] = "commit" /\ call[r].op = "confirm" /\ ConfirmTx(r)
                => s # call[r].intent
        BY <4>1 DEF ConfirmTx, Intents
      <4> QED
        BY <2>2, <4>2, CommitEffect DEF TypeOK, Intents
    <3>2. Confirming(s) => /\ intents'[call[s].intent] = intents[call[s].intent]
                           /\ call[s].intent \in Intents
      <4>1. ASSUME Confirming(s) PROVE call[s].intent \in Intents /\ call[s].intent # r
        BY <1>3, <4>1, HeldId
      <4>2. ASSUME Confirming(s), tx[r].row # None PROVE tx[r].row.id # call[s].intent
        BY <1>3, <2>2, <4>2
      <4>3. ConfirmTx(r) => tx[r].row # None
        BY DEF ConfirmTx
      <4> QED
        BY <4>1, <4>2, <4>3, CommitEffect DEF TypeOK
    <3> QED
      BY <1>1, <2>2, <3>1, <3>2, OtherTx DEF TxInv
  <2> QED
    BY <2>1, <2>2 DEF TxInv
<1>6. LockInv'
  <2>1. tx'[r].row = None
    BY <1>1 DEF NoTx
  <2> QED
    BY <1>1, <2>1 DEF LockInv
<1>7. ChargeInv'
  <2>1. ASSUME NEW i \in Intents, NEW s \in charged'[i]
        PROVE  /\ call'[s] # None /\ call'[s].op = "confirm" /\ call'[s].intent = i
               /\ pc'[s] \in {"ledger", "outbox", "commit", "store", "done"}
    <3>1. s \in Requests /\ s \in charged[i]
      BY <1>1, <2>1 DEF TypeOK
    <3> QED
      BY <1>1, <3>1 DEF ChargeInv
  <2>2. ASSUME NEW i \in Intents, IsSettled(i)' PROVE charged'[i] # {}
    <3>1. CASE intents'[i] = intents[i]
      BY <1>1, <2>2, <3>1 DEF ChargeInv, IsSettled
    <3>2. CASE intents'[i] # intents[i]
      <4>1. CASE call[r].op = "confirm"
        <5>1. /\ ConfirmTx(r) /\ call[r].intent \in Intents
              /\ intents' = [intents EXCEPT ![call[r].intent] = tx[r].row]
          BY <4>1, CommitEffect
        <5>2. i = call[r].intent
          BY <3>2, <5>1 DEF TypeOK
        <5>3. r \in charged[i]
          BY <1>1, <5>1, <5>2 DEF ConfirmTx
        <5> QED
          BY <1>1, <5>3
      <4>2. CASE call[r].op = "create"
        <5>1. intents'[i].status = "CREATED"
          <6>1. tx[r].row # None => tx[r].row.status = "CREATED"
            <7>1. tx[r].row # None => tx[r].row = NewRow(r, call[r])
              BY <4>2, CommitEffect DEF CreateTx
            <7>2. NewRow(r, call[r]).status = "CREATED"
              BY DEF NewRow
            <7> QED
              BY <7>1, <7>2
          <6>2. intents' = [intents EXCEPT ![r] = tx[r].row] /\ tx[r].row # None
            BY <3>2, <4>2, CommitEffect
          <6>3. i = r
            BY <3>2, <6>2 DEF TypeOK
          <6> QED
            BY <6>1, <6>2, <6>3 DEF TypeOK
        <5> QED
          BY <2>2, <5>1 DEF IsSettled, Settled
      <4> QED
        BY <4>1, <4>2, CommitEffect
    <3> QED
      BY <3>1, <3>2
  <2> QED
    BY <2>1, <2>2 DEF ChargeInv
<1> QED
  BY <1>4, <1>5, <1>6, <1>7

\* A step that ends the request, or moves it before its transaction, without
\* leaving one open.
LEMMA AnswerStep ==
    ASSUME TypeOK, CallInv, DataInv, NEW r \in Requests, NEW code, NEW body,
           Answer(r, code, body), tx' = tx \/ Rollback(r), pc[r] \notin InConfirm \cup {"commit"} \/ Rollback(r),
           call' = call, intents' = intents, charged' = charged
    PROVE  DataInv'
<1>1. pc'[r] = "done" /\ \A s \in Requests \ {r} : pc'[s] = pc[s] /\ view'[s] = view[s]
  BY DEF TypeOK, Answer, Goto
<1>2. tx'[r] = NoTx /\ \A s \in Requests \ {r} : tx'[s] = tx[s]
  BY DEF TypeOK, DataInv, TxInv, TxOk, Rollback
<1> QED
  BY <1>1, <1>2, QuietStep

LEMMA DataStep == TypeOK /\ CallInv /\ DataInv /\ [Next]_vars => DataInv'
<1> SUFFICES ASSUME TypeOK, CallInv, DataInv, [Next]_vars PROVE DataInv'
  OBVIOUS
<1>1. ASSUME NEW r \in Requests, Issue(r) PROVE DataInv'
  <2>1. /\ pc[r] = "idle" /\ pc' = [pc EXCEPT ![r] = "cache"]
        /\ \E c \in Calls : call' = [call EXCEPT ![r] = c]
        /\ UNCHANGED <<view, tx, intents, charged>>
    BY <1>1 DEF Issue, Goto, database
  <2>2. tx[r] = NoTx
    BY <2>1 DEF DataInv, TxInv, TxOk, InConfirm
  <2>3. pc'[r] = "cache" /\ \A s \in Requests \ {r} : pc'[s] = pc[s] /\ call'[s] = call[s]
    BY <2>1 DEF TypeOK
  <2> QED
    BY <2>1, <2>2, <2>3, QuietStep
<1>2. ASSUME NEW r \in Requests, ServeFromCache(r) PROVE DataInv'
  BY <1>2, AnswerStep DEF ServeFromCache, InConfirm, database
<1>3. ASSUME NEW r \in Requests, MissCache(r) PROVE DataInv'
  <2>1. /\ pc[r] = "cache"
        /\ pc' = [pc EXCEPT ![r] = "insert"] \/ pc' = [pc EXCEPT ![r] = "lock"]
        /\ UNCHANGED <<call, view, tx, intents, charged>>
    BY <1>3 DEF MissCache, Goto, database
  <2>2. tx[r] = NoTx
    BY <2>1 DEF DataInv, TxInv, TxOk, InConfirm
  <2>3. pc'[r] \in {"insert", "lock"} /\ \A s \in Requests \ {r} : pc'[s] = pc[s]
    BY <2>1 DEF TypeOK
  <2> QED
    BY <2>1, <2>2, <2>3, QuietStep
<1>4. ASSUME NEW r \in Requests, InsertIntent(r) PROVE DataInv'
  BY <1>4, InsertStep
<1>5. ASSUME NEW r \in Requests, InsertOutOfRange(r) PROVE DataInv'
  BY <1>5, AnswerStep DEF InsertOutOfRange, InConfirm, database
<1>6. ASSUME NEW r \in Requests, InsertDuplicate(r) PROVE DataInv'
  <2>1. pc[r] = "insert" /\ UNCHANGED <<call, tx, intents, charged>>
    BY <1>6 DEF InsertDuplicate, database
  <2>2. CASE Goto(r, "recover") /\ UNCHANGED <<view, resp>>
    <3>1. tx[r] = NoTx
      BY <2>1 DEF DataInv, TxInv, TxOk, InConfirm
    <3>2. pc'[r] = "recover" /\ \A s \in Requests \ {r} : pc'[s] = pc[s]
      BY <2>2 DEF TypeOK, Goto
    <3> QED
      BY <2>1, <2>2, <3>1, <3>2, QuietStep
  <2>3. CASE Answer(r, 500, None)
    BY <2>1, <2>3, AnswerStep DEF InConfirm
  <2> QED
    BY <1>6, <2>2, <2>3 DEF InsertDuplicate
<1>7. ASSUME NEW r \in Requests, RecoverIntent(r) PROVE DataInv'
  BY <1>7, RecoverStep
<1>8. ASSUME NEW r \in Requests, NotFound(r) \/ Conflict(r) PROVE DataInv'
  BY <1>8, AnswerStep DEF NotFound, Conflict, InConfirm, database
<1>9. ASSUME NEW r \in Requests, LockIntent(r) PROVE DataInv'
  BY <1>9, LockStep
<1>10. ASSUME NEW r \in Requests, ChargeBank(r) PROVE DataInv'
  BY <1>10, ChargeStep
<1>11. ASSUME NEW r \in Requests, WriteDoubleEntry(r) PROVE DataInv'
  BY <1>11, LedgerStep
<1>12. ASSUME NEW r \in Requests, InsertOutboxEvent(r) PROVE DataInv'
  BY <1>12, OutboxStep
<1>13. ASSUME NEW r \in Requests, Commit(r) PROVE DataInv'
  BY <1>13, CommitStep
<1>14. ASSUME NEW r \in Requests, StoreResponse(r) PROVE DataInv'
  BY <1>14, AnswerStep DEF StoreResponse, InConfirm, database
<1>15. ASSUME NEW r \in Requests, Fail(r) PROVE DataInv'
  BY <1>15, AnswerStep DEF Fail, database
<1>16. ASSUME NEW s \in Slots, Expire(s) PROVE DataInv'
  <2>1. UNCHANGED <<pc, call, view, tx, intents, charged>>
    BY <1>16 DEF Expire, database
  <2>2. \A r \in Requests : TxOk(r)'
    BY <2>1, OtherTx DEF DataInv, TxInv
  <2> QED
    BY <2>1, <2>2 DEF DataInv, RowInv, TxInv, LockInv, ChargeInv, IsSettled
<1>17. CASE UNCHANGED vars
  <2>1. UNCHANGED <<pc, call, view, tx, intents, charged>>
    BY <1>17 DEF vars
  <2>2. \A r \in Requests : TxOk(r)'
    BY <2>1, OtherTx DEF DataInv, TxInv
  <2> QED
    BY <2>1, <2>2 DEF DataInv, RowInv, TxInv, LockInv, ChargeInv, IsSettled
<1> QED
  BY <1>1, <1>2, <1>3, <1>4, <1>5, <1>6, <1>7, <1>8, <1>9, <1>10, <1>11, <1>12, <1>13,
     <1>14, <1>15, <1>16, <1>17 DEF Next, Step, Create, Confirm

LEMMA CoreInit == Init => CoreInv
<1> SUFFICES ASSUME Init PROVE CoreInv
  OBVIOUS
<1>1. TypeOK
  BY NoTxType DEF Init, TypeOK, TxType
<1>2. CallInv
  BY <1>1 DEF Init, CallInv, InConfirm
<1>3. TxInv
  BY DEF Init, TxInv, TxOk, Confirming, InConfirm
<1>4. RowInv /\ LockInv /\ ChargeInv
  BY DEF Init, RowInv, LockInv, ChargeInv, IsSettled, NoTx
<1> QED
  BY <1>1, <1>2, <1>3, <1>4 DEF CoreInv

\* Types, control, rows, open transactions, row locks and charges stay right,
\* whatever the threads do and wherever they fail.
THEOREM CoreInvariant == Spec => []CoreInv
<1>1. CoreInv /\ [Next]_vars => CoreInv'
  BY TypeStep, CallStep, DataStep DEF CoreInv, DataInv
<1> QED
  BY CoreInit, <1>1, PTL DEF Spec

\* The variables of the API keep their types: no handler stores or answers
\* anything but a row, a response, an entry or an event.
THEOREM TypeCorrect == Spec => []TypeOK
<1>1. CoreInv => TypeOK
  BY DEF CoreInv
<1> QED
  BY CoreInvariant, <1>1, PTL

-----------------------------------------------------------------------------
(* Charges. *)

\* Who has charged and not committed holds the row of the intent it charged.
LEMMA OpenCharge ==
    ASSUME CoreInv, NEW i \in Intents, NEW r \in charged[i],
           pc[r] \in {"ledger", "outbox", "commit"}
    PROVE  /\ r \in Requests /\ tx[r].row # None /\ tx[r].row.id = i
           /\ intents[i] # None /\ intents[i].status = "CREATED"
<1>1. r \in Requests
  BY DEF CoreInv, TypeOK
<1>2. call[r].op = "confirm" /\ call[r].intent = i
  BY DEF CoreInv, ChargeInv
<1>3. Confirming(r)
  BY <1>2 DEF Confirming, InConfirm
<1> QED
  BY <1>1, <1>2, <1>3, HeldId DEF CoreInv

\* Charges of one intent never overlap, none is open once it is settled, and
\* what is settled was charged.
THEOREM ChargesNeverOverlap == Spec => []NoOverlappingCharges
<1>1. ASSUME CoreInv PROVE NoOverlappingCharges
  <2> SUFFICES ASSUME NEW i \in Intents
               PROVE  LET open == {r \in charged[i] : pc[r] \in {"ledger", "outbox", "commit"}}
                      IN  /\ \A r, s \in open : r = s
                          /\ IsSettled(i) => open = {} /\ charged[i] # {}
    BY DEF NoOverlappingCharges
  <2> DEFINE open == {r \in charged[i] : pc[r] \in {"ledger", "outbox", "commit"}}
  <2>1. ASSUME NEW r \in open, NEW s \in open PROVE r = s
    BY <1>1, OpenCharge DEF CoreInv, LockInv
  <2>2. ASSUME IsSettled(i) PROVE open = {} /\ charged[i] # {}
    <3>1. \A r \in open : FALSE
      BY <1>1, <2>2, OpenCharge DEF IsSettled, Settled
    <3>2. charged[i] # {}
      BY <1>1, <2>2 DEF CoreInv, ChargeInv
    <3> QED
      BY <3>1, <3>2
  <2> QED
    BY <2>1, <2>2
<1> QED
  BY <1>1, CoreInvariant, PTL

\* Nothing but a commit touches the tables.
LEMMA OnlyCommit ==
    ASSUME [Next]_vars
    PROVE  UNCHANGED database \/ \E r \in Requests : Commit(r)
BY DEF Next, Step, Create, Confirm, vars, database, Issue, ServeFromCache, MissCache,
       InsertIntent, InsertOutOfRange, InsertDuplicate, RecoverIntent, NotFound, Conflict,
       LockIntent, ChargeBank, WriteDoubleEntry, InsertOutboxEvent, StoreResponse, Fail, Expire

\* Nothing but ChargeBank calls the bank.
LEMMA OnlyCharge ==
    ASSUME [Next]_vars
    PROVE  charged' = charged \/ \E r \in Requests : ChargeBank(r)
BY DEF Next, Step, Create, Confirm, vars, Issue, ServeFromCache, MissCache,
       InsertIntent, InsertOutOfRange, InsertDuplicate, RecoverIntent, NotFound, Conflict,
       LockIntent, Commit, WriteDoubleEntry, InsertOutboxEvent, StoreResponse, Fail, Expire

\* ChargeBank charges the intent it holds the lock of, which is not settled.
LEMMA ChargesCreated ==
    ASSUME CoreInv, NEW r \in Requests, ChargeBank(r)
    PROVE  /\ call[r].intent \in Intents
           /\ charged' = [charged EXCEPT ![call[r].intent] = @ \cup {r}]
           /\ ~IsSettled(call[r].intent)
<1> DEFINE row == [tx[r].row EXCEPT !.status = NewStatus(tx[r].row.amount)]
<1>1. pc[r] = "charge" /\ charged' = [charged EXCEPT ![row.id] = @ \cup {r}]
  BY DEF ChargeBank
<1>2. Confirming(r)
  BY <1>1 DEF Confirming, InConfirm
<1>3. /\ call[r].intent \in Intents /\ tx[r].row.id = call[r].intent
      /\ ~IsSettled(call[r].intent)
  BY <1>2, HeldId DEF CoreInv, IsSettled, Settled
<1>4. tx[r].row \in Row
  BY <1>1, HoldsRow DEF CoreInv, InConfirm
<1>5. row.id = tx[r].row.id
  BY <1>4 DEF Row
<1> HIDE DEF row
<1> QED
  BY <1>1, <1>3, <1>5

\* The bank is not called for a payment that is settled.
THEOREM ChargedBeforeSettlement == Spec => NoChargeAfterSettlement
<1> DEFINE Quiet == \A i \in Intents : IsSettled(i) => charged'[i] = charged[i]
<1>1. ASSUME CoreInv, [Next]_vars PROVE Quiet
  <2>1. CASE charged' = charged
    BY <2>1
  <2>2. ASSUME NEW r \in Requests, ChargeBank(r) PROVE Quiet
    BY <1>1, <2>2, ChargesCreated DEF CoreInv, TypeOK
  <2> QED
    BY <1>1, <2>1, <2>2, OnlyCharge
<1> HIDE DEF Quiet
<1>2. Spec => [][Quiet]_vars
  BY <1>1, CoreInvariant, PTL DEF Spec
<1> QED
  BY <1>2 DEF NoChargeAfterSettlement, Quiet

-----------------------------------------------------------------------------
(* The tables. *)

\* What a commit does to the rows: settle one that was CREATED, add one, or
\* nothing.
LEMMA CommitRows ==
    ASSUME CoreInv, NEW r \in Requests, Commit(r)
    PROVE  \/ \E i \in Intents, s \in Settled :
                  /\ intents[i] # None /\ intents[i].status = "CREATED"
                  /\ r \in charged[i]
                  /\ tx[r].row = [intents[i] EXCEPT !.status = s]
                  /\ intents' = [intents EXCEPT ![i] = tx[r].row]
                  /\ ledger' = ledger \cup (IF s = "SUCCEEDED" THEN DoubleEntry(r, tx[r].row) ELSE {})
                  /\ outbox' = outbox \cup (IF s = "SUCCEEDED" THEN {OutboxEvent(r, tx[r].row)} ELSE {})
           \/ \E row \in Row :
                  /\ intents[r] = None /\ row.status = "CREATED"
                  /\ intents' = [intents EXCEPT ![r] = row]
                  /\ ledger' = ledger /\ outbox' = outbox
           \/ UNCHANGED database
<1>0. TypeOK /\ CallInv /\ DataInv
  BY DEF CoreInv, DataInv
<1>1. /\ pc[r] = "commit"
      /\ ledger' = ledger \cup tx[r].ledger /\ outbox' = outbox \cup tx[r].outbox
  BY DEF Commit
<1>2. CASE /\ call[r].op = "confirm" /\ ConfirmTx(r)
           /\ call[r].intent \in Intents /\ tx[r].row.id = call[r].intent
           /\ intents' = [intents EXCEPT ![call[r].intent] = tx[r].row]
  <2> DEFINE i == call[r].intent
             s == tx[r].row.status
  <2>1. tx[r].row \in Row
    BY <1>0, <1>2 DEF TypeOK, ConfirmTx
  <2>2. s \in Settled
    BY <1>1, <1>2, <2>1, NewStatusType, AmountsAssumption DEF ConfirmTx, Row
  <2>3. /\ intents[i] # None /\ intents[i].status = "CREATED" /\ r \in charged[i]
        /\ tx[r].row = [intents[i] EXCEPT !.status = s]
        /\ tx[r].ledger = IF s = "SUCCEEDED" THEN DoubleEntry(r, tx[r].row) ELSE {}
        /\ tx[r].outbox = IF s = "SUCCEEDED" THEN {OutboxEvent(r, tx[r].row)} ELSE {}
    BY <1>1, <1>2 DEF ConfirmTx
  <2> QED
    BY <1>1, <1>2, <2>2, <2>3
<1>3. CASE /\ call[r].op = "create" /\ CreateTx(r) /\ tx[r].row # None
           /\ tx[r].row.id = r
           /\ intents' = [intents EXCEPT ![r] = tx[r].row]
  <2>1. tx[r].row = NewRow(r, call[r]) /\ tx[r].row \in Row
    BY <1>0, <1>3 DEF CreateTx, TypeOK
  <2>2. NewRow(r, call[r]).status = "CREATED"
    BY DEF NewRow
  <2>3. intents[r] = None /\ tx[r].ledger = {} /\ tx[r].outbox = {}
    BY <1>3 DEF CreateTx
  <2> QED
    BY <1>1, <1>3, <2>1, <2>2, <2>3
<1>4. CASE CreateTx(r) /\ intents' = intents
  BY <1>1, <1>4 DEF CreateTx, database
<1> QED
  BY <1>0, <1>2, <1>3, <1>4, CommitEffect

\* A committed row stays, or is settled by this step.
LEMMA RowStep ==
    ASSUME CoreInv, [Next]_vars, NEW i \in Intents, intents[i] # None
    PROVE  \/ intents'[i] = intents[i]
           \/ /\ intents[i].status = "CREATED"
              /\ \E s \in Settled : intents'[i] = [intents[i] EXCEPT !.status = s]
<1> DEFINE Kept == intents'[i] = intents[i]
           Settles == /\ intents[i].status = "CREATED"
                      /\ \E s \in Settled : intents'[i] = [intents[i] EXCEPT !.status = s]
<1>1. CASE UNCHANGED database
  BY <1>1 DEF database
<1>2. ASSUME NEW r \in Requests, Commit(r) PROVE Kept \/ Settles
  <2>1. ASSUME NEW j \in Intents, NEW s \in Settled, intents[j].status = "CREATED",
               tx[r].row = [intents[j] EXCEPT !.status = s],
               intents' = [intents EXCEPT ![j] = tx[r].row]
        PROVE  Kept \/ Settles
    BY <2>1 DEF CoreInv, TypeOK
  <2>2. ASSUME NEW row, intents[r] = None, intents' = [intents EXCEPT ![r] = row]
        PROVE  Kept
    BY <2>2 DEF CoreInv, TypeOK
  <2>3. CASE \E j \in Intents, s \in Settled :
                /\ intents[j].status = "CREATED"
                /\ tx[r].row = [intents[j] EXCEPT !.status = s]
                /\ intents' = [intents EXCEPT ![j] = tx[r].row]
    BY <2>1, <2>3, Zenon
  <2>4. CASE \E row \in Row : intents[r] = None /\ intents' = [intents EXCEPT ![r] = row]
    BY <2>2, <2>4, Zenon
  <2>5. CASE UNCHANGED database
    BY <2>5 DEF database
  <2>6. \/ \E j \in Intents, s \in Settled :
               /\ intents[j].status = "CREATED"
               /\ tx[r].row = [intents[j] EXCEPT !.status = s]
               /\ intents' = [intents EXCEPT ![j] = tx[r].row]
        \/ \E row \in Row : intents[r] = None /\ intents' = [intents EXCEPT ![r] = row]
        \/ UNCHANGED database
    BY <1>2, CommitRows
  <2> QED
    BY <2>3, <2>4, <2>5, <2>6, Zenon
<1> QED
  BY <1>1, <1>2, OnlyCommit

\* A committed row changes once, from CREATED to a final status, and in nothing
\* but its status.
THEOREM RowsSettleOnce == Spec => SettledForever
<1> DEFINE Once == \A i \in Intents : intents[i] # None =>
                      \/ intents'[i] = intents[i]
                      \/ /\ intents[i].status = "CREATED"
                         /\ \E s \in Settled : intents'[i] = [intents[i] EXCEPT !.status = s]
<1>1. ASSUME CoreInv, [Next]_vars PROVE Once
  BY <1>1, RowStep
<1> HIDE DEF Once
<1>2. Spec => [][Once]_vars
  BY <1>1, CoreInvariant, PTL DEF Spec
<1> QED
  BY <1>2 DEF SettledForever, Once

-----------------------------------------------------------------------------
(* The books. *)

\* What the hooks write is about the intent they are called with.
LEMMA BooksOf ==
    ASSUME NEW r, NEW row
    PROVE  /\ \A e \in DoubleEntry(r, row) : e.intent = row.id
           /\ OutboxEvent(r, row).intent = row.id
           /\ DoubleEntry(r, row) # {}
BY DEF DoubleEntry, OutboxEvent

\* The books of one intent, as SettlementAtomic wants them.
Booked(i) ==
    IF intents[i] # None /\ intents[i].status = "SUCCEEDED"
    THEN \E r \in charged[i] :
            /\ EntriesOf(i) = DoubleEntry(r, intents[i])
            /\ EventsOf(i) = {OutboxEvent(r, intents[i])}
    ELSE EntriesOf(i) = {} /\ EventsOf(i) = {}

\* A settling commit writes its books in the same step, and no other commit
\* writes any.
LEMMA SettlementStep == CoreInv /\ SettlementAtomic /\ [Next]_vars => SettlementAtomic'
<1> SUFFICES ASSUME CoreInv, SettlementAtomic, [Next]_vars PROVE SettlementAtomic'
  OBVIOUS
<1>1. SettlementAtomic <=> \A i \in Intents : Booked(i)
  BY DEF SettlementAtomic, Booked
<1>2. SettlementAtomic' <=> \A i \in Intents : Booked(i)'
  BY DEF SettlementAtomic, Booked
<1>3. CASE UNCHANGED database
  <2>1. \A i \in Intents : charged[i] \subseteq charged'[i]
    BY OnlyCharge, ChargesCreated DEF CoreInv, TypeOK
  <2>2. ASSUME NEW i \in Intents PROVE Booked(i)'
    BY <1>1, <1>3, <2>1 DEF Booked, EntriesOf, EventsOf, database
  <2> QED
    BY <1>2, <2>2
<1>4. ASSUME NEW r \in Requests, Commit(r) PROVE SettlementAtomic'
  <2>1. charged' = charged
    BY <1>4 DEF Commit
  <2>2. ASSUME NEW i \in Intents, NEW s \in Settled,
               intents[i] # None, intents[i].status = "CREATED", r \in charged[i],
               tx[r].row = [intents[i] EXCEPT !.status = s],
               intents' = [intents EXCEPT ![i] = tx[r].row],
               ledger' = ledger \cup (IF s = "SUCCEEDED" THEN DoubleEntry(r, tx[r].row) ELSE {}),
               outbox' = outbox \cup (IF s = "SUCCEEDED" THEN {OutboxEvent(r, tx[r].row)} ELSE {})
        PROVE  SettlementAtomic'
    <3> DEFINE row == tx[r].row
    <3>1. row.id = i /\ row.status = s /\ row # None
      <4>1. intents[i] \in Row /\ intents[i].id = i
        BY <2>2 DEF CoreInv, TypeOK, RowInv
      <4>2. row \in Row
        BY <2>2, <4>1, StatusType DEF Statuses
      <4> QED
        BY <2>2, <4>1, <4>2, NoneAssumption DEF Row
    <3>2. EntriesOf(i) = {} /\ EventsOf(i) = {}
      BY <1>1, <2>2 DEF Booked
    <3> DEFINE entries == IF s = "SUCCEEDED" THEN DoubleEntry(r, row) ELSE {}
               events == IF s = "SUCCEEDED" THEN {OutboxEvent(r, row)} ELSE {}
    <3>3. ledger' = ledger \cup entries /\ outbox' = outbox \cup events
      BY <2>2
    <3>4. /\ \A e \in entries : e.intent = i
          /\ \A e \in events : e.intent = i
      <4> HIDE DEF row
      <4> QED
        BY <3>1, BooksOf
    <3> HIDE DEF entries, events
    <3>5. EntriesOf(i)' = entries /\ EventsOf(i)' = events
      BY <3>2, <3>3, <3>4 DEF EntriesOf, EventsOf
    <3>6. intents'[i] = row
      BY <2>2 DEF CoreInv, TypeOK
    <3>7. Booked(i)'
      <4> HIDE DEF row
      <4> QED
        BY <2>1, <2>2, <3>1, <3>5, <3>6 DEF Booked, entries, events
    <3>8. ASSUME NEW j \in Intents \ {i} PROVE Booked(j)'
      <4>1. EntriesOf(j)' = EntriesOf(j) /\ EventsOf(j)' = EventsOf(j)
        BY <3>3, <3>4 DEF EntriesOf, EventsOf
      <4>2. intents'[j] = intents[j]
        BY <2>2 DEF CoreInv, TypeOK
      <4> QED
        BY <1>1, <2>1, <4>1, <4>2 DEF Booked
    <3> QED
      BY <1>2, <3>7, <3>8
  <2>3. ASSUME NEW row \in Row, intents[r] = None, row.status = "CREATED",
               intents' = [intents EXCEPT ![r] = row], ledger' = ledger, outbox' = outbox
        PROVE  SettlementAtomic'
    <3>1. ASSUME NEW j \in Intents PROVE Booked(j)'
      <4>1. EntriesOf(j)' = EntriesOf(j) /\ EventsOf(j)' = EventsOf(j)
        BY <2>3 DEF EntriesOf, EventsOf
      <4>2. CASE j = r
        <5>1. intents'[j] = row
          BY <2>3, <4>2 DEF CoreInv, TypeOK
        <5>2. EntriesOf(j) = {} /\ EventsOf(j) = {}
          BY <1>1, <2>3, <4>2 DEF Booked
        <5> QED
          BY <2>3, <4>1, <5>1, <5>2 DEF Booked
      <4>3. CASE j # r
        <5>1. intents'[j] = intents[j]
          BY <2>3, <4>3 DEF CoreInv, TypeOK
        <5> QED
          BY <1>1, <2>1, <4>1, <5>1 DEF Booked
      <4> QED
        BY <4>2, <4>3
    <3> QED
      BY <1>2, <3>1
  <2> QED
    BY <1>3, <1>4, <2>2, <2>3, CommitRows
<1> QED
  BY <1>3, <1>4, OnlyCommit

\* An intent is SUCCEEDED exactly when its debit, its credit and its event are
\* there, for its amount and by one request that charged the bank.
THEOREM BooksMatchStatus == Spec => []SettlementAtomic
<1>1. Init => SettlementAtomic
  BY DEF Init, SettlementAtomic, EntriesOf, EventsOf
<1>2. CoreInv /\ SettlementAtomic /\ [Next]_vars => SettlementAtomic'
  BY SettlementStep
<1> QED
  BY <1>1, <1>2, CoreInvariant, PTL DEF Spec

-----------------------------------------------------------------------------
(* Refinement. *)

\* The status every intent has for the life cycle.
LEMMA StatusAfter ==
    ASSUME TypeOK, NEW i \in Intents, NEW row \in Row,
           intents' = [intents EXCEPT ![i] = row]
    PROVE  [j \in Intents |-> StatusOf(j)]'
             = [[j \in Intents |-> StatusOf(j)] EXCEPT ![i] = row.status]
<1>1. \A j \in Intents : StatusOf(j)' = IF j = i THEN row.status ELSE StatusOf(j)
  BY NoneAssumption DEF TypeOK, StatusOf
<1> QED
  BY <1>1

\* The committed tables follow the life cycle of PaymentLifecycle step by step.
THEOREM RefinesLifecycle == Spec => ImplementsLifecycle
<1>1. Init => Lifecycle!Init
  BY DEF Init, Lifecycle!Init, StatusOf
<1>2. ASSUME CoreInv, [Next]_vars PROVE [Lifecycle!Next]_(Lifecycle!vars)
  <2>1. CASE UNCHANGED database
    BY <2>1 DEF database, Lifecycle!vars, StatusOf
  <2>2. ASSUME NEW r \in Requests, Commit(r) PROVE [Lifecycle!Next]_(Lifecycle!vars)
    <3>1. ASSUME NEW i \in Intents, NEW s \in Settled,
                 intents[i] # None, intents[i].status = "CREATED",
                 tx[r].row = [intents[i] EXCEPT !.status = s],
                 intents' = [intents EXCEPT ![i] = tx[r].row],
                 ledger' = ledger \cup (IF s = "SUCCEEDED" THEN DoubleEntry(r, tx[r].row) ELSE {}),
                 outbox' = outbox \cup (IF s = "SUCCEEDED" THEN {OutboxEvent(r, tx[r].row)} ELSE {})
          PROVE  Lifecycle!Succeed(i) \/ Lifecycle!Refuse(i)
      <4> DEFINE row == tx[r].row
      <4>1. row \in Row /\ row.id = i /\ row.status = s
        <5>1. intents[i] \in Row /\ intents[i].id = i
          BY <1>2, <3>1 DEF CoreInv, TypeOK, RowInv
        <5> QED
          BY <3>1, <5>1, StatusType DEF Row, Statuses
      <4>2. StatusOf(i) = "CREATED"
        BY <3>1 DEF StatusOf
      <4>3. [j \in Intents |-> StatusOf(j)]'
              = [[j \in Intents |-> StatusOf(j)] EXCEPT ![i] = s]
        BY <1>2, <3>1, <4>1, StatusAfter DEF CoreInv
      <4>4. CASE s = "SUCCEEDED"
        <5> DEFINE entries == DoubleEntry(r, row)
        <5>1. ledger' = ledger \cup entries /\ outbox' = outbox \cup {OutboxEvent(r, row)}
          BY <3>1, <4>4
        <5>2. /\ entries # {} /\ \A e \in entries : e.intent = i
              /\ OutboxEvent(r, row).intent = i
          BY <4>1, BooksOf
        <5> HIDE DEF entries
        <5>3. {e.intent : e \in ledger'} = {e.intent : e \in ledger} \cup {i}
          BY <5>1, <5>2
        <5>4. {e.intent : e \in outbox'} = {e.intent : e \in outbox} \cup {i}
          BY <5>1, <5>2
        <5> QED
          BY <4>2, <4>3, <4>4, <5>3, <5>4 DEF Lifecycle!Succeed
      <4>5. CASE s # "SUCCEEDED"
        <5>1. ledger' = ledger /\ outbox' = outbox
          BY <3>1, <4>5
        <5> QED
          BY <4>2, <4>3, <4>5, <5>1 DEF Lifecycle!Refuse, Settled
      <4> QED
        BY <4>4, <4>5
    <3>2. ASSUME NEW row \in Row, intents[r] = None, row.status = "CREATED",
                 intents' = [intents EXCEPT ![r] = row], ledger' = ledger, outbox' = outbox
          PROVE  Lifecycle!Open(r)
      <4>1. [j \in Intents |-> StatusOf(j)]'
              = [[j \in Intents |-> StatusOf(j)] EXCEPT ![r] = "CREATED"]
        BY <1>2, <3>2, StatusAfter DEF CoreInv, Intents
      <4>2. StatusOf(r) = "ABSENT"
        BY <3>2 DEF StatusOf
      <4> QED
        BY <3>2, <4>1, <4>2 DEF Lifecycle!Open, Intents
    <3> QED
      BY <1>2, <2>1, <2>2, <3>1, <3>2, CommitRows DEF Lifecycle!Next, Intents
  <2> QED
    BY <1>2, <2>1, <2>2, OnlyCommit
<1> QED
  BY <1>1, <1>2, CoreInvariant, PTL DEF Spec, ImplementsLifecycle, Lifecycle!Spec

-----------------------------------------------------------------------------
(* Keys and answers: what a step leaves alone. *)

\* A thread runs on its own: what belongs to another request stays.
LEMMA OwnStep ==
    ASSUME TypeOK, NEW r \in Requests, Issue(r) \/ Step(r) \/ Fail(r),
           NEW s \in Requests, s # r
    PROVE  /\ pc'[s] = pc[s] /\ call'[s] = call[s] /\ view'[s] = view[s]
           /\ tx'[s] = tx[s] /\ resp'[s] = resp[s]
<1>1. CASE Issue(r) \/ ServeFromCache(r) \/ MissCache(r) \/ Fail(r)
  BY <1>1 DEF TypeOK, Issue, ServeFromCache, MissCache, Fail, Goto, Answer, Rollback
<1>2. CASE Create(r)
  BY <1>2 DEF TypeOK, Create, InsertIntent, InsertOutOfRange, InsertDuplicate,
              RecoverIntent, Goto, Answer
<1>3. CASE NotFound(r) \/ Conflict(r) \/ LockIntent(r)
  BY <1>3 DEF TypeOK, NotFound, Conflict, LockIntent, Goto, Answer
<1>4. CASE ChargeBank(r) \/ WriteDoubleEntry(r) \/ InsertOutboxEvent(r)
  BY <1>4 DEF TypeOK, ChargeBank, WriteDoubleEntry, InsertOutboxEvent, Goto
<1>5. CASE Commit(r) \/ StoreResponse(r)
  BY <1>5 DEF TypeOK, Commit, StoreResponse, Goto, Answer, Rollback
<1> QED
  BY <1>1, <1>2, <1>3, <1>4, <1>5 DEF Step, Confirm

\* A call once made does not change.
LEMMA CallKept ==
    ASSUME CoreInv, [Next]_vars, NEW s \in Requests, call[s] # None
    PROVE  call'[s] = call[s]
<1>1. TypeOK /\ CallInv
  BY DEF CoreInv
<1>2. ASSUME NEW r \in Requests, Issue(r) PROVE call'[s] = call[s]
  <2>1. s # r
    BY <1>1, <1>2 DEF CallInv, Issue
  <2> QED
    BY <1>1, <1>2, <2>1, OwnStep
<1>3. (\E r \in Requests : Issue(r)) \/ call' = call
  BY DEF Next, Step, Create, Confirm, vars, ServeFromCache, MissCache, InsertIntent,
         InsertOutOfRange, InsertDuplicate, RecoverIntent, NotFound, Conflict, LockIntent,
         ChargeBank, WriteDoubleEntry, InsertOutboxEvent, Commit, StoreResponse, Fail, Expire
<1> QED
  BY <1>2, <1>3

\* A committed row keeps all but its status, and that too once it is settled.
LEMMA RowKept ==
    ASSUME CoreInv, [Next]_vars, NEW i \in Intents, intents[i] # None
    PROVE  /\ intents'[i] # None
           /\ intents'[i].id = intents[i].id
           /\ intents'[i].merchant = intents[i].merchant
           /\ intents'[i].amount = intents[i].amount
           /\ intents'[i].currency = intents[i].currency
           /\ intents'[i].key = intents[i].key
           /\ intents[i].status # "CREATED" => intents'[i].status = intents[i].status
           /\ IsSettled(i) => IsSettled(i)'
<1>1. intents[i] \in Row
  BY DEF CoreInv, TypeOK
<1>2. CASE intents'[i] = intents[i]
  BY <1>2 DEF IsSettled
<1>3. ASSUME NEW s \in Settled, intents[i].status = "CREATED",
             intents'[i] = [intents[i] EXCEPT !.status = s]
      PROVE  /\ intents'[i] # None
             /\ intents'[i].id = intents[i].id
             /\ intents'[i].merchant = intents[i].merchant
             /\ intents'[i].amount = intents[i].amount
             /\ intents'[i].currency = intents[i].currency
             /\ intents'[i].key = intents[i].key
             /\ ~IsSettled(i)
  <2>1. intents'[i] \in Row
    BY <1>1, <1>3 DEF Row, Statuses, Settled
  <2> QED
    BY <1>1, <1>3, <2>1, NoneAssumption DEF Row, IsSettled, Settled
<1>4. CASE \E s \in Settled : /\ intents[i].status = "CREATED"
                              /\ intents'[i] = [intents[i] EXCEPT !.status = s]
  BY <1>3, <1>4
<1> QED
  BY <1>2, <1>4, RowStep

LEMMA TruthfulKept ==
    ASSUME CoreInv, [Next]_vars, NEW body \in Body, NEW m, Truthful(body, m)
    PROVE  Truthful(body, m)'
<1>1. body.id \in Intents /\ intents[body.id] # None
  BY DEF Body, Truthful
<1> QED
  BY <1>1, RowKept DEF Truthful

LEMMA AnswersCreateKept ==
    ASSUME CoreInv, [Next]_vars, NEW body \in Body, NEW m, NEW k,
           Truthful(body, m), AnswersCreate(body, k)
    PROVE  AnswersCreate(body, k)'
<1>1. body.id \in Intents /\ intents[body.id] # None
  BY DEF Body, Truthful
<1> QED
  BY <1>1, RowKept DEF AnswersCreate

LEMMA AnswersConfirmKept ==
    ASSUME CoreInv, [Next]_vars, NEW body \in Body, NEW m, NEW k, AnswersConfirm(body, m, k)
    PROVE  AnswersConfirm(body, m, k)'
BY CallKept DEF AnswersConfirm

\* An answer that was true and belonged to the call remains so.
LEMMA AnswerKept ==
    ASSUME CoreInv, [Next]_vars, NEW body \in Body, NEW c, AnswerOk(body, c)
    PROVE  AnswerOk(body, c)'
BY TruthfulKept, AnswersCreateKept, AnswersConfirmKept DEF AnswerOk

-----------------------------------------------------------------------------
(* Keys. *)

\* A request brings a new row only if it did before, or by the INSERT.
LEMMA InsertingKept ==
    ASSUME CoreInv, [Next]_vars, NEW s \in Requests, Inserting(s)', ~InsertIntent(s)
    PROVE  Inserting(s) /\ call'[s] = call[s] /\ tx'[s] = tx[s]
<1>0. TypeOK /\ CallInv /\ TxInv
  BY DEF CoreInv
<1>1. ASSUME NEW r \in Requests, Issue(r) \/ Step(r) \/ Fail(r), r # s
      PROVE  Inserting(s) /\ call'[s] = call[s] /\ tx'[s] = tx[s]
  BY <1>0, <1>1, OwnStep DEF Inserting
<1>2. CASE Issue(s) \/ ServeFromCache(s) \/ MissCache(s) \/ Fail(s) \/ NotFound(s)
           \/ Conflict(s) \/ InsertOutOfRange(s) \/ InsertDuplicate(s) \/ Commit(s)
           \/ StoreResponse(s) \/ LockIntent(s) \/ WriteDoubleEntry(s)
  <2>1. pc'[s] # "commit"
    BY <1>0, <1>2 DEF TypeOK, Issue, ServeFromCache, MissCache, Fail, NotFound, Conflict,
         InsertOutOfRange, InsertDuplicate, Commit, StoreResponse, LockIntent,
         WriteDoubleEntry, Goto, Answer
  <2> QED
    BY <2>1 DEF Inserting
<1>3. CASE RecoverIntent(s)
  <2>1. tx'[s] = NoTx
    BY <1>0, <1>3 DEF RecoverIntent, TxInv, TxOk, InConfirm
  <2> QED
    BY <2>1 DEF Inserting, NoTx
<1>4. CASE ChargeBank(s) \/ InsertOutboxEvent(s)
  <2>1. call[s].op = "confirm" /\ call' = call
    BY <1>0, <1>4 DEF ChargeBank, InsertOutboxEvent, CallInv, InConfirm
  <2> QED
    BY <2>1 DEF Inserting
<1>5. CASE (\E t \in Slots : Expire(t)) \/ UNCHANGED vars
  BY <1>5 DEF Expire, vars, Inserting
<1> QED
  BY <1>1, <1>2, <1>3, <1>4, <1>5 DEF Next, Step, Create, Confirm

\* The row of who inserts has the merchant and the key of its call.
LEMMA InsertedKey ==
    ASSUME CoreInv, NEW s \in Requests, Inserting(s), NEW c
    PROVE  /\ tx[s].row = NewRow(s, call[s])
           /\ SameKey(tx[s].row, c) <=> /\ c.key # None /\ call[s].merchant = c.merchant
                                        /\ call[s].key = c.key
<1>1. tx[s].row # None /\ tx[s].row = NewRow(s, call[s])
  BY DEF CoreInv, TxInv, TxOk, Inserting, CreateTx
<1>2. NewRow(s, call[s]).merchant = call[s].merchant /\ NewRow(s, call[s]).key = call[s].key
  BY DEF NewRow
<1> QED
  BY <1>1, <1>2 DEF SameKey

\* Rows that were there keep colliding, and no row collides that did not, unless
\* it is new.
LEMMA CollidesKept ==
    ASSUME CoreInv, [Next]_vars, NEW c, NEW i \in Intents, intents[i] # None
    PROVE  SameKey(intents'[i], c) <=> SameKey(intents[i], c)
BY RowKept DEF SameKey

\* What a step may add to the table: the row of a request that was inserting.
LEMMA NewRows ==
    ASSUME CoreInv, [Next]_vars, NEW i \in Intents, intents[i] = None, intents'[i] # None
    PROVE  /\ Inserting(i) /\ intents'[i] = tx[i].row /\ ~Inserting(i)'
           /\ \A j \in Intents \ {i} : intents'[j] = intents[j]
<1>0. TypeOK /\ CallInv /\ DataInv
  BY DEF CoreInv, DataInv
<1>1. PICK r \in Requests : Commit(r)
  BY OnlyCommit DEF database
<1>2. CASE ConfirmTx(r) /\ intents' = [intents EXCEPT ![call[r].intent] = tx[r].row]
  BY <1>0, <1>2 DEF ConfirmTx, TypeOK
<1>3. CASE /\ call[r].op = "create" /\ tx[r].row # None
           /\ intents' = [intents EXCEPT ![r] = tx[r].row]
  <2>1. i = r
    BY <1>0, <1>3 DEF TypeOK
  <2>2. pc[r] = "commit" /\ pc'[r] = "store"
    BY <1>0, <1>1, CommitEffect
  <2> QED
    BY <1>0, <1>3, <2>1, <2>2 DEF TypeOK, Inserting
<1> QED
  BY <1>0, <1>1, <1>2, <1>3, CommitEffect

\* Keys stay unique: an INSERT that would break it collides, or waits for the
\* transaction that brings the same key.
LEMMA KeyStep == CoreInv /\ KeyInv /\ [Next]_vars => KeyInv'
<1> SUFFICES ASSUME CoreInv, KeyInv, [Next]_vars PROVE KeyInv'
  OBVIOUS
<1>1. UniqueKeys'
  <2> SUFFICES ASSUME NEW i \in Intents, NEW j \in Intents, intents'[i] # None, intents'[j] # None,
                      intents'[i].key # None, intents'[i].key = intents'[j].key,
                      intents'[i].merchant = intents'[j].merchant, i # j
               PROVE  FALSE
    BY DEF UniqueKeys
  <2>1. ASSUME NEW a \in Intents, NEW b \in Intents, a # b, intents[a] = None,
               intents'[a] # None, intents'[b] # None, intents'[a].key # None,
               intents'[a].key = intents'[b].key,
               intents'[a].merchant = intents'[b].merchant
        PROVE  FALSE
    <3>1. Inserting(a) /\ intents'[a] = tx[a].row /\ intents'[b] = intents[b]
      BY <2>1, NewRows
    <3>2. tx[a].row = NewRow(a, call[a]) /\ ~Collides(call[a])
      BY <2>1, <3>1, InsertedKey DEF KeyInv, AloneWithKey, Intents
    <3>3. NewRow(a, call[a]).merchant = call[a].merchant /\ NewRow(a, call[a]).key = call[a].key
      BY DEF NewRow
    <3> QED
      BY <2>1, <3>1, <3>2, <3>3 DEF Collides, SameKey
  <2>2. CASE intents[i] # None /\ intents[j] # None
    BY <2>2, RowKept DEF KeyInv, UniqueKeys
  <2> QED
    BY <2>1, <2>2
<1>2. ASSUME NEW r \in Requests, Inserting(r)' PROVE ~Collides(call[r])'
  <2> SUFFICES ASSUME NEW i \in Intents, SameKey(intents'[i], call'[r]) PROVE FALSE
    BY DEF Collides
  <2>1. intents'[i] # None
    BY DEF SameKey
  <2>2. CASE InsertIntent(r)
    BY <2>2 DEF InsertIntent, Collides, database
  <2>3. CASE ~InsertIntent(r)
    <3>1. Inserting(r) /\ call'[r] = call[r] /\ ~Collides(call[r])
      BY <1>2, <2>3, InsertingKept DEF KeyInv, AloneWithKey
    <3>2. intents[i] = None
      BY <2>1, <3>1, CollidesKept DEF Collides
    <3>3. Inserting(i) /\ intents'[i] = tx[i].row /\ i # r
      BY <1>2, <2>1, <3>2, NewRows
    <3> QED
      BY <3>1, <3>3 DEF KeyInv, AloneWithKey, Intents
  <2> QED
    BY <2>2, <2>3
<1>3. ASSUME NEW r \in Requests, NEW s \in Requests, Inserting(r)', Inserting(s)', s # r
      PROVE  ~SameKey(tx'[s].row, call'[r])
  <2>1. ASSUME NEW a \in Requests, NEW b \in Requests, a # b, InsertIntent(a),
               Inserting(a)', Inserting(b)'
        PROVE  ~SameKey(tx'[a].row, call'[b]) /\ ~SameKey(tx'[b].row, call'[a])
    <3>1. pc[a] = "insert" /\ call' = call /\ tx' = [tx EXCEPT ![a].row = NewRow(a, call[a])]
          /\ ~InsertWaits(call[a])
      BY <2>1 DEF InsertIntent
    <3>2. Inserting(b) /\ tx'[b] = tx[b] /\ call'[b] = call[b]
      <4>1. ~InsertIntent(b)
        BY <2>1 DEF InsertIntent, Goto, CoreInv, TypeOK, Inserting
      <4> QED
        BY <2>1, <4>1, InsertingKept
    <3>3. ~SameKey(tx[b].row, call[a])
      BY <3>1 DEF InsertWaits
    <3>4. tx'[a].row = NewRow(a, call[a])
      BY <3>1 DEF CoreInv, TypeOK
    <3>5. NewRow(a, call[a]).merchant = call[a].merchant /\ NewRow(a, call[a]).key = call[a].key
      BY DEF NewRow
    <3>6. ~SameKey(tx'[b].row, call'[a])
      BY <3>1, <3>2, <3>3
    <3>7. ~(/\ call[a].key # None /\ call[b].merchant = call[a].merchant
            /\ call[b].key = call[a].key)
      BY <3>2, <3>3, InsertedKey
    <3>8. ~SameKey(tx'[a].row, call'[b])
      BY <3>1, <3>4, <3>5, <3>7 DEF SameKey
    <3> QED
      BY <3>6, <3>8
  <2>2. CASE ~InsertIntent(r) /\ ~InsertIntent(s)
    BY <1>3, <2>2, InsertingKept DEF KeyInv, AloneWithKey
  <2> QED
    BY <1>3, <2>1, <2>2
<1> QED
  BY <1>1, <1>2, <1>3 DEF KeyInv, AloneWithKey

-----------------------------------------------------------------------------
(* Answers. *)

\* A request that did not run keeps its view and its answer, and they stay true.
LEMMA OtherAnswer ==
    ASSUME CoreInv, [Next]_vars, NEW s \in Requests, ViewOk(s), RespOk(s),
           pc'[s] = pc[s], call'[s] = call[s], view'[s] = view[s],
           tx'[s] = tx[s], resp'[s] = resp[s]
    PROVE  ViewOk(s)' /\ RespOk(s)'
<1>0. TypeOK /\ CallInv
  BY DEF CoreInv
<1>1. ViewOk(s)'
  <2> SUFFICES ASSUME Ready(s)
               PROVE  view[s] # None /\ AnswerOk(IntentToDict(view[s]), call[s])'
    BY DEF ViewOk, Ready
  <2>1. view[s] # None /\ AnswerOk(IntentToDict(view[s]), call[s])
    BY DEF ViewOk
  <2>2. IntentToDict(view[s]) \in Body
    BY <1>0, <2>1, BodyType DEF TypeOK
  <2> QED
    BY <2>1, <2>2, AnswerKept
<1>2. RespOk(s)'
  <2>1. ASSUME resp[s] # None, resp[s].body # None PROVE AnswerOk(resp[s].body, call[s])'
    <3>1. resp[s].body \in Body /\ AnswerOk(resp[s].body, call[s])
      BY <1>0, <2>1 DEF RespOk, TypeOK
    <3> QED
      BY <3>1, AnswerKept
  <2>2. ASSUME resp[s] # None, resp[s].code = 409
        PROVE  call[s].op = "confirm" /\ IsSettled(call[s].intent)'
    <3>1. call[s].op = "confirm" /\ IsSettled(call[s].intent)
      BY <2>2 DEF RespOk
    <3>2. pc[s] = "done"
      BY <1>0, <2>2 DEF CallInv
    <3>3. call[s].intent \in Intents
      BY <1>0, <3>1, <3>2, CallTypes DEF ConfirmCalls
    <3> QED
      BY <3>1, <3>3, RowKept DEF IsSettled
  <2> QED
    BY <2>1, <2>2 DEF RespOk
<1> QED
  BY <1>1, <1>2

\* A request that answers the truth has answered well.
LEMMA AnswerGiven ==
    ASSUME CoreInv, [Next]_vars, NEW r \in Requests, NEW code, NEW body,
           Answer(r, code, body), call'[r] = call[r],
           body # None => body \in Body /\ AnswerOk(body, call[r]),
           code = 409 => /\ call[r].op = "confirm" /\ call[r].intent \in Intents
                         /\ IsSettled(call[r].intent)
    PROVE  ViewOk(r)' /\ RespOk(r)'
<1>1. pc'[r] = "done" /\ resp'[r] = [code |-> code, body |-> body]
  BY DEF CoreInv, TypeOK, Answer, Goto
<1>2. ViewOk(r)'
  BY <1>1 DEF ViewOk, Ready
<1>3. body # None => AnswerOk(body, call[r])'
  BY AnswerKept
<1>4. code = 409 => IsSettled(call[r].intent)'
  BY RowKept DEF IsSettled
<1> QED
  BY <1>1, <1>2, <1>3, <1>4 DEF RespOk

\* A request that goes on has not answered.
LEMMA NotYetAnswered ==
    ASSUME CoreInv, NEW r \in Requests, pc[r] # "done", resp'[r] = resp[r]
    PROVE  RespOk(r)'
BY DEF CoreInv, CallInv, RespOk

\* The cache holds what some call was answered with.
LEMMA CachedAnswer ==
    ASSUME CoreInv, AnswerInv, NEW r \in Requests, pc[r] # "idle", CacheHit(call[r])
    PROVE  /\ cache[Slot(call[r])] \in Body
           /\ AnswerOk(cache[Slot(call[r])], call[r])
<1> DEFINE m == call[r].merchant
           k == call[r].key
<1>1. /\ call[r].op \in {"create", "confirm"}
      /\ m \in Merchants /\ k \in Keys /\ cache[Slot(call[r])] # None
  BY CallTypes DEF CoreInv, CacheHit, Truthy
<1>2. SlotOk(m, k)
  BY <1>1 DEF AnswerInv
<1>3. Slot(call[r]) = <<"create_intent", m, k>> \/ Slot(call[r]) = <<"confirm_intent", m, k>>
  BY <1>1 DEF Slot
<1>4. cache[Slot(call[r])] \in Body
  BY <1>1, <1>3 DEF CoreInv, TypeOK, Slots, Scopes
<1>5. CASE call[r].op = "create"
  BY <1>1, <1>2, <1>4, <1>5 DEF Slot, SlotOk, AnswerOk
<1>6. CASE call[r].op = "confirm"
  BY <1>1, <1>2, <1>4, <1>6 DEF Slot, SlotOk, AnswerOk
<1> QED
  BY <1>1, <1>4, <1>5, <1>6

\* What the recovery SELECT finds has the key of the call.
LEMMA RecoverAnswer ==
    ASSUME CoreInv, [Next]_vars, NEW r \in Requests, RecoverIntent(r)
    PROVE  ViewOk(r)' /\ RespOk(r)'
<1> DEFINE found == {i \in Intents : SameKey(intents[i], call[r])}
           i == CHOOSE i \in found : TRUE
<1>1. pc[r] = "recover" /\ call' = call /\ UNCHANGED <<tx, intents>>
  BY DEF RecoverIntent, database
<1>2. call[r].op = "create" /\ call[r].key \in KeyValues
  BY <1>1, CallTypes DEF CoreInv, CallInv
<1>3. CASE Answer(r, 500, None)
  BY <1>1, <1>3, AnswerGiven
<1>4. CASE found # {} /\ view' = [view EXCEPT ![r] = intents[i]] /\ Goto(r, "commit") /\ resp' = resp
  <2>1. i \in Intents /\ SameKey(intents[i], call[r])
    BY <1>4
  <2> HIDE DEF i, found
  <2>2. /\ view'[r] = intents[i] /\ intents[i] # None /\ intents[i] \in Row
        /\ intents[i].id = i /\ intents[i].merchant = call[r].merchant
        /\ intents[i].key = call[r].key
    <3>1. /\ intents[i] # None
          /\ intents[i].merchant = call[r].merchant /\ intents[i].key = call[r].key
      BY <2>1 DEF SameKey
    <3>2. intents[i].id = i /\ intents[i] \in Row
      BY <2>1, <3>1 DEF CoreInv, TypeOK, RowInv
    <3>3. view'[r] = intents[i]
      BY <1>4 DEF CoreInv, TypeOK
    <3> QED
      BY <3>1, <3>2, <3>3
  <2>3. AnswerOk(IntentToDict(view[r]), call[r])'
    BY <1>1, <1>2, <2>1, <2>2 DEF AnswerOk, Truthful, AnswersCreate, IntentToDict
  <2>4. ViewOk(r)'
    BY <2>2, <2>3 DEF ViewOk
  <2>5. RespOk(r)'
    BY <1>1, <1>4, NotYetAnswered
  <2> QED
    BY <2>4, <2>5
<1> QED
  BY <1>3, <1>4 DEF RecoverIntent

\* After its commit a handler holds the row as everybody else sees it.
LEMMA CommitAnswer ==
    ASSUME CoreInv, AnswerInv, [Next]_vars, NEW r \in Requests, Commit(r)
    PROVE  ViewOk(r)' /\ RespOk(r)'
<1>0. TypeOK /\ CallInv /\ DataInv
  BY DEF CoreInv, DataInv
<1>1. /\ pc[r] = "commit" /\ pc'[r] = "store"
      /\ UNCHANGED <<call, view, resp>>
  BY <1>0, CommitEffect
<1>2. RespOk(r)'
  BY <1>1, NotYetAnswered
<1>3. CASE /\ call[r].op = "confirm" /\ ConfirmTx(r) /\ call[r].intent \in Intents
           /\ tx[r].row.id = call[r].intent
           /\ intents' = [intents EXCEPT ![call[r].intent] = tx[r].row]
  <2> DEFINE i == call[r].intent
             row == tx[r].row
  <2>1. /\ row \in Row /\ view[r] = row /\ row.id = i /\ row.status \in Settled
        /\ row.merchant = call[r].merchant /\ intents'[i] = row /\ row # None
    <3>1. row \in Row /\ intents[i] \in Row
      BY <1>0, <1>3 DEF ConfirmTx, TypeOK
    <3>2. row.status = NewStatus(row.amount) /\ row.amount \in Nat
      BY <1>1, <1>3, <3>1, AmountsAssumption DEF ConfirmTx, Row
    <3>3. row.merchant = call[r].merchant
      BY <1>3, <3>1 DEF ConfirmTx, Row
    <3> QED
      BY <1>0, <1>1, <1>3, <3>1, <3>2, <3>3, NewStatusType DEF ConfirmTx, TypeOK
  <2>2. call'[r] # None /\ i \in Intents
    BY <1>0, <1>1, <1>3 DEF CallInv
  <2> HIDE DEF row
  <2>3. Truthful(IntentToDict(view[r]), call[r].merchant)'
    BY <1>1, <2>1, <2>2 DEF Truthful, IntentToDict
  <2>4. AnswersConfirm(IntentToDict(view[r]), call[r].merchant, call[r].key)'
    BY <1>1, <1>3, <2>1, <2>2 DEF AnswersConfirm, IntentToDict
  <2>5. AnswerOk(IntentToDict(view[r]), call[r])'
    BY <1>1, <1>3, <2>1, <2>3, <2>4 DEF AnswerOk
  <2> QED
    BY <1>1, <1>2, <2>1, <2>5 DEF ViewOk
<1>4. CASE /\ call[r].op = "create" /\ CreateTx(r) /\ tx[r].row # None
           /\ intents' = [intents EXCEPT ![r] = tx[r].row]
  <2> DEFINE row == tx[r].row
  <2>1. row = NewRow(r, call[r]) /\ view[r] = row /\ intents'[r] = row /\ row # None
    BY <1>0, <1>4 DEF CreateTx, TypeOK, Intents
  <2>2. row.id = r /\ row.merchant = call[r].merchant /\ row.key = call[r].key
    BY <2>1 DEF NewRow
  <2> HIDE DEF row
  <2>3. AnswerOk(IntentToDict(view[r]), call[r])'
    BY <1>1, <1>4, <2>1, <2>2 DEF AnswerOk, Truthful, AnswersCreate, IntentToDict
  <2> QED
    BY <1>1, <1>2, <2>1, <2>3 DEF ViewOk
<1>5. CASE call[r].op = "create" /\ tx[r].row = None
  <2>1. view[r] # None /\ AnswerOk(IntentToDict(view[r]), call[r])
    BY <1>1, <1>5 DEF AnswerInv, ViewOk, Ready
  <2>2. IntentToDict(view[r]) \in Body
    BY <1>0, <2>1, BodyType DEF TypeOK
  <2>3. AnswerOk(IntentToDict(view[r]), call[r])'
    BY <1>1, <2>1, <2>2, AnswerKept
  <2> QED
    BY <1>1, <1>2, <2>1, <2>3 DEF ViewOk
<1> QED
  BY <1>0, <1>3, <1>4, <1>5, CommitEffect

\* Whatever request r does, what it holds and answers is true.
LEMMA OwnAnswer ==
    ASSUME CoreInv, AnswerInv, [Next]_vars, NEW r \in Requests,
           Issue(r) \/ Step(r) \/ Fail(r)
    PROVE  ViewOk(r)' /\ RespOk(r)'
<1>0. TypeOK /\ CallInv /\ TxInv
  BY DEF CoreInv
\* A step that neither answers nor gets hold of a row.
<1>1. ASSUME pc[r] # "done", resp'[r] = resp[r], ~Ready(r)' PROVE ViewOk(r)' /\ RespOk(r)'
  BY <1>1, NotYetAnswered DEF ViewOk
<1>2. CASE Issue(r) \/ MissCache(r) \/ LockIntent(r) \/ WriteDoubleEntry(r)
  <2>1. pc[r] # "done" /\ resp' = resp /\ pc'[r] \notin {"store", "commit"}
    BY <1>0, <1>2 DEF Issue, MissCache, LockIntent, WriteDoubleEntry, Goto, TypeOK
  <2> QED
    BY <1>1, <2>1 DEF Ready
<1>3. CASE ServeFromCache(r)
  <2>1. /\ pc[r] = "cache" /\ CacheHit(call[r]) /\ call' = call
        /\ Answer(r, SuccessCode(call[r]), cache[Slot(call[r])])
    BY <1>3 DEF ServeFromCache
  <2>2. SuccessCode(call[r]) # 409
    BY DEF SuccessCode
  <2>3. cache[Slot(call[r])] \in Body /\ AnswerOk(cache[Slot(call[r])], call[r])
    BY <2>1, CachedAnswer
  <2> QED
    BY <2>1, <2>2, <2>3, AnswerGiven
<1>4. CASE InsertIntent(r)
  <2>1. /\ pc[r] = "insert" /\ resp' = resp /\ pc' = [pc EXCEPT ![r] = "commit"]
        /\ tx' = [tx EXCEPT ![r].row = NewRow(r, call[r])]
    BY <1>4 DEF InsertIntent, Goto
  <2>2. NewRow(r, call[r]) # None
    <3>1. call[r] \in CreateCalls
      BY <1>0, <2>1, CallTypes DEF CallInv
    <3>2. NewRow(r, call[r]) \in Row
      BY <3>1 DEF NewRow, Row, CreateCalls, Intents, Statuses
    <3> QED
      BY <3>2, NoneAssumption
  <2>3. pc'[r] = "commit" /\ tx'[r].row = NewRow(r, call[r])
    BY <1>0, <2>1 DEF TypeOK
  <2> QED
    BY <1>1, <2>1, <2>2, <2>3 DEF Ready
<1>5. CASE InsertOutOfRange(r)
  BY <1>5, AnswerGiven DEF InsertOutOfRange
<1>6. CASE InsertDuplicate(r)
  <2>1. CASE Goto(r, "recover") /\ UNCHANGED <<view, resp>>
    <3>1. pc[r] = "insert" /\ pc'[r] = "recover"
      BY <1>0, <1>6, <2>1 DEF InsertDuplicate, Goto, TypeOK
    <3> QED
      BY <1>1, <2>1, <3>1 DEF Ready
  <2>2. CASE Answer(r, 500, None)
    BY <1>6, <2>2, AnswerGiven DEF InsertDuplicate
  <2> QED
    BY <1>6, <2>1, <2>2 DEF InsertDuplicate
<1>7. CASE RecoverIntent(r)
  BY <1>7, RecoverAnswer
<1>8. CASE NotFound(r)
  BY <1>8, AnswerGiven DEF NotFound
<1>9. CASE Conflict(r)
  <2>1. /\ Answer(r, 409, None) /\ call' = call /\ pc[r] = "lock"
        /\ intents[call[r].intent] # None /\ intents[call[r].intent].status # "CREATED"
    BY <1>9 DEF Conflict, Owned, Confirmable
  <2>2. call[r].op = "confirm" /\ call[r].intent \in Intents
    BY <1>0, <2>1, CallTypes DEF CallInv, InConfirm, ConfirmCalls
  <2>3. IsSettled(call[r].intent)
    BY <2>1, <2>2 DEF IsSettled, CoreInv, TypeOK, RowInv, Row, Statuses
  <2> QED
    BY <2>1, <2>2, <2>3, AnswerGiven
<1>10. CASE ChargeBank(r) \/ InsertOutboxEvent(r)
  <2>1. pc[r] \in InConfirm /\ pc[r] # "done" /\ resp' = resp /\ call' = call
        /\ call[r].op = "confirm"
    BY <1>0, <1>10 DEF ChargeBank, InsertOutboxEvent, CallInv, InConfirm
  <2>2. Goto(r, "commit") \/ Goto(r, "ledger")
    BY <1>10 DEF ChargeBank, InsertOutboxEvent
  <2>3. pc'[r] # "store"
    BY <1>0, <2>2 DEF Goto, TypeOK
  <2> QED
    BY <1>1, <2>1, <2>3 DEF Ready
<1>11. CASE Commit(r)
  BY <1>11, CommitAnswer
<1>12. CASE StoreResponse(r)
  <2>1. pc[r] = "store" /\ view[r] # None /\ AnswerOk(IntentToDict(view[r]), call[r])
    BY <1>12 DEF StoreResponse, AnswerInv, ViewOk, Ready
  <2>2. IntentToDict(view[r]) \in Body
    BY <1>0, <2>1, BodyType DEF TypeOK
  <2>3. SuccessCode(call[r]) # 409
    BY DEF SuccessCode
  <2> QED
    BY <1>12, <2>1, <2>2, <2>3, AnswerGiven DEF StoreResponse
<1>13. CASE Fail(r)
  BY <1>13, NoneAssumption, AnswerGiven DEF Fail
<1> QED
  BY <1>2, <1>3, <1>4, <1>5, <1>6, <1>7, <1>8, <1>9, <1>10, <1>11, <1>12, <1>13
     DEF Step, Create, Confirm

\* A slot stays right if what is in it after the step was true before it.
LEMMA SlotKept ==
    ASSUME CoreInv, [Next]_vars, NEW m \in Merchants, NEW k \in Keys,
           NEW made, NEW done,
           made = cache'[<<"create_intent", m, k>>],
           done = cache'[<<"confirm_intent", m, k>>],
           made # None => made \in Body /\ Truthful(made, m) /\ AnswersCreate(made, k),
           done # None => done \in Body /\ Truthful(done, m) /\ AnswersConfirm(done, m, k)
    PROVE  SlotOk(m, k)'
<1>1. made # None => Truthful(made, m)' /\ AnswersCreate(made, k)'
  BY TruthfulKept, AnswersCreateKept
<1>2. done # None => Truthful(done, m)' /\ AnswersConfirm(done, m, k)'
  BY TruthfulKept, AnswersConfirmKept
<1> QED
  BY <1>1, <1>2 DEF SlotOk, Truthful, AnswersCreate, AnswersConfirm

\* What a slot holds is a body.
LEMMA SlotTypes ==
    ASSUME CoreInv, AnswerInv, NEW m \in Merchants, NEW k \in Keys
    PROVE  LET made == cache[<<"create_intent", m, k>>]
               done == cache[<<"confirm_intent", m, k>>]
           IN  /\ made # None => made \in Body /\ Truthful(made, m) /\ AnswersCreate(made, k)
               /\ done # None => done \in Body /\ Truthful(done, m) /\ AnswersConfirm(done, m, k)
<1>1. <<"create_intent", m, k>> \in Slots /\ <<"confirm_intent", m, k>> \in Slots
  BY DEF Slots, Scopes
<1> QED
  BY <1>1 DEF CoreInv, TypeOK, AnswerInv, SlotOk

\* SETEX puts the answer where only calls of its kind, merchant and key look.
LEMMA StoredSlot ==
    ASSUME CoreInv, AnswerInv, [Next]_vars, NEW r \in Requests, StoreResponse(r),
           Truthy(call[r].key), NEW m \in Merchants, NEW k \in Keys
    PROVE  SlotOk(m, k)'
<1> DEFINE body == IntentToDict(view[r])
           c == call[r]
<1>1. /\ pc[r] = "store" /\ cache' = [cache EXCEPT ![Slot(c)] = body]
      /\ view[r] # None /\ AnswerOk(body, c)
  BY DEF StoreResponse, AnswerInv, ViewOk, Ready
<1>2. body \in Body
  BY <1>1, BodyType DEF CoreInv, TypeOK
<1>3. /\ Truthful(body, c.merchant)
      /\ c.op = "create" => AnswersCreate(body, c.key)
      /\ c.op = "confirm" => AnswersConfirm(body, c.merchant, c.key)
  BY <1>1 DEF AnswerOk
<1> HIDE DEF body
<1>4. \A s \in Slots : cache'[s] = IF s = Slot(c) THEN body ELSE cache[s]
  BY <1>1 DEF CoreInv, TypeOK
<1>5. <<"create_intent", m, k>> \in Slots /\ <<"confirm_intent", m, k>> \in Slots
  BY DEF Slots, Scopes
<1>6. \/ cache'[<<"create_intent", m, k>>] = cache[<<"create_intent", m, k>>]
      \/ /\ cache'[<<"create_intent", m, k>>] = body
         /\ c.op = "create" /\ c.merchant = m /\ c.key = k
  BY <1>4, <1>5 DEF Slot
<1>7. c.op \in {"create", "confirm"}
  BY <1>1, CallTypes DEF CoreInv
<1>8. \/ cache'[<<"confirm_intent", m, k>>] = cache[<<"confirm_intent", m, k>>]
      \/ /\ cache'[<<"confirm_intent", m, k>>] = body
         /\ c.op = "confirm" /\ c.merchant = m /\ c.key = k
  BY <1>4, <1>5, <1>7 DEF Slot
<1> QED
  BY <1>2, <1>3, <1>6, <1>8, SlotTypes, SlotKept

LEMMA AnswerInvStep == CoreInv /\ AnswerInv /\ [Next]_vars => AnswerInv'
<1> SUFFICES ASSUME CoreInv, AnswerInv, [Next]_vars PROVE AnswerInv'
  OBVIOUS
<1>1. ASSUME NEW s \in Requests PROVE ViewOk(s)' /\ RespOk(s)'
  <2>1. ViewOk(s) /\ RespOk(s)
    BY DEF AnswerInv
  <2>2. ASSUME NEW r \in Requests, Issue(r) \/ Step(r) \/ Fail(r)
        PROVE  ViewOk(s)' /\ RespOk(s)'
    <3>1. CASE s = r
      BY <2>2, <3>1, OwnAnswer
    <3>2. CASE s # r
      BY <2>1, <2>2, <3>2, OwnStep, OtherAnswer DEF CoreInv
    <3> QED
      BY <3>1, <3>2
  <2>3. CASE (\E t \in Slots : Expire(t)) \/ UNCHANGED vars
    BY <2>1, <2>3, OtherAnswer DEF Expire, vars
  <2> QED
    BY <2>2, <2>3 DEF Next
<1>2. ASSUME NEW m \in Merchants, NEW k \in Keys PROVE SlotOk(m, k)'
  <2>1. CASE \A s \in Slots : cache'[s] = cache[s] \/ cache'[s] = None
    <3>1. <<"create_intent", m, k>> \in Slots /\ <<"confirm_intent", m, k>> \in Slots
      BY DEF Slots, Scopes
    <3> QED
      BY <2>1, <3>1, SlotTypes, SlotKept
  <2>2. ASSUME NEW r \in Requests, StoreResponse(r), Truthy(call[r].key) PROVE SlotOk(m, k)'
    BY <2>2, StoredSlot
  <2>3. \/ \E s \in Slots : Expire(s)
        \/ \E r \in Requests : StoreResponse(r) /\ Truthy(call[r].key)
        \/ cache' = cache
    BY DEF Next, Step, Create, Confirm, vars, Issue, ServeFromCache, MissCache, InsertIntent,
           InsertOutOfRange, InsertDuplicate, RecoverIntent, NotFound, Conflict, LockIntent,
           ChargeBank, WriteDoubleEntry, InsertOutboxEvent, Commit, StoreResponse, Fail
  <2>4. ASSUME NEW s \in Slots, Expire(s)
        PROVE  \A t \in Slots : cache'[t] = cache[t] \/ cache'[t] = None
    BY <2>4 DEF Expire, CoreInv, TypeOK
  <2> QED
    BY <2>1, <2>2, <2>3, <2>4
<1> QED
  BY <1>1, <1>2 DEF AnswerInv

\* The whole invariant, the part about the books, keys and answers included, is
\* inductive.
THEOREM WholeInvariant == Spec => []IInv
<1>1. Init => KeyInv /\ AnswerInv
  <2>1. ASSUME Init PROVE KeyInv
    BY <2>1 DEF Init, KeyInv, UniqueKeys, AloneWithKey, Inserting
  <2>2. ASSUME Init, NEW r \in Requests PROVE ViewOk(r) /\ RespOk(r)
    BY <2>2 DEF Init, ViewOk, RespOk, Ready
  <2>3. ASSUME Init, NEW m \in Merchants, NEW k \in Keys PROVE SlotOk(m, k)
    BY <2>3 DEF Init, SlotOk, Slots, Scopes
  <2> QED
    BY <2>1, <2>2, <2>3 DEF AnswerInv
<1>2. CoreInv /\ KeyInv /\ AnswerInv /\ [Next]_vars => (KeyInv /\ AnswerInv)'
  BY KeyStep, AnswerInvStep
<1>3. Spec => [](KeyInv /\ AnswerInv)
  BY CoreInvariant, <1>1, <1>2, PTL DEF Spec
<1>4. CoreInv /\ SettlementAtomic /\ (KeyInv /\ AnswerInv) => IInv
  BY DEF IInv
<1> QED
  BY CoreInvariant, BooksMatchStatus, <1>3, <1>4, PTL

-----------------------------------------------------------------------------
(* What clients may rely on. *)

\* Successful creates of a merchant with one key are answered with one intent,
\* by the cache, the index or the recovery SELECT, also after the cache lost it.
THEOREM OneIntentPerKey == Spec => []SameKeySameIntent
<1>1. ASSUME IInv PROVE SameKeySameIntent
  <2> SUFFICES ASSUME NEW r \in Requests, NEW s \in Requests,
                      Answered(r, "create"), Answered(s, "create"),
                      call[r].merchant = call[s].merchant,
                      call[r].key = call[s].key, Truthy(call[r].key)
               PROVE  resp[r].body.id = resp[s].body.id
    BY DEF SameKeySameIntent
  <2>1. ASSUME NEW t \in Requests, Answered(t, "create"), Truthy(call[t].key)
        PROVE  /\ resp[t].body.id \in Intents
               /\ intents[resp[t].body.id] # None
               /\ intents[resp[t].body.id].merchant = call[t].merchant
               /\ intents[resp[t].body.id].key = call[t].key
    <3>1. resp[t].body \in Body /\ AnswerOk(resp[t].body, call[t])
      BY <1>1, <2>1 DEF IInv, CoreInv, TypeOK, AnswerInv, RespOk, Answered
    <3> QED
      BY <2>1, <3>1 DEF AnswerOk, Truthful, AnswersCreate, Answered, Body
  <2>2. call[r].key # None
    BY KeysAssumption DEF Truthy
  <2> QED
    BY <1>1, <2>1, <2>2 DEF IInv, KeyInv, UniqueKeys
<1> QED
  BY <1>1, WholeInvariant, PTL

\* No answer, cached or fresh, says what the table does not, no confirm is
\* answered with an open payment, and a 409 means that the payment is over.
THEOREM AnswersAreTrue == Spec => []TruthfulAnswers
<1>1. ASSUME IInv PROVE TruthfulAnswers
  <2> SUFFICES ASSUME NEW r \in Requests, resp[r] # None
               PROVE  /\ resp[r].body # None => Truthful(resp[r].body, call[r].merchant)
                      /\ Answered(r, "confirm") => resp[r].body.status \in Settled
                      /\ resp[r].code = 409 => IsSettled(call[r].intent)
    BY DEF TruthfulAnswers
  <2>1. RespOk(r)
    BY <1>1 DEF IInv, AnswerInv
  <2> QED
    BY <2>1 DEF RespOk, AnswerOk, AnswersConfirm, Answered
<1> QED
  BY <1>1, WholeInvariant, PTL

\* A confirm is answered with the intent of its path, if its key was never used
\* for another.
THEOREM ConfirmsAnswerTheirIntent == Spec => []ConfirmAnswersItsIntent
<1>1. ASSUME IInv PROVE ConfirmAnswersItsIntent
  <2> SUFFICES ASSUME NEW r \in Requests, Answered(r, "confirm"), OwnKey(r)
               PROVE  resp[r].body.id = call[r].intent
    BY DEF ConfirmAnswersItsIntent
  <2>1. AnswersConfirm(resp[r].body, call[r].merchant, call[r].key)
    BY <1>1 DEF IInv, AnswerInv, RespOk, AnswerOk, Answered
  <2> QED
    BY <2>1 DEF AnswersConfirm, OwnKey
<1> QED
  BY <1>1, WholeInvariant, PTL
=============================================================================
