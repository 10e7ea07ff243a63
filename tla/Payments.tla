------------------------------ MODULE Payments ------------------------------
(***************************************************************************)
(* The payment API of LedgerPay: the handlers create_intent and            *)
(* confirm_intent (backend/app/api/v1/payments.py) with everything they    *)
(* call, run by concurrent request threads over one PostgreSQL database,   *)
(* one Redis cache and one bank.                                           *)
(*                                                                         *)
(* A request thread runs its handler step by step; between two steps any   *)
(* other thread may run.  What a thread writes to PostgreSQL stays in its  *)
(* transaction tx[r] until it commits; the row locks it holds are those of *)
(* the row it has written (a transaction never writes two intents).  Any   *)
(* step may raise, or the process may die: the transaction is rolled back  *)
(* and the client gets a 500 or nothing at all.  A retry by the client is  *)
(* a new request with the same Idempotency-Key.                            *)
(*                                                                         *)
(* Rows are named by gen_random_uuid(): a fresh name is the name of the    *)
(* request that inserts the row, which no other request can pick.          *)
(***************************************************************************)
EXTENDS Integers, FiniteSets

CONSTANTS
    Merchants,   \* authenticated merchants
    Requests,    \* request threads
    Keys,        \* non-empty values of the Idempotency-Key header
    LongKeys,    \* those longer than the column idempotency_key
    EmptyKey,    \* the header is there and holds the empty string
    Amounts,     \* amounts clients send
    Currencies,  \* currencies clients send
    MaxInteger,  \* the largest value of an INTEGER column
    Calls,       \* the calls clients make
    None         \* NULL, no header, nothing yet

KeyValues == Keys \cup {EmptyKey, None}
Intents == Requests

Settled == {"SUCCEEDED", "FAILED", "TIMED_OUT"}
Statuses == {"CREATED", "PROCESSING"} \cup Settled

CreateCalls == [op : {"create"}, merchant : Merchants, key : KeyValues,
                amount : Amounts, currency : Currencies]
ConfirmCalls == [op : {"confirm"}, merchant : Merchants, key : KeyValues,
                 intent : Intents]

\* A row of payment_intents.
Row == [id : Intents, merchant : Merchants, amount : Amounts,
        currency : Currencies, status : Statuses, key : KeyValues]

\* A PaymentIntentResponse.
Body == [id : Intents, merchant : Merchants, amount : Amounts,
         currency : Currencies, status : Statuses]

\* A row of ledger_entries; by is the request that wrote it (its fresh id).
Entry == [by : Requests, intent : Intents, merchant : Merchants,
          type : {"DEBIT", "CREDIT"}, account : {"CUSTOMER", "MERCHANT"},
          amount : Amounts, currency : Currencies]

\* A row of webhook_events as inserted: PENDING, never attempted.
Event == [by : Requests, intent : Intents, merchant : Merchants,
          amount : Amounts, currency : Currencies, status : Statuses]

Scopes == {"create_intent", "confirm_intent"}
Slots == Scopes \X Merchants \X Keys

ASSUME CallsAssumption == Calls \subseteq CreateCalls \cup ConfirmCalls
ASSUME AmountsAssumption == Amounts \subseteq Nat \ {0} /\ MaxInteger \in Nat
ASSUME KeysAssumption ==
    /\ LongKeys \subseteq Keys
    /\ EmptyKey \notin Keys /\ None \notin Keys /\ None # EmptyKey
ASSUME NoneAssumption ==
    /\ None \notin Requests
    /\ None \notin Row
    /\ None \notin Body
    /\ None \notin CreateCalls \cup ConfirmCalls
    /\ None \notin {200, 201, 404, 409, 500}

VARIABLES
    pc,       \* what each request does next
    call,     \* the call it serves
    view,     \* the intent its handler holds
    tx,       \* its open transaction: what it has written, not yet committed
    resp,     \* what it answered
    intents,  \* payment_intents, as committed
    ledger,   \* ledger_entries, as committed
    outbox,   \* webhook_events, as committed
    cache,    \* the idempotency cache in Redis
    charged   \* the bank's own record: the requests that charged each intent

vars == <<pc, call, view, tx, resp, intents, ledger, outbox, cache, charged>>
database == <<intents, ledger, outbox>>

-----------------------------------------------------------------------------
(* Helpers of the handlers. *)

\* Python's truth value of the header: neither missing nor the empty string.
Truthy(k) == k \in Keys

\* Mutant: the scope is left out of the cache key.
SlotWithoutScope(c) == <<"create_intent", c.merchant, c.key>>

\* idem:{scope}:{merchant_id}:{idempotency_key}
Slot(c) == <<IF c.op = "create" THEN "create_intent" ELSE "confirm_intent",
             c.merchant, c.key>>

\* UNIQUE(merchant_id, idempotency_key): NULLs never collide.
SameKey(row, c) ==
    /\ row # None
    /\ c.key # None
    /\ row.merchant = c.merchant
    /\ row.key = c.key

\* The row an INSERT by r writes.
NewRow(r, c) ==
    [id |-> r, merchant |-> c.merchant, amount |-> c.amount,
     currency |-> c.currency, status |-> "CREATED", key |-> c.key]

\* Mutant: WHERE id = ... alone.
OwnedByAnyone(row, c) == row # None

\* WHERE id = ... AND merchant_id = ...
Owned(row, c) == row # None /\ row.merchant = c.merchant

\* Mutant: the check of the status is forgotten.
AlwaysConfirmable(row) == TRUE

Confirmable(row) == row.status = "CREATED"

\* Mutant: the outcome's own word is stored.
OutcomeAsStatus(amount) ==
    CASE amount % 10 = 1 -> "DECLINE"
      [] amount % 10 = 2 -> "TIMEOUT"
      [] OTHER           -> "SUCCESS"

\* The bank's outcome and the status it is mapped to.
NewStatus(amount) ==
    CASE amount % 10 = 1 -> "FAILED"
      [] amount % 10 = 2 -> "TIMED_OUT"
      [] OTHER           -> "SUCCEEDED"

\* Mutant: the hooks run for a declined payment too.
HooksRunUnlessTimedOut(status) == status # "TIMED_OUT"

\* if new_status == "SUCCEEDED" and on_success_hooks
HooksRun(status) == status = "SUCCEEDED"

\* Mutant: the credit is never written.
SingleEntry(r, row) ==
    {[by |-> r, intent |-> row.id, merchant |-> row.merchant,
      type |-> "DEBIT", account |-> "CUSTOMER",
      amount |-> row.amount, currency |-> row.currency]}

DoubleEntry(r, row) ==
    {[by |-> r, intent |-> row.id, merchant |-> row.merchant,
      type |-> "DEBIT", account |-> "CUSTOMER",
      amount |-> row.amount, currency |-> row.currency],
     [by |-> r, intent |-> row.id, merchant |-> row.merchant,
      type |-> "CREDIT", account |-> "MERCHANT",
      amount |-> row.amount, currency |-> row.currency]}

OutboxEvent(r, row) ==
    [by |-> r, intent |-> row.id, merchant |-> row.merchant,
     amount |-> row.amount, currency |-> row.currency, status |-> row.status]

IntentToDict(row) ==
    [id |-> row.id, merchant |-> row.merchant, amount |-> row.amount,
     currency |-> row.currency, status |-> row.status]

NoTx == [row |-> None, ledger |-> {}, outbox |-> {}]

\* Some open transaction has written a row that collides with the INSERT of c:
\* PostgreSQL makes the INSERT wait for its end.
InsertWaits(c) == \E s \in Requests : SameKey(tx[s].row, c)

\* Mutant: SELECT without FOR UPDATE.
NeverLocked(i) == FALSE

\* Some open transaction holds the row lock of intent i.
Locked(i) == \E s \in Requests : tx[s].row # None /\ tx[s].row.id = i

-----------------------------------------------------------------------------
TypeOK ==
    /\ pc \in [Requests -> {"idle", "cache", "insert", "recover", "lock", "charge",
                            "ledger", "outbox", "commit", "store", "done"}]
    /\ call \in [Requests -> CreateCalls \cup ConfirmCalls \cup {None}]
    /\ view \in [Requests -> Row \cup {None}]
    /\ tx \in [Requests -> [row : Row \cup {None}, ledger : SUBSET Entry,
                            outbox : SUBSET Event]]
    /\ resp \in [Requests -> [code : {200, 201, 404, 409, 500, None},
                              body : Body \cup {None}] \cup {None}]
    /\ intents \in [Intents -> Row \cup {None}]
    /\ ledger \subseteq Entry
    /\ outbox \subseteq Event
    /\ cache \in [Slots -> Body \cup {None}]
    /\ charged \in [Intents -> SUBSET Requests]

Init ==
    /\ pc = [r \in Requests |-> "idle"]
    /\ call = [r \in Requests |-> None]
    /\ view = [r \in Requests |-> None]
    /\ tx = [r \in Requests |-> NoTx]
    /\ resp = [r \in Requests |-> None]
    /\ intents = [i \in Intents |-> None]
    /\ ledger = {}
    /\ outbox = {}
    /\ cache = [s \in Slots |-> None]
    /\ charged = [i \in Intents |-> {}]

-----------------------------------------------------------------------------
(* Control. *)

Goto(r, p) == pc' = [pc EXCEPT ![r] = p]

\* The handler returns or raises; its locals are gone.
Answer(r, code, body) ==
    /\ Goto(r, "done")
    /\ resp' = [resp EXCEPT ![r] = [code |-> code, body |-> body]]
    /\ view' = [view EXCEPT ![r] = None]

Rollback(r) == tx' = [tx EXCEPT ![r] = NoTx]

-----------------------------------------------------------------------------
(* Both handlers: the request and the idempotency cache in front of it. *)

\* An authenticated client calls the API.
Issue(r) ==
    /\ pc[r] = "idle"
    /\ \E c \in Calls : call' = [call EXCEPT ![r] = c]
    /\ Goto(r, "cache")
    /\ UNCHANGED <<view, tx, resp, database, cache, charged>>

CacheHit(c) == Truthy(c.key) /\ cache[Slot(c)] # None

SuccessCode(c) == IF c.op = "create" THEN 201 ELSE 200

ServeFromCache(r) ==
    /\ pc[r] = "cache"
    /\ CacheHit(call[r])
    /\ Answer(r, SuccessCode(call[r]), cache[Slot(call[r])])
    /\ UNCHANGED <<call, tx, database, cache, charged>>

MissCache(r) ==
    /\ pc[r] = "cache"
    /\ ~CacheHit(call[r])
    /\ Goto(r, IF call[r].op = "create" THEN "insert" ELSE "lock")
    /\ UNCHANGED <<call, view, tx, resp, database, cache, charged>>

-----------------------------------------------------------------------------
(* create_payment_intent. *)

\* Mutant: no UNIQUE constraint.
NeverCollides(c) == FALSE

Collides(c) == \E i \in Intents : SameKey(intents[i], c)

\* The values fit their columns, an INTEGER and a VARCHAR(255).
Fits(c) == c.amount <= MaxInteger /\ c.key \notin LongKeys

InsertIntent(r) ==
    /\ pc[r] = "insert"
    /\ Fits(call[r])
    /\ ~InsertWaits(call[r])
    /\ ~Collides(call[r])
    /\ tx' = [tx EXCEPT ![r].row = NewRow(r, call[r])]
    /\ view' = [view EXCEPT ![r] = NewRow(r, call[r])]
    /\ Goto(r, "commit")
    /\ UNCHANGED <<call, resp, database, cache, charged>>

\* "integer out of range", "value too long": the INSERT raises before it looks at
\* the index.
InsertOutOfRange(r) ==
    /\ pc[r] = "insert"
    /\ ~Fits(call[r])
    /\ Answer(r, 500, None)
    /\ UNCHANGED <<call, tx, database, cache, charged>>

\* uq_payment_intent_idempotency.  The empty key is stored, so it collides,
\* but it is false in Python, so the handler does not recover from it.
InsertDuplicate(r) ==
    /\ pc[r] = "insert"
    /\ Fits(call[r])
    /\ ~InsertWaits(call[r])
    /\ Collides(call[r])
    /\ \/ /\ Truthy(call[r].key)
          /\ Goto(r, "recover")
          /\ UNCHANGED <<view, resp>>
       \/ /\ ~Truthy(call[r].key)
          /\ Answer(r, 500, None)
    /\ UNCHANGED <<call, tx, database, cache, charged>>

\* SELECT by merchant and key; with no row the exception is raised again.
RecoverIntent(r) ==
    LET found == {i \in Intents : SameKey(intents[i], call[r])}
    IN  /\ pc[r] = "recover"
        /\ IF found = {}
           THEN Answer(r, 500, None)
           ELSE /\ view' = [view EXCEPT ![r] = intents[CHOOSE i \in found : TRUE]]
                /\ Goto(r, "commit")
                /\ UNCHANGED resp
        /\ UNCHANGED <<call, tx, database, cache, charged>>

-----------------------------------------------------------------------------
(* confirm_payment_intent. *)

\* SELECT ... FOR UPDATE finds no row, and so waits for nobody.
NotFound(r) ==
    /\ pc[r] = "lock"
    /\ ~Owned(intents[call[r].intent], call[r])
    /\ Answer(r, 404, None)
    /\ UNCHANGED <<call, tx, database, cache, charged>>

\* The lock is granted on the row as last committed.
Conflict(r) ==
    /\ pc[r] = "lock"
    /\ Owned(intents[call[r].intent], call[r])
    /\ ~Locked(call[r].intent)
    /\ ~Confirmable(intents[call[r].intent])
    /\ Answer(r, 409, None)
    /\ UNCHANGED <<call, tx, database, cache, charged>>

\* Lock, check, and UPDATE ... SET status = 'PROCESSING'.
LockIntent(r) ==
    LET row == intents[call[r].intent]
    IN  /\ pc[r] = "lock"
        /\ Owned(row, call[r])
        /\ ~Locked(call[r].intent)
        /\ Confirmable(row)
        /\ tx' = [tx EXCEPT ![r].row = [row EXCEPT !.status = "PROCESSING"]]
        /\ Goto(r, "charge")
        /\ UNCHANGED <<call, view, resp, database, cache, charged>>

\* mock_bank.charge, the outcome's status, and the final UPDATE.
ChargeBank(r) ==
    LET row == [tx[r].row EXCEPT !.status = NewStatus(tx[r].row.amount)]
    IN  /\ pc[r] = "charge"
        /\ charged' = [charged EXCEPT ![row.id] = @ \cup {r}]
        /\ tx' = [tx EXCEPT ![r].row = row]
        /\ view' = [view EXCEPT ![r] = row]
        /\ Goto(r, IF HooksRun(row.status) THEN "ledger" ELSE "commit")
        /\ UNCHANGED <<call, resp, database, cache>>

\* The first hook.
WriteDoubleEntry(r) ==
    /\ pc[r] = "ledger"
    /\ tx' = [tx EXCEPT ![r].ledger = @ \cup DoubleEntry(r, view[r])]
    /\ Goto(r, "outbox")
    /\ UNCHANGED <<call, view, resp, database, cache, charged>>

\* The second hook.
InsertOutboxEvent(r) ==
    /\ pc[r] = "outbox"
    /\ tx' = [tx EXCEPT ![r].outbox = @ \cup {OutboxEvent(r, view[r])}]
    /\ Goto(r, "commit")
    /\ UNCHANGED <<call, view, resp, database, cache, charged>>

-----------------------------------------------------------------------------
(* Both handlers: the end of get_conn(), the cache, the answer. *)

Committed(r) ==
    IF tx[r].row = None THEN intents
    ELSE [intents EXCEPT ![tx[r].row.id] = tx[r].row]

Commit(r) ==
    /\ pc[r] = "commit"
    /\ intents' = Committed(r)
    /\ ledger' = ledger \cup tx[r].ledger
    /\ outbox' = outbox \cup tx[r].outbox
    /\ Rollback(r)
    /\ Goto(r, "store")
    /\ UNCHANGED <<call, view, resp, cache, charged>>

\* SETEX overwrites whatever the slot holds.
StoreResponse(r) ==
    LET body == IntentToDict(view[r])
    IN  /\ pc[r] = "store"
        /\ cache' = IF Truthy(call[r].key)
                    THEN [cache EXCEPT ![Slot(call[r])] = body]
                    ELSE cache
        /\ Answer(r, SuccessCode(call[r]), body)
        /\ UNCHANGED <<call, tx, database, charged>>

-----------------------------------------------------------------------------
(* What goes wrong. *)

\* Mutant: the connection goes back to the pool with its transaction open.
FailKeepsTransaction(r) ==
    /\ pc[r] \notin {"idle", "done"}
    /\ Answer(r, None, None)
    /\ UNCHANGED <<call, tx, database, cache, charged>>

\* A step raises (no free connection, Redis or PostgreSQL unreachable) or the
\* process dies: the transaction is rolled back.  After the commit it is the
\* SETEX that raises: the payment happened and the client is not told.  A code of
\* None is a 500 or a broken connection; 500 is one that every retry gets again.
\* A thread and its PostgreSQL session fail together here: what a thread may do
\* between the end of its session and its next statement is in ConnectionPool.
Fail(r) ==
    /\ pc[r] \notin {"idle", "done"}
    /\ Answer(r, None, None)
    /\ Rollback(r)
    /\ UNCHANGED <<call, database, cache, charged>>

\* The 24 hours are over, or Redis lost its memory.
Expire(s) ==
    /\ cache[s] # None
    /\ cache' = [cache EXCEPT ![s] = None]
    /\ UNCHANGED <<pc, call, view, tx, resp, database, charged>>

-----------------------------------------------------------------------------
Create(r) == InsertIntent(r) \/ InsertOutOfRange(r) \/ InsertDuplicate(r) \/ RecoverIntent(r)

Confirm(r) == NotFound(r) \/ Conflict(r) \/ LockIntent(r) \/ ChargeBank(r)
                \/ WriteDoubleEntry(r) \/ InsertOutboxEvent(r)

\* The steps a request thread takes by itself.
Step(r) == ServeFromCache(r) \/ MissCache(r) \/ Create(r) \/ Confirm(r)
             \/ Commit(r) \/ StoreResponse(r)

Next ==
    \/ \E r \in Requests : Issue(r) \/ Step(r) \/ Fail(r)
    \/ \E s \in Slots : Expire(s)

Spec == Init /\ [][Next]_vars

\* A thread that can run does run; nobody has to call, to fail or to expire.
FairSpec == Spec /\ \A r \in Requests : WF_vars(Step(r))
-----------------------------------------------------------------------------
(* Safety. *)

\* Intent i is in the table and its payment is over.
IsSettled(i) == intents[i] # None /\ intents[i].status \in Settled

EntriesOf(i) == {e \in ledger : e.intent = i}
EventsOf(i) == {e \in outbox : e.intent = i}

\* An intent is SUCCEEDED exactly when its books are written: one debit of the
\* customer, one credit of the merchant and one webhook event, all three for
\* the row's own amount and all by one request that charged the bank for it.
\* With any other status there is no entry and no event.  (write_double_entry
\* and insert_outbox_event run in the transaction of the confirm.)
SettlementAtomic ==
    \A i \in Intents :
        IF intents[i] # None /\ intents[i].status = "SUCCEEDED"
        THEN \E r \in charged[i] :
                /\ EntriesOf(i) = DoubleEntry(r, intents[i])
                /\ EventsOf(i) = {OutboxEvent(r, intents[i])}
        ELSE EntriesOf(i) = {} /\ EventsOf(i) = {}

\* Charges of one intent never overlap: of the requests that charged it at most
\* one still has its transaction open, none once the intent is settled, and no
\* intent is settled without a charge.  (SELECT ... FOR UPDATE and the check
\* of the status under the lock.)
NoOverlappingCharges ==
    \A i \in Intents :
        LET open == {r \in charged[i] : pc[r] \in {"ledger", "outbox", "commit"}}
        IN  /\ \A r, s \in open : r = s
            /\ IsSettled(i) => open = {} /\ charged[i] # {}

\* The calls that were answered with a payment intent.
Answered(r, op) == /\ resp[r] # None
                   /\ resp[r].body # None
                   /\ call[r].op = op

\* Two successful creates of a merchant with the same Idempotency-Key are
\* answered with the same intent, whether the cache, the index or the recovery
\* SELECT told the second one, and also after the cache lost the first answer.
SameKeySameIntent ==
    \A r, s \in Requests :
        ( /\ Answered(r, "create") /\ Answered(s, "create")
          /\ call[r].merchant = call[s].merchant
          /\ call[r].key = call[s].key /\ Truthy(call[r].key) )
        => resp[r].body.id = resp[s].body.id

\* What body says of a payment is what get_intent would answer merchant m: the
\* row exists, is the merchant's, has the amount and the currency, and once the
\* body names a final status the row has that status.
Truthful(body, m) ==
    LET row == intents[body.id]
    IN  /\ row # None
        /\ row.merchant = m
        /\ body.merchant = m
        /\ body.amount = row.amount
        /\ body.currency = row.currency
        /\ body.status # "CREATED" => body.status = row.status

\* No answer, cached or fresh, ever claims anything the table does not say, a
\* confirm is never answered with an open payment, and a 409 is only ever given
\* for a payment that is over.
TruthfulAnswers ==
    \A r \in Requests : resp[r] # None =>
        /\ resp[r].body # None => Truthful(resp[r].body, call[r].merchant)
        /\ Answered(r, "confirm") => resp[r].body.status \in Settled
        /\ resp[r].code = 409 => IsSettled(call[r].intent)

\* The client never used the key of confirm r for another intent.
OwnKey(r) ==
    \A s \in Requests :
        ( /\ call[s] # None /\ call[s].op = "confirm"
          /\ call[s].merchant = call[r].merchant
          /\ call[s].key = call[r].key ) => call[s].intent = call[r].intent

\* A confirm is answered with the intent of its path, provided the client keeps
\* one key per intent: the cache key has no intent in it.
ConfirmAnswersItsIntent ==
    \A r \in Requests :
        Answered(r, "confirm") /\ Truthy(call[r].key) /\ OwnKey(r)
            => resp[r].body.id = call[r].intent

-----------------------------------------------------------------------------
(* Action properties. *)

\* A row once committed never changes but for one step from CREATED to a final
\* status; in particular PROCESSING is never committed.
SettledForever ==
    [][\A i \in Intents : intents[i] # None =>
          \/ intents'[i] = intents[i]
          \/ /\ intents[i].status = "CREATED"
             /\ \E s \in Settled : intents'[i] = [intents[i] EXCEPT !.status = s]]_vars

\* Once a payment is settled the bank is not called for it again.
NoChargeAfterSettlement ==
    [][\A i \in Intents : IsSettled(i) => charged'[i] = charged[i]]_vars

-----------------------------------------------------------------------------
(* Liveness. *)

\* Every request is answered: no wait for a row lock or for a colliding INSERT
\* lasts for ever.
EveryRequestEnds ==
    \A r \in Requests : pc[r] # "idle" ~> pc[r] = "done"

-----------------------------------------------------------------------------
(* Refinement. *)

StatusOf(i) == IF intents[i] = None THEN "ABSENT" ELSE intents[i].status

Lifecycle == INSTANCE PaymentLifecycle
             WITH status <- [i \in Intents |-> StatusOf(i)],
                  booked <- {e.intent : e \in ledger},
                  noticed <- {e.intent : e \in outbox}

\* The committed tables go through the life cycle of the README: whatever the
\* threads, the cache and the failures do, an intent is created once, settled at
\* most once, and booked and noticed in the step that makes it SUCCEEDED.
ImplementsLifecycle == Lifecycle!Spec

-----------------------------------------------------------------------------
(* What the documentation says and the code does not do. *)

\* "The bank is never called twice" for one payment intent.
BankChargedAtMostOnce == \A i \in Intents : Cardinality(charged[i]) <= 1

\* "The API recovers gracefully by fetching the existing row": no create whose
\* values fit their columns is refused.
DuplicateInsertRecovers ==
    \A r \in Requests :
        resp[r] # None /\ call[r].op = "create" /\ resp[r].code = 500
            => ~Fits(call[r])
=============================================================================
