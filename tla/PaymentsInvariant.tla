------------------------- MODULE PaymentsInvariant -------------------------
(***************************************************************************)
(* The inductive invariant behind the safety properties of Payments.  The  *)
(* properties speak of the committed tables and of the answers; to carry   *)
(* them over a step one needs what an open transaction holds at each point *)
(* of a handler, and what it takes for granted of the rows others may      *)
(* commit meanwhile.                                                       *)
(***************************************************************************)
EXTENDS Payments

InConfirm == {"charge", "ledger", "outbox"}

\* A handler runs only for a call, and each stretch of code for its own kind.
CallInv ==
    \A r \in Requests :
        /\ pc[r] = "idle" <=> call[r] = None
        /\ pc[r] \in {"insert", "recover"} => call[r].op = "create"
        /\ pc[r] \in InConfirm \cup {"lock"} => call[r].op = "confirm"
        /\ resp[r] # None => pc[r] = "done"

\* A committed row has its own name, is never PROCESSING, and was inserted by
\* the request that gave it the name, whose transaction is over.
RowInv ==
    \A i \in Intents : intents[i] # None =>
        /\ intents[i].id = i
        /\ intents[i].status # "PROCESSING"
        /\ call[i] # None /\ call[i].op = "create"
        /\ pc[i] \in {"store", "done"}

Confirming(r) == \/ pc[r] \in InConfirm
                 \/ pc[r] = "commit" /\ call[r].op = "confirm"

Inserting(r) == /\ pc[r] = "commit" /\ call[r].op = "create"
                /\ tx[r].row # None

\* What the transaction of a confirm holds: the row it locked, still CREATED for
\* everybody else, with the status of the step it has come to, and the books of
\* the hooks that have run.
ConfirmTx(r) ==
    LET i == call[r].intent
        row == tx[r].row
    IN  /\ intents[i] # None
        /\ intents[i].status = "CREATED"
        /\ intents[i].merchant = call[r].merchant
        /\ row # None
        /\ row = [intents[i] EXCEPT !.status = row.status]
        /\ pc[r] = "charge" => row.status = "PROCESSING"
        /\ pc[r] # "charge" => /\ row.status = NewStatus(row.amount)
                               /\ view[r] = row
                               /\ r \in charged[i]
        /\ pc[r] \in {"ledger", "outbox"} => row.status = "SUCCEEDED"
        /\ tx[r].ledger = IF \/ pc[r] = "outbox"
                             \/ pc[r] = "commit" /\ row.status = "SUCCEEDED"
                          THEN DoubleEntry(r, row) ELSE {}
        /\ tx[r].outbox = IF pc[r] = "commit" /\ row.status = "SUCCEEDED"
                          THEN {OutboxEvent(r, row)} ELSE {}

\* What the transaction of a create holds: a row under a fresh name, or nothing
\* when the row was recovered.
CreateTx(r) ==
    /\ tx[r].ledger = {} /\ tx[r].outbox = {}
    /\ view[r] # None
    /\ tx[r].row # None => /\ tx[r].row = NewRow(r, call[r])
                           /\ view[r] = tx[r].row
                           /\ intents[r] = None

TxOk(r) ==
    /\ pc[r] \notin InConfirm \cup {"commit"} => tx[r] = NoTx
    /\ Confirming(r) => ConfirmTx(r)
    /\ pc[r] = "commit" /\ call[r].op = "create" => CreateTx(r)
    /\ pc[r] = "store" => view[r] # None

TxInv == \A r \in Requests : TxOk(r)

\* Two open transactions never hold the same row.
LockInv ==
    \A r, s \in Requests :
        tx[r].row # None /\ tx[s].row # None /\ tx[r].row.id = tx[s].row.id => r = s

\* A request charges only the intent of its path; what is settled was charged.
ChargeInv ==
    \A i \in Intents :
        /\ \A r \in charged[i] : /\ call[r] # None /\ call[r].op = "confirm"
                                 /\ call[r].intent = i
                                 /\ pc[r] \in {"ledger", "outbox", "commit", "store", "done"}
        /\ IsSettled(i) => charged[i] # {}

\* The index is unique, also for the rows about to be committed.
UniqueKeys ==
    \A i, j \in Intents :
        ( /\ intents[i] # None /\ intents[j] # None
          /\ intents[i].key # None
          /\ intents[i].key = intents[j].key
          /\ intents[i].merchant = intents[j].merchant ) => i = j

\* Request r, about to commit a new row, is the only one to bring its key.
AloneWithKey(r) == Inserting(r) =>
    /\ ~Collides(call[r])
    /\ \A s \in Requests : Inserting(s) /\ s # r => ~SameKey(tx[s].row, call[r])

KeyInv == UniqueKeys /\ \A r \in Requests : AloneWithKey(r)

\* The row a body is about answers a create with key k.
AnswersCreate(body, k) == Truthy(k) => intents[body.id].key = k

\* A confirm with key k of merchant m was issued for the intent of the body.
AnswersConfirm(body, m, k) ==
    /\ body.status \in Settled
    /\ \E s \in Requests :
          /\ call[s] # None /\ call[s].op = "confirm"
          /\ call[s].merchant = m /\ call[s].key = k
          /\ call[s].intent = body.id

AnswerOk(body, c) ==
    /\ Truthful(body, c.merchant)
    /\ c.op = "create" => AnswersCreate(body, c.key)
    /\ c.op = "confirm" => AnswersConfirm(body, c.merchant, c.key)

\* The handler holds the row it is going to answer with, and that row is committed.
Ready(r) == \/ pc[r] = "store"
            \/ pc[r] = "commit" /\ call[r].op = "create" /\ tx[r].row = None

ViewOk(r) == Ready(r) => view[r] # None /\ AnswerOk(IntentToDict(view[r]), call[r])

RespOk(r) == resp[r] # None =>
    /\ resp[r].body # None => AnswerOk(resp[r].body, call[r])
    /\ resp[r].code = 409 => call[r].op = "confirm" /\ IsSettled(call[r].intent)

SlotOk(m, k) ==
    LET made == cache[<<"create_intent", m, k>>]
        done == cache[<<"confirm_intent", m, k>>]
    IN  /\ made # None => Truthful(made, m) /\ AnswersCreate(made, k)
        /\ done # None => Truthful(done, m) /\ AnswersConfirm(done, m, k)

\* What a handler is about to answer, has cached or has answered is true of the
\* committed table and belongs to the call.
AnswerInv ==
    /\ \A r \in Requests : ViewOk(r) /\ RespOk(r)
    /\ \A m \in Merchants, k \in Keys : SlotOk(m, k)

\* The part that the books rest on, and the part that the answers rest on.
CoreInv == TypeOK /\ CallInv /\ RowInv /\ TxInv /\ LockInv /\ ChargeInv
IInv == CoreInv /\ SettlementAtomic /\ KeyInv /\ AnswerInv
=============================================================================
