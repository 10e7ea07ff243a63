---------------------------- MODULE Notifications ----------------------------
(***************************************************************************)
(* LedgerPay as one system: the request threads of Payments and the outbox *)
(* worker of Webhooks over the one table they share, webhook_events.       *)
(*                                                                         *)
(* The API inserts the row in the transaction of a confirm, so the worker  *)
(* sees it from the step in which that transaction commits.  Payments      *)
(* keeps what the row says (outbox), Webhooks what the worker does to it   *)
(* (events).  A row is named by the request that inserts it and the        *)
(* merchant it is for.                                                     *)
(***************************************************************************)
EXTENDS Payments, Sequences

CONSTANTS
    UrlMerchants,  \* merchants that registered a webhook_url
    Workers, MaxAttempts, Backoff, BatchSize, MaxFaults

VARIABLES events, now, wpc, batch, sending, posts, acks, faults

workerVars == <<events, now, wpc, batch, sending, posts, acks, faults>>

OutboxRows == Requests \X Merchants

Worker == INSTANCE Webhooks
          WITH Events <- OutboxRows, WithUrl <- Requests \X UrlMerchants

ASSUME WorkerAssumption ==
    /\ UrlMerchants \subseteq Merchants
    /\ MaxAttempts \in Nat \ {0}
    /\ Backoff \in Seq(Nat \ {0}) /\ Backoff # <<>>
    /\ BatchSize \in Nat \ {0}
    /\ MaxFaults \in Nat
    /\ None \notin Worker!Outcome

SystemInit == Init /\ Worker!Init

-----------------------------------------------------------------------------
\* Mutant: the hook writes the row in a transaction of its own.
PublishesAtOnce ==
    LET new == UNION {tx'[r].outbox \ tx[r].outbox : r \in Requests}
    IN  IF new = {}
        THEN UNCHANGED workerVars
        ELSE \E e \in new : Worker!Insert(<<e.by, e.merchant>>)

\* The rows a step of the API commits appear in the worker's table.
Publishes ==
    IF outbox' = outbox
    THEN UNCHANGED workerVars
    ELSE \E e \in outbox' \ outbox : Worker!Insert(<<e.by, e.merchant>>)

ApiStep(r) == Step(r) /\ Publishes

WorkerStep(w) ==
    /\ Worker!Poll(w) \/ Worker!Post(w) \/ Worker!Mark(w)
    /\ UNCHANGED vars

WorkerFault(w) ==
    /\ Worker!Abandon(w) \/ Worker!Die(w) \/ Worker!Restart(w)
    /\ UNCHANGED vars

TimePasses == Worker!Tick /\ UNCHANGED vars

SystemNext ==
    \/ \E r \in Requests : ApiStep(r)
    \/ \E r \in Requests : (Issue(r) \/ Fail(r)) /\ Publishes
    \/ \E s \in Slots : Expire(s) /\ Publishes
    \/ \E w \in Workers : WorkerStep(w) \/ WorkerFault(w)
    \/ TimePasses

system == <<vars, workerVars>>

SystemSpec == SystemInit /\ [][SystemNext]_system

\* A thread that can run does, time passes, and a live worker goes on.
FairSystem ==
    /\ SystemSpec
    /\ \A r \in Requests : WF_system(ApiStep(r))
    /\ WF_system(TimePasses)
    /\ \A w \in Workers : WF_system(WorkerStep(w))

-----------------------------------------------------------------------------
(* Safety. *)

\* A merchant is told of a payment only if that payment is his, SUCCEEDED in
\* the committed table and charged by the request that wrote the row: no POST
\* ever announces a confirm that is open, was rolled back, or was declined.
OnlySuccessIsAnnounced ==
    \A e \in OutboxRows : posts[e] > 0 =>
        \E i \in Intents :
            /\ intents[i] # None
            /\ intents[i].status = "SUCCEEDED"
            /\ intents[i].merchant = e[2]
            /\ e[1] \in charged[i]

\* The row of intent i in the worker's table.
RowsOf(i) == {e \in OutboxRows : events[e].status # "ABSENT" /\ e[1] \in charged[i]}

\* Every SUCCEEDED payment has exactly one row the worker can deliver, of the
\* merchant it belongs to, however often its confirm was retried; no other
\* payment has one.
OneRowPerSuccess ==
    \A i \in Intents :
        IF intents[i] # None /\ intents[i].status = "SUCCEEDED"
        THEN \E r \in charged[i] : RowsOf(i) = {<<r, intents[i].merchant>>}
        ELSE RowsOf(i) = {}

-----------------------------------------------------------------------------
(* Liveness. *)

\* "There is no gap where a payment succeeds but no webhook is ever sent": the
\* merchant of a SUCCEEDED payment, if he has a URL, accepts one of its POSTs, or
\* MaxAttempts of them were in vain, or every worker is dead.
SuccessIsNotified ==
    \A i \in Intents :
        (/\ intents[i] # None
         /\ intents[i].status = "SUCCEEDED"
         /\ intents[i].merchant \in UrlMerchants)
        ~> \/ \E e \in RowsOf(i) : \/ acks[e] > 0
                                   \/ posts[e] - acks[e] >= MaxAttempts
           \/ \A w \in Workers : wpc[w] = "dead"

-----------------------------------------------------------------------------
(* Refinement. *)

\* Beside the worker the API still behaves as Payments says, and beside the API
\* the worker as Webhooks says: what either module shows holds of the system.
ImplementsWorker == Worker!Spec
=============================================================================
