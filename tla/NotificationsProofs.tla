------------------------- MODULE NotificationsProofs -------------------------
(***************************************************************************)
(* Proofs about the system as a whole.  The API beside the worker is still *)
(* the API of Payments and the worker beside the API still the worker of   *)
(* Webhooks, so what was proved of each holds of both together; what the   *)
(* system adds is the link between their tables, and with it that only a   *)
(* committed success is ever announced to a merchant.                      *)
(***************************************************************************)
EXTENDS Notifications, PaymentsProofs

Facts == INSTANCE WebhooksProofs
         WITH Events <- OutboxRows, WithUrl <- Requests \X UrlMerchants

-----------------------------------------------------------------------------
(* Facts is Worker with the proofs about it. *)

LEMMA Assumptions == Facts!WebhooksAssumption /\ Facts!NoneAssumption
  BY WorkerAssumption
  DEF OutboxRows, Facts!WebhooksAssumption, Facts!NoneAssumption, Worker!Outcome,
      Worker!Copy, Facts!Outcome, Facts!Copy

LEMMA SameInit == Worker!Init <=> Facts!Init
  BY DEF Worker!Init, Facts!Init

LEMMA SameInsert == \A e \in OutboxRows : Worker!Insert(e) <=> Facts!Insert(e)
  BY DEF Worker!Insert, Facts!Insert

LEMMA SameTick == Worker!Tick <=> Facts!Tick
  BY DEF Worker!Tick, Facts!Tick

LEMMA SamePoll == \A w \in Workers : Worker!Poll(w) <=> Facts!Poll(w)
<1>1. Worker!Due = Facts!Due
  BY DEF Worker!Due, Facts!Due
<1>2. ASSUME NEW B PROVE B \in Worker!OldestDue <=> B \in Facts!OldestDue
  BY <1>1, Zenon
  DEF Worker!OldestDue, Facts!OldestDue, Worker!Cardinality, Facts!Cardinality
<1>3. \A e : Worker!CopyOf(e) = Facts!CopyOf(e)
  BY DEF Worker!CopyOf, Facts!CopyOf
<1>4. \A B : {Worker!CopyOf(e) : e \in B} = {Facts!CopyOf(e) : e \in B}
  BY <1>3
<1> QED BY <1>1, <1>2, <1>4, Zenon DEF Worker!Poll, Facts!Poll

LEMMA SamePost == \A w \in Workers : Worker!Post(w) <=> Facts!Post(w)
  BY DEF Worker!Post, Facts!Post

LEMMA SameMark == \A w \in Workers : Worker!Mark(w) <=> Facts!Mark(w)
  BY DEF Worker!Mark, Worker!MarkDelivered, Worker!MarkFailed, Worker!ScheduleRetry,
         Worker!Base, Worker!Within20Percent, Worker!Continue, Worker!NewCount,
         Facts!Mark, Facts!MarkDelivered, Facts!MarkFailed, Facts!ScheduleRetry,
         Facts!Base, Facts!Within20Percent, Facts!Continue, Facts!NewCount

LEMMA SameFaults ==
    \A w \in Workers : /\ Worker!Abandon(w) <=> Facts!Abandon(w)
                       /\ Worker!Die(w) <=> Facts!Die(w)
                       /\ Worker!Restart(w) <=> Facts!Restart(w)
  BY DEF Worker!Abandon, Worker!Die, Worker!Restart, Worker!Lose,
         Facts!Abandon, Facts!Die, Facts!Restart, Facts!Lose

-----------------------------------------------------------------------------
(* The parts of the system are the parts modelled on their own. *)

LEMMA ApiPart == [SystemNext]_system => [Next]_vars
  BY DEF SystemNext, system, ApiStep, WorkerStep, WorkerFault, TimePasses, Next

\* The API beside the worker is Payments: its theorems hold of the system.
THEOREM SystemKeepsApi == SystemSpec => Spec
  BY ApiPart, PTL DEF SystemSpec, SystemInit, Spec

\* The requests of the system keep the invariant of Payments.
LEMMA ApiInvariants == SystemSpec => [](CoreInv /\ SettlementAtomic)
  BY SystemKeepsApi, CoreInvariant, BooksMatchStatus, PTL

\* A commit publishes at most one row.
LEMMA CommitsOneRow ==
    ASSUME CoreInv, [Next]_vars, outbox' # outbox
    PROVE  \E o \in Event : outbox' = outbox \cup {o}
<1>1. PICK r \in Requests : Commit(r)
  BY OnlyCommit DEF database
<1>2. pc[r] = "commit" /\ outbox' = outbox \cup tx[r].outbox
  BY <1>1 DEF Commit
<1>3. tx[r].outbox \subseteq Event
  BY DEF CoreInv, TypeOK
<1>4. call[r].op \in {"create", "confirm"}
  BY <1>2, CallTypes DEF CoreInv
<1>5. CASE call[r].op = "create"
  BY <1>2, <1>5 DEF CoreInv, TxInv, TxOk, CreateTx
<1>6. CASE call[r].op = "confirm"
  <2>1. ConfirmTx(r)
    BY <1>2, <1>6 DEF CoreInv, TxInv, TxOk, Confirming
  <2>2. tx[r].outbox = {} \/ tx[r].outbox = {OutboxEvent(r, tx[r].row)}
    BY <1>2, <2>1 DEF ConfirmTx
  <2> QED BY <1>2, <1>3, <2>2
<1> QED BY <1>4, <1>5, <1>6

LEMMA RowName == ASSUME NEW o \in Event PROVE <<o.by, o.merchant>> \in OutboxRows
  BY DEF Event, OutboxRows

LEMMA PublishesInserts ==
    ASSUME CoreInv, [Next]_vars, Publishes
    PROVE  \/ outbox' = outbox /\ UNCHANGED workerVars
           \/ \E o \in Event : /\ outbox' = outbox \cup {o}
                               /\ Facts!Insert(<<o.by, o.merchant>>)
<1>1. CASE outbox' = outbox
  BY <1>1 DEF Publishes
<1>2. CASE outbox' # outbox
  <2>1. PICK o \in Event : outbox' = outbox \cup {o}
    BY <1>2, CommitsOneRow
  <2>2. \A e \in outbox' \ outbox : e = o
    BY <2>1
  <2>3. Worker!Insert(<<o.by, o.merchant>>)
    BY <1>2, <2>2 DEF Publishes
  <2> QED BY <2>1, <2>3, RowName, SameInsert
<1> QED BY <1>1, <1>2

LEMMA WorkerPart == CoreInv /\ [SystemNext]_system => [Facts!Next]_workerVars
<1> SUFFICES ASSUME CoreInv, [SystemNext]_system PROVE [Facts!Next]_workerVars
  OBVIOUS
<1>1. ASSUME Publishes PROVE [Facts!Next]_workerVars
  BY <1>1, ApiPart, PublishesInserts, RowName DEF Facts!Next
<1>2. ASSUME NEW w \in Workers, WorkerStep(w) \/ WorkerFault(w) PROVE Facts!Next
  BY <1>2, SamePoll, SamePost, SameMark, SameFaults DEF WorkerStep, WorkerFault, Facts!Next
<1>3. CASE TimePasses
  BY <1>3, SameTick DEF TimePasses, Facts!Next
<1>4. CASE UNCHANGED system
  BY <1>4 DEF system
<1> QED BY <1>1, <1>2, <1>3, <1>4 DEF SystemNext, ApiStep

LEMMA WorkerSteps == SystemSpec => Facts!Spec
<1>1. Facts!vars = workerVars
  BY DEF Facts!vars, workerVars
<1>2. CoreInv /\ [SystemNext]_system => [Facts!Next]_Facts!vars
  BY <1>1, WorkerPart DEF workerVars, Facts!vars
<1>3. SystemInit => Facts!Init
  BY SameInit DEF SystemInit
<1> QED BY <1>2, <1>3, ApiInvariants, PTL DEF SystemSpec, Facts!Spec

LEMMA SameNext == Facts!Next => Worker!Next
  BY SameInsert, SameTick, SamePoll, SamePost, SameMark, SameFaults
  DEF Facts!Next, Worker!Next

\* The worker beside the API is Webhooks: an API step is an Insert or nothing.
THEOREM SystemKeepsWorker == SystemSpec => ImplementsWorker
<1>1. Facts!Init => Worker!Init
  BY SameInit
<1>2. [Facts!Next]_Facts!vars => [Worker!Next]_Worker!vars
  BY SameNext DEF Facts!vars, Worker!vars
<1> QED BY <1>1, <1>2, WorkerSteps, PTL DEF ImplementsWorker, Worker!Spec, Facts!Spec

LEMMA WorkerInvariant == SystemSpec => []Facts!Inv
  BY WorkerSteps, Assumptions, Facts!Invariance, PTL

-----------------------------------------------------------------------------
(* The link between the two components. *)

\* A row is in the worker's table just when a commit of the API has written it.
Linked ==
    \A e \in OutboxRows :
        events[e].status # "ABSENT" <=> \E o \in outbox : e = <<o.by, o.merchant>>

LEMMA LinkInit == SystemInit => Linked
  BY DEF SystemInit, Init, Worker!Init, Linked

LEMMA LinkStep == CoreInv /\ Facts!Inv /\ Linked /\ [SystemNext]_system => Linked'
<1> SUFFICES ASSUME CoreInv, Facts!Inv, Linked, [SystemNext]_system PROVE Linked'
  OBVIOUS
<1>1. ASSUME Publishes PROVE Linked'
  <2>1. CASE outbox' = outbox /\ UNCHANGED workerVars
    BY <2>1 DEF workerVars, Linked
  <2>2. ASSUME NEW o \in Event, outbox' = outbox \cup {o}, Facts!Insert(<<o.by, o.merchant>>)
        PROVE  Linked'
    <3> DEFINE n == <<o.by, o.merchant>>
    <3>1. n \in OutboxRows
      BY RowName
    <3>2. events \in [OutboxRows -> Facts!EventRow]
      BY DEF Facts!Inv, Facts!TypeOK
    <3>3. events'[n].status = "PENDING" /\ \A e \in OutboxRows : e # n => events'[e] = events[e]
      BY <2>2, <3>1, <3>2 DEF Facts!Insert
    <3> QED BY <2>2, <3>3 DEF Linked
  <2> QED BY <1>1, <2>1, <2>2, ApiPart, PublishesInserts
<1>2. ASSUME NEW w \in Workers, WorkerStep(w) \/ WorkerFault(w) PROVE Linked'
  <2>1. \A e \in OutboxRows : events'[e].status = "ABSENT" <=> events[e].status = "ABSENT"
    BY <1>2, Assumptions, SamePoll, SamePost, SameMark, SameFaults, Facts!RowsStay
    DEF WorkerStep, WorkerFault
  <2>2. outbox' = outbox
    BY <1>2 DEF WorkerStep, WorkerFault, vars
  <2> QED BY <2>1, <2>2 DEF Linked
<1>3. CASE TimePasses
  BY <1>3 DEF TimePasses, Worker!Tick, vars, Linked
<1>4. CASE UNCHANGED system
  BY <1>4 DEF system, vars, workerVars, Linked
<1> QED BY <1>1, <1>2, <1>3, <1>4 DEF SystemNext, ApiStep

\* Both components' invariants and the link hold in every state of the system.
THEOREM SystemInvariant ==
    SystemSpec => [](CoreInv /\ SettlementAtomic /\ Facts!Inv /\ Linked)
  BY ApiInvariants, WorkerInvariant, LinkInit, LinkStep, PTL DEF SystemSpec

\* A row the worker can see was written by a confirm that succeeded, for the
\* merchant of its payment.
LEMMA RowMeansSuccess ==
    ASSUME CoreInv, SettlementAtomic, Linked,
           NEW e \in OutboxRows, events[e].status # "ABSENT"
    PROVE  \E i \in Intents :
              /\ intents[i] # None
              /\ intents[i].status = "SUCCEEDED"
              /\ intents[i].merchant = e[2]
              /\ e[1] \in charged[i]
              /\ EventsOf(i) = {OutboxEvent(e[1], intents[i])}
<1>1. PICK o \in outbox : e = <<o.by, o.merchant>>
  BY DEF Linked
<1>2. o \in Event /\ o.intent \in Intents
  BY DEF CoreInv, TypeOK, Event
<1>3. o \in EventsOf(o.intent)
  BY DEF EventsOf
<1>4. intents[o.intent] # None /\ intents[o.intent].status = "SUCCEEDED"
  BY <1>2, <1>3 DEF SettlementAtomic
<1>5. PICK r \in charged[o.intent] : EventsOf(o.intent) = {OutboxEvent(r, intents[o.intent])}
  BY <1>2, <1>4 DEF SettlementAtomic
<1>6. o.by = r /\ o.merchant = intents[o.intent].merchant
  BY <1>3, <1>5 DEF OutboxEvent
<1>7. e[1] = r /\ e[2] = intents[o.intent].merchant
  BY <1>1, <1>6
<1> QED BY <1>2, <1>4, <1>5, <1>7

\* No merchant is ever told of a payment that is not his, not committed or not
\* SUCCEEDED, for any number of requests, merchants and workers.
THEOREM AnnouncedIsCommitted == SystemSpec => []OnlySuccessIsAnnounced
<1>1. CoreInv /\ SettlementAtomic /\ Facts!Inv /\ Linked => OnlySuccessIsAnnounced
  <2> SUFFICES ASSUME CoreInv, SettlementAtomic, Facts!Inv, Linked,
                      NEW e \in OutboxRows, posts[e] > 0
               PROVE  \E i \in Intents :
                         /\ intents[i] # None
                         /\ intents[i].status = "SUCCEEDED"
                         /\ intents[i].merchant = e[2]
                         /\ e[1] \in charged[i]
    BY DEF OnlySuccessIsAnnounced
  <2>1. events[e].status # "ABSENT"
    BY DEF Facts!Inv, Facts!RowCounts, Facts!TypeOK
  <2> QED BY <2>1, RowMeansSuccess
<1> QED BY <1>1, SystemInvariant, PTL

\* Every SUCCEEDED payment has exactly one row for the worker to deliver, and no
\* other payment has one.
THEOREM SuccessHasOneRow == SystemSpec => []OneRowPerSuccess
<1>1. CoreInv /\ SettlementAtomic /\ Linked => OneRowPerSuccess
  <2> SUFFICES ASSUME CoreInv, SettlementAtomic, Linked, NEW i \in Intents
               PROVE  IF intents[i] # None /\ intents[i].status = "SUCCEEDED"
                      THEN \E r \in charged[i] : RowsOf(i) = {<<r, intents[i].merchant>>}
                      ELSE RowsOf(i) = {}
    BY DEF OneRowPerSuccess
  <2>1. ASSUME NEW e \in RowsOf(i)
        PROVE  /\ intents[i] # None
               /\ intents[i].status = "SUCCEEDED"
               /\ intents[i].merchant = e[2]
               /\ EventsOf(i) = {OutboxEvent(e[1], intents[i])}
    <3>1. e \in OutboxRows /\ events[e].status # "ABSENT" /\ e[1] \in charged[i]
      BY DEF RowsOf
    <3>2. PICK j \in Intents :
             /\ intents[j] # None
             /\ intents[j].status = "SUCCEEDED"
             /\ intents[j].merchant = e[2]
             /\ e[1] \in charged[j]
             /\ EventsOf(j) = {OutboxEvent(e[1], intents[j])}
      BY <3>1, RowMeansSuccess
    <3>3. i = j
      BY <3>1, <3>2 DEF CoreInv, ChargeInv
    <3> QED BY <3>2, <3>3
  <2>2. CASE ~(intents[i] # None /\ intents[i].status = "SUCCEEDED")
    BY <2>1, <2>2
  <2>3. CASE intents[i] # None /\ intents[i].status = "SUCCEEDED"
    <3>1. PICK r \in charged[i] : EventsOf(i) = {OutboxEvent(r, intents[i])}
      BY <2>3 DEF SettlementAtomic
    <3> DEFINE n == <<r, intents[i].merchant>>
    <3>2. n \in RowsOf(i)
      <4>1. OutboxEvent(r, intents[i]) \in outbox
        BY <3>1 DEF EventsOf
      <4>2. OutboxEvent(r, intents[i]).by = r /\ OutboxEvent(r, intents[i]).merchant = intents[i].merchant
        BY DEF OutboxEvent
      <4>3. n \in OutboxRows
        BY <4>1, <4>2, RowName DEF CoreInv, TypeOK
      <4> QED BY <4>1, <4>2, <4>3 DEF Linked, RowsOf
    <3>3. ASSUME NEW e \in RowsOf(i) PROVE e = n
      <4>1. EventsOf(i) = {OutboxEvent(e[1], intents[i])} /\ e[2] = intents[i].merchant
        BY <2>1
      <4>2. OutboxEvent(e[1], intents[i]) = OutboxEvent(r, intents[i])
        BY <3>1, <4>1
      <4>3. e[1] = r
        BY <4>2 DEF OutboxEvent
      <4>4. e = <<e[1], e[2]>>
        BY DEF RowsOf, OutboxRows
      <4> QED BY <4>1, <4>3, <4>4
    <3> QED BY <2>3, <3>2, <3>3
  <2> QED BY <2>2, <2>3
<1> QED BY <1>1, SystemInvariant, PTL

\* What the table of the worker says of a SUCCEEDED payment, at any moment: its
\* row is there, and is still to be delivered, or was acknowledged, or has used
\* up its attempts.
Tracked(i) ==
    \E r \in charged[i] :
        LET n == <<r, intents[i].merchant>>
        IN  /\ RowsOf(i) = {n}
            /\ \/ events[n].status = "PENDING"
               \/ events[n].status = "DELIVERED" /\ acks[n] > 0
               \/ events[n].status = "FAILED" /\ posts[n] - acks[n] >= MaxAttempts

\* No payment succeeds and is then forgotten, with any number of workers racing,
\* dying and restarting: the part of SuccessIsNotified that needs no fairness.
THEOREM SuccessIsTracked ==
    SystemSpec => [](\A i \in Intents :
                        intents[i] # None /\ intents[i].status = "SUCCEEDED" => Tracked(i))
<1>1. ASSUME OneRowPerSuccess, Facts!Inv, NEW i \in Intents,
             intents[i] # None, intents[i].status = "SUCCEEDED"
      PROVE  Tracked(i)
  <2>1. PICK r \in charged[i] : RowsOf(i) = {<<r, intents[i].merchant>>}
    BY <1>1 DEF OneRowPerSuccess
  <2> DEFINE n == <<r, intents[i].merchant>>
  <2>2. n \in OutboxRows /\ events[n].status # "ABSENT"
    BY <2>1 DEF RowsOf
  <2>3. /\ events[n].status \in {"ABSENT", "PENDING", "DELIVERED", "FAILED"}
        /\ posts[n] \in Nat /\ acks[n] \in Nat
    BY <1>1, <2>2 DEF Facts!Inv, Facts!TypeOK, Facts!EventRow
  <2>4. /\ events[n].status = "DELIVERED" => acks[n] > 0
        /\ events[n].status = "FAILED" => Facts!Failures(n, MaxAttempts)
    BY <1>1, <2>2 DEF Facts!Inv, Facts!RowCounts
  <2>5. MaxAttempts \in Nat
    BY WorkerAssumption
  <2>6. events[n].status = "FAILED" => posts[n] - acks[n] >= MaxAttempts
    BY <2>3, <2>4, <2>5 DEF Facts!Failures
  <2> QED BY <2>1, <2>2, <2>3, <2>4, <2>6 DEF Tracked
<1>2. OneRowPerSuccess /\ Facts!Inv =>
        \A i \in Intents :
            intents[i] # None /\ intents[i].status = "SUCCEEDED" => Tracked(i)
  BY <1>1
<1> QED BY <1>2, SuccessHasOneRow, SystemInvariant, PTL
=============================================================================
