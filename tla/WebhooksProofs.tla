--------------------------- MODULE WebhooksProofs ---------------------------
(***************************************************************************)
(* Proofs about the outbox worker, for every number of workers, events and *)
(* attempts, every backoff list and any number of faults: its types, that  *)
(* DELIVERED needs an accepted POST, and that it implements the contract   *)
(* Delivery.                                                               *)
(*                                                                         *)
(* The contract alone is not inductive: a worker settles an event by a     *)
(* copy it read long ago.  What makes it safe is that a copy never counts  *)
(* more failed POSTs than there were, and that count only grows.           *)
(*                                                                         *)
(* With one worker, which is what start.sh starts, more is true: the copy  *)
(* it goes by is still the row, so it posts only what is due, counts each  *)
(* POST that no fault took, and never touches a row that is over.          *)
(***************************************************************************)
EXTENDS Webhooks, FiniteSetTheorems, TLAPS

\* n of the POSTs of event e, at least, were not accepted.
Failures(e, n) == acks[e] + n <= posts[e]

RowCounts ==
    \A e \in Events :
        /\ Failures(e, events[e].attempts)
        /\ events[e].status = "ABSENT" => posts[e] = 0
        /\ events[e].status = "DELIVERED" => acks[e] > 0
        /\ events[e].status = "FAILED" => Failures(e, MaxAttempts)

BatchCounts ==
    \A w \in Workers : \A c \in batch[w] :
        events[c.id].status # "ABSENT" /\ Failures(c.id, c.attempts)

SendingCounts ==
    \A w \in Workers :
        wpc[w] = "marking" =>
            /\ sending[w] \in Outcome
            /\ events[sending[w].copy.id].status # "ABSENT"
            /\ sending[w].ok => acks[sending[w].copy.id] > 0
            /\ ~sending[w].ok => Failures(sending[w].copy.id, NewCount(w))

\* The invariant by induction: what a row, a copy in a batch and a copy in hand
\* say of the POSTs of their event is at most what happened.
Inv == TypeOK /\ RowCounts /\ BatchCounts /\ SendingCounts

-----------------------------------------------------------------------------
LEMMA OneMore == ASSUME NEW w \in Workers, TypeOK, sending[w] \in Outcome
                 PROVE  NewCount(w) \in Nat \ {0}
  BY DEF NewCount, Outcome, Copy

LEMMA DueAreEvents == Due \subseteq Events
  BY WebhooksAssumption DEF Due

LEMMA InitInv == Init => Inv
<1> SUFFICES ASSUME Init PROVE Inv
  OBVIOUS
<1>1. TypeOK
  BY WebhooksAssumption DEF Init, TypeOK, EventRow
<1>2. RowCounts /\ BatchCounts /\ SendingCounts
  BY DEF Init, RowCounts, BatchCounts, SendingCounts, Failures
<1> QED BY <1>1, <1>2 DEF Inv

LEMMA InsertInv == ASSUME Inv, NEW e \in Events, Insert(e) PROVE Inv'
<1> USE DEF Inv, TypeOK
<1>1. TypeOK'
  BY DEF Insert, EventRow
<1>2. RowCounts'
  BY DEF Insert, EventRow, RowCounts, Failures
<1>3. BatchCounts'
  BY DEF Insert, EventRow, BatchCounts, Failures, Copy
<1>4. SendingCounts'
  BY DEF Insert, EventRow, SendingCounts, Failures, Copy, Outcome, NewCount
<1> QED BY <1>1, <1>2, <1>3, <1>4

LEMMA TickInv == ASSUME Inv, Tick PROVE Inv'
<1> USE DEF Inv, TypeOK
<1>1. TypeOK'
  BY DEF Tick
<1>2. RowCounts' /\ BatchCounts' /\ SendingCounts'
  BY DEF Tick, RowCounts, BatchCounts, SendingCounts, Failures, NewCount
<1> QED BY <1>1, <1>2

\* A fresh copy counts what the row counts.
LEMMA PollInv == ASSUME Inv, NEW w \in Workers, Poll(w) PROVE Inv'
<1> USE DEF Inv, TypeOK
<1>1. PICK B \in OldestDue : batch' = [batch EXCEPT ![w] = {CopyOf(e) : e \in B}]
  BY DEF Poll
<1>2. B \subseteq Due /\ B \subseteq Events
  BY <1>1, DueAreEvents DEF OldestDue
<1>3. \A e \in B : /\ CopyOf(e) \in Copy
                   /\ events[e].status # "ABSENT"
                   /\ CopyOf(e).id = e /\ CopyOf(e).attempts = events[e].attempts
  BY <1>2 DEF CopyOf, Copy, EventRow, Due
<1>4. TypeOK'
  <2>1. {CopyOf(e) : e \in B} \subseteq Copy
    BY <1>3
  <2>2. batch' \in [Workers -> SUBSET Copy]
    BY <1>1, <2>1
  <2> QED BY <2>2 DEF Poll
<1>5. RowCounts'
  BY DEF Poll, RowCounts, Failures
<1>6. BatchCounts'
  <2> SUFFICES ASSUME NEW v \in Workers, NEW c \in batch'[v]
               PROVE  events[c.id].status # "ABSENT" /\ Failures(c.id, c.attempts)
    BY DEF Poll, BatchCounts, Failures
  <2>1. CASE v = w
    <3>1. PICK e \in B : c = CopyOf(e)
      BY <1>1, <2>1
    <3> QED BY <1>2, <1>3, <3>1 DEF RowCounts
  <2>2. CASE v # w
    BY <1>1, <2>2 DEF BatchCounts
  <2> QED BY <2>1, <2>2
<1>7. SendingCounts'
  BY DEF Poll, SendingCounts, Failures, NewCount
<1> QED BY <1>4, <1>5, <1>6, <1>7

\* A POST that is not accepted is one more failure than the copy counts.
LEMMA PostInv == ASSUME Inv, NEW w \in Workers, Post(w) PROVE Inv'
<1> USE DEF Inv, TypeOK
<1>1. PICK c \in batch[w], ok \in BOOLEAN :
         /\ batch' = [batch EXCEPT ![w] = @ \ {c}]
         /\ sending' = [sending EXCEPT ![w] = [copy |-> c, ok |-> ok]]
         /\ posts' = [posts EXCEPT ![c.id] = @ + 1]
         /\ acks' = [acks EXCEPT ![c.id] = IF ok THEN @ + 1 ELSE @]
  BY DEF Post
<1>2. c \in Copy /\ c.id \in Events /\ c.attempts \in Nat
  BY DEF Copy
<1>3. [copy |-> c, ok |-> ok] \in Outcome
  BY <1>2 DEF Outcome
<1>4. TypeOK'
  BY <1>1, <1>2, <1>3 DEF Post
<1>5. ASSUME NEW e \in Events, NEW n \in Nat, Failures(e, n) PROVE Failures(e, n)'
  BY <1>1, <1>2, <1>5 DEF Failures
<1>6. events' = events /\ \A e \in Events : acks[e] > 0 => acks'[e] > 0
  BY <1>1, <1>2 DEF Post
<1>7. RowCounts'
  <2>1. \A e \in Events : events[e].status = "ABSENT" => posts'[e] = 0
    BY <1>1, <1>2 DEF RowCounts, BatchCounts
  <2> QED BY <1>5, <1>6, <2>1, WebhooksAssumption DEF RowCounts, EventRow
<1>8. BatchCounts'
  BY <1>1, <1>2, <1>5, <1>6 DEF BatchCounts, Copy
<1>9. SendingCounts'
  <2> SUFFICES ASSUME NEW v \in Workers, wpc'[v] = "marking"
               PROVE  /\ sending'[v] \in Outcome
                      /\ events[sending'[v].copy.id].status # "ABSENT"
                      /\ sending'[v].ok => acks'[sending'[v].copy.id] > 0
                      /\ ~sending'[v].ok => Failures(sending[v].copy.id, NewCount(v))'
    BY <1>6 DEF SendingCounts
  <2>1. CASE v = w
    <3>1. sending'[v] = [copy |-> c, ok |-> ok]
      BY <1>1, <2>1
    <3>2. events[c.id].status # "ABSENT" /\ Failures(c.id, c.attempts)
      BY DEF BatchCounts
    <3>3. ok => acks'[c.id] > 0
      BY <1>1, <1>2
    <3>4. ~ok => Failures(c.id, c.attempts + 1)'
      BY <1>1, <1>2, <3>2 DEF Failures
    <3>5. sending'[v].copy = c /\ sending'[v].ok = ok /\ NewCount(v)' = c.attempts + 1
      BY <3>1 DEF NewCount
    <3>6. ~sending'[v].ok => Failures(sending[v].copy.id, NewCount(v))'
      BY <3>4, <3>5 DEF Failures
    <3> QED BY <1>3, <3>1, <3>2, <3>3, <3>5, <3>6
  <2>2. CASE v # w
    <3>1. sending'[v] = sending[v] /\ wpc[v] = "marking"
      BY <1>1, <2>2 DEF Post
    <3>2. sending[v] \in Outcome /\ sending[v].copy.id \in Events
      BY <3>1 DEF SendingCounts, Outcome, Copy
    <3>3. NewCount(v)' = NewCount(v) /\ NewCount(v) \in Nat
      BY <3>1, <3>2, OneMore DEF NewCount
    <3>4. Failures(sending[v].copy.id, NewCount(v)) =>
             Failures(sending[v].copy.id, NewCount(v))'
      BY <3>1, <3>2, <3>3, <1>1, <1>2 DEF Failures
    <3>5. sending'[v].ok => acks'[sending'[v].copy.id] > 0
      BY <3>1, <3>2, <1>6 DEF SendingCounts
    <3>6. ~sending'[v].ok => Failures(sending[v].copy.id, NewCount(v))'
      BY <3>1, <3>4 DEF SendingCounts
    <3> QED BY <3>1, <3>2, <3>5, <3>6 DEF SendingCounts
  <2> QED BY <2>1, <2>2
<1> QED BY <1>4, <1>7, <1>8, <1>9

\* What a Mark leaves alone.
LEMMA ContinueInv ==
    ASSUME Inv, NEW w \in Workers, wpc[w] = "marking", Continue(w),
           events' \in [Events -> EventRow], RowCounts',
           \A e \in Events : events'[e].status = "ABSENT" => events[e].status = "ABSENT"
    PROVE  Inv'
<1> USE DEF Inv, TypeOK
<1>1. TypeOK'
  BY DEF Continue
<1>2. BatchCounts'
  BY DEF Continue, BatchCounts, Failures, Copy
<1>3. SendingCounts'
  BY DEF Continue, SendingCounts, Failures, NewCount, Outcome, Copy
<1> QED BY <1>1, <1>2, <1>3

LEMMA MarkDeliveredInv == ASSUME Inv, NEW w \in Workers, MarkDelivered(w) PROVE Inv'
<1> USE DEF Inv, TypeOK
<1>1. sending[w].copy.id \in Events /\ acks[sending[w].copy.id] > 0
  BY DEF MarkDelivered, SendingCounts, Outcome, Copy
<1>2. events' \in [Events -> EventRow] /\ RowCounts'
  BY <1>1 DEF MarkDelivered, Continue, EventRow, RowCounts, Failures
<1>3. \A e \in Events : events'[e].status = "ABSENT" => events[e].status = "ABSENT"
  BY <1>1 DEF MarkDelivered, EventRow
<1> QED BY <1>2, <1>3, ContinueInv DEF MarkDelivered

LEMMA MarkFailedInv == ASSUME Inv, NEW w \in Workers, MarkFailed(w) PROVE Inv'
<1> USE DEF Inv, TypeOK
<1>1. sending[w] \in Outcome /\ NewCount(w) \in Nat
  BY OneMore DEF MarkFailed, SendingCounts
<1>2. sending[w].copy.id \in Events /\ Failures(sending[w].copy.id, NewCount(w))
  BY <1>1 DEF MarkFailed, SendingCounts, Outcome, Copy
<1>3. NewCount(w) >= MaxAttempts
  BY DEF MarkFailed
<1>4. Failures(sending[w].copy.id, MaxAttempts)
  BY <1>1, <1>2, <1>3, WebhooksAssumption DEF Failures
<1>5. events' \in [Events -> EventRow] /\ RowCounts'
  BY <1>1, <1>2, <1>4 DEF MarkFailed, Continue, EventRow, RowCounts, Failures
<1>6. \A e \in Events : events'[e].status = "ABSENT" => events[e].status = "ABSENT"
  BY <1>2 DEF MarkFailed, EventRow
<1> QED BY <1>5, <1>6, ContinueInv DEF MarkFailed

LEMMA ScheduleRetryInv == ASSUME Inv, NEW w \in Workers, ScheduleRetry(w) PROVE Inv'
<1> USE DEF Inv, TypeOK
<1>1. sending[w] \in Outcome /\ NewCount(w) \in Nat
  BY OneMore DEF ScheduleRetry, SendingCounts
<1>2. sending[w].copy.id \in Events /\ Failures(sending[w].copy.id, NewCount(w))
  BY <1>1 DEF ScheduleRetry, SendingCounts, Outcome, Copy
<1>3. PICK d \in Within20Percent(Base(NewCount(w))) :
         events' = [events EXCEPT ![sending[w].copy.id].attempts = NewCount(w),
                                  ![sending[w].copy.id].nextAt = now + d]
  BY DEF ScheduleRetry
<1>4. now + d \in Nat
  BY <1>3 DEF Within20Percent
<1>5. events' \in [Events -> EventRow] /\ RowCounts'
  BY <1>1, <1>2, <1>3, <1>4 DEF ScheduleRetry, Continue, EventRow, RowCounts, Failures
<1>6. \A e \in Events : events'[e].status = "ABSENT" => events[e].status = "ABSENT"
  BY <1>2, <1>3 DEF EventRow
<1> QED BY <1>5, <1>6, ContinueInv DEF ScheduleRetry

\* Faults and a restart forget copies, and nothing else.
LEMMA LoseInv == ASSUME Inv, NEW w \in Workers, NEW p \in {"sleeping", "dead"}, Lose(w, p)
                 PROVE  Inv'
<1> USE DEF Inv, TypeOK
<1>1. TypeOK'
  BY WebhooksAssumption DEF Lose
<1>2. RowCounts' /\ BatchCounts'
  BY DEF Lose, RowCounts, BatchCounts, Failures
<1>3. SendingCounts'
  BY DEF Lose, SendingCounts, Failures, NewCount
<1> QED BY <1>1, <1>2, <1>3

LEMMA RestartInv == ASSUME Inv, NEW w \in Workers, Restart(w) PROVE Inv'
<1> USE DEF Inv, TypeOK
<1>1. TypeOK'
  BY DEF Restart
<1>2. RowCounts' /\ BatchCounts' /\ SendingCounts'
  BY DEF Restart, RowCounts, BatchCounts, SendingCounts, Failures, NewCount
<1> QED BY <1>1, <1>2

LEMMA NextInv == ASSUME Inv, [Next]_vars PROVE Inv'
<1>1. ASSUME NEW e \in Events, Insert(e) PROVE Inv'
  BY <1>1, InsertInv
<1>2. CASE Tick
  BY <1>2, TickInv
<1>3. ASSUME NEW w \in Workers, Poll(w) \/ Post(w) \/ Restart(w) PROVE Inv'
  BY <1>3, PollInv, PostInv, RestartInv
<1>4. ASSUME NEW w \in Workers, Mark(w) PROVE Inv'
  BY <1>4, MarkDeliveredInv, MarkFailedInv, ScheduleRetryInv DEF Mark
<1>5. ASSUME NEW w \in Workers, Abandon(w) \/ Die(w) PROVE Inv'
  BY <1>5, LoseInv DEF Abandon, Die
<1>6. CASE UNCHANGED vars
  BY <1>6 DEF vars, Inv, TypeOK, RowCounts, BatchCounts, SendingCounts, Failures, NewCount
<1> QED BY <1>1, <1>2, <1>3, <1>4, <1>5, <1>6 DEF Next

\* The counting invariant holds in every state, for any number of workers.
THEOREM Invariance == Spec => []Inv
  BY InitInv, NextInv, PTL DEF Spec

\* Every column and every local of the worker keeps its type.
THEOREM TypeCorrect == Spec => []TypeOK
  BY Invariance, PTL DEF Inv

\* However many workers race for an event, it is DELIVERED only if a POST of it
\* was accepted.
THEOREM DeliveredIsAcked == Spec => []DeliveredWasAcked
<1>1. Inv => DeliveredWasAcked
  BY DEF Inv, RowCounts, DeliveredWasAcked
<1> QED BY <1>1, Invariance, PTL

-----------------------------------------------------------------------------
(* The contract: every step of the worker is one of Delivery's, or none. *)

LEMMA ContractInit == Init => Contract!Init
  BY DEF Init, Contract!Init

\* A POST is a hit or a miss of an event that is owed.
LEMMA PostIsATry == ASSUME Inv, NEW w \in Workers, Post(w) PROVE Contract!Next
<1> USE DEF Inv, TypeOK
<1>1. PICK c \in batch[w], ok \in BOOLEAN :
         /\ posts' = [posts EXCEPT ![c.id] = @ + 1]
         /\ acks' = [acks EXCEPT ![c.id] = IF ok THEN @ + 1 ELSE @]
  BY DEF Post
<1>2. c.id \in Events /\ events[c.id].status # "ABSENT" /\ events' = events
  BY DEF Copy, BatchCounts, Post
<1>3. CASE ok
  BY <1>1, <1>2, <1>3 DEF Contract!Hit, Contract!Next
<1>4. CASE ~ok
  <2>1. acks' = acks
    BY <1>1, <1>2, <1>4
  <2> QED BY <1>1, <1>2, <2>1 DEF Contract!Miss, Contract!Next
<1> QED BY <1>3, <1>4

LEMMA MarkKeepsContract == ASSUME Inv, NEW w \in Workers, Mark(w)
                           PROVE  [Contract!Next]_Contract!vars
<1> USE DEF Inv, TypeOK
<1> DEFINE e == sending[w].copy.id
<1>1. /\ sending[w] \in Outcome /\ NewCount(w) \in Nat
      /\ e \in Events /\ events[e].status # "ABSENT"
      /\ sending[w].ok => acks[e] > 0
      /\ ~sending[w].ok => Failures(e, NewCount(w))
  <2>1. wpc[w] = "marking"
    BY DEF Mark, MarkDelivered, MarkFailed, ScheduleRetry
  <2>2. sending[w] \in Outcome /\ NewCount(w) \in Nat
    BY <2>1, OneMore DEF SendingCounts
  <2> QED BY <2>1, <2>2 DEF SendingCounts, Outcome, Copy
<1>2. UNCHANGED <<posts, acks>>
  BY DEF Mark, MarkDelivered, MarkFailed, ScheduleRetry, Continue
<1>3. CASE MarkDelivered(w)
  BY <1>1, <1>2, <1>3 DEF MarkDelivered, EventRow, Contract!Deliver, Contract!Next
<1>4. CASE MarkFailed(w)
  <2>1. acks[e] + MaxAttempts <= posts[e]
    BY <1>1, <1>4, WebhooksAssumption DEF MarkFailed, Failures
  <2>2. [f \in Events |-> events[f].status]' =
           [[f \in Events |-> events[f].status] EXCEPT ![e] = "FAILED"]
    BY <1>1, <1>4 DEF MarkFailed, EventRow
  <2> QED BY <1>1, <1>2, <2>1, <2>2 DEF Contract!GiveUp, Contract!Next
<1>5. CASE ScheduleRetry(w)
  BY <1>1, <1>2, <1>5 DEF ScheduleRetry, EventRow, Contract!vars
<1> QED BY <1>3, <1>4, <1>5 DEF Mark

LEMMA ContractNext == Inv /\ [Next]_vars => [Contract!Next]_Contract!vars
<1> SUFFICES ASSUME Inv, [Next]_vars PROVE [Contract!Next]_Contract!vars
  OBVIOUS
<1>1. ASSUME NEW e \in Events, Insert(e) PROVE Contract!Next
  <2>1. PICK began \in 0..now :
           events' = [events EXCEPT ![e] =
                        [status |-> "PENDING", attempts |-> 0, nextAt |-> began]]
    BY <1>1 DEF Insert
  <2>2. events[e].status = "ABSENT" /\ UNCHANGED <<posts, acks>>
    BY <1>1 DEF Insert
  <2>3. [f \in Events |-> events[f].status]' =
           [[f \in Events |-> events[f].status] EXCEPT ![e] = "PENDING"]
    BY <2>1 DEF Inv, TypeOK, EventRow
  <2> QED BY <2>2, <2>3 DEF Contract!Owe, Contract!Next
<1>2. ASSUME UNCHANGED <<events, posts, acks>> PROVE UNCHANGED Contract!vars
  BY <1>2 DEF Contract!vars
<1>3. ASSUME NEW w \in Workers, Post(w) PROVE Contract!Next
  BY <1>3, PostIsATry
<1>4. ASSUME NEW w \in Workers, Mark(w) PROVE [Contract!Next]_Contract!vars
  BY <1>4, MarkKeepsContract
<1>5. ASSUME NEW w \in Workers, Poll(w) \/ Abandon(w) \/ Die(w) \/ Restart(w)
      PROVE  UNCHANGED <<events, posts, acks>>
  BY <1>5 DEF Poll, Abandon, Die, Restart, Lose
<1> QED BY <1>1, <1>2, <1>3, <1>4, <1>5 DEF Next, Tick, vars

\* The worker implements the at-least-once contract, for any number of workers,
\* faults and retries.
THEOREM DeliveryImplemented == Spec => ImplementsDelivery
  BY ContractInit, ContractNext, Invariance, PTL
  DEF Spec, ImplementsDelivery, Contract!Spec

-----------------------------------------------------------------------------
(* One worker.  start.sh starts one, and with one worker the copies are never  *)
(* stale: a copy in its batch or in its hand is the row as it is now, so that  *)
(* what it counts is exact, up to the faults.                                  *)

OneWorker == \E w : Workers = {w}

\* The row of copy c is as it was when the copy was taken, and still due.
Current(c) == c.id \in Due /\ c = CopyOf(c.id)

\* No two copies the worker has are of one event: each names its row, as it is.
Fresh(w) ==
    /\ wpc[w] # "marking" => sending[w] = None
    /\ wpc[w] \in {"sleeping", "dead"} => batch[w] = {}
    /\ \A c \in batch[w] : Current(c)
    /\ sending[w] # None => Current(sending[w].copy) /\ sending[w].copy \notin batch[w]

Sent(w, e) == sending[w] # None /\ sending[w].copy.id = e
Held(w, e) == IF Sent(w, e) THEN 1 ELSE 0
Acked(w, e) == IF Sent(w, e) /\ sending[w].ok THEN 1 ELSE 0
Settled(e) == IF events[e].status = "DELIVERED" THEN 1 ELSE 0

\* A POST of e is counted by its row or is in hand, unless a fault lost it.
Counted(w, e) ==
    /\ events[e].attempts + Settled(e) + Held(w, e) <= posts[e]
    /\ posts[e] <= events[e].attempts + Settled(e) + Held(w, e) + faults
    /\ acks[e] <= Settled(e) + Acked(w, e) + faults
    /\ events[e].attempts <= MaxAttempts
    /\ events[e].status = "PENDING" => events[e].attempts < MaxAttempts
    /\ events[e].status = "FAILED" => events[e].attempts = MaxAttempts

OneInv == \A w \in Workers : Fresh(w) /\ \A e \in Events : Counted(w, e)

LEMMA CurrentIsRow ==
    ASSUME NEW c, Current(c)
    PROVE  /\ c.id \in WithUrl /\ c.id \in Events
           /\ events[c.id].status = "PENDING" /\ events[c.id].nextAt <= now
           /\ c.attempts = events[c.id].attempts /\ c.nextAt = events[c.id].nextAt
<1>1. c.id \in Due /\ c = CopyOf(c.id)
  BY DEF Current
<1> QED BY <1>1, WebhooksAssumption DEF Due, CopyOf

\* A copy stays current while its row and the clock do not go back.
LEMMA CurrentStays ==
    ASSUME TypeOK, NEW c, Current(c), events'[c.id] = events[c.id], now' \in Nat, now <= now'
    PROVE  Current(c)'
<1>1. c.id \in WithUrl /\ events[c.id].status = "PENDING" /\ events[c.id].nextAt \in Nat
      /\ events[c.id].nextAt <= now
  BY CurrentIsRow DEF TypeOK, EventRow
<1>2. events'[c.id].status = "PENDING" /\ events'[c.id].nextAt <= now'
  BY <1>1 DEF TypeOK
<1>3. c.id \in Due'
  BY <1>1, <1>2 DEF Due
<1>4. CopyOf(c.id)' = CopyOf(c.id)
  BY DEF CopyOf
<1> QED BY <1>3, <1>4 DEF Current

LEMMA OneInit == Init => OneInv
<1> SUFFICES ASSUME Init, NEW w \in Workers PROVE Fresh(w) /\ \A e \in Events : Counted(w, e)
  BY DEF OneInv
<1> QED BY WebhooksAssumption DEF Init, Fresh, Counted, Settled, Held, Acked, Sent

\* What a step of the world keeps: the worker's locals, and the rows it has copies of.
LEMMA OneInsert == ASSUME Inv, OneInv, NEW e \in Events, Insert(e) PROVE OneInv'
<1> SUFFICES ASSUME NEW w \in Workers PROVE Fresh(w)' /\ \A f \in Events : Counted(w, f)'
  BY DEF OneInv
<1> USE DEF Inv, TypeOK
<1>1. PICK began \in 0..now :
         /\ events[e].status = "ABSENT" /\ posts[e] = 0
         /\ events' = [events EXCEPT ![e] =
                          [status |-> "PENDING", attempts |-> 0, nextAt |-> began]]
         /\ UNCHANGED <<now, wpc, batch, sending, posts, acks, faults>>
  BY DEF Insert, RowCounts
<1>2. ASSUME NEW c, Current(c) PROVE Current(c)'
  <2>1. c.id # e /\ c.id \in Events
    BY <1>1, <1>2, CurrentIsRow
  <2> QED BY <1>1, <1>2, <2>1, CurrentStays
<1>3. Fresh(w)'
  BY <1>1, <1>2 DEF OneInv, Fresh
<1>4. ASSUME NEW f \in Events PROVE Counted(w, f)'
  <2>1. Counted(w, f)
    BY DEF OneInv
  <2>2. Held(w, f)' = Held(w, f) /\ Acked(w, f)' = Acked(w, f)
        /\ Held(w, f) \in {0, 1} /\ Acked(w, f) \in {0, 1}
    BY <1>1 DEF Held, Acked, Sent
  <2>3. CASE f # e
    BY <1>1, <2>1, <2>2, <2>3 DEF Counted, Settled
  <2>4. CASE f = e
    BY <1>1, <2>1, <2>2, <2>4, WebhooksAssumption DEF Counted, Settled, EventRow
  <2> QED BY <2>3, <2>4
<1> QED BY <1>3, <1>4

LEMMA OneTick == ASSUME Inv, OneInv, Tick PROVE OneInv'
<1> SUFFICES ASSUME NEW w \in Workers PROVE Fresh(w)' /\ \A f \in Events : Counted(w, f)'
  BY DEF OneInv
<1> USE DEF Inv, TypeOK
<1>1. now' = now + 1 /\ UNCHANGED <<events, wpc, batch, sending, posts, acks, faults>>
  BY DEF Tick
<1>2. ASSUME NEW c, Current(c) PROVE Current(c)'
  BY <1>1, <1>2, CurrentStays
<1>3. Fresh(w)'
  BY <1>1, <1>2 DEF OneInv, Fresh
<1>4. \A f \in Events : Counted(w, f)'
  BY <1>1 DEF OneInv, Counted, Settled, Held, Acked, Sent
<1> QED BY <1>3, <1>4

\* Every copy of a new batch is current, and the worker had none before.
LEMMA OnePoll == ASSUME OneWorker, Inv, OneInv, NEW w \in Workers, Poll(w) PROVE OneInv'
<1> SUFFICES Fresh(w)' /\ \A f \in Events : Counted(w, f)'
  BY DEF OneInv, OneWorker
<1> USE DEF Inv, TypeOK
<1>1. PICK B \in OldestDue : batch' = [batch EXCEPT ![w] = {CopyOf(e) : e \in B}]
  BY DEF Poll
<1>2. B \subseteq Due
  BY <1>1 DEF OldestDue
<1>3. /\ wpc[w] = "sleeping" /\ wpc'[w] = "posting"
      /\ UNCHANGED <<events, now, sending, posts, acks, faults>>
  BY DEF Poll
<1>4. sending[w] = None
  BY <1>3 DEF OneInv, Fresh
<1>5. ASSUME NEW c \in batch'[w] PROVE Current(c)'
  <2>1. PICK e \in B : c = CopyOf(e)
    BY <1>1
  <2>2. c.id = e
    BY <2>1 DEF CopyOf
  <2>3. Current(c)
    BY <1>2, <2>1, <2>2 DEF Current
  <2> QED BY <1>3, <2>3 DEF Current, Due, CopyOf
<1>6. Fresh(w)'
  BY <1>3, <1>4, <1>5 DEF Fresh
<1>7. \A f \in Events : Counted(w, f)'
  BY <1>3 DEF OneInv, Counted, Settled, Held, Acked, Sent
<1> QED BY <1>6, <1>7

\* The POST in hand is the one that its row does not count yet.
LEMMA OnePost == ASSUME OneWorker, Inv, OneInv, NEW w \in Workers, Post(w) PROVE OneInv'
<1> SUFFICES Fresh(w)' /\ \A f \in Events : Counted(w, f)'
  BY DEF OneInv, OneWorker
<1> USE DEF Inv, TypeOK
<1>1. PICK c \in batch[w], ok \in BOOLEAN :
         /\ batch' = [batch EXCEPT ![w] = @ \ {c}]
         /\ sending' = [sending EXCEPT ![w] = [copy |-> c, ok |-> ok]]
         /\ posts' = [posts EXCEPT ![c.id] = @ + 1]
         /\ acks' = [acks EXCEPT ![c.id] = IF ok THEN @ + 1 ELSE @]
  BY DEF Post
<1>2. wpc[w] = "posting" /\ wpc'[w] = "marking" /\ UNCHANGED <<events, now, faults>>
  BY DEF Post
<1>3. c \in Copy /\ c.id \in Events
  BY DEF Copy
<1>4. sending[w] = None /\ \A d \in batch[w] : Current(d)
  BY <1>2 DEF OneInv, Fresh
<1>5. sending'[w] = [copy |-> c, ok |-> ok] /\ sending'[w].copy = c /\ sending'[w].ok = ok
  BY <1>1
<1>6. sending'[w] # None
  BY <1>3, <1>5, NoneAssumption DEF Outcome
<1>7. Fresh(w)'
  <2>1. ASSUME NEW d, Current(d) PROVE Current(d)'
    BY <1>2, <2>1 DEF Current, Due, CopyOf
  <2>2. batch'[w] = batch[w] \ {c}
    BY <1>1
  <2> QED BY <1>2, <1>4, <1>5, <1>6, <2>1, <2>2 DEF Fresh
<1>8. ASSUME NEW f \in Events PROVE Counted(w, f)'
  <2>1. Counted(w, f) /\ Held(w, f) = 0 /\ Acked(w, f) = 0
    BY <1>4 DEF OneInv, Held, Acked, Sent
  <2>2. Settled(f)' = Settled(f) /\ events'[f] = events[f] /\ Settled(f) \in {0, 1}
    BY <1>2 DEF Settled
  <2>3. CASE f = c.id
    <3>1. /\ Held(w, f)' = 1 /\ Acked(w, f)' = (IF ok THEN 1 ELSE 0)
          /\ posts'[f] = posts[f] + 1 /\ acks'[f] = (IF ok THEN acks[f] + 1 ELSE acks[f])
      BY <1>1, <1>5, <1>6, <2>3 DEF Held, Acked, Sent
    <3>2. faults \in Nat /\ posts[f] \in Nat /\ acks[f] \in Nat /\ events[f].attempts \in Nat
      BY DEF EventRow
    <3> HIDE DEF Inv, TypeOK
    <3> QED BY <1>2, <2>1, <2>2, <3>1, <3>2 DEF Counted
  <2>4. CASE f # c.id
    <3>1. /\ Held(w, f)' = 0 /\ Acked(w, f)' = 0
          /\ posts'[f] = posts[f] /\ acks'[f] = acks[f]
      BY <1>1, <1>5, <1>6, <2>4 DEF Held, Acked, Sent
    <3> QED BY <1>2, <2>1, <2>2, <3>1 DEF Counted
  <2> QED BY <2>3, <2>4
<1> QED BY <1>7, <1>8

\* What every Mark does but for the row it writes.
LEMMA OneMark ==
    ASSUME OneWorker, Inv, OneInv, NEW w \in Workers, wpc[w] = "marking", Continue(w),
           NEW e \in Events, e = sending[w].copy.id,
           events' \in [Events -> EventRow],
           \A f \in Events : f # e => events'[f] = events[f],
           events[e].attempts + Settled(e) + 1 = events'[e].attempts + Settled(e)',
           Settled(e) + Acked(w, e) <= Settled(e)',
           events'[e].attempts <= MaxAttempts,
           events'[e].status = "PENDING" => events'[e].attempts < MaxAttempts,
           events'[e].status = "FAILED" => events'[e].attempts = MaxAttempts
    PROVE  OneInv'
<1> SUFFICES Fresh(w)' /\ \A f \in Events : Counted(w, f)'
  BY DEF OneInv, OneWorker
<1> USE DEF Inv, TypeOK
<1>1. /\ sending'[w] = None
      /\ wpc'[w] = IF batch[w] = {} THEN "sleeping" ELSE "posting"
      /\ UNCHANGED <<now, batch, posts, acks, faults>>
  BY DEF Continue
<1>2. sending[w] \in Outcome /\ sending[w] # None /\ e \in Events
  BY NoneAssumption DEF SendingCounts, Outcome, Copy
<1>3. Current(sending[w].copy) /\ sending[w].copy \notin batch[w]
  BY <1>2 DEF OneInv, Fresh
<1>4. Fresh(w)'
  <2>1. ASSUME NEW c \in batch[w] PROVE Current(c)'
    <3>1. Current(c)
      BY DEF OneInv, Fresh
    <3>2. c.id # e
      BY <1>3, <3>1 DEF Current
    <3>3. events'[c.id] = events[c.id]
      BY <3>1, <3>2, CurrentIsRow
    <3> QED BY <1>1, <3>1, <3>3, CurrentStays
  <2> QED BY <1>1, <2>1 DEF Fresh
<1>5. ASSUME NEW f \in Events PROVE Counted(w, f)'
  <2>1. Counted(w, f) /\ Held(w, f)' = 0 /\ Acked(w, f)' = 0
    BY <1>1 DEF OneInv, Held, Acked, Sent
  <2>2. CASE f # e
    <3>1. Held(w, f) = 0 /\ Acked(w, f) = 0
      BY <2>2 DEF Held, Acked, Sent
    <3>2. events'[f] = events[f] /\ Settled(f)' = Settled(f)
      BY <2>2 DEF Settled
    <3> QED BY <1>1, <2>1, <3>1, <3>2 DEF Counted
  <2>3. CASE f = e
    <3>1. Held(w, e) = 1 /\ Acked(w, e) \in {0, 1}
      BY <1>2 DEF Held, Acked, Sent
    <3>2. Settled(e) \in {0, 1} /\ Settled(e)' \in {0, 1}
      BY DEF Settled
    <3>3. /\ events[e].attempts \in Nat /\ events'[e].attempts \in Nat
          /\ posts[e] \in Nat /\ acks[e] \in Nat /\ faults \in Nat
      BY <1>2 DEF EventRow
    <3> QED BY <1>1, <2>1, <2>3, <3>1, <3>2, <3>3 DEF Counted
  <2> QED BY <2>2, <2>3
<1> QED BY <1>4, <1>5

\* The row of the POST in hand, when it is marked.
LEMMA InHandIsPending ==
    ASSUME Inv, OneInv, NEW w \in Workers, wpc[w] = "marking"
    PROVE  LET e == sending[w].copy.id
           IN  /\ sending[w] \in Outcome /\ e \in Events
               /\ events[e].status = "PENDING" /\ events[e].attempts < MaxAttempts
               /\ sending[w].copy.attempts = events[e].attempts
               /\ Settled(e) = 0
               /\ Acked(w, e) = IF sending[w].ok THEN 1 ELSE 0
<1> DEFINE e == sending[w].copy.id
<1>1. sending[w] \in Outcome /\ sending[w] # None
  BY NoneAssumption DEF Inv, SendingCounts
<1>2. Current(sending[w].copy)
  BY <1>1 DEF OneInv, Fresh
<1>3. /\ e \in Events /\ events[e].status = "PENDING"
      /\ sending[w].copy.attempts = events[e].attempts
  BY <1>2, CurrentIsRow
<1>4. events[e].attempts < MaxAttempts
  BY <1>3 DEF OneInv, Counted
<1> QED BY <1>1, <1>3, <1>4 DEF Settled, Acked, Sent

LEMMA OneMarkDelivered ==
    ASSUME OneWorker, Inv, OneInv, NEW w \in Workers, MarkDelivered(w) PROVE OneInv'
<1> USE DEF Inv, TypeOK
<1>0. PICK e \in Events : e = sending[w].copy.id
  BY InHandIsPending DEF MarkDelivered
<1>1. wpc[w] = "marking" /\ sending[w].ok /\ Continue(w)
      /\ events' = [events EXCEPT ![e].status = "DELIVERED"]
  BY <1>0 DEF MarkDelivered
<1>2. /\ e \in Events /\ events[e].status = "PENDING" /\ events[e].attempts < MaxAttempts
      /\ Settled(e) = 0 /\ Acked(w, e) = 1
  BY <1>0, <1>1, InHandIsPending
<1>3. /\ events'[e].status = "DELIVERED" /\ events'[e].attempts = events[e].attempts
      /\ events[e].attempts \in Nat /\ events' \in [Events -> EventRow]
  BY <1>1, <1>2 DEF EventRow
<1>4. Settled(e)' = 1
  BY <1>3 DEF Settled
<1>5. \A f \in Events : f # e => events'[f] = events[f]
  BY <1>1
<1>6. /\ events[e].attempts + Settled(e) + 1 = events'[e].attempts + Settled(e)'
      /\ Settled(e) + Acked(w, e) <= Settled(e)'
      /\ events'[e].attempts <= MaxAttempts
      /\ events'[e].status = "PENDING" => events'[e].attempts < MaxAttempts
      /\ events'[e].status = "FAILED" => events'[e].attempts = MaxAttempts
  BY <1>2, <1>3, <1>4, WebhooksAssumption
<1> HIDE DEF Inv, TypeOK
<1> QED BY <1>0, <1>1, <1>3, <1>5, <1>6, OneMark

LEMMA OneMarkFailed ==
    ASSUME OneWorker, Inv, OneInv, NEW w \in Workers, MarkFailed(w) PROVE OneInv'
<1> USE DEF Inv, TypeOK
<1>0. PICK e \in Events : e = sending[w].copy.id
  BY InHandIsPending DEF MarkFailed
<1>1. wpc[w] = "marking" /\ ~sending[w].ok /\ Continue(w) /\ NewCount(w) >= MaxAttempts
      /\ events' = [events EXCEPT ![e].status = "FAILED", ![e].attempts = NewCount(w)]
  BY <1>0 DEF MarkFailed
<1>2. /\ e \in Events /\ events[e].status = "PENDING" /\ events[e].attempts < MaxAttempts
      /\ sending[w].copy.attempts = events[e].attempts
      /\ Settled(e) = 0 /\ Acked(w, e) = 0
  BY <1>0, <1>1, InHandIsPending
<1>3. NewCount(w) = events[e].attempts + 1 /\ NewCount(w) = MaxAttempts
      /\ events[e].attempts \in Nat
  BY <1>1, <1>2, WebhooksAssumption DEF NewCount, EventRow
<1>4. /\ events'[e].status = "FAILED" /\ events'[e].attempts = NewCount(w)
      /\ events' \in [Events -> EventRow]
  BY <1>1, <1>2, <1>3 DEF EventRow
<1>5. Settled(e)' = 0
  BY <1>4 DEF Settled
<1>6. \A f \in Events : f # e => events'[f] = events[f]
  BY <1>1
<1>7. /\ events[e].attempts + Settled(e) + 1 = events'[e].attempts + Settled(e)'
      /\ Settled(e) + Acked(w, e) <= Settled(e)'
      /\ events'[e].attempts <= MaxAttempts
      /\ events'[e].status = "PENDING" => events'[e].attempts < MaxAttempts
      /\ events'[e].status = "FAILED" => events'[e].attempts = MaxAttempts
  BY <1>2, <1>3, <1>4, <1>5, WebhooksAssumption
<1> HIDE DEF Inv, TypeOK
<1> QED BY <1>0, <1>1, <1>4, <1>6, <1>7, OneMark

LEMMA OneScheduleRetry ==
    ASSUME OneWorker, Inv, OneInv, NEW w \in Workers, ScheduleRetry(w) PROVE OneInv'
<1> USE DEF Inv, TypeOK
<1>0. PICK e \in Events : e = sending[w].copy.id
  BY InHandIsPending DEF ScheduleRetry
<1>1. wpc[w] = "marking" /\ ~sending[w].ok /\ Continue(w) /\ NewCount(w) < MaxAttempts
  BY DEF ScheduleRetry
<1>2. PICK d \in Within20Percent(Base(NewCount(w))) :
         events' = [events EXCEPT ![e].attempts = NewCount(w), ![e].nextAt = now + d]
  BY <1>0 DEF ScheduleRetry
<1>3. /\ e \in Events /\ events[e].status = "PENDING"
      /\ sending[w].copy.attempts = events[e].attempts
      /\ Settled(e) = 0 /\ Acked(w, e) = 0
  BY <1>0, <1>1, InHandIsPending
<1>4. NewCount(w) = events[e].attempts + 1 /\ events[e].attempts \in Nat
  BY <1>3 DEF NewCount, EventRow
<1>5. now + d \in Nat
  BY <1>2 DEF Within20Percent
<1>6. /\ events'[e].status = "PENDING" /\ events'[e].attempts = NewCount(w)
      /\ events' \in [Events -> EventRow]
  <2>1. events'[e] = [events[e] EXCEPT !.attempts = NewCount(w), !.nextAt = now + d]
    BY <1>2, <1>3
  <2>2. events'[e] \in EventRow
    <3>1. events[e] \in EventRow /\ NewCount(w) \in Nat
      BY <1>3, <1>4
    <3> QED BY <1>5, <2>1, <3>1 DEF EventRow
  <2> QED BY <1>2, <1>3, <1>4, <2>1, <2>2 DEF EventRow
<1>7. Settled(e)' = 0
  BY <1>6 DEF Settled
<1>8. \A f \in Events : f # e => events'[f] = events[f]
  BY <1>2
<1>9. /\ events[e].attempts + Settled(e) + 1 = events'[e].attempts + Settled(e)'
      /\ Settled(e) + Acked(w, e) <= Settled(e)'
      /\ events'[e].attempts <= MaxAttempts
      /\ events'[e].status = "PENDING" => events'[e].attempts < MaxAttempts
      /\ events'[e].status = "FAILED" => events'[e].attempts = MaxAttempts
  BY <1>1, <1>3, <1>4, <1>6, <1>7, WebhooksAssumption
<1> HIDE DEF Inv, TypeOK
<1> QED BY <1>0, <1>1, <1>6, <1>8, <1>9, OneMark

\* A POST that is forgotten is one more that a fault accounts for.
LEMMA OneLose ==
    ASSUME OneWorker, Inv, OneInv, NEW w \in Workers, NEW p \in {"sleeping", "dead"}, Lose(w, p)
    PROVE  OneInv'
<1> SUFFICES Fresh(w)' /\ \A f \in Events : Counted(w, f)'
  BY DEF OneInv, OneWorker
<1> USE DEF Inv, TypeOK
<1>1. /\ faults' = faults + 1 /\ wpc'[w] = p /\ batch'[w] = {} /\ sending'[w] = None
      /\ UNCHANGED <<events, now, posts, acks>>
  BY DEF Lose
<1>2. Fresh(w)'
  BY <1>1 DEF Fresh
<1>3. ASSUME NEW f \in Events PROVE Counted(w, f)'
  <2>1. /\ Counted(w, f) /\ Held(w, f)' = 0 /\ Acked(w, f)' = 0 /\ Settled(f)' = Settled(f)
        /\ Held(w, f) \in {0, 1} /\ Acked(w, f) \in {0, 1} /\ Settled(f) \in {0, 1}
    BY <1>1 DEF OneInv, Held, Acked, Sent, Settled
  <2>2. events[f].attempts \in Nat /\ posts[f] \in Nat /\ acks[f] \in Nat /\ faults \in Nat
    BY DEF EventRow
  <2> QED BY <1>1, <2>1, <2>2 DEF Counted
<1> QED BY <1>2, <1>3

LEMMA OneRestart == ASSUME OneWorker, Inv, OneInv, NEW w \in Workers, Restart(w) PROVE OneInv'
<1> SUFFICES Fresh(w)' /\ \A f \in Events : Counted(w, f)'
  BY DEF OneInv, OneWorker
<1> USE DEF Inv, TypeOK
<1>1. /\ wpc[w] = "dead" /\ wpc'[w] = "sleeping"
      /\ UNCHANGED <<events, now, batch, sending, posts, acks, faults>>
  BY DEF Restart
<1>2. sending[w] = None /\ batch[w] = {}
  BY <1>1 DEF OneInv, Fresh
<1>3. Fresh(w)'
  BY <1>1, <1>2 DEF Fresh
<1>4. \A f \in Events : Counted(w, f)'
  BY <1>1 DEF OneInv, Counted, Settled, Held, Acked, Sent
<1> QED BY <1>3, <1>4

LEMMA OneNext == ASSUME OneWorker, Inv, OneInv, [Next]_vars PROVE OneInv'
<1>1. ASSUME NEW e \in Events, Insert(e) PROVE OneInv'
  BY <1>1, OneInsert
<1>2. CASE Tick
  BY <1>2, OneTick
<1>3. ASSUME NEW w \in Workers, Poll(w) \/ Post(w) \/ Restart(w) PROVE OneInv'
  BY <1>3, OnePoll, OnePost, OneRestart
<1>4. ASSUME NEW w \in Workers, Mark(w) PROVE OneInv'
  BY <1>4, OneMarkDelivered, OneMarkFailed, OneScheduleRetry DEF Mark
<1>5. ASSUME NEW w \in Workers, Abandon(w) \/ Die(w) PROVE OneInv'
  BY <1>5, OneLose DEF Abandon, Die
<1>6. CASE UNCHANGED vars
  BY <1>6 DEF vars, OneInv, Fresh, Current, Due, CopyOf, Counted, Settled, Held, Acked, Sent
<1> QED BY <1>1, <1>2, <1>3, <1>4, <1>5, <1>6 DEF Next

\* With one worker, for every number of events, attempts and faults, each copy
\* the worker has is the row as it is, and no POST is lost from the counts but by
\* a fault.
THEOREM OneWorkerInvariance == OneWorker => (Spec => [](Inv /\ OneInv))
<1> SUFFICES ASSUME OneWorker PROVE Spec => [](Inv /\ OneInv)
  OBVIOUS
<1>1. Init => Inv /\ OneInv
  BY InitInv, OneInit
<1>2. Inv /\ OneInv /\ [Next]_vars => (Inv /\ OneInv)'
  BY NextInv, OneNext
<1> QED BY <1>1, <1>2, PTL DEF Spec

\* With one worker, an event that is given up had MaxAttempts POSTs that were
\* not accepted, and its attempt_count says MaxAttempts.
THEOREM FailedIsExhausted == OneWorker => (Spec => []FailedWasExhausted)
<1> SUFFICES ASSUME OneWorker PROVE Spec => []FailedWasExhausted
  OBVIOUS
<1>1. ASSUME Inv, OneInv PROVE FailedWasExhausted
  <2> SUFFICES ASSUME NEW e \in Events, events[e].status = "FAILED"
               PROVE  events[e].attempts = MaxAttempts /\ posts[e] - acks[e] >= MaxAttempts
    BY DEF FailedWasExhausted
  <2>1. PICK w \in Workers : TRUE
    BY DEF OneWorker
  <2>2. events[e].attempts = MaxAttempts
    BY <1>1, <2>1 DEF OneInv, Counted
  <2>3. acks[e] + MaxAttempts <= posts[e]
    BY <1>1 DEF Inv, RowCounts, Failures
  <2> QED BY <1>1, <2>2, <2>3, WebhooksAssumption DEF Inv, TypeOK
<1> QED BY <1>1, OneWorkerInvariance, PTL

LEMMA InHandIsHeld ==
    ASSUME OneWorker, NEW w \in Workers, NEW e PROVE Cardinality(InHand(e)) = Held(w, e)
<1>1. Workers = {w}
  BY DEF OneWorker
<1>2. CASE Sent(w, e)
  <2>1. InHand(e) = {w}
    BY <1>1, <1>2 DEF InHand, Sent
  <2> QED BY <1>2, <2>1, FS_Singleton DEF Held
<1>3. CASE ~Sent(w, e)
  <2>1. InHand(e) = {}
    BY <1>1, <1>3 DEF InHand, Sent
  <2> QED BY <1>3, <2>1, FS_EmptySet DEF Held
<1> QED BY <1>2, <1>3

\* With one worker, attempt_count misses only the POSTs that succeeded, the one in
\* hand and what faults lost, and a merchant acknowledges an event twice only
\* after a fault.
THEOREM AttemptsAreCounted == OneWorker => (Spec => []AttemptsCounted)
<1> SUFFICES ASSUME OneWorker PROVE Spec => []AttemptsCounted
  OBVIOUS
<1>1. ASSUME Inv, OneInv PROVE AttemptsCounted
  <2>1. PICK w \in Workers : TRUE
    BY DEF OneWorker
  <2>2. ASSUME NEW e \in Events
        PROVE  /\ Counted(w, e) /\ Cardinality(InHand(e)) = Held(w, e)
               /\ acks[e] <= 1 + faults
    <3>1. Counted(w, e) /\ Fresh(w)
      BY <1>1 DEF OneInv
    <3>2. Sent(w, e) => events[e].status = "PENDING"
      BY <3>1, CurrentIsRow DEF Fresh, Sent
    <3>3. Settled(e) + Acked(w, e) \in {0, 1}
      BY <3>2 DEF Settled, Acked
    <3>4. Settled(e) + Acked(w, e) <= 1
      BY <3>3
    <3> QED BY <1>1, <3>1, <3>3, <3>4, InHandIsHeld DEF Counted, Inv, TypeOK
  <2> QED BY <2>2 DEF AttemptsCounted, Counted, Settled
<1> QED BY <1>1, OneWorkerInvariance, PTL

\* With one worker, a POST goes out only for an event that is PENDING and due at
\* that moment and whose merchant has a URL.
THEOREM PostsOnlyWhatIsDue == OneWorker => (Spec => PostOnlyDue)
<1> SUFFICES ASSUME OneWorker PROVE Spec => PostOnlyDue
  OBVIOUS
<1> DEFINE Due1 == \A e \in Events : posts'[e] # posts[e] =>
                      e \in WithUrl /\ events[e].status = "PENDING" /\ events[e].nextAt <= now
<1>1. ASSUME Inv, OneInv, [Next]_vars PROVE Due1
  <2>1. CASE UNCHANGED posts
    BY <2>1
  <2>2. ASSUME NEW w \in Workers, Post(w) PROVE Due1
    <3>1. PICK c \in batch[w] : posts' = [posts EXCEPT ![c.id] = @ + 1]
      BY <2>2 DEF Post
    <3>2. Current(c)
      BY <1>1 DEF OneInv, Fresh
    <3>3. \A e \in Events : posts'[e] # posts[e] => e = c.id
      BY <1>1, <3>1 DEF Inv, TypeOK
    <3> QED BY <3>2, <3>3, CurrentIsRow
  <2>3. ASSUME NEW w \in Workers, Poll(w) \/ Mark(w) \/ Abandon(w) \/ Die(w) \/ Restart(w)
        PROVE  UNCHANGED posts
    BY <2>3 DEF Poll, Mark, MarkDelivered, MarkFailed, ScheduleRetry, Continue,
                Abandon, Die, Lose, Restart
  <2>4. ASSUME (\E e \in Events : Insert(e)) \/ Tick \/ UNCHANGED vars PROVE UNCHANGED posts
    BY <2>4 DEF Insert, Tick, vars
  <2> QED BY <1>1, <2>1, <2>2, <2>3, <2>4 DEF Next
<1> HIDE DEF Due1
<1>2. Spec => [][Due1]_vars
  BY <1>1, OneWorkerInvariance, PTL DEF Spec
<1> QED BY <1>2 DEF PostOnlyDue, Due1

\* With one worker, a row that is DELIVERED or FAILED never changes again.
THEOREM TerminalStays == OneWorker => (Spec => TerminalIsFinal)
<1> SUFFICES ASSUME OneWorker PROVE Spec => TerminalIsFinal
  OBVIOUS
<1> DEFINE Final == \A e \in Events : events[e].status \in {"DELIVERED", "FAILED"} =>
                                         events'[e] = events[e]
<1>1. ASSUME Inv, OneInv, [Next]_vars PROVE Final
  <2>1. CASE UNCHANGED events
    BY <2>1
  <2>2. ASSUME NEW w \in Workers, Mark(w) PROVE Final
    <3>1. wpc[w] = "marking"
          /\ \A f \in Events : f # sending[w].copy.id => events'[f] = events[f]
      BY <1>1, <2>2 DEF Inv, TypeOK, Mark, MarkDelivered, MarkFailed, ScheduleRetry
    <3> QED BY <1>1, <3>1, InHandIsPending
  <2>3. ASSUME NEW e \in Events, Insert(e) PROVE Final
    BY <1>1, <2>3 DEF Inv, TypeOK, Insert
  <2>4. ASSUME NEW w \in Workers, Poll(w) \/ Post(w) \/ Abandon(w) \/ Die(w) \/ Restart(w)
        PROVE  UNCHANGED events
    BY <2>4 DEF Poll, Post, Abandon, Die, Lose, Restart
  <2>5. ASSUME Tick \/ UNCHANGED vars PROVE UNCHANGED events
    BY <2>5 DEF Tick, vars
  <2> QED BY <1>1, <2>1, <2>2, <2>3, <2>4, <2>5 DEF Next
<1> HIDE DEF Final
<1>2. Spec => [][Final]_vars
  BY <1>1, OneWorkerInvariance, PTL DEF Spec
<1> QED BY <1>2 DEF TerminalIsFinal, Final

-----------------------------------------------------------------------------
\* No step but Insert makes a row appear, and none makes one disappear.
LEMMA RowsStay ==
    ASSUME Inv, NEW w \in Workers,
           Poll(w) \/ Post(w) \/ Mark(w) \/ Abandon(w) \/ Die(w) \/ Restart(w)
    PROVE  \A e \in Events : events'[e].status = "ABSENT" <=> events[e].status = "ABSENT"
<1> USE DEF Inv, TypeOK
<1>1. CASE Poll(w) \/ Post(w) \/ Abandon(w) \/ Die(w) \/ Restart(w)
  BY <1>1 DEF Poll, Post, Abandon, Die, Restart, Lose
<1>2. CASE Mark(w)
  <2>1. /\ sending[w].copy.id \in Events
        /\ events[sending[w].copy.id].status # "ABSENT"
    BY <1>2 DEF Mark, MarkDelivered, MarkFailed, ScheduleRetry, SendingCounts, Outcome, Copy
  <2>2. CASE MarkDelivered(w)
    BY <2>1, <2>2 DEF MarkDelivered, EventRow
  <2>3. CASE MarkFailed(w)
    BY <2>1, <2>3 DEF MarkFailed, EventRow
  <2>4. CASE ScheduleRetry(w)
    BY <2>1, <2>4 DEF ScheduleRetry, EventRow
  <2> QED BY <1>2, <2>2, <2>3, <2>4 DEF Mark
<1> QED BY <1>1, <1>2
=============================================================================
