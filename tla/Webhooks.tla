------------------------------ MODULE Webhooks ------------------------------
(***************************************************************************)
(* The outbox worker of LedgerPay (backend/app/worker/webhook_worker.py):  *)
(* it polls webhook_events for what is due, POSTs each event of the batch  *)
(* to the merchant and commits the outcome, event by event.                *)
(*                                                                         *)
(* A batch is a copy of the rows, read without a lock; what a worker       *)
(* writes back is computed from its copy.  The UPDATE of an event and its  *)
(* commit are one step: a fault between them leaves what a fault before    *)
(* the UPDATE leaves.  Time is a counter of ticks, and stands still while  *)
(* no event waits for it: next_attempt_at is only ever compared with now.  *)
(*                                                                         *)
(* A POST is accepted when raise_for_status lets the answer pass: a 2xx,   *)
(* and any other status below 400 that requests does not follow.           *)
(***************************************************************************)
EXTENDS Integers, FiniteSets, Sequences

CONSTANTS
    Events,       \* outbox rows that confirms may insert
    WithUrl,      \* those whose merchant has a webhook_url
    Workers,      \* worker processes
    MaxAttempts,  \* settings.webhook_max_attempts
    Backoff,      \* _BACKOFF_SECONDS, in ticks
    BatchSize,    \* LIMIT of the poll
    MaxFaults,    \* bound on the faults explored
    None          \* no copy in hand

ASSUME WebhooksAssumption ==
    /\ WithUrl \subseteq Events
    /\ MaxAttempts \in Nat \ {0}
    /\ Backoff \in Seq(Nat \ {0}) /\ Backoff # <<>>
    /\ BatchSize \in Nat \ {0}
    /\ MaxFaults \in Nat

VARIABLES
    events,   \* webhook_events, as committed
    now,      \* the clock
    wpc,      \* what each worker does next
    batch,    \* the copies of its batch it has still to deliver
    sending,  \* the copy it has just POSTed, and whether it was accepted
    posts,    \* how often each event was POSTed
    acks,     \* how often its POST was accepted
    faults    \* faults so far

vars == <<events, now, wpc, batch, sending, posts, acks, faults>>

EventRow == [status : {"ABSENT", "PENDING", "DELIVERED", "FAILED"},
             attempts : Nat, nextAt : Nat]
Copy == [id : Events, attempts : Nat, nextAt : Nat]
Outcome == [copy : Copy, ok : BOOLEAN]

ASSUME NoneAssumption == None \notin Outcome

TypeOK ==
    /\ events \in [Events -> EventRow]
    /\ now \in Nat
    /\ wpc \in [Workers -> {"sleeping", "posting", "marking", "dead"}]
    /\ batch \in [Workers -> SUBSET Copy]
    /\ sending \in [Workers -> Outcome \cup {None}]
    /\ posts \in [Events -> Nat]
    /\ acks \in [Events -> Nat]
    /\ faults \in 0..MaxFaults

Init ==
    /\ events = [e \in Events |-> [status |-> "ABSENT", attempts |-> 0, nextAt |-> 0]]
    /\ now = 0
    /\ wpc = [w \in Workers |-> "sleeping"]
    /\ batch = [w \in Workers |-> {}]
    /\ sending = [w \in Workers |-> None]
    /\ posts = [e \in Events |-> 0]
    /\ acks = [e \in Events |-> 0]
    /\ faults = 0

-----------------------------------------------------------------------------
(* The world around the worker. *)

\* A confirm commits the event: insert_outbox_event and the column defaults.  The
\* default of next_attempt_at is the time at which its transaction began.
Insert(e) ==
    /\ events[e].status = "ABSENT"
    /\ \E began \in 0..now :
          events' = [events EXCEPT ![e] =
                        [status |-> "PENDING", attempts |-> 0, nextAt |-> began]]
    /\ UNCHANGED <<now, wpc, batch, sending, posts, acks, faults>>

Tick ==
    /\ \E e \in Events : events[e].status = "PENDING" /\ events[e].nextAt > now
    /\ now' = now + 1
    /\ UNCHANGED <<events, wpc, batch, sending, posts, acks, faults>>

-----------------------------------------------------------------------------
(* fetch_pending_events. *)

\* Mutant: the join keeps merchants without a URL.
DueWithoutUrl == {e \in Events : events[e].status = "PENDING" /\ events[e].nextAt <= now}

\* Mutant: no WHERE status = 'PENDING'.
DueAnyStatus == {e \in WithUrl : events[e].status # "ABSENT" /\ events[e].nextAt <= now}

\* Mutant: the poll skips events that have one attempt left.
DueButLast == {e \in WithUrl : /\ events[e].status = "PENDING" /\ events[e].nextAt <= now
                               /\ events[e].attempts + 1 < MaxAttempts}

Due == {e \in WithUrl : events[e].status = "PENDING" /\ events[e].nextAt <= now}

\* ORDER BY next_attempt_at ASC LIMIT BatchSize: whatever ties leave open.
OldestDue ==
    {B \in SUBSET Due :
        /\ Cardinality(B) <= BatchSize
        /\ B = Due \/ Cardinality(B) = BatchSize
        /\ \A e \in B, f \in Due \ B : events[e].nextAt <= events[f].nextAt}

CopyOf(e) == [id |-> e, attempts |-> events[e].attempts, nextAt |-> events[e].nextAt]

Poll(w) ==
    /\ wpc[w] = "sleeping"
    /\ Due # {}
    /\ \E B \in OldestDue : batch' = [batch EXCEPT ![w] = {CopyOf(e) : e \in B}]
    /\ wpc' = [wpc EXCEPT ![w] = "posting"]
    /\ UNCHANGED <<events, now, sending, posts, acks, faults>>

-----------------------------------------------------------------------------
(* deliver_event. *)

\* The next copy of the batch goes out.  A status from 400 on, a timeout (10 s for
\* the connection and between two reads) or a broken connection is a failed
\* attempt, whether or not the merchant got the POST.
Post(w) ==
    /\ wpc[w] = "posting"
    /\ \E c \in batch[w], ok \in BOOLEAN :
          /\ \A d \in batch[w] : c.nextAt <= d.nextAt
          /\ batch' = [batch EXCEPT ![w] = @ \ {c}]
          /\ sending' = [sending EXCEPT ![w] = [copy |-> c, ok |-> ok]]
          /\ posts' = [posts EXCEPT ![c.id] = @ + 1]
          /\ acks' = [acks EXCEPT ![c.id] = IF ok THEN @ + 1 ELSE @]
    /\ wpc' = [wpc EXCEPT ![w] = "marking"]
    /\ UNCHANGED <<events, now, faults>>

\* _backoff_with_jitter: the index is 0-based and saturates; +/- 20%.
Base(n) == Backoff[(IF n < Len(Backoff) - 1 THEN n ELSE Len(Backoff) - 1) + 1]
Within20Percent(base) == {d \in 1..(2 * base) : 4 * base <= 5 * d /\ 5 * d <= 6 * base}

\* What follows the UPDATE and its commit: the next event, or the next poll.
Continue(w) ==
    /\ wpc' = [wpc EXCEPT ![w] = IF batch[w] = {} THEN "sleeping" ELSE "posting"]
    /\ sending' = [sending EXCEPT ![w] = None]
    /\ UNCHANGED <<now, batch, posts, acks, faults>>

\* Mutant: the count is written back as it was read.
SameCount(w) == sending[w].copy.attempts

NewCount(w) == sending[w].copy.attempts + 1

MarkDelivered(w) ==
    /\ wpc[w] = "marking"
    /\ sending[w].ok
    /\ events' = [events EXCEPT ![sending[w].copy.id].status = "DELIVERED"]
    /\ Continue(w)

\* Mutant: the limit is one attempt too low.
MarkFailedEarly(w) ==
    /\ wpc[w] = "marking"
    /\ ~sending[w].ok
    /\ NewCount(w) >= MaxAttempts - 1
    /\ events' = [events EXCEPT ![sending[w].copy.id].status = "FAILED",
                                ![sending[w].copy.id].attempts = NewCount(w)]
    /\ Continue(w)

MarkFailed(w) ==
    /\ wpc[w] = "marking"
    /\ ~sending[w].ok
    /\ NewCount(w) >= MaxAttempts
    /\ events' = [events EXCEPT ![sending[w].copy.id].status = "FAILED",
                                ![sending[w].copy.id].attempts = NewCount(w)]
    /\ Continue(w)

\* Mutant: the retry sets the status as well.
ScheduleRetryReopens(w) ==
    /\ wpc[w] = "marking"
    /\ ~sending[w].ok
    /\ NewCount(w) < MaxAttempts
    /\ \E d \in Within20Percent(Base(NewCount(w))) :
          events' = [events EXCEPT ![sending[w].copy.id] =
                        [status |-> "PENDING", attempts |-> NewCount(w), nextAt |-> now + d]]
    /\ Continue(w)

ScheduleRetry(w) ==
    /\ wpc[w] = "marking"
    /\ ~sending[w].ok
    /\ NewCount(w) < MaxAttempts
    /\ \E d \in Within20Percent(Base(NewCount(w))) :
          events' = [events EXCEPT ![sending[w].copy.id].attempts = NewCount(w),
                                   ![sending[w].copy.id].nextAt = now + d]
    /\ Continue(w)

-----------------------------------------------------------------------------
(* Faults. *)

Lose(w, p) ==
    /\ faults < MaxFaults
    /\ faults' = faults + 1
    /\ wpc' = [wpc EXCEPT ![w] = p]
    /\ batch' = [batch EXCEPT ![w] = {}]
    /\ sending' = [sending EXCEPT ![w] = None]
    /\ UNCHANGED <<events, now, posts, acks>>

\* The database raises: run_once is left, the outcome in hand is rolled back
\* with the rest of the batch, and run_forever logs and polls again.
Abandon(w) == wpc[w] \in {"posting", "marking"} /\ Lose(w, "sleeping")

\* The process dies, and nothing in start.sh starts it again...
Die(w) == wpc[w] # "dead" /\ Lose(w, "dead")

\* ...until the whole container is started anew.
Restart(w) ==
    /\ wpc[w] = "dead"
    /\ wpc' = [wpc EXCEPT ![w] = "sleeping"]
    /\ UNCHANGED <<events, now, batch, sending, posts, acks, faults>>

-----------------------------------------------------------------------------
Mark(w) == MarkDelivered(w) \/ MarkFailed(w) \/ ScheduleRetry(w)

Next ==
    \/ \E e \in Events : Insert(e)
    \/ Tick
    \/ \E w \in Workers : Poll(w) \/ Post(w) \/ Mark(w) \/ Abandon(w) \/ Die(w) \/ Restart(w)

Spec == Init /\ [][Next]_vars

\* Time passes, and a worker that is alive goes on; nobody restarts a dead one.
FairSpec ==
    /\ Spec
    /\ WF_vars(Tick)
    /\ \A w \in Workers : WF_vars(Poll(w)) /\ WF_vars(Post(w)) /\ WF_vars(Mark(w))

-----------------------------------------------------------------------------
(* Safety. *)

\* An event is DELIVERED only if the merchant accepted one of its POSTs, however
\* many workers race for it.  (raise_for_status comes before _mark_delivered.)
DeliveredWasAcked ==
    \A e \in Events : events[e].status = "DELIVERED" => acks[e] > 0

\* With one worker, an event is given up only after MaxAttempts POSTs that were
\* not accepted, and its count says so.
FailedWasExhausted ==
    \A e \in Events : events[e].status = "FAILED" =>
        /\ events[e].attempts = MaxAttempts
        /\ posts[e] - acks[e] >= MaxAttempts

InHand(e) == {w \in Workers : sending[w] # None /\ sending[w].copy.id = e}

\* With one worker, attempt_count misses a POST only if it succeeded, is being
\* marked, or was lost to a fault: a merchant gets an event again that he has
\* accepted, or more than MaxAttempts times, only because of a fault.
AttemptsCounted ==
    \A e \in Events :
        LET settled == IF events[e].status = "DELIVERED" THEN 1 ELSE 0
        IN  /\ events[e].attempts + settled + Cardinality(InHand(e)) <= posts[e]
            /\ posts[e] <= events[e].attempts + settled + Cardinality(InHand(e)) + faults
            /\ events[e].attempts <= MaxAttempts
            /\ acks[e] <= 1 + faults

-----------------------------------------------------------------------------
(* Action properties. *)

\* With one worker, an event is POSTed only while it is PENDING and due and its
\* merchant has a URL, though the worker goes by the copy of its batch.
PostOnlyDue ==
    [][\A e \in Events : posts'[e] # posts[e] =>
          e \in WithUrl /\ events[e].status = "PENDING" /\ events[e].nextAt <= now]_vars

\* With one worker, DELIVERED and FAILED are final, with the rest of the row:
\* the UPDATEs go by id alone, but a batch holds no event twice.
TerminalIsFinal ==
    [][\A e \in Events :
          events[e].status \in {"DELIVERED", "FAILED"} => events'[e] = events[e]]_vars

-----------------------------------------------------------------------------
(* Liveness. *)

\* An event with a URL ends DELIVERED or FAILED, unless the workers are dead: no
\* event starves behind a full batch, however the others fail.
EventuallyProcessed ==
    \A e \in WithUrl :
        events[e].status = "PENDING" ~>
            \/ events[e].status \in {"DELIVERED", "FAILED"}
            \/ \A w \in Workers : wpc[w] = "dead"

-----------------------------------------------------------------------------
(* Refinement. *)

Contract == INSTANCE Delivery
            WITH Limit <- MaxAttempts,
                 status <- [e \in Events |-> events[e].status],
                 tries <- posts,
                 hits <- acks

\* However many workers race on stale copies, crash or lose the answer of a POST,
\* the outbox keeps the contract: no event is POSTed before its confirm has
\* committed, DELIVERED needs one that was accepted, FAILED MaxAttempts that were not,
\* and the late _schedule_retry of a slower worker never makes it PENDING again.
ImplementsDelivery == Contract!Spec

-----------------------------------------------------------------------------
(* What the documentation says and the code does not do. *)

\* "After attempt n failure wait" the n-th delay of the list, +/- 20%.
DocumentedSchedule ==
    [][\A e \in Events :
          events[e].status = "PENDING" /\ events'[e].attempts # events[e].attempts =>
              \/ events'[e].status = "FAILED"
              \/ events'[e].nextAt - now \in Within20Percent(Backoff[events'[e].attempts])]_vars
=============================================================================
