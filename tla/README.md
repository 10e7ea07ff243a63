# A TLA+ model of LedgerPay

LedgerPay is a small payment service: a FastAPI application over PostgreSQL and
Redis, a worker that delivers webhooks, and a Next.js frontend. This directory
holds TLA+ modules that model its stateful parts, TLC configurations that check
them on small instances, and proofs that TLAPS checks for every instance. Paths
below are relative to `src/`.

Contents: [inventory](#inventory) · [what is hard here](#what-is-hard-here) ·
[modules](#modules) · [runs](#runs) · [fairness](#fairness) · [proofs](#proofs) ·
[divergences](#what-the-code-does-and-the-documentation-does-not-say) ·
[not modelled](#not-modelled) · [plan](#plan)

## Inventory

| Component | Code | State it keeps | Operations |
|---|---|---|---|
| Payment intents API | `backend/app/api/v1/payments.py`, `services/payment_service.py` | `payment_intents` | `create_intent`, `confirm_intent`; reads `get_intent`, `list_intents` |
| Idempotency cache | `core/idempotency.py`, `core/redis_client.py` | Redis slots `idem:scope:merchant:key`, 24 h | `get_cached_response`, `cache_response` |
| Mock bank | `services/mock_bank.py` | none (a real one has its record of charges) | `charge` |
| Double-entry ledger | `services/ledger_service.py`, `api/v1/ledger.py` | `ledger_entries` | hook `write_double_entry`; reads `get_balance`, `list_entries` |
| Webhook outbox | `services/webhook_service.py` | `webhook_events` | hook `insert_outbox_event` |
| Webhook worker | `worker/webhook_worker.py`, `start.sh` | the copy of its batch | poll, deliver, mark |
| Merchants, authentication | `api/v1/merchants.py`, `services/merchant_service.py`, `core/auth.py`, `core/security.py` | `merchants` | `create_merchant`, `get_current_merchant` |
| Browser session | `frontend/lib/api.ts`, `app/page.tsx`, `app/register/page.tsx` | `localStorage`, shared by all tabs | register, `saveSession`, `clearStoredSession`, sign out |
| Dashboard and form | `frontend/app/dashboard/page.tsx`, `components/PaymentForm.tsx` | React state of the page | refresh, Load More, pay |
| Warm-up gate | `frontend/components/BackendWarmupGate.tsx`, `app/api/backend-ready/route.ts` | four refs, state, a browser timer | `runCheck`, `retryNow`, effect and cleanup |
| Connections | `core/database.py`, the lifespan of `main.py`, twice per request: `core/auth.py` and the handler | a pool of 2 to 20 connections per process; PostgreSQL's sessions and row locks | `init_pool`, `close_pool`, `get_conn`: take, commit, roll back, return |
| Schema | `backend/alembic/versions/` | constraints and defaults | run before the program starts |
| Configuration, logging, CORS, proxy route, presentation | `main.py`, `core/config.py`, ... | nothing the others share | |

How they interact:

* A handler reads Redis, then opens one transaction (`get_conn`) and commits it,
  then writes Redis, then answers. A client that gets no answer sends the request
  again with the same `Idempotency-Key`.
* `confirm_payment_intent` locks the row (`SELECT ... FOR UPDATE`), checks that it
  is `CREATED`, charges the bank **inside the open transaction**, and runs the two
  hooks, ledger and outbox, in that transaction.
* The worker is another process. It shares the tables with the API, and nothing
  else: no lock, no message. It reads `webhook_events` and writes back, by id, what
  it computed from its copy.
* Every request takes a connection twice: `get_current_merchant` looks up the key in a
  transaction of its own, and the handler takes a connection again. `getconn()` never
  waits; `SELECT ... FOR UPDATE` waits with a connection in hand.
* The tabs of a browser share `localStorage`; every page's callbacks run one at a
  time, but an `await` lets everything else happen.

What makes each part correct:

* payments: charges of an intent never overlap and never follow its settlement; a
  final status is final; the books and the event exist exactly for SUCCEEDED;
  equal keys mean one intent; an answer never says what the table does not;
* ledger: debits equal credits, a balance is the money of the succeeded payments;
* worker: an event is given up only when exhausted, delivered only when acknowledged,
  counted right, never reopened, and eventually processed;
* the two together: a merchant is told of committed successes only, and of each of them;
* connections: none is shared or lost, a dead one costs one request, the row lock excludes
  as long as its session lives, and whoever lost it cannot settle the payment;
* accounts: the key in the browser works, an email has one account;
* dashboard: paging skips nothing, what is announced is in the list;
* gate: always exactly one check or one timer, and it opens.

## What is hard here

`PROJECT.json` lists each hazard at its line. The main ones:

* **Interleaving.** Two confirms of one intent, two creates with one key, two
  registrations with one email, two workers on one event. PostgreSQL's row lock and
  its wait on a colliding INSERT are what orders them, so both are modelled.
* **Crash and partial failure.** A step may raise or the process may die between any
  two statements, also between the charge and the commit, and between the commit and
  the SETEX. PostgreSQL may end a session under a thread that does not notice, and then
  `rollback()` raises as well.
* **Caches.** Slots expire or vanish, are overwritten in any order, and are named by
  merchant and key but not by intent.
* **Stale copies.** The worker's batch, the offset of Load More, the profile and
  session a late answer overwrites, a timer reference that is never reset.
* **Boundaries.** A 32-bit column under an unbounded amount, an empty header that is
  false in Python and a value in SQL, a 0-based list of delays indexed by a count.
* **Waiting.** For a row lock, for an index entry, for a batch slot, for the gate.
* **A limit.** Twenty connections under forty threads.

## Modules

### Payments.tla

The two handlers and everything they call. Each request thread has a program
counter `pc[r]`; each action is the code between two points where another thread
can matter.

| Action | Code |
|---|---|
| `Issue` | a client's call reaches the handler |
| `ServeFromCache`, `MissCache` | `get_cached_response` and the early return |
| `InsertIntent`, `InsertOutOfRange`, `InsertDuplicate`, `RecoverIntent` | `create_payment_intent`: the INSERT, what PostgreSQL makes of it, the `except` branch |
| `NotFound`, `Conflict`, `LockIntent` | SELECT FOR UPDATE with its two error returns, and the UPDATE to PROCESSING |
| `ChargeBank` | `mock_bank.charge`, the mapping of the outcome, the final UPDATE |
| `WriteDoubleEntry`, `InsertOutboxEvent` | the hooks, in their order |
| `Commit`, `StoreResponse` | the end of `get_conn()`, `cache_response` and the return |
| `Fail` | any of these raises, or the process dies: rollback and no answer |
| `Expire` | a slot of the cache is gone |

State: `intents`, `ledger`, `outbox` are the tables *as committed*. `tx[r]` is what the
open transaction of `r` has written; others see it only through the waits it causes
(`Locked`, `InsertWaits`). `view[r]` is the `PaymentIntent` the handler holds. `charged`
is the bank's record; nothing rolls it back. A UUID is the name of the request that
inserts the row, which makes it fresh by construction.

Of the data only what a property can tell apart is kept: amounts are numbers because
their last digit decides the bank's outcome and because the column has a limit;
timestamps, `failure_reason` and the JSON forms are left out.

### PaymentLifecycle.tla

The abstract specification: an intent is created once, settled at most once, and the
step that makes it SUCCEEDED is the step that books the money and owes the webhook.
`Payments!Lifecycle` is the refinement mapping: `status` is the status of the
committed row, `booked` and `noticed` the intents named in the ledger and in the
outbox. PROCESSING is not in it, since it is never committed; the state diagram of
`README.md` shows it as a state, but no other transaction can observe it.

### LedgerBooks.tla

`get_balance` over the same tables, and the two properties that add up money. A
module of its own, because it uses the folds of the community modules.

### Webhooks.tla

The worker. `Poll` copies the batch, `Post` sends the next copy and records whether the
merchant accepted it (`acks`) or not: whether `raise_for_status` lets the answer pass, which
it does for a 2xx and for any other status below 400 that is not followed (a 304, say).
`MarkDelivered`, `MarkFailed`, `ScheduleRetry` are the
three UPDATEs, each with the commit that follows. `Abandon` is an exception in the loop:
the rest of the batch is dropped and polled again. `Die` is the end of the process, which
`start.sh` does not restart; `Restart` is that of the container. `Tick` is the clock,
`Insert` the confirm that inserts the row; its `next_attempt_at` is any time up to now,
because the column's default is the time at which the transaction began. Jitter is every whole number of ticks
within 20% of the base delay. `posts`, `acks` and `faults` are records of what happened,
which the program does not have; no guard but the bound on faults reads them.

### Delivery.tla

What the outbox promises: at-least-once delivery, without batches, copies, clocks, workers
or crashes. An event is POSTed only once it is owed, DELIVERED only after a POST that was
accepted, FAILED only after `MaxAttempts` POSTs that were not, and never PENDING again. With
several workers FAILED may still replace DELIVERED and the reverse, so the contract allows
it. `Webhooks!Contract` is the refinement mapping: the status column and the two records.

### Notifications.tla

The API and the worker as one system. It extends `Payments` and takes `Webhooks` as an
instance, `Worker`, whose events are the pairs of the request that wrote a row and the
merchant it is for. `start.sh` starts both; nothing but `webhook_events` connects them.

| Action | Code |
|---|---|
| `ApiStep`, with `Publishes` | a step of a thread; if it is the commit of a successful confirm, the row it wrote is there for the worker from then on |
| `WorkerStep` | `run_once`: poll, POST, mark |
| `WorkerFault` | `run_forever`'s `except`, the death of the process, a restart of the container |
| `TimePasses` | the clock |

### ConnectionPool.tla

`Payments` takes a thread and its PostgreSQL session for one thing that fails as one. This
module takes them apart and models `get_conn()` line by line, with the confirms of one
payment and reading requests that compete with them.

| Action | Code |
|---|---|
| `Init`, `Startup`, `Shutdown` | the lifespan of `main.py`, `init_pool`, `close_pool` |
| `Arrive` | a request reaches `get_current_merchant`; `stage` says which of its two uses of the pool it is in |
| `Take`, `Connect`, `Refuse` | `getconn()`: from the pool, a new connection, or an exception outside the `try` |
| `Query` | the SELECT of the merchant, or what a reading handler reads |
| `LockRow`, `MarkProcessing`, `Charge`, `Update` | `confirm_payment_intent`; `Charge` is the only one that needs no session |
| `Commit`, `Committed` | `conn.commit()`: PostgreSQL does it, the thread hears of it |
| `Rollback` | the `except` clause after a 409 |
| `Break` | a statement on a session that is gone: it raises, `rollback()` raises, `finally` runs |
| `Return` | `putconn()`, and then the handler or the answer |
| `Cut`, `Outage`, `Recover` | PostgreSQL ends a session, goes down with all of them, comes back |

A connection is `open`, `lost` (its session is gone and nobody has noticed), `closed`
(psycopg2 knows) or `none`. The pool is psycopg2's; what `putconn()` keeps is modelled as
the library does it, since `OneFailurePerLoss` depends on it. The hooks of a confirm and its
other statements do not differ here from the final UPDATE.

### Accounts.tla

Registration as a transaction with its unique email, authentication by key, and the
browser: two tabs with one `localStorage`, requests that overlap, answers that come late
or not at all, page loads that drop the callbacks of the old page. `Request` is an HTTP
request with the tab that waits for it.

### Dashboard.tla

Refreshes (four requests, of which the list and the balance matter here), Load More,
the form with its two calls and its banner, against other clients of the merchant. The
page's newest-first list is `list`; a row may enter it anywhere, because `created_at` is
when its transaction began and not when it committed. Ghosts: `base` is the whole list
as the refresh that landed last read it, `landed` is that refresh's number, `torn` says
that a page was appended to another list than it was asked for. They are needed to say
what "nothing was skipped" means; no guard reads them.

### WarmupGate.tla

Every callback of the gate is one action: the effect, its cleanup, the timer, the button,
and the two ends of the await in `runCheck`. The cleanup may come at any moment and
the effect may run again on the same refs, as StrictMode and Fast Refresh do. Behind it
are the route (`Health`, `Root`, `Timeout`) and whoever is at the backend's URL: nobody, the
API, or the host in front of it, which may answer either request with any status, late or
never. The route takes any 2xx of `/health` (`route.ts:24`) and any status below 500 of `/`
(`route.ts:30`), so the host can open the gate too. `slow` names the checks that met
anything but an API that was up; only these may run into a timeout.

### MC modules and mutants

`MC*.tla` give the constants their values. Operators whose comment begins with "Mutant:"
are wrong variants of the definition that follows them; substituting one must break the
property that `PROJECT.json` pairs it with. No specification uses them.

## Runs

| Run | Instance | What it shows |
|---|---|---|
| `clients` | 4 requests, two merchants, one key between them or none, ids known to each other, every fault and expiry | `NoOverlappingCharges`, `NoChargeAfterSettlement`, `SameKeySameIntent`, `TruthfulAnswers`, `ConfirmAnswersItsIntent`, `TypeOK` |
| `books` | 4 requests, two merchants, two currencies, every outcome of the bank, an amount and a key over the limit of their columns | `SettlementAtomic`, `BalanceIsSucceeded`, `BooksBalance`, `ImplementsLifecycle` |
| `notify` | 3 requests, two merchants of whom one has a URL, one worker, one fault of it, any fault of the API, with fairness | `OnlySuccessIsAnnounced`, `OneRowPerSuccess`, `EveryRequestEnds`, `SuccessIsNotified` |
| `worker` | one worker, 3 events (one without URL), batch of 2, 3 attempts, delays 1 and 5, one fault | `FailedWasExhausted`, `AttemptsCounted`, `PostOnlyDue`, `TerminalIsFinal` |
| `two_workers` | two workers, 2 events, batch of 1, one fault, with fairness | `ImplementsDelivery`, `EventuallyProcessed` |
| `pool` | 3 requests of which 2 confirm one payment, 3 connection objects, minconn 1, maxconn 2, two faults, with fairness | `PoolIsClean`, `OneFailurePerLoss`, `LiveChargesExclude`, `OutcomeIsTrue`, `SettledOnce`, `RefusedByCrowd`, `NoRequestHangs`, `TypeOK` |
| `gate` | 4 names of checks and timers, with fairness | `OneCheckOrTimer`, `ButtonTellsTheTruth`, `NothingAfterCleanup`, `GateOpens`, `TypeOK` |
| `accounts` | 2 tabs, 4 requests, 2 emails | `StoredKeyWorks`, `OneAccountPerEmail`, `OnlyKeylessRefused`, `TypeOK` |
| `dashboard` | 3 payments, pages of 1, 2 refreshes, one Load More beyond the first page | `NothingSkipped`, `AnnouncedIsListed`, `TypeOK` |
| `charged_twice` | as `clients`, 3 requests | violated: `BankChargedAtMostOnce` |
| `empty_key` | 3 creates with an empty key | violated: `DuplicateInsertRecovers` |
| `schedule` | one event, no fault | violated: `DocumentedSchedule` |

Bounds, and why they are enough:

* *Requests (4).* Every property of `Payments` relates at most two requests that compete
  for one row or one key, a request that created the row, and one that changed what the
  first two read. Four requests give one create and three confirms of its intent, or two
  creates and two confirms. Requests are interchangeable, and the runs use that symmetry,
  except where liveness is checked. Every call may be the first or the last, and `Fail`
  and `Expire` are not bounded.
* *Amounts and MaxInteger.* 10, 11 and 12 give the three outcomes, 99 is over a column
  limit of 50; the numbers stand for the real ones (2^31 - 1), the code compares them
  only with the limit and modulo 10. `LongKeys` are the keys of more than 255 characters.
* *Notifications.* Three requests are a create, its confirm, and a second confirm, a create
  with the same key or a create of the other merchant. Requests are interchangeable, so only
  the intent of `r1` is confirmed. Two attempts and one delay are enough for a retry; the
  details of the schedule are `worker`'s.
* *Pool.* Three requests over two connections: two confirms fill the pool, one of them
  waiting for the other, and the third request is refused. One connection is kept and one
  dropped at `putconn()`. Two faults are a session lost under the lock and another one, or an
  outage, while the next confirm is at work.
* *Worker.* Three attempts and two delays keep what matters of five and four: one delay
  less than attempts, so that the index saturates, and the jitter of the longest reaches
  past the shortest. The batch is smaller than the number of events that can be due in
  `two_workers` only, where the LIMIT binds; in `worker` it holds both events with a URL, so
  that the second copy grows old while the first is posted. `MaxFaults` bounds faults and
  with them POSTs.
* *Gate.* One check in flight, one timer armed and one old name in the ref leave a
  fourth name free, so the bound never holds up `RunCheck`. The gate's state space is
  complete: nothing else is bounded.
* *Accounts.* Four requests are two registrations and two reads, in any tabs.
* *Dashboard.* `MaxRefreshes` = 2 lets an older refresh land after a younger;
  `MaxShown` bounds how far Load More goes (two pages, the third payment being the one
  that can be skipped).

`CHECK_DEADLOCK FALSE` is set where a behaviour may end because every request of the
instance has been used or every event is processed. The gate never stops, and is
checked for deadlock; so is the pool, where the API can always be stopped or started.

## Fairness

* `Payments!FairSpec`: each thread that can take a step takes one. A runnable thread
  is scheduled, and PostgreSQL grants a lock that is free. Nobody has to
  call, to fail or to expire. Weak fairness suffices: in the instance a thread that waits
  is overtaken only finitely often.
* `Webhooks!FairSpec`: time passes, and a worker that is alive polls, posts and marks.
  `run_forever` never ends, and the HTTP client has a timeout. Nobody restarts a dead
  worker, so `EventuallyProcessed` has the death of all workers as its exception. That
  is the truth about `start.sh`: the worker runs in the background and is not supervised.
* `Notifications!FairSystem`: both of these, over the whole system. `SuccessIsNotified` has
  the same exception: a payment may succeed after the last worker has died.
* `ConnectionPool!FairSpec`: each request that can take a step takes one. PostgreSQL may stay
  down for ever and nobody has to start the API again; `NoRequestHangs` holds all the same,
  because `getconn()` and statements raise instead of waiting. PostgreSQL grants a lock that
  is free.
* `WarmupGate!FairSpec`: timers go off and requests end. Both the route and the browser
  put a limit on every request. The model assumes that an API that is up during the
  whole of a check answers within it; a check that met anything else may end in a timeout,
  also after the API is up. Nobody has to press the button.

## Proofs

Every invariant and every action property that a passing run checks is also the statement
of a theorem. What TLC alone shows is named at the end of this section.

`PaymentsInvariant.tla` states the invariant; `PaymentsProofs.tla` proves, for any number of
requests, merchants, keys, amounts and any set of calls:

| Theorem | Statement |
|---|---|
| `CoreInvariant` | `Spec => []CoreInv` |
| `TypeCorrect` | `Spec => []TypeOK` |
| `ChargesNeverOverlap` | `Spec => []NoOverlappingCharges` |
| `ChargedBeforeSettlement` | `Spec => NoChargeAfterSettlement` |
| `RowsSettleOnce` | `Spec => SettledForever` |
| `BooksMatchStatus` | `Spec => []SettlementAtomic` |
| `RefinesLifecycle` | `Spec => ImplementsLifecycle` |
| `WholeInvariant` | `Spec => []IInv` |
| `OneIntentPerKey` | `Spec => []SameKeySameIntent` |
| `AnswersAreTrue` | `Spec => []TruthfulAnswers` |
| `ConfirmsAnswerTheirIntent` | `Spec => []ConfirmAnswersItsIntent` |

They rest only on the named assumptions of `Payments`: calls are creates or confirms,
amounts are positive, long keys are keys, `None` and the empty key are not data, and
`None` is no status code. TLC evaluates these on every run of the module.

Why an inductive invariant is needed: `NoOverlappingCharges`, say, speaks of requests
that have charged, but what keeps a second one from charging is a lock that the first took
before it charged. `CoreInv` says what is true between:

* `CallInv`: each stretch of code runs for its own kind of call;
* `RowInv`: a committed row carries its own name, is never PROCESSING, and was inserted
  by the request that gave the name, whose transaction is over (so nobody inserts it again);
* `TxInv`: what the open transaction holds at each point of the handler. A confirm holds
  the row it locked with the status of the step it has come to, the books of the hooks
  that have run, and the row is still CREATED for everybody else; a create holds a row
  under a fresh name, or none;
* `LockInv`: two open transactions never hold one row;
* `ChargeInv`: a request charges the intent of its path only, and what is settled was charged.

Layout: `TypeStep` and `CallStep` go action by action. The data part is split by what a
step touches: `QuietStep` (nothing but control), `PrivateStep` (one transaction of its own,
so the others are untouched), and `CommitStep` (the tables), whose facts the
individual actions (`InsertStep`, `LockStep`, `ChargeStep`, ...) then supply.
`SettlementAtomic` is inductive relative to `CoreInv`. The refinement shows that `Commit`
of a create is `Open`, of a confirm `Succeed` or `Refuse`, and that every other step stutters.

The answers need more. A 200 is true when it is given, and has to stay true while the table
moves on, the cache replays it and other requests race. `IInv` adds to `CoreInv`:

* `KeyInv`: `UniqueKeys` (the index: one row per merchant and key among the committed) and
  `AloneWithKey` (the creates that have inserted and not yet committed: none collides with the
  table, no two with each other). The second is what makes the first inductive at a commit;
* `AnswerInv`: the same claim (`AnswerOk`) about the three places an answer may be:
  `ViewOk` (the handler's row once it is committed or recovered), `SlotOk` (the cache) and
  `RespOk` (the response). `AnswersConfirm` says of a slot not that it holds this call's
  intent, which is false, but that *some* confirm with this merchant and key was issued
  for it; `OwnKey` then turns that into `ConfirmAnswersItsIntent`.

`AnswerKept` shows that an answer stays true, from `RowStep`: a row changes only by
settling, and a body names a final status only when the row has it. `OwnAnswer` goes through
the places where a request makes an answer (`CachedAnswer`, `RecoverAnswer`,
`CommitAnswer`, `NotYetAnswered`), `OtherAnswer` and `SlotKept` through everybody else's and
`StoredSlot` through the one step that writes a slot. `OneIntentPerKey` is `UniqueKeys` with
`AnswersCreate`.

`LedgerBooksProofs.tla`, about the reads of the ledger, from the same assumptions:

| Theorem | Statement |
|---|---|
| `BooksInvariant` | `Spec => []BooksInv` |
| `BalancesAreTrue` | `Spec => []BalanceIsSucceeded` |
| `BooksAlwaysBalance` | `Spec => []BooksBalance` |

`Total` is a fold over a set, so two things have to be shown. First, that it is a sum: that the
order in which `CHOOSE` takes the rows does not matter (`TotalRemove`, `TotalAdd`). This is
an induction over finite sets, and the library states induction with an operator for a
parameter, which the provers cannot instantiate. The lemmas take the least counterexample
instead: a nonempty collection of subsets of a finite set has a least one (`LeastSet`, from
the library's facts that strict inclusion is well founded), and a least set for which a
claim fails contradicts itself once one row is taken out of it. Second, that every
step keeps the sums equal: `SuccessStep` is the commit of a success, which adds the same amount
to the credits, the debits and the money of the SUCCEEDED payments; any other step leaves
the three sets of rows alone (`SumsKept`), a declined payment included. `BooksInv` adds to
the sums that only finitely many rows exist, without which a fold says nothing.

`WebhooksProofs.tla`, for any number of workers, events, attempts and faults, any batch size
and any list of delays, from the assumptions of `Webhooks`:

| Theorem | Statement |
|---|---|
| `Invariance` | `Spec => []Inv` |
| `TypeCorrect` | `Spec => []TypeOK` |
| `DeliveredIsAcked` | `Spec => []DeliveredWasAcked` |
| `DeliveryImplemented` | `Spec => ImplementsDelivery` |
| `OneWorkerInvariance` | `OneWorker => (Spec => [](Inv /\ OneInv))` |
| `FailedIsExhausted` | `OneWorker => (Spec => []FailedWasExhausted)` |
| `AttemptsAreCounted` | `OneWorker => (Spec => []AttemptsCounted)` |
| `PostsOnlyWhatIsDue` | `OneWorker => (Spec => PostOnlyDue)` |
| `TerminalStays` | `OneWorker => (Spec => TerminalIsFinal)` |

The contract is not inductive: a worker settles an event by a copy it read long ago, and two
workers count from different copies. `Inv` says that whatever a row, a copy in a batch or a
copy in hand counts as failed POSTs, at least that many happened (`Failures`), and that no
copy is of a row that is not there. That survives the race, because `posts - acks` only
grows, and makes each of the three UPDATEs a step the contract allows.

The last five have the hypothesis that `Workers` is one worker, which is what `start.sh` starts;
with the two workers of `TwoWorkers.cfg` TLC finds a counterexample to each of the four properties. They still hold for any number of
events, deaths, restarts and lost UPDATEs. `OneInv` says why one is enough: a copy that the
worker holds is its row as it is now, still pending and due, and no event is in hand
twice (`Fresh`), so each UPDATE by id, though it has no condition on the status, finds
the row it was computed from. `Counted` is the balance of the counts: a POST is counted by its
row, or in hand, or lost to one of the faults.

`NotificationsProofs.tla`, about the composition, from the assumptions of both parts:

| Theorem | Statement |
|---|---|
| `SystemKeepsApi` | `SystemSpec => Spec` of `Payments` |
| `SystemKeepsWorker` | `SystemSpec => Worker!Spec` |
| `SystemInvariant` | `SystemSpec => [](CoreInv /\ SettlementAtomic /\ Facts!Inv /\ Linked)` |
| `AnnouncedIsCommitted` | `SystemSpec => []OnlySuccessIsAnnounced` |
| `SuccessHasOneRow` | `SystemSpec => []OneRowPerSuccess` |
| `SuccessIsTracked` | `SystemSpec => [](a SUCCEEDED payment is Tracked)` |

The first two carry every theorem about the parts over to the system. `SystemKeepsWorker`
is not immediate: that a step of the API is an `Insert` or nothing for the worker needs the
fact that a commit publishes at most one row, and a new one, which rests on `CoreInv`.
`Linked` ties the tables: the worker sees exactly the rows that are in `outbox`.
`SuccessIsTracked` is what remains of `SuccessIsNotified` without fairness: the row of a
SUCCEEDED payment is pending, or acknowledged, or has failed `MaxAttempts` times.
`Facts` is `Worker` with the proofs about it; the lemmas `Same...` say that the two instances
are the same.

`ConnectionPoolProofs.tla`, for any number of requests and connections, any limits and any
number of faults, from `PoolAssumption`:

| Theorem | Statement |
|---|---|
| `Invariance` | `Spec => []Inv` |
| `TypeCorrect` | `Spec => []TypeOK` |
| `PoolStaysClean` | `Spec => []PoolIsClean` |
| `LockProtectsCharges` | `Spec => []LiveChargesExclude` |
| `OutcomesAreTrue` | `Spec => []OutcomeIsTrue` |
| `SettlesOnce` | `Spec => SettledOnce` |
| `OnlyCrowdsRefuse` | `Spec => RefusedByCrowd` |
| `LossesCostOneEach` | `Spec => []OneFailurePerLoss` |

`Inv` says which stretch of code holds a connection (`CtlInv`), that a connection is in one
place and a closed one on its way out (`ConnInv`), that the row lock is that of an open
session in the hand of a confirm and that a confirm inside its transaction whose session
lives *has* the lock and an unsettled payment (`LockInv`), what is known of the confirm that
settled it (`OutInv`), and the count of connections (`SizeInv`). `SettlesOnce` then is the
remark that `Commit` needs a live session. `OneFailurePerLoss` counts: `FailInv` weighs
the connections that are lost or closed, together with the requests that failed and have
given theirs back, against `lost`.

`AccountsProofs.tla`, for any number of tabs, requests and emails, from `AccountsAssumption`
and `NoneAssumption` (an absent request is no request):

| Theorem | Statement |
|---|---|
| `Invariance` | `Spec => []Inv` |
| `TypeCorrect` | `Spec => []TypeOK` |
| `StoredKeysWork` | `Spec => []StoredKeyWorks` |
| `EmailsHaveOneAccount` | `Spec => []OneAccountPerEmail` |
| `KeysAreNeverRefused` | `Spec => []OnlyKeylessRefused` |

A key is read in one place and used in another, with other tabs and requests in between.
`Inv` follows it: a registration that has inserted carries its own key (`Carries`) and is
alone with its email until it commits (`InsertsAlone`), a row's key is that of the request
that was answered 201 (`RowsAnswered`), and the key of a read was known when it was sent
and stays so, since no row is ever deleted (`ReadsKnown`). Steps of the browser split in those
that only forget who waits for an answer (`ForgetsInv`) and those that send (`SentInv`).

`WarmupGateProofs.tla`, for any supply of names and any behaviour of the backend:

| Theorem | Statement |
|---|---|
| `Invariance` | `Spec => []Inv` |
| `TypeCorrect` | `Spec => []TypeOK` |
| `GateNeverIdles` | `Spec => []OneCheckOrTimer` |
| `ButtonIsTruthful` | `Spec => []ButtonTellsTheTruth` |
| `GoneIsLeftAlone` | `Spec => NothingAfterCleanup` |

The component says the same thing in several places. `Inv` says that they agree: the refs
with what is in flight (`RefTrue`) and armed (`TimerKnown`), the state with the refs
(`Shown`), and that a closed gate always tries (`Trying`). It speaks of "at most one" without
counting; `InvExclusive` turns that into the cardinalities of `OneCheckOrTimer`.
`GoneIsLeftAlone` follows from `TimerKnown`, by which a gate that is not mounted has no timer
to fire, and from the two ends of the await, which look at `mountedRef` before they act.

`DashboardProofs.tla`, for any page size, any number of payments, clients that insert and
refreshes in flight, from the assumptions of `Dashboard`:

| Theorem | Statement |
|---|---|
| `Invariance` | `Spec => []Inv` |
| `TypeCorrect` | `Spec => []TypeOK` |
| `NoneIsSkipped` | `Spec => []NothingSkipped` |
| `AnnouncedShows` | `Spec => []AnnouncedIsListed` |

`NothingSkipped` compares what is shown with the list the last refresh read, while the table
has moved on and a page may be on its way. `Inv` says how they are related. `base` is
`Within` the table: rows that committed since were put in between, and pushed what is under
them down. What is shown `Covers` it: without a gap from the top, and whatever it has
not shown yet is in the table at a place beyond the offset, since an insertion only
moves it further down. So the next page, read at that offset, begins before it or with it.
`Paging` says the same of what will be shown when the page in flight lands, which is
what makes the argument hold across the delay. `AnnouncedIsListed` needs `Announcing`: the
refresh sent for an announcement is behind the confirm that it announces, so its answer has
the payment with its final status. The lemmas about lists (`Appended`, `Inserted`, `PageIs`)
are by places in a sequence, not by induction.

Only model-checked: liveness under fairness (`EveryRequestEnds`, `SuccessIsNotified`,
`EventuallyProcessed`, `NoRequestHangs`, `GateOpens`), which needs ENABLED and is out of the
prover's reach, and the three runs that exhibit a disagreement.

## What the code does and the documentation does not say

Each of the first three has a run that exhibits it.

* `charged_twice`. The bank is charged inside the transaction, and nothing is recorded
  before. If the process dies, or a hook or the commit raises, the row goes back to CREATED
  and the retry charges again. `README.md:83` has "the bank is never called twice" and
  `payments.py:80-81` promises a retry "without risk of double-charging". What does hold is
  proved: charges never overlap, and none follows the settlement.
* `empty_key`. An `Idempotency-Key:` header with no value is `''`: false for the cache and
  for the recovery, a value for the unique index. The second create with it is a 500.
* `schedule`. The delay after failure n is the (n+1)-th of the list: 30 s, 2 m, 10 m, 10 m
  instead of 10 s, 30 s, 2 m, 10 m.

Met while modelling, without a run of their own:

* A create whose key is no longer cached is answered with the row *as it is now*, not
  with "the original response" (`payments.py:46-47`); that answer is then cached.
* A duplicate confirm that passes the cache before the first one has stored its answer gets
  a 409, not "the cached response" (`README.md:78`). `TruthfulAnswers` says what
  does hold: a 409 is given only for a payment that is over.
* One key used for confirms of two intents answers the second with the first, since the
  slot has no intent in it; hence the proviso `OwnKey` of `ConfirmAnswersItsIntent`.
* `get_balance` sums credits; "SUM(CREDIT) - SUM(DEBIT) for this merchant"
  (`ledger_service.py:69`) would be zero for every merchant.
* `README.md:222` says that API and worker share a connection pool; they are two processes
  with a pool each.
* The row lock is the session's. If PostgreSQL ends the session of a confirm after its
  SELECT, another confirm may lock the row and even settle the payment before the first
  calls the bank, which the first does all the same: its next statement fails, and the row
  is right, but the bank was called twice, and for a settled payment.
  `LiveChargesExclude` and `SettledOnce` say what does hold. `NoOverlappingCharges` and
  `NoChargeAfterSettlement` of `Payments` are about threads whose session lasts as long as
  they do.
* The pool hands out a connection whose session is gone without testing it, so after a
  restart of PostgreSQL one request fails for each connection that was in the pool, and no
  more (`OneFailurePerLoss`).
* The gate opens for whoever answers. `BackendWarmupGate.tsx:47` says that it opens "as soon as
  the backend responds" and `:57` that it retries "until LedgerPay is reachable", but a page
  of the host with a 2xx to `/health`, or with any status below 500 to `/`, opens it
  as well, whether or not the API is there. `GateOpens` is the direction that holds.
* A create with an amount over the column's 32 bits, or a key over its 255 characters, passes
  the checks of the API and is a 500 of the database (`InsertOutOfRange`).
* With two workers an event can become FAILED after it was DELIVERED, and the counts of
  the slower worker win; this is why `TerminalIsFinal`, `AttemptsCounted` and
  `FailedWasExhausted` are stated for one worker, which is what `start.sh` starts, and
  proved under that hypothesis.

## Not modelled

* `sign_payload`, `hash_api_key`, `generate_api_key`: pure computations; keys are named.
* `list_entries` and the read endpoints: they change nothing. `list_payment_intents` is
  `Dashboard!Page`; ties in `created_at`, which its ORDER BY leaves open, are not modelled.
* In `Payments`, a request that gets no connection is a `Fail` at its first database step;
  when that happens is `ConnectionPool`'s. The worker's own pool is never under pressure,
  since the worker is one thread.
* Redis's client has no pool of its own in this code; an unreachable Redis is a `Fail`.
* `config.py`, `logging.py`, CORS, request ids: no shared state; the settings are the
  constants of the models. Of `main.py` only the lifespan keeps state. Alembic runs
  before the program does; its constraints and defaults are in the actions that meet them.
* The proxy route `app/api/backend/[...path]`, tables, statistics, formatting, wording,
  the clipboard, and the gate's counters of attempts and seconds.

## Plan

Order of work, the most important behaviour first. Done: the payment API with its
abstract specification, its inductive invariant and eleven theorems; the ledger's reads with
three; the worker, its contract and nine theorems; the composition of both with six; the
connections with eight; accounts and session with five; the gate with five; the dashboard with
four. Left:

1. What the parts say together and not apart: one worker beside the API, and the balance a
   merchant is shown against the successes it was told of.

## Running

    tlc -workers 4 -config Clients.cfg MCPayments
    tlc -workers 4 -config Pool.cfg MCConnectionPool
    tlapm PaymentsProofs.tla
    tlapm LedgerBooksProofs.tla
    tlapm WebhooksProofs.tla
    tlapm NotificationsProofs.tla
    tlapm ConnectionPoolProofs.tla
    tlapm AccountsProofs.tla
    tlapm WarmupGateProofs.tla
    tlapm DashboardProofs.tla
