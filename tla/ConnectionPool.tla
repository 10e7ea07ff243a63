--------------------------- MODULE ConnectionPool ---------------------------
(***************************************************************************)
(* The connections of the API: get_conn() and its pool                     *)
(* (backend/app/core/database.py), used twice by every request, once by    *)
(* get_current_merchant and then by the handler, while PostgreSQL may end  *)
(* sessions or go down.                                                    *)
(*                                                                         *)
(* Payments takes a thread and its session for one thing that fails as one *)
(* thing.  Here they are two: PostgreSQL rolls back and releases the row   *)
(* lock when the session ends, the thread notices at its next statement,   *)
(* and in between it may call the bank.  The confirms of this module all   *)
(* aim at one payment; the other requests only read.                       *)
(*                                                                         *)
(* ThreadedConnectionPool belongs to psycopg2 and is modelled as           *)
(* database.py uses it: getconn() never waits, putconn() keeps up to       *)
(* minconn connections and drops those it knows to be closed.              *)
(***************************************************************************)
EXTENDS Integers, FiniteSets

CONSTANTS
    Requests,   \* request threads
    Confirms,   \* those that confirm the payment
    Conns,      \* connection objects
    MinConn,    \* minconn
    MaxConn,    \* maxconn
    MaxFaults,  \* bound on the faults explored
    None

ASSUME PoolAssumption ==
    /\ Confirms \subseteq Requests
    /\ MinConn \in Nat /\ MaxConn \in Nat /\ MinConn <= MaxConn /\ MaxFaults \in Nat
    /\ IsFiniteSet(Conns) /\ IsFiniteSet(Requests)
    /\ MaxConn < Cardinality(Conns)
    /\ None \notin Conns \cup Requests \cup {"ok", "conflict", "error", "refused"}

VARIABLES
    running,  \* the API process is up (its pool exists)
    up,       \* PostgreSQL accepts connections
    session,  \* of each connection: none, open, lost and not noticed, or closed
    idle,     \* the connections in the pool
    pc,       \* what each request does next
    stage,    \* whether it does it for get_current_merchant or for the handler
    held,     \* the connection it has taken
    outcome,  \* how it ends
    locker,   \* the connection whose transaction holds the row lock
    charged,  \* the confirms that called the bank
    settled,  \* the confirm whose final status is committed
    faults,   \* faults so far
    lost      \* sessions they ended

vars == <<running, up, session, idle, pc, stage, held, outcome, locker, charged,
          settled, faults, lost>>
server == <<up, locker, settled, faults, lost>>

TypeOK ==
    /\ running \in BOOLEAN /\ up \in BOOLEAN
    /\ session \in [Conns -> {"none", "open", "lost", "closed"}]
    /\ idle \subseteq Conns
    /\ pc \in [Requests -> {"idle", "take", "query", "lock", "process", "charge",
                            "update", "commit", "reply", "abort", "return", "done"}]
    /\ stage \in [Requests -> {"auth", "handler"}]
    /\ held \in [Requests -> Conns \cup {None}]
    /\ outcome \in [Requests -> {None, "ok", "conflict", "error", "refused"}]
    /\ locker \in Conns \cup {None}
    /\ charged \subseteq Confirms
    /\ settled \in Confirms \cup {None}
    /\ faults \in 0..MaxFaults
    /\ lost \in Nat

Used == {r \in Requests : held[r] # None}
Fresh == {c \in Conns : session[c] = "none"}

\* init_pool() opens minconn connections, which the pool keeps.
Opened(C) == [c \in Conns |-> IF c \in C THEN "open" ELSE "none"]

Init ==
    /\ running = TRUE /\ up = TRUE
    /\ idle \in {C \in SUBSET Conns : Cardinality(C) = MinConn}
    /\ session = Opened(idle)
    /\ pc = [r \in Requests |-> "idle"]
    /\ stage = [r \in Requests |-> "auth"]
    /\ held = [r \in Requests |-> None]
    /\ outcome = [r \in Requests |-> None]
    /\ locker = None
    /\ charged = {}
    /\ settled = None
    /\ faults = 0
    /\ lost = 0

-----------------------------------------------------------------------------
(* getconn(). *)

Goto(r, p) == pc' = [pc EXCEPT ![r] = p]

Arrive(r) ==
    /\ pc[r] = "idle"
    /\ running
    /\ Goto(r, "take")
    /\ UNCHANGED <<running, server, session, idle, stage, held, outcome, charged>>

\* Mutant: every handler confirms.
EveryHandlerLocks(r) == IF stage[r] = "handler" THEN "lock" ELSE "query"

FirstStatement(r) ==
    IF stage[r] = "handler" /\ r \in Confirms THEN "lock" ELSE "query"

\* Mutant: two threads may be given the same connection.
TakeShared(r) ==
    /\ pc[r] = "take"
    /\ \E c \in idle : held' = [held EXCEPT ![r] = c]
    /\ Goto(r, FirstStatement(r))
    /\ UNCHANGED <<running, server, session, idle, stage, outcome, charged>>

Take(r) ==
    /\ pc[r] = "take"
    /\ \E c \in idle : held' = [held EXCEPT ![r] = c] /\ idle' = idle \ {c}
    /\ Goto(r, FirstStatement(r))
    /\ UNCHANGED <<running, server, session, stage, outcome, charged>>

Connect(r) ==
    /\ pc[r] = "take"
    /\ idle = {}
    /\ Cardinality(Used) < MaxConn
    /\ up
    /\ \E c \in Fresh : /\ held' = [held EXCEPT ![r] = c]
                        /\ session' = [session EXCEPT ![c] = "open"]
    /\ Goto(r, FirstStatement(r))
    /\ UNCHANGED <<running, server, idle, stage, outcome, charged>>

\* Mutant: connecting to a server that is down waits for it.
RefuseIfExhausted(r) ==
    /\ pc[r] = "take"
    /\ idle = {}
    /\ Cardinality(Used) = MaxConn
    /\ outcome' = [outcome EXCEPT ![r] = "refused"]
    /\ Goto(r, "done")
    /\ UNCHANGED <<running, server, session, idle, stage, held, charged>>

\* "connection pool exhausted", or the connection is refused: getconn() raises,
\* outside the try block, and the client gets a 500.
Refuse(r) ==
    /\ pc[r] = "take"
    /\ idle = {}
    /\ Cardinality(Used) = MaxConn \/ ~up
    /\ outcome' = [outcome EXCEPT ![r] = "refused"]
    /\ Goto(r, "done")
    /\ UNCHANGED <<running, server, session, idle, stage, held, charged>>

-----------------------------------------------------------------------------
(* The body of the with statement. *)

Live(r) == session[held[r]] = "open"

\* A SELECT: the merchant of the key, or what a reading handler reads.
Query(r) ==
    /\ pc[r] = "query"
    /\ Live(r)
    /\ Goto(r, "commit")
    /\ UNCHANGED <<running, server, session, idle, stage, held, outcome, charged>>

\* Mutant: SELECT without FOR UPDATE.
LockNothing(r) ==
    /\ pc[r] = "lock"
    /\ Live(r)
    /\ settled = None
    /\ Goto(r, "process")
    /\ UNCHANGED <<running, server, session, idle, stage, held, outcome, charged>>

\* Mutant: the status is not looked at.
LockAnyStatus(r) ==
    /\ pc[r] = "lock"
    /\ Live(r)
    /\ locker = None
    /\ locker' = held[r]
    /\ Goto(r, "process")
    /\ UNCHANGED <<running, up, settled, faults, lost, session, idle, stage, held,
                   outcome, charged>>

\* SELECT ... FOR UPDATE waits for the lock; a payment that is over is a 409,
\* raised with the lock held.
LockRow(r) ==
    /\ pc[r] = "lock"
    /\ Live(r)
    /\ locker = None
    /\ locker' = held[r]
    /\ IF settled = None
       THEN Goto(r, "process") /\ UNCHANGED outcome
       ELSE Goto(r, "abort") /\ outcome' = [outcome EXCEPT ![r] = "conflict"]
    /\ UNCHANGED <<running, up, settled, faults, lost, session, idle, stage, held, charged>>

\* UPDATE payment_intents SET status = 'PROCESSING'
MarkProcessing(r) ==
    /\ pc[r] = "process"
    /\ Live(r)
    /\ Goto(r, "charge")
    /\ UNCHANGED <<running, server, session, idle, stage, held, outcome, charged>>

\* mock_bank.charge() needs no session.
Charge(r) ==
    /\ pc[r] = "charge"
    /\ charged' = charged \cup {r}
    /\ Goto(r, "update")
    /\ UNCHANGED <<running, server, session, idle, stage, held, outcome>>

\* The final UPDATE, WHERE id = ... alone.
Update(r) ==
    /\ pc[r] = "update"
    /\ Live(r)
    /\ Goto(r, "commit")
    /\ UNCHANGED <<running, server, session, idle, stage, held, outcome, charged>>

-----------------------------------------------------------------------------
(* The end of get_conn(). *)

\* The row lock goes with the transaction.
Unlock(c) == locker' = IF locker = c THEN None ELSE locker

\* Mutant: the block is left without conn.commit().
CommitForgotten(r) ==
    /\ pc[r] = "commit"
    /\ Live(r)
    /\ Unlock(held[r])
    /\ Goto(r, "reply")
    /\ UNCHANGED <<running, up, settled, faults, lost, session, idle, stage, held,
                   outcome, charged>>

\* PostgreSQL commits; whether the thread hears of it is another matter.
Commit(r) ==
    /\ pc[r] = "commit"
    /\ Live(r)
    /\ settled' = IF stage[r] = "handler" /\ r \in Confirms THEN r ELSE settled
    /\ Unlock(held[r])
    /\ Goto(r, "reply")
    /\ UNCHANGED <<running, up, faults, lost, session, idle, stage, held, outcome, charged>>

Committed(r) ==
    /\ pc[r] = "reply"
    /\ Live(r)
    /\ Goto(r, "return")
    /\ UNCHANGED <<running, server, session, idle, stage, held, outcome, charged>>

\* The handler raised: conn.rollback().
Rollback(r) ==
    /\ pc[r] = "abort"
    /\ Live(r)
    /\ Unlock(held[r])
    /\ Goto(r, "return")
    /\ UNCHANGED <<running, up, settled, faults, lost, session, idle, stage, held,
                   outcome, charged>>

\* Mutant: putconn() is not in a finally clause.
BreakLeaks(r) ==
    /\ pc[r] \in {"query", "lock", "process", "update", "commit", "reply", "abort"}
    /\ ~Live(r)
    /\ session' = [session EXCEPT ![held[r]] = "closed"]
    /\ outcome' = [outcome EXCEPT ![r] = "error"]
    /\ Goto(r, "done")
    /\ UNCHANGED <<running, server, idle, stage, held, charged>>

\* The session is gone: the statement raises and psycopg2 marks the connection
\* closed; conn.rollback() in the except clause raises in its turn, and the
\* finally clause is all that runs.
Break(r) ==
    /\ pc[r] \in {"query", "lock", "process", "update", "commit", "reply", "abort"}
    /\ ~Live(r)
    /\ session' = [session EXCEPT ![held[r]] = "closed"]
    /\ outcome' = [outcome EXCEPT ![r] = "error"]
    /\ Goto(r, "return")
    /\ UNCHANGED <<running, server, idle, stage, held, charged>>

\* putconn() keeps a connection, also one that was lost without its noticing.
Kept(c) == Cardinality(idle) < MinConn /\ session[c] # "closed"

\* putconn(), and what comes after: the handler, or the answer.
Return(r) ==
    LET c == held[r]
        more == stage[r] = "auth" /\ outcome[r] = None
    IN  /\ pc[r] = "return"
        /\ held' = [held EXCEPT ![r] = None]
        /\ IF Kept(c)
           THEN idle' = idle \cup {c} /\ UNCHANGED session
           ELSE session' = [session EXCEPT ![c] = "none"] /\ UNCHANGED idle
        /\ IF more
           THEN /\ stage' = [stage EXCEPT ![r] = "handler"]
                /\ Goto(r, "take")
                /\ UNCHANGED outcome
           ELSE /\ outcome' = [outcome EXCEPT ![r] = IF @ = None THEN "ok" ELSE @]
                /\ Goto(r, "done")
                /\ UNCHANGED stage
        /\ UNCHANGED <<running, server, charged>>

-----------------------------------------------------------------------------
(* lifespan, and what PostgreSQL does. *)

\* Mutant: the pool is closed under the requests that use it.
ShutdownAtOnce ==
    /\ running
    /\ running' = FALSE
    /\ session' = [c \in Conns |-> IF c \in idle THEN "none"
                                   ELSE IF session[c] = "open" THEN "lost" ELSE session[c]]
    /\ idle' = {}
    /\ UNCHANGED <<server, pc, stage, held, outcome, charged>>

\* The server has answered every request before it leaves the lifespan.
Shutdown ==
    /\ running
    /\ \A r \in Requests : pc[r] \in {"idle", "done"}
    /\ running' = FALSE
    /\ session' = [c \in Conns |-> IF c \in idle THEN "none" ELSE session[c]]
    /\ idle' = {}
    /\ UNCHANGED <<server, pc, stage, held, outcome, charged>>

Startup ==
    /\ ~running
    /\ up
    /\ running' = TRUE
    /\ \E C \in SUBSET Fresh :
          /\ Cardinality(C) = MinConn
          /\ idle' = C
          /\ session' = [c \in Conns |-> IF c \in C THEN "open" ELSE session[c]]
    /\ UNCHANGED <<server, pc, stage, held, outcome, charged>>

\* Sessions end, with their transactions and locks: one (a dropped connection, an
\* idle limit of the hosting service), or all of them when PostgreSQL goes down.
Lose(C) ==
    /\ faults < MaxFaults
    /\ faults' = faults + 1
    /\ lost' = lost + Cardinality(C)
    /\ session' = [c \in Conns |-> IF c \in C THEN "lost" ELSE session[c]]
    /\ locker' = IF locker \in C THEN None ELSE locker
    /\ UNCHANGED <<running, settled, idle, pc, stage, held, outcome, charged>>

Open == {c \in Conns : session[c] = "open"}

Cut == up /\ (\E c \in Open : Lose({c})) /\ UNCHANGED up
Outage == up /\ Lose(Open) /\ up' = FALSE

Recover ==
    /\ ~up
    /\ up' = TRUE
    /\ UNCHANGED <<running, session, idle, pc, stage, held, outcome, locker, charged,
                   settled, faults, lost>>

-----------------------------------------------------------------------------
\* The steps a request takes by itself.
Step(r) ==
    \/ Take(r) \/ Connect(r) \/ Refuse(r)
    \/ Query(r) \/ LockRow(r)
    \/ MarkProcessing(r) \/ Charge(r) \/ Update(r)
    \/ Commit(r) \/ Committed(r) \/ Rollback(r) \/ Break(r) \/ Return(r)

Next ==
    \/ \E r \in Requests : Arrive(r) \/ Step(r)
    \/ Shutdown \/ Startup
    \/ Cut \/ Outage \/ Recover

Spec == Init /\ [][Next]_vars

\* A thread that can run does; PostgreSQL need not come back.
FairSpec == Spec /\ \A r \in Requests : WF_vars(Step(r))

-----------------------------------------------------------------------------
(* Safety. *)

\* No connection is ever in two hands, or in the pool and in a hand; none in the
\* pool still holds the row lock of the request that gave it back; and the API
\* never has more than MaxConn sessions, those in the pool included.
PoolIsClean ==
    /\ \A r, s \in Used : held[r] = held[s] => r = s
    /\ \A r \in Used : held[r] \notin idle
    /\ locker # None => locker \in {held[r] : r \in Used}
    /\ Cardinality(idle) + Cardinality(Used) <= MaxConn

\* A lost session costs one request: whoever gets its connection, from the pool
\* or in the middle of a transaction, fails, and nobody gets it after him.
OneFailurePerLoss ==
    Cardinality({r \in Requests : outcome[r] = "error"}) <= lost

\* A confirm that has charged and not yet ended its transaction.
Charging(r) == stage[r] = "handler" /\ r \in Confirms /\ pc[r] \in {"update", "commit"}

\* The row lock lasts as long as the session, not as long as the thread: charges
\* overlap, or come after the settlement, only by a request whose session is
\* gone.
LiveChargesExclude ==
    \A r \in Requests : Charging(r) /\ Live(r) =>
        /\ settled = None
        /\ \A s \in Requests : Charging(s) /\ Live(s) => r = s

\* A confirm that is answered with success is the one that settled the payment;
\* one that is answered with a 409 or refused did not.
OutcomeIsTrue ==
    \A r \in Confirms :
        /\ outcome[r] = "ok" => settled = r
        /\ outcome[r] \in {"conflict", "refused"} => settled # r
        /\ settled = r => r \in charged

-----------------------------------------------------------------------------
(* Action properties. *)

\* Whoever lost his session cannot settle a payment that another has settled
\* since: the final UPDATE goes by id alone, and nothing but the end of the
\* session keeps it out.
SettledOnce == [][settled # None => settled' = settled]_vars

Inside(r) == pc[r] \notin {"idle", "take", "done"}

\* A request is refused only when MaxConn others are between getconn() and
\* putconn(), or when PostgreSQL is down: no path loses a connection, and nobody
\* counts twice because he was authenticated.
RefusedByCrowd ==
    [][\A r \in Requests : outcome'[r] = "refused" /\ outcome[r] # "refused" =>
          ~up \/ Cardinality({s \in Requests : Inside(s)}) >= MaxConn]_vars

-----------------------------------------------------------------------------
(* Liveness. *)

\* Every request ends, also when sessions break under a lock that others wait
\* for, and also when PostgreSQL stays down.
NoRequestHangs == \A r \in Requests : pc[r] = "take" ~> pc[r] = "done"
=============================================================================
