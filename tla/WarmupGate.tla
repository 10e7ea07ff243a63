----------------------------- MODULE WarmupGate -----------------------------
(***************************************************************************)
(* The gate that hides the frontend until the backend answers              *)
(* (frontend/components/BackendWarmupGate.tsx), with the route it asks     *)
(* (frontend/app/api/backend-ready/route.ts) and the backend behind it.    *)
(*                                                                         *)
(* The backend's URL reaches nothing, the API, or the host in front of it  *)
(* while the API starts, whose page may have any status.  The gate opens   *)
(* for any 2xx to GET /health and any status below 500 to GET /, whoever   *)
(* answers.                                                                *)
(*                                                                         *)
(* JavaScript runs one callback at a time, so a callback is an action; the *)
(* await in runCheck is where everything else may happen.  The effect may  *)
(* be cleaned up and run again on the same refs and state: StrictMode does *)
(* it on every mount, Fast Refresh whenever the file changes.              *)
(*                                                                         *)
(* Checks are named; so is a retry timer, by the check that armed it.      *)
(***************************************************************************)
EXTENDS Naturals, FiniteSets

CONSTANTS
    Checks,  \* names of checks and timers
    None     \* retryTimerRef before there was a timer

ASSUME GateAssumption == None \notin Checks

VARIABLES
    backend,     \* who is at the backend's URL: nobody, the host, or the API
    phase,       \* what each check waits for
    slow,        \* the checks in flight that met anything but an API that was up
    mounted,     \* mountedRef
    ready,       \* readyRef
    checking,    \* checkingRef
    timerRef,    \* retryTimerRef
    timers,      \* the retry timers the browser has armed
    isReady,     \* state: the application is shown
    isChecking   \* state: the button is disabled

refs == <<mounted, ready, checking, timerRef>>
state == <<isReady, isChecking>>
vars == <<backend, phase, slow, refs, timers, state>>

TypeOK ==
    /\ backend \in {"down", "host", "up"}
    /\ phase \in [Checks -> {"none", "health", "root"}]
    /\ slow \subseteq Checks
    /\ {mounted, ready, checking, isReady, isChecking} \subseteq BOOLEAN
    /\ timerRef \in Checks \cup {None}
    /\ timers \subseteq Checks

Init ==
    /\ backend \in {"down", "host", "up"}
    /\ phase = [c \in Checks |-> "none"]
    /\ slow = {}
    /\ mounted = FALSE
    /\ ready = FALSE
    /\ checking = FALSE
    /\ timerRef = None
    /\ timers = {}
    /\ isReady = FALSE
    /\ isChecking = FALSE

InFlight == {c \in Checks : phase[c] # "none"}

-----------------------------------------------------------------------------
(* runCheck, up to its await. *)

Busy == checking \/ ready

\* Mutant: setIsChecking(true) is forgotten.
RunCheckSilently ==
    IF Busy
    THEN UNCHANGED <<phase, slow, checking, isChecking>>
    ELSE /\ \E c \in Checks \ (InFlight \cup timers \cup {timerRef}) :
               /\ phase' = [phase EXCEPT ![c] = "health"]
               /\ slow' = IF backend = "up" THEN slow ELSE slow \cup {c}
         /\ checking' = TRUE
         /\ UNCHANGED isChecking

RunCheck ==
    IF Busy
    THEN UNCHANGED <<phase, slow, checking, isChecking>>
    ELSE /\ \E c \in Checks \ (InFlight \cup timers \cup {timerRef}) :
               /\ phase' = [phase EXCEPT ![c] = "health"]
               /\ slow' = IF backend = "up" THEN slow ELSE slow \cup {c}
         /\ checking' = TRUE
         /\ isChecking' = TRUE

-----------------------------------------------------------------------------
(* The component. *)

\* The effect.
Mount ==
    /\ ~mounted
    /\ mounted' = TRUE
    /\ RunCheck
    /\ UNCHANGED <<backend, ready, timerRef, timers, isReady>>

\* Mutant: the cleanup leaves the timer alone.
UnmountOnly ==
    /\ mounted
    /\ mounted' = FALSE
    /\ UNCHANGED <<backend, phase, slow, ready, checking, timerRef, timers, state>>

\* Its cleanup.
Unmount ==
    /\ mounted
    /\ mounted' = FALSE
    /\ timers' = timers \ {timerRef}
    /\ UNCHANGED <<backend, phase, slow, ready, checking, timerRef, state>>

\* A retry timer goes off; nobody resets the ref.
Fire(t) ==
    /\ t \in timers
    /\ timers' = timers \ {t}
    /\ RunCheck
    /\ UNCHANGED <<backend, mounted, ready, timerRef, isReady>>

\* The button, while it is there and enabled.
RetryNow ==
    /\ mounted /\ ~isReady /\ ~isChecking
    /\ timers' = timers \ {timerRef}
    /\ timerRef' = None
    /\ RunCheck
    /\ UNCHANGED <<backend, mounted, ready, isReady>>

-----------------------------------------------------------------------------
(* runCheck, from its await. *)

\* checkBackendReady resolves.
Succeed(c) ==
    /\ phase' = [phase EXCEPT ![c] = "none"]
    /\ slow' = slow \ {c}
    /\ ready' = (mounted \/ ready)
    /\ isReady' = (mounted \/ isReady)
    /\ checking' = FALSE
    /\ UNCHANGED <<mounted, timerRef, timers, isChecking>>

\* Mutant: nothing tries again.
RejectOnce(c) ==
    /\ phase' = [phase EXCEPT ![c] = "none"]
    /\ slow' = slow \ {c}
    /\ isChecking' = IF mounted /\ ~ready THEN FALSE ELSE isChecking
    /\ checking' = FALSE
    /\ UNCHANGED <<mounted, ready, timerRef, timers, isReady>>

\* Mutant: the handler does not look whether it is still mounted.
RejectAnyway(c) ==
    /\ phase' = [phase EXCEPT ![c] = "none"]
    /\ slow' = slow \ {c}
    /\ IF ~ready
       THEN /\ timers' = timers \cup {c}
            /\ timerRef' = c
            /\ isChecking' = FALSE
       ELSE UNCHANGED <<timers, timerRef, isChecking>>
    /\ checking' = FALSE
    /\ UNCHANGED <<mounted, ready, isReady>>

\* checkBackendReady rejects.
Reject(c) ==
    /\ phase' = [phase EXCEPT ![c] = "none"]
    /\ slow' = slow \ {c}
    /\ IF mounted /\ ~ready
       THEN /\ timers' = timers \cup {c}
            /\ timerRef' = c
            /\ isChecking' = FALSE
       ELSE UNCHANGED <<timers, timerRef, isChecking>>
    /\ checking' = FALSE
    /\ UNCHANGED <<mounted, ready, isReady>>

-----------------------------------------------------------------------------
(* The route, and how long the browser waits for it. *)

\* Mutant: the route waits for the page of the host.
HealthThenBody(c) ==
    /\ phase[c] = "health"
    /\ \/ backend # "down" /\ Succeed(c)
       \/ backend = "down" /\ Reject(c)
       \/ /\ backend = "host"
          /\ phase' = [phase EXCEPT ![c] = "body"]
          /\ UNCHANGED <<slow, refs, timers, state>>
    /\ UNCHANGED backend

\* GET /health is answered, or cannot be sent.  The API says 200, the host what
\* it likes: a 2xx is a success, and after anything else the route asks for /.
Health(c) ==
    /\ phase[c] = "health"
    /\ \/ backend # "down" /\ Succeed(c)
       \/ backend = "down" /\ Reject(c)
       \/ /\ backend = "host"
          /\ phase' = [phase EXCEPT ![c] = "root"]
          /\ UNCHANGED <<slow, refs, timers, state>>
    /\ UNCHANGED backend

\* GET / is answered, or cannot be sent.  The API has no such page and says 404,
\* which is a success like every status below 500; the host says what it likes.
Root(c) ==
    /\ phase[c] = "root"
    /\ \/ backend # "down" /\ Succeed(c)
       \/ backend # "up" /\ Reject(c)
    /\ UNCHANGED backend

\* The 10 seconds of the route or the 12 of the browser are over.  Only an API
\* that was up all the time is sure to answer sooner.
Timeout(c) ==
    /\ phase[c] # "none"
    /\ c \in slow
    /\ Reject(c)
    /\ UNCHANGED backend

\* The host puts an idle API to sleep, and a request wakes it.
BackendMoves ==
    /\ backend' \in {"down", "host", "up"} \ {backend}
    /\ slow' = slow \cup InFlight
    /\ UNCHANGED <<phase, refs, timers, state>>

-----------------------------------------------------------------------------
Answers(c) == Health(c) \/ Root(c) \/ Timeout(c)

Next ==
    \/ Mount \/ Unmount \/ RetryNow \/ BackendMoves
    \/ \E c \in Checks : Fire(c) \/ Answers(c)

Spec == Init /\ [][Next]_vars

\* Timers go off and requests end.  Nobody has to press the button.
FairSpec == Spec /\ \A c \in Checks : WF_vars(Fire(c)) /\ WF_vars(Answers(c))

-----------------------------------------------------------------------------
(* Safety. *)

\* As long as the gate is there and closed it is doing exactly one thing about
\* it, a check or the wait for the next: it neither stops trying nor tries twice
\* at once, whatever was in flight when the effect was cleaned up.  Once it is
\* open it does neither, also when the effect runs again; without the component
\* no timer is left behind.
OneCheckOrTimer ==
    /\ mounted /\ ~ready => Cardinality(InFlight) + Cardinality(timers) = 1
    /\ ready => InFlight \cup timers = {}
    /\ ~mounted => timers = {}
    /\ Cardinality(InFlight) <= 1

\* While the gate is closed the button is disabled exactly while a check runs: it
\* is never stuck, and pressing it always starts a check.
ButtonTellsTheTruth == mounted /\ ~isReady => (isChecking <=> InFlight # {})

\* From a cleanup until the effect runs again the gate leaves everything alone:
\* a check that is still out opens nothing, arms no timer and renders nothing when
\* its answer comes, and no request is sent, by a timer or otherwise.
NothingAfterCleanup ==
    [][~mounted /\ ~mounted' =>
           /\ InFlight' \subseteq InFlight
           /\ UNCHANGED <<ready, timerRef, timers, state>>]_vars

-----------------------------------------------------------------------------
(* Liveness. *)

\* Once the API stays up and the gate stays mounted, the gate opens without
\* anybody pressing the button.
GateOpens == <>[](backend = "up" /\ mounted) => <>isReady
=============================================================================
