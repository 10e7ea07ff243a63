-------------------------- MODULE WarmupGateProofs --------------------------
(***************************************************************************)
(* Proofs about the gate, for any supply of names and any behaviour of the *)
(* backend: it does exactly one thing at a time, its button says so, and   *)
(* once it is cleaned up it leaves everything alone.                       *)
(*                                                                         *)
(* The component keeps one fact in several places: a check is in flight,   *)
(* checkingRef says so, and isChecking shows it; a timer is armed, and the *)
(* ref names it.  The invariant is how these places agree, also while the  *)
(* effect is cleaned up and a check of the former effect is still out.     *)
(***************************************************************************)
EXTENDS WarmupGate, FiniteSetTheorems, TLAPS

Out(c) == phase[c] # "none"

\* checkingRef is set exactly while a check is in flight, and there is one at most.
RefTrue ==
    /\ \A c, d \in Checks : Out(c) /\ Out(d) => c = d
    /\ checking <=> \E c \in Checks : Out(c)

\* The cleanup can clear every timer: the ref names the only one, which is armed
\* only by a mounted gate that is closed and checks nothing.
TimerKnown == \A t \in timers : t = timerRef /\ mounted /\ ~ready /\ ~checking

\* A mounted gate that is closed checks or waits; an open one does neither.
Trying ==
    /\ mounted /\ ~ready => checking \/ timers # {}
    /\ ready => ~checking

\* What the page shows is what the refs say; isChecking may lag in a gate that is
\* not mounted.
Shown ==
    /\ isReady <=> ready
    /\ checking => isChecking
    /\ mounted /\ ~ready /\ isChecking => checking

Inv == TypeOK /\ RefTrue /\ TimerKnown /\ Trying /\ Shown

-----------------------------------------------------------------------------
LEMMA InitInv == Init => Inv
  BY DEF Init, Inv, TypeOK, RefTrue, TimerKnown, Trying, Shown, Out

-----------------------------------------------------------------------------
(* A check begins. *)

\* A check that begins, while nothing is in flight and no timer is armed.
LEMMA BeginInv ==
    ASSUME Inv, ~Busy, RunCheck, timers' = {}, ready' = ready, isReady' = isReady,
           mounted' \in BOOLEAN, timerRef' \in Checks \cup {None},
           backend' = backend
    PROVE  Inv'
<1> USE DEF Inv
<1>1. PICK c \in Checks :
        /\ phase' = [phase EXCEPT ![c] = "health"]
        /\ slow' = IF backend = "up" THEN slow ELSE slow \cup {c}
  BY DEF RunCheck
<1>2. checking' /\ isChecking' /\ ~ready /\ ~checking
      /\ checking' \in BOOLEAN /\ isChecking' \in BOOLEAN
  BY DEF RunCheck, Busy
<1>3. phase'[c] = "health" /\ \A d \in Checks : d # c => phase'[d] = phase[d]
      /\ phase' \in [Checks -> {"none", "health", "root"}]
  BY <1>1 DEF TypeOK
<1>4. TypeOK'
  BY <1>1, <1>2, <1>3 DEF TypeOK
<1>5. RefTrue'
  BY <1>2, <1>3 DEF RefTrue, Out
<1>6. TimerKnown' /\ Trying' /\ Shown'
  BY <1>2 DEF TimerKnown, Trying, Shown
<1> QED BY <1>4, <1>5, <1>6

\* A gate that is busy begins nothing.
LEMMA BusyIdle ==
    ASSUME Busy, RunCheck PROVE UNCHANGED <<phase, slow, checking, isChecking>>
  BY DEF RunCheck

LEMMA MountInv == ASSUME Inv, Mount PROVE Inv'
<1> USE DEF Inv
<1>1. /\ ~mounted /\ mounted' /\ mounted' \in BOOLEAN /\ RunCheck
      /\ UNCHANGED <<backend, ready, timerRef, timers, isReady>>
  BY DEF Mount
<1>2. timers = {}
  BY <1>1 DEF TimerKnown
<1>3. CASE ~Busy
  BY <1>1, <1>2, <1>3, BeginInv DEF TypeOK
<1>4. CASE Busy
  <2>1. UNCHANGED <<phase, slow, checking, isChecking>>
    BY <1>1, <1>4, BusyIdle
  <2>2. TypeOK' /\ RefTrue'
    BY <1>1, <2>1 DEF TypeOK, RefTrue, Out
  <2>3. TimerKnown' /\ Trying' /\ Shown'
    BY <1>1, <1>2, <1>4, <2>1 DEF TimerKnown, Trying, Shown, Busy
  <2> QED BY <2>2, <2>3
<1> QED BY <1>3, <1>4

LEMMA UnmountInv == ASSUME Inv, Unmount PROVE Inv'
<1> USE DEF Inv
<1>1. /\ ~mounted' /\ mounted' \in BOOLEAN /\ timers' = timers \ {timerRef}
      /\ UNCHANGED <<backend, phase, slow, ready, checking, timerRef, state>>
  BY DEF Unmount
<1>2. timers' = {}
  BY <1>1 DEF TimerKnown
<1>3. TypeOK' /\ RefTrue'
  BY <1>1, <1>2 DEF TypeOK, RefTrue, Out, state
<1>4. TimerKnown' /\ Trying' /\ Shown'
  BY <1>1, <1>2 DEF TimerKnown, Trying, Shown, state
<1> QED BY <1>3, <1>4

LEMMA FireInv == ASSUME Inv, NEW t \in Checks, Fire(t) PROVE Inv'
<1> USE DEF Inv
<1>1. /\ t \in timers /\ timers' = timers \ {t} /\ RunCheck
      /\ UNCHANGED <<backend, mounted, ready, timerRef, isReady>>
  BY DEF Fire
<1>2. ~Busy /\ timers' = {}
  BY <1>1 DEF TimerKnown, Busy
<1> QED BY <1>1, <1>2, BeginInv DEF TypeOK

LEMMA RetryNowInv == ASSUME Inv, RetryNow PROVE Inv'
<1> USE DEF Inv
<1>1. /\ mounted /\ ~isReady /\ ~isChecking
      /\ timers' = timers \ {timerRef} /\ timerRef' = None /\ RunCheck
      /\ UNCHANGED <<backend, mounted, ready, isReady>>
  BY DEF RetryNow
<1>2. ~Busy /\ timers' = {}
  BY <1>1 DEF Shown, TimerKnown, Busy
<1> QED BY <1>1, <1>2, BeginInv DEF TypeOK

-----------------------------------------------------------------------------
(* A check ends. *)

\* The check in flight is the only one, and no timer is armed meanwhile.
LEMMA Alone ==
    ASSUME Inv, NEW c \in Checks, Out(c), phase' = [phase EXCEPT ![c] = "none"]
    PROVE  /\ checking /\ isChecking /\ ~ready /\ ~isReady /\ timers = {}
           /\ phase' \in [Checks -> {"none", "health", "root"}]
           /\ \A d \in Checks : phase'[d] = "none"
  BY DEF Inv, TypeOK, RefTrue, TimerKnown, Trying, Shown, Out

LEMMA SucceedInv ==
    ASSUME Inv, NEW c \in Checks, Out(c), Succeed(c), backend' = backend
    PROVE  Inv'
<1> USE DEF Inv
<1>1. /\ phase' = [phase EXCEPT ![c] = "none"] /\ slow' = slow \ {c}
      /\ ready' = (mounted \/ ready) /\ isReady' = (mounted \/ isReady)
      /\ checking' = FALSE
      /\ UNCHANGED <<mounted, timerRef, timers, isChecking>>
  BY DEF Succeed
<1>2. /\ checking /\ isChecking /\ ~ready /\ ~isReady /\ timers = {}
      /\ phase' \in [Checks -> {"none", "health", "root"}]
      /\ \A d \in Checks : phase'[d] = "none"
  BY <1>1, Alone
<1>3. /\ ready' \in BOOLEAN /\ isReady' \in BOOLEAN /\ ~checking'
      /\ (ready' <=> mounted) /\ (isReady' <=> mounted)
  BY <1>1, <1>2
<1>4. TypeOK'
  BY <1>1, <1>2, <1>3 DEF TypeOK
<1>5. RefTrue'
  BY <1>2, <1>3 DEF RefTrue, Out
<1>6. TimerKnown' /\ Trying' /\ Shown'
  BY <1>1, <1>2, <1>3 DEF TimerKnown, Trying, Shown
<1> QED BY <1>4, <1>5, <1>6

LEMMA RejectInv ==
    ASSUME Inv, NEW c \in Checks, Out(c), Reject(c), backend' = backend
    PROVE  Inv'
<1> USE DEF Inv
<1>1. /\ phase' = [phase EXCEPT ![c] = "none"] /\ slow' = slow \ {c}
      /\ checking' = FALSE
      /\ UNCHANGED <<mounted, ready, isReady>>
  BY DEF Reject
<1>2. /\ checking /\ isChecking /\ ~ready /\ ~isReady /\ timers = {}
      /\ phase' \in [Checks -> {"none", "health", "root"}]
      /\ \A d \in Checks : phase'[d] = "none"
  BY <1>1, Alone
<1>3. RefTrue'
  BY <1>1, <1>2 DEF RefTrue, Out
<1>4. CASE mounted
  <2>1. timers' = {c} /\ timerRef' = c /\ isChecking' = FALSE
    BY <1>2, <1>4 DEF Reject
  <2>2. TypeOK'
    BY <1>1, <1>2, <2>1 DEF TypeOK
  <2>3. TimerKnown' /\ Trying' /\ Shown'
    BY <1>1, <1>2, <1>4, <2>1 DEF TimerKnown, Trying, Shown
  <2> QED BY <1>3, <2>2, <2>3
<1>5. CASE ~mounted
  <2>1. UNCHANGED <<timers, timerRef, isChecking>>
    BY <1>5 DEF Reject
  <2>2. TypeOK'
    BY <1>1, <1>2, <2>1 DEF TypeOK
  <2>3. TimerKnown' /\ Trying' /\ Shown'
    BY <1>1, <1>2, <1>5, <2>1 DEF TimerKnown, Trying, Shown
  <2> QED BY <1>3, <2>2, <2>3
<1> QED BY <1>4, <1>5

LEMMA HealthInv == ASSUME Inv, NEW c \in Checks, Health(c) PROVE Inv'
<1> USE DEF Inv
<1>1. Out(c) /\ phase[c] = "health" /\ backend' = backend
  BY DEF Health, Out
<1>2. CASE Succeed(c)
  BY <1>1, <1>2, SucceedInv
<1>3. CASE Reject(c)
  BY <1>1, <1>3, RejectInv
<1>4. CASE /\ phase' = [phase EXCEPT ![c] = "root"]
           /\ UNCHANGED <<slow, refs, timers, state>>
  <2>1. /\ phase' \in [Checks -> {"none", "health", "root"}]
        /\ \A d \in Checks : phase'[d] # "none" <=> phase[d] # "none"
    BY <1>1, <1>4 DEF TypeOK
  <2>2. TypeOK'
    BY <1>1, <1>4, <2>1 DEF TypeOK, refs, state
  <2>3. RefTrue'
    BY <1>4, <2>1 DEF RefTrue, Out, refs
  <2>4. TimerKnown' /\ Trying' /\ Shown'
    BY <1>4 DEF TimerKnown, Trying, Shown, refs, state
  <2> QED BY <2>2, <2>3, <2>4
<1> QED BY <1>2, <1>3, <1>4 DEF Health

LEMMA RootInv == ASSUME Inv, NEW c \in Checks, Root(c) PROVE Inv'
  BY SucceedInv, RejectInv DEF Root, Out

LEMMA TimeoutInv == ASSUME Inv, NEW c \in Checks, Timeout(c) PROVE Inv'
  BY RejectInv DEF Timeout, Out

-----------------------------------------------------------------------------
\* A step that moves the backend, or nothing.
LEMMA ElsewhereInv ==
    ASSUME Inv, backend' \in {"down", "host", "up"}, slow' \subseteq Checks,
           UNCHANGED <<phase, refs, timers, state>>
    PROVE  Inv'
<1> USE DEF Inv, refs, state
<1>1. TypeOK' /\ RefTrue'
  BY DEF TypeOK, RefTrue, Out
<1>2. TimerKnown' /\ Trying' /\ Shown'
  BY DEF TimerKnown, Trying, Shown
<1> QED BY <1>1, <1>2

LEMMA NextInv == Inv /\ [Next]_vars => Inv'
<1> SUFFICES ASSUME Inv, [Next]_vars PROVE Inv'
  OBVIOUS
<1>1. CASE UNCHANGED vars
  BY <1>1, ElsewhereInv DEF vars, Inv, TypeOK
<1>2. CASE BackendMoves
  BY <1>2, ElsewhereInv DEF BackendMoves, InFlight, Inv, TypeOK
<1>3. CASE Mount \/ Unmount \/ RetryNow
  BY <1>3, MountInv, UnmountInv, RetryNowInv
<1>4. ASSUME NEW c \in Checks, Fire(c) PROVE Inv'
  BY <1>4, FireInv
<1>5. ASSUME NEW c \in Checks, Answers(c) PROVE Inv'
  BY <1>5, HealthInv, RootInv, TimeoutInv DEF Answers
<1> QED BY <1>1, <1>2, <1>3, <1>4, <1>5 DEF Next

\* The invariant holds in every reachable state, in whatever order callbacks,
\* timers and answers come.
THEOREM Invariance == Spec => []Inv
<1> QED BY InitInv, NextInv, PTL DEF Spec

\* Every variable keeps its type: the backend, the checks, the refs and the state.
THEOREM TypeCorrect == Spec => []TypeOK
<1>1. Inv => TypeOK
  BY DEF Inv
<1> QED BY <1>1, Invariance, PTL

-----------------------------------------------------------------------------
(* What the invariant says of the number of checks and timers. *)

\* A set with one element, or none.
LEMMA FewElements ==
    ASSUME NEW S, \A x, y \in S : x = y
    PROVE  /\ S = {} => Cardinality(S) = 0
           /\ S # {} => Cardinality(S) = 1
<1>1. S = {} => Cardinality(S) = 0
  BY FS_EmptySet
<1>2. ASSUME S # {} PROVE Cardinality(S) = 1
  <2>1. PICK x : S = {x}
    BY <1>2
  <2> QED BY <2>1, FS_Singleton
<1> QED BY <1>1, <1>2

LEMMA InvExclusive == Inv => OneCheckOrTimer
<1> SUFFICES ASSUME Inv PROVE OneCheckOrTimer
  OBVIOUS
<1> USE DEF Inv
<1>1. \A x, y \in InFlight : x = y
  BY DEF RefTrue, InFlight, Out
<1>2. \A x, y \in timers : x = y
  BY DEF TimerKnown
<1>3. checking <=> InFlight # {}
  BY DEF RefTrue, InFlight, Out
<1>4. /\ InFlight = {} => Cardinality(InFlight) = 0
      /\ InFlight # {} => Cardinality(InFlight) = 1
  BY <1>1, FewElements
<1>5. /\ timers = {} => Cardinality(timers) = 0
      /\ timers # {} => Cardinality(timers) = 1
  BY <1>2, FewElements
<1>6. /\ checking => timers = {}
      /\ ~mounted => timers = {}
      /\ ready => timers = {} /\ ~checking
      /\ mounted /\ ~ready => checking \/ timers # {}
  BY DEF TimerKnown, Trying
<1>7. mounted /\ ~ready => Cardinality(InFlight) + Cardinality(timers) = 1
  BY <1>3, <1>4, <1>5, <1>6
<1>8. Cardinality(InFlight) <= 1
  BY <1>4
<1> QED BY <1>3, <1>6, <1>7, <1>8 DEF OneCheckOrTimer

\* A gate that is mounted and closed does exactly one thing about it, a check or
\* the wait for the next, whatever was in flight when the effect was cleaned up.
THEOREM GateNeverIdles == Spec => []OneCheckOrTimer
<1> QED BY Invariance, InvExclusive, PTL

\* The button is disabled exactly while a check runs.
THEOREM ButtonIsTruthful == Spec => []ButtonTellsTheTruth
<1>1. Inv => ButtonTellsTheTruth
  BY DEF Inv, ButtonTellsTheTruth, RefTrue, Shown, InFlight, Out
<1> QED BY <1>1, Invariance, PTL

-----------------------------------------------------------------------------
(* What a gate that is gone still does. *)

\* A check that ends only takes itself out of flight.
LEMMA EndsOnly ==
    ASSUME NEW c, phase' = [phase EXCEPT ![c] = "none"], TypeOK
    PROVE  InFlight' \subseteq InFlight
  BY DEF InFlight, TypeOK

LEMMA InvGone == Inv /\ Next /\ ~mounted /\ ~mounted'
                   => /\ InFlight' \subseteq InFlight
                      /\ UNCHANGED <<ready, timerRef, timers, state>>
<1> SUFFICES ASSUME Inv, Next, ~mounted, ~mounted'
             PROVE  /\ InFlight' \subseteq InFlight
                    /\ UNCHANGED <<ready, timerRef, timers, state>>
  OBVIOUS
<1>1. CASE BackendMoves
  BY <1>1 DEF BackendMoves, InFlight, refs
<1>2. CASE Mount \/ Unmount \/ RetryNow
  BY <1>2 DEF Mount, Unmount, RetryNow
<1>3. ASSUME NEW c \in Checks, Fire(c) PROVE FALSE
  BY <1>3 DEF Fire, Inv, TimerKnown
<1>4. ASSUME NEW c \in Checks, Out(c), Succeed(c) \/ Reject(c)
      PROVE  /\ InFlight' \subseteq InFlight
             /\ UNCHANGED <<ready, timerRef, timers, state>>
  <2>1. /\ phase' = [phase EXCEPT ![c] = "none"]
        /\ UNCHANGED <<timerRef, timers, isChecking>>
    BY <1>4 DEF Succeed, Reject
  <2>2. UNCHANGED <<ready, isReady>>
    BY <1>4 DEF Succeed, Reject, Inv, TypeOK
  <2> QED BY <2>1, <2>2, EndsOnly DEF Inv, state
<1>5. ASSUME NEW c \in Checks, Health(c), UNCHANGED <<slow, refs, timers, state>>,
             phase' = [phase EXCEPT ![c] = "root"]
      PROVE  /\ InFlight' \subseteq InFlight
             /\ UNCHANGED <<ready, timerRef, timers, state>>
  BY <1>5 DEF InFlight, Health, Inv, TypeOK, refs
<1>6. ASSUME NEW c \in Checks, Answers(c)
      PROVE  /\ InFlight' \subseteq InFlight
             /\ UNCHANGED <<ready, timerRef, timers, state>>
  BY <1>4, <1>5, <1>6 DEF Answers, Health, Root, Timeout, Out
<1> QED BY <1>1, <1>2, <1>3, <1>6 DEF Next

\* From a cleanup until the effect runs again no old check and no left-over timer
\* opens, renders, arms or asks anything: the cleanup has cleared the only timer,
\* and the answer of the check that is out is dropped.
THEOREM GoneIsLeftAlone == Spec => NothingAfterCleanup
<1>1. Inv /\ [Next]_vars =>
        [~mounted /\ ~mounted' =>
             /\ InFlight' \subseteq InFlight
             /\ UNCHANGED <<ready, timerRef, timers, state>>]_vars
  BY InvGone
<1> QED BY <1>1, Invariance, PTL DEF Spec, NothingAfterCleanup
=============================================================================
