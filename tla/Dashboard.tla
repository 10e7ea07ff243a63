----------------------------- MODULE Dashboard -----------------------------
(***************************************************************************)
(* The dashboard of one merchant (frontend/app/dashboard/page.tsx with     *)
(* PaymentForm.tsx) over the tables it reads.  The page runs one callback  *)
(* at a time; between a fetch and its answer anything may happen: other    *)
(* clients of the merchant create and settle payments, the form goes on,   *)
(* an older refresh lands after a younger one.                             *)
(*                                                                         *)
(* list is what list_payment_intents orders: newest created_at first.      *)
(* created_at is when the transaction began, so a row that commits late    *)
(* goes in behind one that overtook it.  TIMED_OUT is FAILED here.         *)
(***************************************************************************)
EXTENDS Naturals, SequencesExt

CONSTANTS
    Payments,
    FormPayments,  \* the ids of those that the form creates
    PageSize,      \* PAGE_SIZE
    MaxRefreshes,  \* bound on the refreshes explored
    MaxShown,      \* bound on the rows to which Load More adds
    None           \* no payment, not answered yet

ASSUME DashboardAssumption ==
    /\ PageSize \in Nat \ {0}
    /\ FormPayments \subseteq Payments
    /\ MaxRefreshes \in Nat
    /\ MaxShown \in Nat
    /\ None \notin Payments

Refreshes == 1..MaxRefreshes
Final == {"SUCCEEDED", "FAILED"}

VARIABLES
    list,       \* the merchant's payment_intents, newest first
    status,     \* and their statuses
    form,       \* where handleSubmit is, and with which intent
    sent,       \* refreshes sent so far; they are numbered
    refresh,    \* each refresh: whether it is in flight, what it has been answered
    more,       \* the Load More in flight
    shown,      \* state: payments
    balance,    \* state: balance, as the payments it adds up
    hasMore,    \* state: hasMore
    announced,  \* state: banner, as the payment it is about
    landed,     \* ghost: the refresh that landed last
    base,       \* ghost: the whole list as that refresh read it
    torn        \* ghost: a page was appended to another list than it was asked for

tables == <<list, status>>
state == <<shown, balance, hasMore, announced>>
ghosts == <<landed, base, torn>>
vars == <<tables, form, sent, refresh, more, state, ghosts>>

Row == [id : Payments, status : {"CREATED"} \cup Final]
Closed == [open |-> FALSE, rows |-> None, balance |-> None, base |-> <<>>]
Idle == [at |-> "idle", intent |-> None]

TypeOK ==
    /\ ToSet(list) \subseteq Payments
    /\ status \in [Payments -> {"ABSENT", "CREATED"} \cup Final]
    /\ form \in [at : {"idle", "creating", "created", "confirming", "confirmed"},
                 intent : Payments \cup {None}]
    /\ sent \in 0..MaxRefreshes
    /\ \A n \in Refreshes :
          /\ refresh[n].open \in BOOLEAN
          /\ refresh[n].rows # None => ToSet(refresh[n].rows) \subseteq Row
          /\ refresh[n].balance # None => refresh[n].balance \subseteq Payments
    /\ more # None /\ more.rows # None => ToSet(more.rows) \subseteq Row
    /\ ToSet(shown) \subseteq Row
    /\ balance \subseteq Payments
    /\ {hasMore, torn} \subseteq BOOLEAN
    /\ announced \in Payments \cup {None}
    /\ landed \in 0..sent
    /\ ToSet(base) \subseteq ToSet(list)

Init ==
    /\ list = <<>>
    /\ status = [p \in Payments |-> "ABSENT"]
    /\ form = Idle
    /\ sent = 0
    /\ refresh = [n \in Refreshes |-> Closed]
    /\ more = None
    /\ shown = <<>>
    /\ balance = {}
    /\ hasMore = FALSE
    /\ announced = None
    /\ landed = 0
    /\ base = <<>>
    /\ torn = FALSE

-----------------------------------------------------------------------------
(* The tables, and the other clients of the merchant. *)

\* Mutant: the ids without their payments.
PageOfIds(offset) ==
    SubSeq(list, offset + 1, IF offset + PageSize < Len(list)
                             THEN offset + PageSize ELSE Len(list))

\* LIMIT PageSize OFFSET offset
Page(offset) ==
    LET ids == SubSeq(list, offset + 1, IF offset + PageSize < Len(list)
                                        THEN offset + PageSize ELSE Len(list))
    IN  [i \in DOMAIN ids |-> [id |-> ids[i], status |-> status[ids[i]]]]

CreateRow(p) ==
    /\ status[p] = "ABSENT"
    /\ status' = [status EXCEPT ![p] = "CREATED"]
    /\ \E i \in 1..Len(list) + 1 : list' = InsertAt(list, i, p)

SettleRow(p) ==
    /\ status[p] = "CREATED"
    /\ \E s \in Final : status' = [status EXCEPT ![p] = s]
    /\ UNCHANGED list

OtherClient(p) ==
    /\ \/ p \notin FormPayments /\ CreateRow(p)
       \/ p # form.intent /\ SettleRow(p)
    /\ UNCHANGED <<form, sent, refresh, more, state, ghosts>>

-----------------------------------------------------------------------------
(* refreshDashboard. *)

StartRefresh ==
    /\ sent < MaxRefreshes
    /\ sent' = sent + 1
    /\ refresh' = [refresh EXCEPT ![sent + 1].open = TRUE]

\* The page is opened; in development its effect runs twice.
Open ==
    /\ StartRefresh
    /\ UNCHANGED <<tables, form, more, state, ghosts>>

ReadList(n) ==
    /\ refresh[n].open /\ refresh[n].rows = None
    /\ refresh' = [refresh EXCEPT ![n].rows = Page(0), ![n].base = list]
    /\ UNCHANGED <<tables, form, sent, more, state, ghosts>>

ReadBalance(n) ==
    /\ refresh[n].open /\ refresh[n].balance = None
    /\ refresh' = [refresh EXCEPT ![n].balance = {p \in Payments : status[p] = "SUCCEEDED"}]
    /\ UNCHANGED <<tables, form, sent, more, state, ghosts>>

\* Promise.all is over: it does not matter which refresh was sent last.
Land(n) ==
    /\ refresh[n].open /\ refresh[n].rows # None /\ refresh[n].balance # None
    /\ shown' = refresh[n].rows
    /\ balance' = refresh[n].balance
    /\ hasMore' = (Len(refresh[n].rows) = PageSize)
    /\ landed' = n
    /\ base' = refresh[n].base
    /\ torn' = FALSE
    /\ more' = IF more = None THEN None ELSE [more EXCEPT !.late = TRUE]
    /\ refresh' = [refresh EXCEPT ![n] = Closed]
    /\ UNCHANGED <<tables, form, sent, announced>>

\* One of the four fails: the page keeps what it shows, with an error.
FailRefresh(n) ==
    /\ refresh[n].open
    /\ refresh' = [refresh EXCEPT ![n] = Closed]
    /\ UNCHANGED <<tables, form, sent, more, state, ghosts>>

-----------------------------------------------------------------------------
(* handleLoadMore; the button is there if hasMore and disabled while it loads. *)

\* Mutant: pages are counted from one.
OffsetFromOne == Len(shown) + 1

Offset == Len(shown)

LoadMore ==
    /\ hasMore /\ more = None
    /\ Len(shown) <= MaxShown
    /\ more' = [offset |-> Offset, rows |-> None, late |-> FALSE]
    /\ UNCHANGED <<tables, form, sent, refresh, state, ghosts>>

ReadMore ==
    /\ more # None /\ more.rows = None
    /\ more' = [more EXCEPT !.rows = Page(more.offset)]
    /\ UNCHANGED <<tables, form, sent, refresh, state, ghosts>>

LandMore ==
    /\ more # None /\ more.rows # None
    /\ shown' = shown \o more.rows
    /\ hasMore' = (Len(more.rows) = PageSize)
    /\ torn' = (torn \/ more.late)
    /\ more' = None
    /\ UNCHANGED <<tables, form, sent, refresh, balance, announced, landed, base>>

FailMore ==
    /\ more # None
    /\ more' = None
    /\ UNCHANGED <<tables, form, sent, refresh, state, ghosts>>

-----------------------------------------------------------------------------
(* handleSubmit of the form, its two requests, and handlePaymentComplete. *)

Submit ==
    /\ form.at = "idle"
    /\ form' = [at |-> "creating", intent |-> None]
    /\ UNCHANGED <<tables, sent, refresh, more, state, ghosts>>

ServeCreate(p) ==
    /\ form.at = "creating"
    /\ CreateRow(p)
    /\ form' = [at |-> "created", intent |-> p]
    /\ UNCHANGED <<sent, refresh, more, state, ghosts>>

Confirm ==
    /\ form.at = "created"
    /\ form' = [form EXCEPT !.at = "confirming"]
    /\ UNCHANGED <<tables, sent, refresh, more, state, ghosts>>

ServeConfirm ==
    /\ form.at = "confirming"
    /\ SettleRow(form.intent)
    /\ form' = [form EXCEPT !.at = "confirmed"]
    /\ UNCHANGED <<sent, refresh, more, state, ghosts>>

\* Mutant: the page refreshes itself while the confirm is on its way.
CompleteEarly ==
    /\ form.at = "confirming"
    /\ announced' = form.intent
    /\ StartRefresh
    /\ form' = Idle
    /\ UNCHANGED <<tables, more, shown, balance, hasMore, ghosts>>

PaymentComplete ==
    /\ form.at = "confirmed"
    /\ announced' = form.intent
    /\ StartRefresh
    /\ form' = Idle
    /\ UNCHANGED <<tables, more, shown, balance, hasMore, ghosts>>

\* A request fails or its answer is lost: an error in the form, and no refresh.
FailForm ==
    /\ form.at # "idle"
    /\ form' = Idle
    /\ UNCHANGED <<tables, sent, refresh, more, state, ghosts>>

\* The banner goes after four seconds.
HideBanner ==
    /\ announced # None
    /\ announced' = None
    /\ UNCHANGED <<tables, form, sent, refresh, more, shown, balance, hasMore, ghosts>>

-----------------------------------------------------------------------------
Next ==
    \/ \E p \in Payments : OtherClient(p)
    \/ \E p \in FormPayments : ServeCreate(p)
    \/ \E n \in Refreshes : ReadList(n) \/ ReadBalance(n) \/ Land(n) \/ FailRefresh(n)
    \/ Open \/ LoadMore \/ ReadMore \/ LandMore \/ FailMore
    \/ Submit \/ Confirm \/ ServeConfirm \/ PaymentComplete \/ FailForm \/ HideBanner

Spec == Init /\ [][Next]_vars

-----------------------------------------------------------------------------
(* Safety. *)

ShownIds == {row.id : row \in ToSet(shown)}

\* However many payments arrive between two pages, no payment of the last refresh
\* is skipped on the way down the list, and Load More is gone only when all are
\* shown; nor is any shown twice while the list stays as it was.  (The offset is
\* the number of rows shown.)  This leaves out pages that were asked for before
\* a refresh landed and appended after it: their offset is that of another list.
NothingSkipped ==
    ~torn =>
        /\ \A i, j \in DOMAIN base : i < j /\ base[j] \in ShownIds => base[i] \in ShownIds
        /\ ~hasMore => ToSet(base) \subseteq ShownIds
        /\ list = base => Len(shown) <= Len(base)

\* A payment that the banner announces is in the table with its final status and,
\* if it succeeded, in the balance, as soon as the refresh sent for it has landed
\* last; unless a page of younger ones pushed it down.
AnnouncedIsListed ==
    announced # None /\ landed = sent =>
        /\ announced \in ToSet(base)
        /\ status[announced] = "SUCCEEDED" => announced \in balance
        /\ announced \in {base[i] : i \in DOMAIN base \cap 1..PageSize} =>
              [id |-> announced, status |-> status[announced]] \in ToSet(shown)
=============================================================================
