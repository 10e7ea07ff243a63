------------------------------ MODULE Accounts ------------------------------
(***************************************************************************)
(* Registration and authentication: the merchants table behind             *)
(* create_merchant and get_current_merchant (backend/app), and the session *)
(* a browser keeps of them (frontend/lib/api.ts and the pages).            *)
(*                                                                         *)
(* The tabs of the browser share its localStorage.  Requests overlap; an   *)
(* answer arrives in any order, or never.  The four reads of a dashboard   *)
(* refresh are one request here: they are sent together with one key, and  *)
(* the page acts when the last is answered or the first is refused.        *)
(*                                                                         *)
(* generate_api_key never draws a key twice, so a key is named by the      *)
(* registration that drew it, and its hash is as good as the key.          *)
(***************************************************************************)
CONSTANTS
    Tabs,
    Requests,  \* HTTP requests, also the names of keys
    Emails,
    None       \* no key, no row, nobody

ASSUME AccountsAssumption ==
    /\ Emails \cap Requests = {}
    /\ None \notin Requests \cup Emails \cup Tabs

VARIABLES
    merchants,  \* the merchants table, as committed: the key of each email's row
    req,        \* each request: the tab that waits for it, what it carries, how far it is
    storage,    \* localStorage: ledgerpay_api_key and ledgerpay_merchant
    page,       \* where each tab is
    busy        \* the tabs whose submit button is disabled

vars == <<merchants, req, storage, page, busy>>

Request == [tab : Tabs \cup {None}, email : Emails \cup {None}, key : Requests \cup {None},
            at : {"insert", "commit", "serve", "200", "201", "401", "409", "500"}]

ASSUME NoneAssumption == None \notin Request

TypeOK ==
    /\ merchants \in [Emails -> Requests \cup {None}]
    /\ req \in [Requests -> Request \cup {None}]
    /\ storage \in [key : Requests \cup {None}, profile : Emails \cup {None}]
    /\ page \in [Tabs -> {"arriving", "register", "created", "entering", "dashboard"}]
    /\ busy \subseteq Tabs

SignedOut == [key |-> None, profile |-> None]

Init ==
    /\ merchants = [e \in Emails |-> None]
    /\ req = [r \in Requests |-> None]
    /\ storage = SignedOut
    /\ page = [t \in Tabs |-> "arriving"]
    /\ busy = {}

At(r, phase) == req[r] # None /\ req[r].at = phase

-----------------------------------------------------------------------------
(* The server. *)

\* Mutant: two INSERTs of one email do not wait for each other.
NobodyInserting(e) == FALSE

\* An open transaction has inserted the email.
InsertOpen(e) == \E r \in Requests : At(r, "commit") /\ req[r].email = e

\* Mutant: the email is not unique, and the later row is the one found.
NeverTaken(e) == FALSE

\* uq_merchants_email
Taken(e) == merchants[e] # None

\* Mutant: the answer is made inside the transaction, and get_conn() has yet to commit.
AnswerThenCommit(r) ==
    /\ At(r, "insert")
    /\ ~InsertOpen(req[r].email)
    /\ req' = [req EXCEPT ![r].at = IF Taken(req[r].email) THEN "409" ELSE "201",
                          ![r].key = r]
    /\ UNCHANGED <<merchants, storage, page, busy>>

\* register_merchant: draw a key and INSERT.
Register(r) ==
    /\ At(r, "insert")
    /\ ~InsertOpen(req[r].email)
    /\ req' = [req EXCEPT ![r].at = IF Taken(req[r].email) THEN "409" ELSE "commit",
                          ![r].key = r]
    /\ UNCHANGED <<merchants, storage, page, busy>>

CommitMerchant(r) ==
    /\ At(r, "commit")
    /\ merchants' = [merchants EXCEPT ![req[r].email] = r]
    /\ req' = [req EXCEPT ![r].at = "201"]
    /\ UNCHANGED <<storage, page, busy>>

\* get_merchant_by_hashed_key; a missing header never matches.
Owners(k) == {e \in Emails : k # None /\ merchants[e] = k}

\* get_current_merchant in front of the reads.
Serve(r) ==
    /\ At(r, "serve")
    /\ req' = [req EXCEPT ![r].at = IF Owners(req[r].key) = {} THEN "401" ELSE "200"]
    /\ UNCHANGED <<merchants, storage, page, busy>>

\* No connection, or the process dies: an open transaction is rolled back.
Raise(r) ==
    /\ At(r, "insert") \/ At(r, "commit") \/ At(r, "serve")
    /\ req' = [req EXCEPT ![r].at = "500"]
    /\ UNCHANGED <<merchants, storage, page, busy>>

-----------------------------------------------------------------------------
(* The browser: where a tab goes. *)

Goto(t, p) == page' = [page EXCEPT ![t] = p]

\* req, once t sends a request.
Sent(t, email, key, phase) ==
    \E r \in Requests :
        /\ req[r] = None
        /\ req' = [req EXCEPT ![r] = [tab |-> t, email |-> email, key |-> key, at |-> phase]]

\* The effect of "/" and of "/register".
Arrive(t) ==
    /\ page[t] = "arriving"
    /\ Goto(t, IF storage.key = None THEN "register" ELSE "entering")
    /\ UNCHANGED <<merchants, req, storage, busy>>

\* The effect of "/dashboard".
Enter(t) ==
    /\ page[t] = "entering"
    /\ IF storage.key = None
       THEN Goto(t, "arriving") /\ UNCHANGED req
       ELSE Goto(t, "dashboard") /\ Sent(t, None, storage.key, "serve")
    /\ UNCHANGED <<merchants, storage, busy>>

\* "Continue to Dashboard"
Continue(t) ==
    /\ page[t] = "created"
    /\ Goto(t, "entering")
    /\ UNCHANGED <<merchants, req, storage, busy>>

\* A payment is complete; the key may be gone by now.
Refresh(t) ==
    /\ page[t] = "dashboard"
    /\ Sent(t, None, storage.key, "serve")
    /\ UNCHANGED <<merchants, storage, page, busy>>

Submit(t) ==
    /\ page[t] = "register" /\ t \notin busy
    /\ \E e \in Emails : Sent(t, e, None, "insert")
    /\ busy' = busy \cup {t}
    /\ UNCHANGED <<merchants, storage, page>>

\* The page changes, the requests of the tab go on.
SignOut(t) ==
    /\ page[t] = "dashboard"
    /\ storage' = SignedOut
    /\ Goto(t, "arriving")
    /\ UNCHANGED <<merchants, req, busy>>

\* A page load: nobody waits for the tab's requests any more.
Abandoned(t) ==
    [r \in Requests |-> IF req[r] # None /\ req[r].tab = t
                        THEN [req[r] EXCEPT !.tab = None] ELSE req[r]]

Load(t) ==
    /\ req' = Abandoned(t)
    /\ Goto(t, "arriving")
    /\ busy' = busy \ {t}

\* The user reloads the tab.
Reload(t) == page[t] # "arriving" /\ Load(t) /\ UNCHANGED <<merchants, storage>>

-----------------------------------------------------------------------------
(* The browser: what an answer does. *)

Waits(r) == req[r] # None /\ req[r].tab # None

Consumed(r) == req' = [req EXCEPT ![r].tab = None]

\* Mutant: the two items are swapped.
SaveSessionSwapped(r) ==
    /\ Waits(r) /\ At(r, "201")
    /\ storage' = [key |-> req[r].email, profile |-> req[r].key]
    /\ Goto(req[r].tab, "created")
    /\ busy' = busy \ {req[r].tab}
    /\ Consumed(r)
    /\ UNCHANGED merchants

\* 201: saveSession, and the page that shows the key.
SaveSession(r) ==
    /\ Waits(r) /\ At(r, "201")
    /\ storage' = [key |-> req[r].key, profile |-> req[r].email]
    /\ Goto(req[r].tab, "created")
    /\ busy' = busy \ {req[r].tab}
    /\ Consumed(r)
    /\ UNCHANGED merchants

\* 200: refreshDashboard keeps the profile, whoever is signed in by now.
KeepProfile(r) ==
    /\ Waits(r) /\ At(r, "200")
    /\ \E e \in Owners(req[r].key) : storage' = [storage EXCEPT !.profile = e]
    /\ Consumed(r)
    /\ UNCHANGED <<merchants, page, busy>>

\* 401: clearStoredSession, and a page load of /register.
ClearSession(r) ==
    /\ Waits(r) /\ At(r, "401")
    /\ storage' = SignedOut
    /\ Load(req[r].tab)
    /\ UNCHANGED merchants

\* Any other answer, or none: an error on the page.
ShowError(r) ==
    /\ Waits(r)
    /\ busy' = IF req[r].email # None THEN busy \ {req[r].tab} ELSE busy
    /\ Consumed(r)
    /\ UNCHANGED <<merchants, storage, page>>

-----------------------------------------------------------------------------
Server(r) == Register(r) \/ CommitMerchant(r) \/ Serve(r) \/ Raise(r)
Answer(r) == SaveSession(r) \/ KeepProfile(r) \/ ClearSession(r) \/ ShowError(r)
Tab(t) == Arrive(t) \/ Enter(t) \/ Continue(t) \/ Refresh(t) \/ Submit(t)
            \/ SignOut(t) \/ Reload(t)

Next ==
    \/ \E r \in Requests : Server(r) \/ Answer(r)
    \/ \E t \in Tabs : Tab(t)

Spec == Init /\ [][Next]_vars

-----------------------------------------------------------------------------
(* Safety. *)

\* The key in localStorage opens an account: it is saved only after the merchant
\* is committed, whatever became of other registrations and tabs.
StoredKeyWorks == storage.key # None => Owners(storage.key) # {}

\* Of all registrations with one email, concurrent or not, one is answered 201
\* and its key is the one in the table; a 409 is given only for an email that is
\* registered.
OneAccountPerEmail ==
    \A r \in Requests :
        /\ At(r, "201") => merchants[req[r].email] = r
        /\ At(r, "409") => merchants[req[r].email] \notin {None, r}

\* Nobody is refused who has a key: a 401 answers only a request that was sent
\* without one, by a tab that another tab signed out.
OnlyKeylessRefused == \A r \in Requests : At(r, "401") => req[r].key = None
=============================================================================
