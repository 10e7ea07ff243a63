--------------------------- MODULE AccountsProofs ---------------------------
(***************************************************************************)
(* Proofs about registration and the session of a browser, for any number  *)
(* of tabs, requests and emails: a stored key opens an account, an email   *)
(* has one, and nobody who has a key is refused.                           *)
(*                                                                         *)
(* All three say that something that was true when it was read is true     *)
(* still when it is used.  The invariant follows a key from the request    *)
(* that draws it, over the commit, into answers and localStorage.          *)
(***************************************************************************)
EXTENDS Accounts, TLAPS

Registering == {"insert", "commit", "201", "409"}
Reading == {"serve", "200", "401"}

\* What a request carries at each point: a registration its email and, from the
\* INSERT on, its own key; a read no email.
Carries ==
    \A r \in Requests : req[r] # None =>
        /\ req[r].at \in Registering => req[r].email \in Emails
        /\ req[r].at \in {"commit", "201", "409"} => req[r].key = r

\* The key of a row is that of the one registration that was answered 201.
RowsAnswered ==
    \A e \in Emails : merchants[e] # None =>
        At(merchants[e], "201") /\ req[merchants[e]].email = e

\* An INSERT that waits for its commit is alone with its email.
InsertsAlone ==
    /\ \A r \in Requests : At(r, "commit") => merchants[req[r].email] = None
    /\ \A r, s \in Requests :
          At(r, "commit") /\ At(s, "commit") /\ req[r].email = req[s].email => r = s

\* The key of a read was that of an account when it was sent, and still is.
ReadsKnown ==
    \A r \in Requests : req[r] # None /\ req[r].at \in Reading /\ req[r].key # None =>
        Owners(req[r].key) # {}

Inv == TypeOK /\ Carries /\ RowsAnswered /\ InsertsAlone /\ ReadsKnown
         /\ OneAccountPerEmail /\ StoredKeyWorks /\ OnlyKeylessRefused

-----------------------------------------------------------------------------
LEMMA InitInv == Init => Inv
  BY AccountsAssumption
  DEF Init, Inv, TypeOK, Carries, RowsAnswered, InsertsAlone, ReadsKnown,
      OneAccountPerEmail, StoredKeyWorks, OnlyKeylessRefused, At, SignedOut

LEMMA ReqType ==
    ASSUME TypeOK, NEW r \in Requests, req[r] # None
    PROVE  /\ req[r] \in Request
           /\ req[r].tab \in Tabs \cup {None} /\ req[r].email \in Emails \cup {None}
           /\ req[r].key \in Requests \cup {None}
           /\ req[r].at \in {"insert", "commit", "serve", "200", "201", "401", "409", "500"}
  BY DEF TypeOK, Request

\* A request that goes on to phase p with key k, and what it keeps.
Onward(r, p, k) == req' = [req EXCEPT ![r].at = p, ![r].key = k]

LEMMA OnwardType ==
    ASSUME TypeOK, NEW r \in Requests, req[r] # None,
           NEW p \in {"insert", "commit", "serve", "200", "201", "401", "409", "500"},
           NEW k \in Requests \cup {None}, Onward(r, p, k)
    PROVE  /\ req' \in [Requests -> Request \cup {None}]
           /\ req'[r] # None
           /\ req'[r].at = p /\ req'[r].key = k /\ req'[r].email = req[r].email
           /\ \A s \in Requests : s # r => req'[s] = req[s]
<1>1. req[r] \in Request /\ req \in [Requests -> Request \cup {None}]
  BY ReqType DEF TypeOK
<1>2. req' = [req EXCEPT ![r] = [req[r] EXCEPT !.at = p, !.key = k]]
  BY <1>1 DEF Onward
<1>3. [req[r] EXCEPT !.at = p, !.key = k] \in Request
  BY <1>1 DEF Request
<1>4. req'[r] = [req[r] EXCEPT !.at = p, !.key = k] /\ req'[r] # None
  BY <1>1, <1>2, <1>3, NoneAssumption
<1>5. req'[r].at = p /\ req'[r].key = k /\ req'[r].email = req[r].email
  BY <1>1, <1>4 DEF Request
<1>6. req' \in [Requests -> Request \cup {None}] /\ \A s \in Requests : s # r => req'[s] = req[s]
  BY <1>1, <1>2, <1>3
<1> QED BY <1>4, <1>5, <1>6

\* A request that goes on to phase p, and what it keeps.
Phase(r, p) == req' = [req EXCEPT ![r].at = p]

LEMMA PhaseType ==
    ASSUME TypeOK, NEW r \in Requests, req[r] # None,
           NEW p \in {"insert", "commit", "serve", "200", "201", "401", "409", "500"},
           Phase(r, p)
    PROVE  /\ req' \in [Requests -> Request \cup {None}]
           /\ req'[r] # None
           /\ req'[r].at = p /\ req'[r].key = req[r].key /\ req'[r].email = req[r].email
           /\ \A s \in Requests : s # r => req'[s] = req[s]
<1>1. req[r] \in Request /\ req \in [Requests -> Request \cup {None}]
  BY ReqType DEF TypeOK
<1>2. req' = [req EXCEPT ![r] = [req[r] EXCEPT !.at = p]]
  BY <1>1 DEF Phase
<1>3. [req[r] EXCEPT !.at = p] \in Request
  BY <1>1 DEF Request
<1>4. req'[r] = [req[r] EXCEPT !.at = p] /\ req'[r] # None
  BY <1>1, <1>2, <1>3, NoneAssumption
<1>5. req'[r].at = p /\ req'[r].key = req[r].key /\ req'[r].email = req[r].email
  BY <1>1, <1>4 DEF Request
<1>6. req' \in [Requests -> Request \cup {None}] /\ \A s \in Requests : s # r => req'[s] = req[s]
  BY <1>1, <1>2, <1>3
<1> QED BY <1>4, <1>5, <1>6

LEMMA RegisterInv == ASSUME Inv, NEW r \in Requests, Register(r) PROVE Inv'
<1> USE AccountsAssumption DEF Inv
<1>1. /\ req[r] # None /\ req[r].at = "insert" /\ req[r].email \in Emails
      /\ ~InsertOpen(req[r].email)
  BY DEF Register, At, Carries, Registering
<1> DEFINE p == IF Taken(req[r].email) THEN "409" ELSE "commit"
<1>2. Onward(r, p, r) /\ UNCHANGED <<merchants, storage, page, busy>>
  BY DEF Register, Onward
<1>3. /\ req' \in [Requests -> Request \cup {None}]
      /\ req'[r] # None /\ req'[r].at = p /\ req'[r].key = r /\ req'[r].email = req[r].email
      /\ \A s \in Requests : s # r => req'[s] = req[s]
  <2>1. p \in {"409", "commit"}
    OBVIOUS
  <2> HIDE DEF p
  <2> QED BY <1>1, <1>2, <2>1, OnwardType
<1>4. TypeOK'
  BY <1>2, <1>3 DEF TypeOK
<1>5. Carries'
  BY <1>1, <1>3 DEF Carries, Registering
<1>6. \A e \in Emails : merchants[e] # r
  BY <1>1 DEF RowsAnswered, At
<1>7. RowsAnswered'
  BY <1>2, <1>3, <1>6 DEF RowsAnswered, At, TypeOK
<1>8. InsertsAlone'
  BY <1>1, <1>2, <1>3 DEF InsertsAlone, InsertOpen, Taken, At
<1>9. ReadsKnown' /\ OnlyKeylessRefused'
  BY <1>2, <1>3 DEF ReadsKnown, OnlyKeylessRefused, Owners, Reading, At
<1>10. OneAccountPerEmail'
  BY <1>1, <1>2, <1>3, <1>6 DEF OneAccountPerEmail, Taken, At
<1>11. StoredKeyWorks'
  BY <1>2 DEF StoredKeyWorks, Owners
<1> QED BY <1>4, <1>5, <1>7, <1>8, <1>9, <1>10, <1>11

LEMMA CommitInv == ASSUME Inv, NEW r \in Requests, CommitMerchant(r) PROVE Inv'
<1> USE AccountsAssumption DEF Inv
<1>1. /\ req[r] # None /\ req[r].at = "commit" /\ req[r].email \in Emails /\ req[r].key = r
      /\ merchants[req[r].email] = None
      /\ req[r].at \notin Reading
  BY DEF CommitMerchant, At, Carries, Registering, Reading, InsertsAlone
<1> DEFINE m == req[r].email
<1>2. /\ merchants' = [merchants EXCEPT ![m] = r]
      /\ UNCHANGED <<storage, page, busy>>
  BY DEF CommitMerchant
<1>3. /\ req' \in [Requests -> Request \cup {None}]
      /\ req'[r] # None /\ req'[r].at = "201" /\ req'[r].key = r /\ req'[r].email = m
      /\ \A s \in Requests : s # r => req'[s] = req[s]
  <2>1. Phase(r, "201")
    BY DEF CommitMerchant, Phase
  <2> QED BY <1>1, <2>1, PhaseType
<1>4. /\ merchants' \in [Emails -> Requests \cup {None}]
      /\ merchants'[m] = r /\ \A e \in Emails : e # m => merchants'[e] = merchants[e]
  BY <1>1, <1>2 DEF TypeOK
<1>5. TypeOK'
  BY <1>2, <1>3, <1>4 DEF TypeOK
<1>6. Carries'
  BY <1>1, <1>3 DEF Carries, Registering
<1>7. \A e \in Emails : merchants[e] # r
  BY <1>1 DEF RowsAnswered, At
<1>8. RowsAnswered'
  BY <1>1, <1>3, <1>4 DEF RowsAnswered, At, TypeOK
<1>9. \A s \in Requests : s # r /\ At(s, "commit") => req[s].email # m
  BY <1>1 DEF InsertsAlone, At
<1>10. InsertsAlone'
  BY <1>3, <1>4, <1>9 DEF InsertsAlone, At, Carries, Registering
<1>11. \A k \in Requests : Owners(k) # {} => Owners(k)' # {}
  BY <1>1, <1>4 DEF Owners
<1>12. ReadsKnown'
  BY <1>3, <1>11, ReqType DEF ReadsKnown, Reading
<1>13. OnlyKeylessRefused'
  BY <1>3 DEF OnlyKeylessRefused, At
<1>14. OneAccountPerEmail'
  BY <1>1, <1>3, <1>4 DEF OneAccountPerEmail, At, Carries, Registering
<1>15. StoredKeyWorks'
  BY <1>2, <1>11 DEF StoredKeyWorks, TypeOK
<1> QED BY <1>5, <1>6, <1>8, <1>10, <1>12, <1>13, <1>14, <1>15

LEMMA ServeInv == ASSUME Inv, NEW r \in Requests, Serve(r) PROVE Inv'
<1> USE AccountsAssumption DEF Inv
<1>1. req[r] # None /\ req[r].at = "serve"
  BY DEF Serve, At
<1> DEFINE p == IF Owners(req[r].key) = {} THEN "401" ELSE "200"
<1>2. Phase(r, p) /\ UNCHANGED <<merchants, storage, page, busy>>
  BY DEF Serve, Phase
<1>3. /\ req' \in [Requests -> Request \cup {None}]
      /\ req'[r] # None /\ req'[r].at = p /\ req'[r].key = req[r].key
      /\ \A s \in Requests : s # r => req'[s] = req[s]
  <2>1. p \in {"401", "200"}
    OBVIOUS
  <2> HIDE DEF p
  <2> QED BY <1>1, <1>2, <2>1, PhaseType
<1>4. TypeOK'
  BY <1>2, <1>3 DEF TypeOK
<1>5. Carries'
  BY <1>3 DEF Carries, Registering
<1>6. \A e \in Emails : merchants[e] # r
  BY <1>1 DEF RowsAnswered, At
<1>7. RowsAnswered'
  BY <1>2, <1>3, <1>6 DEF RowsAnswered, At, TypeOK
<1>8. InsertsAlone'
  BY <1>2, <1>3 DEF InsertsAlone, At
<1>9. req[r].key # None => p = "200"
  BY <1>1 DEF ReadsKnown, Reading
<1>10. ReadsKnown' /\ OnlyKeylessRefused'
  BY <1>1, <1>2, <1>3, <1>9 DEF ReadsKnown, OnlyKeylessRefused, Owners, Reading, At
<1>11. OneAccountPerEmail' /\ StoredKeyWorks'
  BY <1>2, <1>3 DEF OneAccountPerEmail, StoredKeyWorks, Owners, At
<1> QED BY <1>4, <1>5, <1>7, <1>8, <1>10, <1>11

LEMMA RaiseInv == ASSUME Inv, NEW r \in Requests, Raise(r) PROVE Inv'
<1> USE AccountsAssumption DEF Inv
<1>1. req[r] # None /\ req[r].at \in {"insert", "commit", "serve"}
  BY DEF Raise, At
<1>2. Phase(r, "500") /\ UNCHANGED <<merchants, storage, page, busy>>
  BY DEF Raise, Phase
<1>3. /\ req' \in [Requests -> Request \cup {None}]
      /\ req'[r] # None /\ req'[r].at = "500"
      /\ \A s \in Requests : s # r => req'[s] = req[s]
  BY <1>1, <1>2, PhaseType
<1>4. TypeOK'
  BY <1>2, <1>3 DEF TypeOK
<1>5. \A e \in Emails : merchants[e] # r
  BY <1>1 DEF RowsAnswered, At
<1>6. RowsAnswered'
  BY <1>2, <1>3, <1>5 DEF RowsAnswered, At, TypeOK
<1>7. Carries' /\ InsertsAlone'
  BY <1>2, <1>3 DEF Carries, Registering, InsertsAlone, At
<1>8. ReadsKnown' /\ OnlyKeylessRefused'
  BY <1>2, <1>3 DEF ReadsKnown, OnlyKeylessRefused, Owners, Reading, At
<1>9. OneAccountPerEmail' /\ StoredKeyWorks'
  BY <1>2, <1>3 DEF OneAccountPerEmail, StoredKeyWorks, Owners, At
<1> QED BY <1>4, <1>6, <1>7, <1>8, <1>9

-----------------------------------------------------------------------------
(* The browser.  It sends requests and drops them, and stores what they say. *)

\* What the browser does to the requests: it forgets who waits for them, and no
\* more.
Forgets ==
    /\ req' \in [Requests -> Request \cup {None}]
    /\ \A r \in Requests :
          /\ req'[r] # None <=> req[r] # None
          /\ req[r] # None => /\ req'[r].at = req[r].at
                             /\ req'[r].email = req[r].email
                             /\ req'[r].key = req[r].key

LEMMA ForgetsOne ==
    ASSUME TypeOK, NEW r \in Requests, req[r] # None, Consumed(r)
    PROVE  Forgets
<1>1. req[r] \in Request /\ req \in [Requests -> Request \cup {None}]
  BY ReqType DEF TypeOK
<1>2. req' = [req EXCEPT ![r] = [req[r] EXCEPT !.tab = None]]
  BY <1>1 DEF Consumed
<1>3. [req[r] EXCEPT !.tab = None] \in Request
  BY <1>1 DEF Request
<1>4. req' \in [Requests -> Request \cup {None}] /\ \A s \in Requests : s # r => req'[s] = req[s]
  BY <1>1, <1>2, <1>3
<1>5. req'[r] = [req[r] EXCEPT !.tab = None] /\ req'[r] # None
  BY <1>1, <1>2, <1>3, NoneAssumption
<1>6. /\ req'[r].at = req[r].at /\ req'[r].email = req[r].email
      /\ req'[r].key = req[r].key
  BY <1>1, <1>5 DEF Request
<1> QED BY <1>4, <1>5, <1>6 DEF Forgets

LEMMA ForgetsTab ==
    ASSUME TypeOK, NEW t \in Tabs, req' = Abandoned(t)
    PROVE  Forgets
<1>1. ASSUME NEW r \in Requests, req[r] # None
      PROVE  /\ req'[r] \in Request /\ req'[r] # None
             /\ req'[r].at = req[r].at /\ req'[r].email = req[r].email
             /\ req'[r].key = req[r].key
  <2>1. req[r] \in Request
    BY <1>1, ReqType
  <2>2. [req[r] EXCEPT !.tab = None] \in Request
    BY <2>1 DEF Request
  <2>3. req'[r] = IF req[r].tab = t THEN [req[r] EXCEPT !.tab = None] ELSE req[r]
    BY <1>1 DEF Abandoned
  <2>4. req'[r] \in Request /\ req'[r] # None
    BY <2>1, <2>2, <2>3, NoneAssumption
  <2> QED BY <2>1, <2>3, <2>4 DEF Request
<1>2. ASSUME NEW r \in Requests, req[r] = None PROVE req'[r] = None
  BY <1>2 DEF Abandoned
<1>3. req' \in [Requests -> Request \cup {None}]
  BY <1>1, <1>2 DEF Abandoned
<1> QED BY <1>1, <1>2, <1>3 DEF Forgets

\* A step of the browser that forgets requests and leaves a known key, or none.
LEMMA ForgetsInv ==
    ASSUME Inv, Forgets, merchants' = merchants, TypeOK',
           storage'.key # None => Owners(storage'.key) # {}
    PROVE  Inv'
<1> USE DEF Inv
<1>1. Carries' /\ InsertsAlone'
  BY DEF Forgets, Carries, InsertsAlone, At
<1>2. RowsAnswered'
  BY DEF Forgets, RowsAnswered, At, TypeOK
<1>3. ReadsKnown' /\ OnlyKeylessRefused'
  BY DEF Forgets, ReadsKnown, OnlyKeylessRefused, Owners, At
<1>4. OneAccountPerEmail' /\ StoredKeyWorks'
  BY DEF Forgets, OneAccountPerEmail, StoredKeyWorks, Owners, At
<1> QED BY <1>1, <1>2, <1>3, <1>4

LEMMA WaitsType ==
    ASSUME TypeOK, NEW r \in Requests, Waits(r)
    PROVE  req[r] # None /\ req[r].tab \in Tabs
  BY ReqType DEF Waits

LEMMA SaveSessionInv == ASSUME Inv, NEW r \in Requests, SaveSession(r) PROVE Inv'
<1> USE AccountsAssumption DEF Inv
<1>1. /\ req[r] # None /\ req[r].tab \in Tabs /\ req[r].key = r
      /\ req[r].email \in Emails /\ merchants[req[r].email] = r
  BY WaitsType DEF SaveSession, At, Carries, Registering, OneAccountPerEmail
<1>2. Forgets
  BY <1>1, ForgetsOne DEF SaveSession
<1>3. /\ storage' = [key |-> req[r].key, profile |-> req[r].email]
      /\ merchants' = merchants
      /\ page' = [page EXCEPT ![req[r].tab] = "created"]
      /\ busy' = busy \ {req[r].tab}
  BY DEF SaveSession, Goto
<1>4. TypeOK'
  BY <1>1, <1>2, <1>3 DEF Forgets, TypeOK
<1>5. Owners(storage'.key) # {}
  BY <1>1, <1>3 DEF Owners
<1> QED BY <1>2, <1>3, <1>4, <1>5, ForgetsInv

LEMMA KeepProfileInv == ASSUME Inv, NEW r \in Requests, KeepProfile(r) PROVE Inv'
<1> USE DEF Inv
<1>1. Forgets
  BY WaitsType, ForgetsOne DEF KeepProfile
<1>2. PICK e \in Emails : storage' = [storage EXCEPT !.profile = e]
  BY DEF KeepProfile, Owners
<1>3. merchants' = merchants /\ page' = page /\ busy' = busy
  BY DEF KeepProfile
<1>4. TypeOK' /\ storage'.key = storage.key
  BY <1>1, <1>2, <1>3 DEF Forgets, TypeOK
<1> QED BY <1>1, <1>3, <1>4, ForgetsInv DEF StoredKeyWorks

LEMMA LoadType ==
    ASSUME TypeOK, NEW t \in Tabs, Load(t)
    PROVE  /\ Forgets
           /\ page' \in [Tabs -> {"arriving", "register", "created", "entering", "dashboard"}]
           /\ busy' \subseteq Tabs
<1>1. Forgets
  BY ForgetsTab DEF Load
<1>2. page' = [page EXCEPT ![t] = "arriving"] /\ busy' = busy \ {t}
  BY DEF Load, Goto
<1> QED BY <1>1, <1>2 DEF TypeOK

LEMMA ClearSessionInv == ASSUME Inv, NEW r \in Requests, ClearSession(r) PROVE Inv'
<1> USE DEF Inv
<1>1. req[r].tab \in Tabs /\ Load(req[r].tab)
  BY WaitsType DEF ClearSession
<1>2. storage' = [key |-> None, profile |-> None] /\ merchants' = merchants
  BY DEF ClearSession, SignedOut
<1>3. Forgets /\ TypeOK'
  BY <1>1, <1>2, LoadType DEF Forgets, TypeOK
<1> QED BY <1>2, <1>3, ForgetsInv

LEMMA ShowErrorInv == ASSUME Inv, NEW r \in Requests, ShowError(r) PROVE Inv'
<1> USE DEF Inv
<1>1. Forgets
  BY WaitsType, ForgetsOne DEF ShowError
<1>2. merchants' = merchants /\ storage' = storage /\ page' = page /\ busy' \subseteq busy
  BY DEF ShowError
<1>3. TypeOK'
  BY <1>1, <1>2 DEF Forgets, TypeOK
<1> QED BY <1>1, <1>2, <1>3, ForgetsInv DEF StoredKeyWorks

\* A step of a tab that leaves the requests alone and a known key, or none.
LEMMA QuietInv ==
    ASSUME Inv, req' = req, merchants' = merchants, TypeOK',
           storage'.key # None => Owners(storage'.key) # {}
    PROVE  Inv'
<1>1. Forgets
  BY DEF Forgets, Inv, TypeOK
<1> QED BY <1>1, ForgetsInv

LEMMA ArriveInv == ASSUME Inv, NEW t \in Tabs, Arrive(t) PROVE Inv'
<1> USE DEF Inv
<1>1. UNCHANGED <<merchants, req, storage, busy>>
  BY DEF Arrive
<1>2. PICK p \in {"register", "entering"} : page' = [page EXCEPT ![t] = p]
  BY DEF Arrive, Goto
<1>3. TypeOK'
  BY <1>1, <1>2 DEF TypeOK
<1> QED BY <1>1, <1>3, QuietInv DEF StoredKeyWorks

LEMMA ContinueInv == ASSUME Inv, NEW t \in Tabs, Continue(t) PROVE Inv'
<1> USE DEF Inv
<1>1. UNCHANGED <<merchants, req, storage, busy>>
  BY DEF Continue
<1>2. TypeOK'
  BY <1>1 DEF TypeOK, Continue, Goto
<1> QED BY <1>1, <1>2, QuietInv DEF StoredKeyWorks

LEMMA SignOutInv == ASSUME Inv, NEW t \in Tabs, SignOut(t) PROVE Inv'
<1> USE DEF Inv
<1>1. UNCHANGED <<merchants, req, busy>> /\ storage' = [key |-> None, profile |-> None]
  BY DEF SignOut, SignedOut
<1>2. TypeOK'
  BY <1>1 DEF TypeOK, SignOut, Goto
<1> QED BY <1>1, <1>2, QuietInv

LEMMA ReloadInv == ASSUME Inv, NEW t \in Tabs, Reload(t) PROVE Inv'
<1> USE DEF Inv
<1>1. UNCHANGED <<merchants, storage>> /\ Load(t)
  BY DEF Reload
<1>2. Forgets /\ TypeOK'
  BY <1>1, LoadType DEF Forgets, TypeOK
<1> QED BY <1>1, <1>2, ForgetsInv DEF StoredKeyWorks

-----------------------------------------------------------------------------
(* A new request. *)

\* A request that is sent with the key of an account, or with none.
LEMMA SentInv ==
    ASSUME Inv, NEW t \in Tabs, NEW e \in Emails \cup {None}, NEW k \in Requests \cup {None},
           NEW p \in {"insert", "serve"}, Sent(t, e, k, p),
           p = "insert" => e \in Emails,
           k # None => Owners(k) # {},
           merchants' = merchants, storage' = storage,
           page' \in [Tabs -> {"arriving", "register", "created", "entering", "dashboard"}],
           busy' \subseteq Tabs
    PROVE  Inv'
<1> USE AccountsAssumption DEF Inv
<1> DEFINE new == [tab |-> t, email |-> e, key |-> k, at |-> p]
<1>1. PICK r \in Requests : req[r] = None /\ req' = [req EXCEPT ![r] = new]
  BY DEF Sent
<1>2. new \in Request /\ new.at = p /\ new.email = e /\ new.key = k
  BY DEF Request
<1>3. /\ req' \in [Requests -> Request \cup {None}]
      /\ req'[r] # None /\ req'[r].at = p /\ req'[r].email = e /\ req'[r].key = k
      /\ \A s \in Requests : s # r => req'[s] = req[s]
  <2> HIDE DEF new
  <2> QED BY <1>1, <1>2, NoneAssumption DEF TypeOK
<1>4. TypeOK'
  BY <1>3 DEF TypeOK
<1>5. Carries'
  BY <1>3 DEF Carries, Registering
<1>6. RowsAnswered'
  BY <1>1, <1>3 DEF RowsAnswered, At, TypeOK
<1>7. InsertsAlone'
  BY <1>3 DEF InsertsAlone, At
<1>8. ReadsKnown' /\ OnlyKeylessRefused'
  BY <1>3 DEF ReadsKnown, OnlyKeylessRefused, Owners, At
<1>9. OneAccountPerEmail' /\ StoredKeyWorks'
  BY <1>3 DEF OneAccountPerEmail, StoredKeyWorks, Owners, At
<1> QED BY <1>4, <1>5, <1>6, <1>7, <1>8, <1>9

LEMMA EnterInv == ASSUME Inv, NEW t \in Tabs, Enter(t) PROVE Inv'
<1> USE DEF Inv
<1>1. UNCHANGED <<merchants, storage, busy>>
  BY DEF Enter
<1>2. storage.key \in Requests \cup {None}
  BY DEF TypeOK
<1>3. page' \in [Tabs -> {"arriving", "register", "created", "entering", "dashboard"}]
  BY DEF Enter, Goto, TypeOK
<1>4. CASE storage.key = None
  <2>1. req' = req
    BY <1>4 DEF Enter
  <2>2. TypeOK'
    BY <1>1, <1>3, <2>1 DEF TypeOK
  <2> QED BY <1>1, <2>1, <2>2, QuietInv DEF StoredKeyWorks
<1>5. CASE storage.key # None
  <2>1. Sent(t, None, storage.key, "serve")
    BY <1>5 DEF Enter
  <2>2. busy' \subseteq Tabs
    BY <1>1 DEF TypeOK
  <2> QED BY <1>1, <1>2, <1>3, <2>1, <2>2, SentInv DEF StoredKeyWorks
<1> QED BY <1>4, <1>5

LEMMA RefreshInv == ASSUME Inv, NEW t \in Tabs, Refresh(t) PROVE Inv'
<1> USE DEF Inv
<1>1. UNCHANGED <<merchants, storage, page, busy>> /\ Sent(t, None, storage.key, "serve")
  BY DEF Refresh
<1>2. storage.key \in Requests \cup {None} /\ busy' \subseteq Tabs
      /\ page' \in [Tabs -> {"arriving", "register", "created", "entering", "dashboard"}]
  BY <1>1 DEF TypeOK
<1> QED BY <1>1, <1>2, SentInv DEF StoredKeyWorks

LEMMA SubmitInv == ASSUME Inv, NEW t \in Tabs, Submit(t) PROVE Inv'
<1> USE DEF Inv
<1>1. PICK e \in Emails : Sent(t, e, None, "insert")
  BY DEF Submit
<1>2. UNCHANGED <<merchants, storage, page>> /\ busy' = busy \cup {t}
  BY DEF Submit
<1>3. busy' \subseteq Tabs
      /\ page' \in [Tabs -> {"arriving", "register", "created", "entering", "dashboard"}]
  BY <1>2 DEF TypeOK
<1> QED BY <1>1, <1>2, <1>3, SentInv

-----------------------------------------------------------------------------
LEMMA NextInv == Inv /\ [Next]_vars => Inv'
<1> SUFFICES ASSUME Inv, [Next]_vars PROVE Inv'
  OBVIOUS
<1>1. CASE UNCHANGED vars
  BY <1>1, QuietInv DEF vars, Inv, TypeOK, StoredKeyWorks
<1>2. ASSUME NEW r \in Requests, Server(r) PROVE Inv'
  BY <1>2, RegisterInv, CommitInv, ServeInv, RaiseInv DEF Server
<1>3. ASSUME NEW r \in Requests, Answer(r) PROVE Inv'
  BY <1>3, SaveSessionInv, KeepProfileInv, ClearSessionInv, ShowErrorInv DEF Answer
<1>4. ASSUME NEW t \in Tabs, Tab(t) PROVE Inv'
  BY <1>4, ArriveInv, EnterInv, ContinueInv, RefreshInv, SubmitInv, SignOutInv, ReloadInv DEF Tab
<1> QED BY <1>1, <1>2, <1>3, <1>4 DEF Next

\* The invariant holds in every reachable state, whatever the server and the tabs do.
THEOREM Invariance == Spec => []Inv
<1> QED BY InitInv, NextInv, PTL DEF Spec

\* Every variable keeps its type: the table, the requests, localStorage and the tabs.
THEOREM TypeCorrect == Spec => []TypeOK
<1>1. Inv => TypeOK
  BY DEF Inv
<1> QED BY <1>1, Invariance, PTL

\* The key in localStorage opens an account, though it was saved by an answer that
\* may be old and the tabs write it without asking each other.
THEOREM StoredKeysWork == Spec => []StoredKeyWorks
<1>1. Inv => StoredKeyWorks
  BY DEF Inv
<1> QED BY <1>1, Invariance, PTL

\* However many registrations of an email overlap, one is answered 201, with the
\* key that is in the table, and a 409 speaks of a row that is there.
THEOREM EmailsHaveOneAccount == Spec => []OneAccountPerEmail
<1>1. Inv => OneAccountPerEmail
  BY DEF Inv
<1> QED BY <1>1, Invariance, PTL

\* A 401, which throws away the session of every tab, answers no request that
\* carried a key.
THEOREM KeysAreNeverRefused == Spec => []OnlyKeylessRefused
<1>1. Inv => OnlyKeylessRefused
  BY DEF Inv
<1> QED BY <1>1, Invariance, PTL
=============================================================================
