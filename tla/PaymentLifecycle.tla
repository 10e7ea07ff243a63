-------------------------- MODULE PaymentLifecycle --------------------------
(***************************************************************************)
(* What LedgerPay promises of a payment, without threads, transactions,    *)
(* retries or failures: an intent is created once, is settled at most      *)
(* once, and the step that makes it SUCCEEDED is the very step that books  *)
(* the money and owes the merchant a webhook.  It is the state diagram of  *)
(* the README; PROCESSING, which no other transaction ever sees, is not in *)
(* it.                                                                     *)
(***************************************************************************)
CONSTANT Intents

VARIABLES
    status,   \* the status of each intent, ABSENT before it is created
    booked,   \* the intents with their two ledger entries
    noticed   \* the intents with a webhook event

vars == <<status, booked, noticed>>

TypeOK ==
    /\ status \in [Intents -> {"ABSENT", "CREATED", "SUCCEEDED", "FAILED", "TIMED_OUT"}]
    /\ booked \subseteq Intents
    /\ noticed \subseteq Intents

Init ==
    /\ status = [i \in Intents |-> "ABSENT"]
    /\ booked = {}
    /\ noticed = {}

Open(i) ==
    /\ status[i] = "ABSENT"
    /\ status' = [status EXCEPT ![i] = "CREATED"]
    /\ UNCHANGED <<booked, noticed>>

Succeed(i) ==
    /\ status[i] = "CREATED"
    /\ status' = [status EXCEPT ![i] = "SUCCEEDED"]
    /\ booked' = booked \cup {i}
    /\ noticed' = noticed \cup {i}

Refuse(i) ==
    /\ status[i] = "CREATED"
    /\ \E s \in {"FAILED", "TIMED_OUT"} : status' = [status EXCEPT ![i] = s]
    /\ UNCHANGED <<booked, noticed>>

Next == \E i \in Intents : Open(i) \/ Succeed(i) \/ Refuse(i)

Spec == Init /\ [][Next]_vars
=============================================================================
