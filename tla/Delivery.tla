------------------------------ MODULE Delivery ------------------------------
(***************************************************************************)
(* What the outbox promises a merchant, without batches, copies, clocks,   *)
(* workers or crashes: an event is POSTed only once it is owed, it is      *)
(* settled as delivered only after a POST of it was accepted and as failed *)
(* only after Limit POSTs that were not, and it is never owed again.  It   *)
(* is at-least-once delivery: nothing forbids another POST, and as long as *)
(* several workers hold a copy a later verdict may replace an earlier one. *)
(***************************************************************************)
EXTENDS Naturals

CONSTANTS Events, Limit

VARIABLES
    status,  \* of each event; ABSENT before it is owed
    tries,   \* its POSTs so far
    hits     \* those that were accepted

vars == <<status, tries, hits>>

Init ==
    /\ status = [e \in Events |-> "ABSENT"]
    /\ tries = [e \in Events |-> 0]
    /\ hits = [e \in Events |-> 0]

Owe(e) ==
    /\ status[e] = "ABSENT"
    /\ status' = [status EXCEPT ![e] = "PENDING"]
    /\ UNCHANGED <<tries, hits>>

Hit(e) ==
    /\ status[e] # "ABSENT"
    /\ tries' = [tries EXCEPT ![e] = @ + 1]
    /\ hits' = [hits EXCEPT ![e] = @ + 1]
    /\ UNCHANGED status

Miss(e) ==
    /\ status[e] # "ABSENT"
    /\ tries' = [tries EXCEPT ![e] = @ + 1]
    /\ UNCHANGED <<status, hits>>

Deliver(e) ==
    /\ status[e] # "ABSENT"
    /\ hits[e] > 0
    /\ status' = [status EXCEPT ![e] = "DELIVERED"]
    /\ UNCHANGED <<tries, hits>>

GiveUp(e) ==
    /\ status[e] # "ABSENT"
    /\ hits[e] + Limit <= tries[e]
    /\ status' = [status EXCEPT ![e] = "FAILED"]
    /\ UNCHANGED <<tries, hits>>

Next == \E e \in Events : Owe(e) \/ Hit(e) \/ Miss(e) \/ Deliver(e) \/ GiveUp(e)

Spec == Init /\ [][Next]_vars
=============================================================================
