--------------------------- MODULE MCNotifications ---------------------------
(***************************************************************************)
(* An instance of Notifications for TLC: payments of two merchants, one of *)
(* whom has a webhook_url, confirmed and confirmed again.  Requests differ *)
(* only by name, so it is enough to confirm the intent of one of them.     *)
(***************************************************************************)
EXTENDS Notifications, TLC

CONSTANTS r1, m1, m2, k1, usd

NotifyCalls ==
    {[op |-> "create", merchant |-> m, key |-> k, amount |-> 10, currency |-> usd] :
        <<m, k>> \in {<<m1, k1>>, <<m2, None>>}}
      \cup [op : {"confirm"}, merchant : {m1, m2}, key : {None}, intent : {r1}]

OneDelay == <<1>>
=============================================================================
