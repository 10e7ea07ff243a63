----------------------------- MODULE MCWebhooks -----------------------------
(***************************************************************************)
(* Instances of Webhooks for TLC.  The delays are a few ticks, the longest *)
(* wide enough for its jitter to reorder two events; as in the code there  *)
(* is one delay less than there are attempts, so that the index saturates. *)
(***************************************************************************)
EXTENDS Webhooks, TLC

ShortBackoff == <<1, 5>>
OneDelay == <<1>>
=============================================================================
