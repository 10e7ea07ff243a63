---------------------------- MODULE MCWarmupGate ----------------------------
(***************************************************************************)
(* Instances of WarmupGate for TLC.  At most one check is in flight and    *)
(* one timer armed, and the ref may name an old timer: with a fourth name  *)
(* a fresh one is always left, so that RunCheck is never held up by the    *)
(* bound.                                                                  *)
(***************************************************************************)
EXTENDS WarmupGate

=============================================================================
