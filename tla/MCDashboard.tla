---------------------------- MODULE MCDashboard ----------------------------
(***************************************************************************)
(* Instances of Dashboard for TLC: the payments of the form and those of   *)
(* the other clients are each interchangeable.                             *)
(***************************************************************************)
EXTENDS Dashboard, TLC

Symmetry == Permutations(Payments \ FormPayments) \cup Permutations(FormPayments)
=============================================================================
