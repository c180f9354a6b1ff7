---------------------------- MODULE MCReconciler ----------------------------
(* Small instances of Reconciler for TLC. *)
EXTENDS Reconciler, TLC

\* Ids are interchangeable: no action compares two of them.
Ids == Permutations(Jobs) \cup Permutations(Members)
=============================================================================
