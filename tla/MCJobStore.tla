----------------------------- MODULE MCJobStore -----------------------------
(* Small instances of JobStore for TLC. *)
EXTENDS JobStore, TLC

\* Ids are interchangeable: no action compares two of them.
Ids == Permutations(Jobs) \cup Permutations(Members)
=============================================================================
