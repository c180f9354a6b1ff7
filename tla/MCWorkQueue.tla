----------------------------- MODULE MCWorkQueue -----------------------------
(***************************************************************************)
(* One item, dispatched by beta, and two workers of its component: one of  *)
(* beta, one of _system, which also polls the stream of acme.  Either may  *)
(* claim it, crash with it and lose its registration.  There are two       *)
(* registrations: one of each worker, or two of one.                       *)
(***************************************************************************)
EXTENDS WorkQueue

CONSTANTS w, p1, p2, acme, beta

MCTenantOf == [v \in Works |-> beta]

MCHomeOf == [p \in Workers |-> IF p = p1 THEN beta ELSE System]

MCSubjectOf == [p \in Workers |-> p]

=============================================================================
