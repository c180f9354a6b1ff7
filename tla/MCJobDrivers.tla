---------------------------- MODULE MCJobDrivers ----------------------------
(* Small instances of JobDrivers for TLC. *)
EXTENDS JobDrivers
=============================================================================
