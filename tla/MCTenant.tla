------------------------------ MODULE MCTenant ------------------------------
(* Small instances of TenantOperator for TLC. *)
EXTENDS TenantOperator, TLC

Order2 == <<"identity", "dataplane">>

Publish == <<"PublishTenantName">>

DeleteName == <<"DeleteTenantName">>

UndoesName == [s \in {"DeleteTenantName"} |-> "PublishTenantName"]

MinusOne == -1
=============================================================================
