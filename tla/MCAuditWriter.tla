--------------------------- MODULE MCAuditWriter ---------------------------
EXTENDS AuditWriter, TLC
MCTenantOf == [e \in Events |-> 1]
=============================================================================
