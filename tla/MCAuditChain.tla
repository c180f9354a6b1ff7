---------------------------- MODULE MCAuditChain ----------------------------
EXTENDS AuditChain, TLC

MCTenantOf == [e \in Events |-> 1]

\* Events, writers and exporters are interchangeable.
Ids == Permutations(Events) \cup Permutations(Writers) \cup Permutations(Exporters)
=============================================================================
