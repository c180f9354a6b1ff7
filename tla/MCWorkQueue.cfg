CONSTANTS
    w = w  p1 = p1  p2 = p2  acme = acme  beta = beta
    Works = {w}
    Workers = {p1, p2}
    Tenants = {acme, beta}
    System = sys
    None = None
    TenantOf <- MCTenantOf
    HomeOf <- MCHomeOf
    SubjectOf <- MCSubjectOf
    GraceProbes = 3
    MaxInstance = 2
SPECIFICATION LiveSpec
CHECK_DEADLOCK FALSE
INVARIANTS  QueuedIsBound ListenerIsNotified AbsentMeansGone
PROPERTIES StoredAnswerEndsTheWait DispatchEnds
