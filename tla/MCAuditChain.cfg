CONSTANTS
    Tenants = {1}
    Events = {e1, e2}
    TenantOf <- MCTenantOf
    Writers = {w1, w2}
    MaxBatch = 2
    Exporters = {x1, x2}
    ExportBatch = 2
    Pruners = {p1}
    InstallMonths = 1
    TenantMonths = {2}
    MaxClock = 2
    MaxFaults = 1
SPECIFICATION Spec
INVARIANTS ChainVerifies NoRecordLost OneName RecordedOnce BreakMeansOvertaken
PROPERTIES KeptForThePeriod
SYMMETRY Ids
CHECK_DEADLOCK FALSE
