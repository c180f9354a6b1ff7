CONSTANTS
    Tenants = {1}
    Events = {e1, e2}
    TenantOf <- MCTenantOf
    Run = run
    Writers = {run, e1, e2}
    MaxBatch = 2
    BufferSize = 1
    Exporters = {}
    ExportBatch = 1
    Pruners = {}
    InstallMonths = 1
    TenantMonths = {}
    MaxClock = 0
    MaxFaults = 1
SPECIFICATION FairWriterSpec
INVARIANTS NoSilentLoss
PROPERTIES CallReturns QueuedIsWritten
CHECK_DEADLOCK FALSE
