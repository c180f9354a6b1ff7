SPECIFICATION RecSpec
CONSTANTS
    Members = {m1, m2}
    NoMember = NoMember
    Jobs = {j1}
    Verdicts = {"abandoned"}
    JobCap = 1
    DesiredCounts = {0, 1}
    Spill = FALSE
    FirstState = "launching"
    Faults = {"stop", "store", "record", "launch", "suspend", "resume", "queue", "slow", "outage", "hang", "crash", "delete"}
    MaxFaults = 1
    MaxResizes = 1
INVARIANTS NoLeakedSandbox
SYMMETRY Ids
CHECK_DEADLOCK FALSE
