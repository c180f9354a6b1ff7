SPECIFICATION RecSpec
CONSTANTS
    Members = {m1, m2}
    NoMember = NoMember
    Jobs = {j1, j2}
    Verdicts = {"abandoned"}
    JobCap = 1
    DesiredCounts = {0}
    Spill = TRUE
    FirstState = "launching"
    Faults = {"queue", "launch", "record", "outage", "suspend", "resume", "delete"}
    MaxFaults = 1
    MaxResizes = 0
INVARIANTS SpillIsBounded
SYMMETRY Ids
CHECK_DEADLOCK FALSE
