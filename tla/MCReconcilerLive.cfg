SPECIFICATION FairRecSpec
CONSTANTS
    Members = {m1, m2}
    NoMember = NoMember
    Jobs = {j1}
    Verdicts = {"abandoned"}
    JobCap = 1
    DesiredCounts = {1}
    Spill = FALSE
    FirstState = "launching"
    Faults = {"hang", "crash"}
    MaxFaults = 1
    MaxResizes = 0
PROPERTIES BankConverges QueuedJobIsTaken
CHECK_DEADLOCK FALSE
