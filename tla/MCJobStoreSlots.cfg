SPECIFICATION StoreSpec
CONSTANTS
    Members = {m1}
    NoMember = NoMember
    Jobs = {j1, j2}
    JobCap = 1
    MaxInputs = 2
    MaxEvents = 4
INVARIANT SlotsRespected
CHECK_DEADLOCK FALSE
