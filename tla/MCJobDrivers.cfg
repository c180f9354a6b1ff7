SPECIFICATION FairDriversSpec
CONSTANTS
    Members = {m1}
    NoMember = NoMember
    Jobs = {j1}
    JobCap = 1
    MaxInputs = 3
    MaxEvents = 7
    MaxPasses = 2
    EventBatch = 2
    MaxDelivered = 1
INVARIANTS OutcomeIsTheClose CursorKeepsTheClose
PROPERTIES CloseEndsTheWait
CHECK_DEADLOCK FALSE
