SPECIFICATION StoreSpec
CONSTANTS
    Members = {m1, m2}
    NoMember = NoMember
    Jobs = {j1}
    JobCap = 1
    MaxInputs = 3
    MaxEvents = 6
INVARIANTS ClosedWithOneWrapUp LogAgrees ClosingEventEndsTheStory
PROPERTIES AcknowledgedForGood ImplementsLifecycle
SYMMETRY Ids
CHECK_DEADLOCK FALSE
