SPECIFICATION FairInboxSpec
CONSTANTS
    Members = {m1, m2}
    NoMember = NoMember
    Watched = {m1}
    Jobs = {j1}
    Verdicts = {"abandoned"}
    InboxBatch = 3
    MaxInputs = 3
    MaxBreaks = 1
INVARIANTS DeliveredInOrder
  
CHECK_DEADLOCK FALSE
