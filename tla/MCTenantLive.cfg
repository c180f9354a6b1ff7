SPECIFICATION FairSpec
CONSTANTS
    ChildCreationOrder <- Order2
    Identity = "identity"
    DataPlane = "dataplane"
    MaxGeneration = 1
    ProvisionSteps <- Publish
    TeardownSteps <- DeleteName
    Undoes <- UndoesName
    MaxAttempts = 1
    Unbounded <- MinusOne
    MaxFaults = 1
PROPERTIES TenantConverges DeletionEnds EditIsApplied
CHECK_DEADLOCK FALSE
