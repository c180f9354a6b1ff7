SPECIFICATION Spec
CONSTANTS
    ChildCreationOrder <- Order2
    Identity = "identity"
    DataPlane = "dataplane"
    MaxGeneration = 1
    ProvisionSteps <- Publish
    TeardownSteps <- DeleteName
    Undoes <- UndoesName
    MaxAttempts = 2
    Unbounded <- MinusOne
    MaxFaults = 2
INVARIANTS ChildrenAreAPrefix NamespaceOutlivesChildren NoOrphanResource  ReadyIsNotBlocked
PROPERTIES BackedUpFirst TeardownReportIsFinal
CHECK_DEADLOCK FALSE
