\* A namespace nested in another, two faults of any kind.
SPECIFICATION FairSpec
CONSTANTS
    Resources <- Nested
    Kind <- NestedKind
    Parent <- NestedParent
    Above <- NestedAbove
    Connection = "prod"
    MaxFaults = 2
    Faults = {"call", "reply", "crash", "edit", "connection", "server"}
INVARIANTS
    DeletedBottomUp
    ReadyMeansPresent
    NeverForgotten
    BuildUpNeverStuck
    TeardownNeverStuck
PROPERTIES
    ImplementsResource
    Converges
    TeardownCompletes
    TeardownWithoutServer
CHECK_DEADLOCK FALSE
