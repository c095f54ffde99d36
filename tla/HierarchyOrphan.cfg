\* A namespace that the server had before its resource was applied.
SPECIFICATION Spec
CONSTANTS
    Resources <- Nested
    Kind <- NestedKind
    Parent <- NestedParent
    Above <- NestedAbove
    Connection = "prod"
    MaxFaults = 1
    Faults = {"server"}
INVARIANT NothingOrphaned
CHECK_DEADLOCK FALSE
