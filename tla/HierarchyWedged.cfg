\* The connection goes away and comes back during the teardown.
SPECIFICATION FairSpec
CONSTANTS
    Resources <- Nested
    Kind <- NestedKind
    Parent <- NestedParent
    Above <- NestedAbove
    Connection = "prod"
    MaxFaults = 1
    Faults = {"connection"}
PROPERTY NeverWedged
CHECK_DEADLOCK FALSE
