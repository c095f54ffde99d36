\* A grant that may be edited, two faults of any kind; the table is not there
\* before its resource is.
SPECIFICATION FairSpec
CONSTANTS
    Entities <- GrantEnds
    EntityKind <- GrantEntityKind
    Bindings <- Grants
    Kind <- GrantKind
    Specs <- GrantSpecs
    Before = {"reader"}
    MaxFaults = 2
    Faults = {"call", "reply", "crash", "edit", "connection", "server"}
INVARIANTS
    AccessIsBacked
    ReadyMeansAccess
PROPERTIES
    ImplementsResource
    Converges
    RevocationCompletes
CHECK_DEADLOCK FALSE
