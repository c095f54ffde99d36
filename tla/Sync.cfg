\* One edit of the spec and two faults of any kind; chains of three namespaces.
SPECIFICATION FairSpec
CONSTANTS
    Nil = Nil
    Reserved = "default-base-location"
    PropertyKeys <- AllKeys
    Strings <- AllStrings
    n1 = n1
    n2 = n2
    n3 = n3
    n4 = n4
    sales = sales
    lake = lake
    NoParent = NoParent
    Cases <- AllCases
    Namespaces <- FourNamespaces
    Catalogs <- TwoCatalogs
    MaxDepth = 2
    MaxGen = 2
    MaxFaults = 2
    Faults = {"call", "reply", "untyped", "crash", "server", "reference"}
INVARIANTS
    ReadyMeansSynced
    UpdatesOnlyDrift
PROPERTIES
    ResolveIsRight
    MindsOthers
    CreatedInFull
    PassEnds
    ImplementsResource
    Converges
CHECK_DEADLOCK FALSE
