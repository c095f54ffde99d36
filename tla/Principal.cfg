\* Safety, with every kind of fault: two edits and a deletion, two faults.
SPECIFICATION Spec
CONSTANTS
    Props = {p1, p2}
    MaxGen = 2
    MaxFaults = 2
    Faults = {"call", "reply", "crash", "connection", "server", "secret"}
INVARIANTS
    TypeOK
    FinalizerGuardsRemote
    SecretAccounted
    ReadyMeansInSync
    NeverForgotten
PROPERTIES
    OneCredentialPerPass
    ImplementsResource
CHECK_DEADLOCK FALSE
