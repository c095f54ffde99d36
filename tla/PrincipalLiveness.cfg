\* Convergence and deletion once faults stop.
SPECIFICATION FairSpec
CONSTANTS
    Props = {p1, p2}
    MaxGen = 2
    MaxFaults = 1
    Faults = {"call", "reply", "crash", "connection", "server", "secret"}
PROPERTIES
    Settles
    DeletionCompletes
CHECK_DEADLOCK FALSE
