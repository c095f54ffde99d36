\* One failing Secret write.
SPECIFICATION Spec
CONSTANTS
    Props = {p1, p2}
    MaxGen = 1
    MaxFaults = 1
    Faults = {"call"}
INVARIANT ReadyMeansCredentials
CHECK_DEADLOCK FALSE
