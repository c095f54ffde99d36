\* One failing call is enough to lose a requested rotation.
SPECIFICATION Spec
CONSTANTS
    Props = {p1, p2}
    MaxGen = 2
    MaxFaults = 1
    Faults = {"call"}
INVARIANT ReadyMeansRotated
CHECK_DEADLOCK FALSE
