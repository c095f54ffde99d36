\* Tokens live two lead times, or one: then every request fetches its own.
SPECIFICATION ClientSpec
CONSTANTS
    Callers <- Two
    Lead = 2
    Timeout = 2
    DefaultLifetime = 4
    Lifetimes = {2, 4}
    Horizons <- AllHorizons
    Cases <- AllCases
INVARIANTS
    HandedOutIsValid
    OneRefresh
    BeliefIsTrue
PROPERTIES
    Answered
    MindsItsOwn
