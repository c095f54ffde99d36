\* A private certificate, one edit of the spec and one fault of any kind.
SPECIFICATION FairSpec
CONSTANTS
    Credentials <- Keys
    Names <- TwoSecrets
    Contents <- WhatTheyHold
    Specs <- ManySpecs
    PublicCert = FALSE
    MaxGen = 2
    MaxFaults = 1
    Faults = {"call", "reply", "crash", "server", "secret"}
INVARIANTS
    ReadyIsEarned
    NeverForgotten
PROPERTIES
    Settles
    DeletionCompletes
CHECK_DEADLOCK FALSE
