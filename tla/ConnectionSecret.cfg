\* One change of a Secret and nothing else.
SPECIFICATION FairSpec
CONSTANTS
    Credentials <- Keys
    Names <- TwoSecrets
    Contents <- WhatTheyHold
    Specs <- OneSpec
    PublicCert = TRUE
    MaxGen = 1
    MaxFaults = 1
    Faults = {"secret"}
PROPERTY
    UpdateIsValidated
CHECK_DEADLOCK FALSE
