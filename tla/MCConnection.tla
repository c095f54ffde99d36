---------------------------- MODULE MCConnection ----------------------------
(***************************************************************************)
(* Specs and Secrets for TLC: credentials alone, and with a CA bundle.     *)
(***************************************************************************)
EXTENDS PolarisConnectionProperties, TLC

ConnSpec(url, credentials, bundle, skip) ==
    [ urlParses |-> url, credentials |-> credentials, bundle |-> bundle,
      skipVerify |-> skip ]

TwoSecrets == { "login", "ca" }
Keys       == { "old", "new" }

WhatTheyHold ==
    "login" :> { "absent", "old", "new" }
    @@ "ca" :> { "empty", "garbage", "right" }

\* A typing error in the URL, a bundle, none, and no verification at all.
ManySpecs ==
    { ConnSpec(FALSE, "login", NoRef, FALSE),
      ConnSpec(TRUE, "login", "ca", FALSE),
      ConnSpec(TRUE, "login", NoRef, TRUE) }

OneSpec == { ConnSpec(TRUE, "login", NoRef, FALSE) }
=============================================================================
