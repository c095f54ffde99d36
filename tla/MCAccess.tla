------------------------------ MODULE MCAccess ------------------------------
(***************************************************************************)
(* Entities and bindings for TLC; a .cfg adds what was there before and    *)
(* which faults there are.                                                 *)
(***************************************************************************)
EXTENDS PolarisAccessProperties, TLC

\* A grant to a catalog role, on a table or on the whole catalog.
Grants          == { "allow" }
GrantKind       == "allow" :> "grant"
GrantSpecs      == "allow" :> { {"reader", "orders"}, {"reader"} }
GrantEnds       == { "reader", "orders" }
GrantEntityKind == "reader" :> "catalogRole" @@ "orders" :> "securable"
=============================================================================
