----------------------------- MODULE MCHierarchy -----------------------------
(***************************************************************************)
(* Trees of resources for TLC.  Each instance is named for what it holds;  *)
(* a .cfg picks one.                                                       *)
(***************************************************************************)
EXTENDS PolarisHierarchyProperties, TLC

\* A catalog, a namespace in it, and one nested in that.
Nested       == {"lakehouse", "analytics", "sales"}
NestedKind   == "lakehouse" :> "catalog" @@ "analytics" :> "namespace"
                 @@ "sales" :> "namespace"
NestedParent == "lakehouse" :> "prod" @@ "analytics" :> "lakehouse"
                 @@ "sales" :> "analytics"
NestedAbove  == "lakehouse" :> {} @@ "analytics" :> {"lakehouse"}
                 @@ "sales" :> {"lakehouse", "analytics"}
=============================================================================
