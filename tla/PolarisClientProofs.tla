-------------------------- MODULE PolarisClientProofs --------------------------
(***************************************************************************)
(* For any callers, whatever they look after and whatever the names are:   *)
(* the client implements its token source, and no caller's requests touch  *)
(* what another one looks after.                                           *)
(***************************************************************************)
EXTENDS PolarisClient, PolarisTokenSourceProofs

\* What a request that adds or removes changes.
LEMMA ServeTouches ==
    ASSUME NEW req, NEW a \in (objects \ Serve(req).objects)
                              \cup (Serve(req).objects \ objects)
    PROVE  /\ (req.body # Unnamed /\ ~Removes(req)) \/ Removes(req)
           /\ a = IF IsDoor(req) THEN Above(req.path) ELSE AddressOf(req)
BY DEF Serve

\* What has no body name and is neither a DELETE nor a revocation changes nothing.
LEMMA ReadsTouchNothing ==
    ASSUME NEW req, req.body = Unnamed, ~Removes(req)
    PROVE  Serve(req).objects = objects
BY DEF Serve

\* The kinds of targets that have an address.
Addressed == TargetKinds \ {"connection"}

\* The segments that are no names.
Literals ==
    { Lit(w) : w \in { "api", "management", "v1", "catalog", "catalogs",
                       "catalog-roles", "grants", "principals", "rotate",
                       "principal-roles", "namespaces", "tables", "views",
                       "polaris", "policies", "properties" } }

\* Paths are sequences of literals and of names.
LEMMA PathsTyped ==
    ASSUME NEW S, Literals \subseteq S, NEW a \in S, NEW b \in S
    PROVE  /\ ManagementBase \in Seq(S) /\ CatalogBase \in Seq(S)
           /\ CatalogsPath \in Seq(S)
           /\ CatalogRolesPath(a) \in Seq(S)
           /\ GrantsPath(a, b) \in Seq(S)
           /\ PrincipalsPath \in Seq(S) /\ PrincipalPath(a) \in Seq(S)
           /\ PrincipalRolesPath \in Seq(S)
           /\ MembershipsPath(a) \in Seq(S)
           /\ CatalogRolesOfRolePath(a, b) \in Seq(S)
           /\ NamespacesPath(a) \in Seq(S) /\ NamespacePath(a, b) \in Seq(S)
           /\ TablesPath(a, b) \in Seq(S)
           /\ ViewsPath(a, b) \in Seq(S)
           /\ PoliciesPath(a, b) \in Seq(S)
<1>1. \A w \in { "api", "management", "v1", "catalog", "catalogs",
                  "catalog-roles", "grants", "principals", "rotate",
                  "principal-roles", "namespaces", "tables", "views",
                  "polaris", "policies", "properties" } : Lit(w) \in S
  BY DEF Literals
<1>2. ManagementBase \in Seq(S) /\ CatalogBase \in Seq(S)
  BY <1>1 DEF ManagementBase, CatalogBase
<1>3. CatalogsPath \in Seq(S) /\ CatalogRolesPath(a) \in Seq(S)
  BY <1>1 DEF CatalogsPath, CatalogPath, CatalogRolesPath
<1>4. GrantsPath(a, b) \in Seq(S)
  BY <1>1, <1>3 DEF GrantsPath, CatalogRolePath
<1>5. /\ PrincipalsPath \in Seq(S) /\ PrincipalPath(a) \in Seq(S)
      /\ PrincipalRolesPath \in Seq(S) /\ MembershipsPath(a) \in Seq(S)
  BY <1>1 DEF PrincipalsPath, PrincipalPath, PrincipalRolesPath, MembershipsPath
<1>6. CatalogRolesOfRolePath(a, b) \in Seq(S)
  BY <1>1, <1>5 DEF CatalogRolesOfRolePath, PrincipalRolePath
<1>7. NamespacesPath(a) \in Seq(S) /\ NamespacePath(a, b) \in Seq(S)
  BY <1>1 DEF NamespacesPath, NamespacePath
<1>8. TablesPath(a, b) \in Seq(S) /\ ViewsPath(a, b) \in Seq(S)
  BY <1>1, <1>7 DEF TablesPath, ViewsPath
<1>9. PoliciesPath(a, b) \in Seq(S)
  BY <1>1 DEF PoliciesPath
<1>10. QED
  BY <1>2, <1>3, <1>4, <1>5, <1>6, <1>7, <1>8, <1>9

\* A base and a path, with one more segment at its end.
LEMMA BaseJoins ==
    ASSUME NEW S, NEW B \in Seq(S), NEW P \in Seq(S), NEW x \in S
    PROVE  B \o Append(P, x) = Append(B \o P, x)
OBVIOUS

\* Where a POST or a PUT makes what it names is where the segment of that name
\* under the same path leads, and a DELETE of it goes there.
LEMMA ManagementJoins ==
    ASSUME NEW S, Literals \subseteq S, NEW P \in Seq(S), NEW x \in S,
           x # Unnamed, NEW m
    PROVE  LET del == Management("DELETE", Append(P, x), Unnamed)
           IN  /\ del.method = "DELETE" /\ del.body = Unnamed
               /\ del.path = AddressOf(Management(m, P, x))
<1>1. ManagementBase \in Seq(S)
  BY PathsTyped
<1>2. ManagementBase \o Append(P, x) = Append(ManagementBase \o P, x)
  BY <1>1, BaseJoins
<1>3. QED
  BY <1>2 DEF AddressOf, Management

\* The same for the catalog plane.
LEMMA CatalogJoins ==
    ASSUME NEW S, Literals \subseteq S, NEW P \in Seq(S), NEW x \in S,
           x # Unnamed, NEW m
    PROVE  LET del == Catalog("DELETE", Append(P, x), Unnamed)
           IN  /\ del.method = "DELETE" /\ del.body = Unnamed
               /\ del.path = AddressOf(Catalog(m, P, x))
<1>1. CatalogBase \in Seq(S)
  BY PathsTyped
<1>2. CatalogBase \o Append(P, x) = Append(CatalogBase \o P, x)
  BY <1>1, BaseJoins
<1>3. QED
  BY <1>2 DEF AddressOf, Catalog

\* The segments that requests about a target are made of.
Segments(t) == Literals \cup { t.n[1], t.n[2], t.name }

\* Literals and the target's names are among them.
LEMMA SegmentsTyped ==
    ASSUME NEW t
    PROVE  /\ Literals \subseteq Segments(t) /\ t.name \in Segments(t)
           /\ t.n[1] \in Segments(t) /\ t.n[2] \in Segments(t)
BY DEF Segments

\* The request that creates a target's object names it.
LEMMA Creates ==
    ASSUME NEW t, t.kind \in Addressed
    PROVE  Request(t, "create").body = t.name
  BY DEF Request, Addressed, TargetKinds, Management, Catalog,
     NewCreateCatalogRequestWithBody, NewCreateCatalogRoleRequestWithBody,
     NewAddGrantToCatalogRoleRequestWithBody,
     NewCreatePrincipalRequestWithBody, NewCreatePrincipalRoleRequestWithBody,
     NewAssignPrincipalRoleRequestWithBody,
     NewAssignCatalogRoleToPrincipalRoleRequestWithBody,
     NewCreateNamespaceRequestWithBody, NewCreateTableRequestWithBody,
     NewCreateViewRequestWithBody, NewCreatePolicyRequestWithBody

\* The request that deletes it goes where it was created.
LEMMA Deletes ==
    ASSUME NEW t, t.kind \in Addressed \ {"grant"}, t.name # Unnamed
    PROVE  LET req == Request(t, "delete")
           IN  /\ req.method = "DELETE" /\ req.body = Unnamed
               /\ req.path = AddressOf(Request(t, "create"))
<1>1. /\ Literals \subseteq Segments(t) /\ t.name \in Segments(t)
      /\ t.n[1] \in Segments(t) /\ t.n[2] \in Segments(t)
  BY SegmentsTyped
<1>2. CASE t.kind = "catalog"
  <2>1. /\ Request(t, "create")
             = NewCreateCatalogRequestWithBody(t.name)
        /\ Request(t, "delete")
             = NewDeleteCatalogRequest(t.name)
    BY <1>2 DEF Request
  <2>2. Request(t, "create") = Management("POST", CatalogsPath, t.name)
    BY <2>1 DEF NewCreateCatalogRequestWithBody
  <2>3. Request(t, "delete")
            = Management("DELETE", Append(CatalogsPath, t.name), Unnamed)
    BY <2>1 DEF NewDeleteCatalogRequest, CatalogPath
  <2>4. CatalogsPath \in Seq(Segments(t))
    BY <1>1, PathsTyped
  <2>5. QED
    BY <1>1, <2>2, <2>3, <2>4, ManagementJoins
<1>3. CASE t.kind = "catalogRole"
  <2>1. /\ Request(t, "create")
             = NewCreateCatalogRoleRequestWithBody(t.n[1], t.name)
        /\ Request(t, "delete")
             = NewDeleteCatalogRoleRequest(t.n[1], t.name)
    BY <1>3 DEF Request
  <2>2. Request(t, "create") = Management("POST", CatalogRolesPath(t.n[1]), t.name)
    BY <2>1 DEF NewCreateCatalogRoleRequestWithBody
  <2>3. Request(t, "delete")
            = Management("DELETE", Append(CatalogRolesPath(t.n[1]), t.name), Unnamed)
    BY <2>1 DEF NewDeleteCatalogRoleRequest, CatalogRolePath
  <2>4. CatalogRolesPath(t.n[1]) \in Seq(Segments(t))
    BY <1>1, PathsTyped
  <2>5. QED
    BY <1>1, <2>2, <2>3, <2>4, ManagementJoins
<1>4. CASE t.kind = "principal"
  <2>1. /\ Request(t, "create")
             = NewCreatePrincipalRequestWithBody(t.name)
        /\ Request(t, "delete")
             = NewDeletePrincipalRequest(t.name)
    BY <1>4 DEF Request
  <2>2. Request(t, "create") = Management("POST", PrincipalsPath, t.name)
    BY <2>1 DEF NewCreatePrincipalRequestWithBody
  <2>3. Request(t, "delete")
            = Management("DELETE", Append(PrincipalsPath, t.name), Unnamed)
    BY <2>1 DEF NewDeletePrincipalRequest, PrincipalPath
  <2>4. PrincipalsPath \in Seq(Segments(t))
    BY <1>1, PathsTyped
  <2>5. QED
    BY <1>1, <2>2, <2>3, <2>4, ManagementJoins
<1>5. CASE t.kind = "principalRole"
  <2>1. /\ Request(t, "create")
             = NewCreatePrincipalRoleRequestWithBody(t.name)
        /\ Request(t, "delete")
             = NewDeletePrincipalRoleRequest(t.name)
    BY <1>5 DEF Request
  <2>2. Request(t, "create") = Management("POST", PrincipalRolesPath, t.name)
    BY <2>1 DEF NewCreatePrincipalRoleRequestWithBody
  <2>3. Request(t, "delete")
            = Management("DELETE", Append(PrincipalRolesPath, t.name), Unnamed)
    BY <2>1 DEF NewDeletePrincipalRoleRequest, PrincipalRolePath
  <2>4. PrincipalRolesPath \in Seq(Segments(t))
    BY <1>1, PathsTyped
  <2>5. QED
    BY <1>1, <2>2, <2>3, <2>4, ManagementJoins
<1>6. CASE t.kind = "membership"
  <2>1. /\ Request(t, "create")
             = NewAssignPrincipalRoleRequestWithBody(t.n[1], t.name)
        /\ Request(t, "delete")
             = NewRevokePrincipalRoleRequest(t.n[1], t.name)
    BY <1>6 DEF Request
  <2>2. Request(t, "create") = Management("PUT", MembershipsPath(t.n[1]), t.name)
    BY <2>1 DEF NewAssignPrincipalRoleRequestWithBody
  <2>3. Request(t, "delete")
            = Management("DELETE", Append(MembershipsPath(t.n[1]), t.name), Unnamed)
    BY <2>1 DEF NewRevokePrincipalRoleRequest
  <2>4. MembershipsPath(t.n[1]) \in Seq(Segments(t))
    BY <1>1, PathsTyped
  <2>5. QED
    BY <1>1, <2>2, <2>3, <2>4, ManagementJoins
<1>7. CASE t.kind = "roleAssignment"
  <2>1. /\ Request(t, "create")
             = NewAssignCatalogRoleToPrincipalRoleRequestWithBody(t.n[1], t.n[2], t.name)
        /\ Request(t, "delete")
             = NewRevokeCatalogRoleFromPrincipalRoleRequest(t.n[1], t.n[2], t.name)
    BY <1>7 DEF Request
  <2>2. Request(t, "create") = Management("PUT", CatalogRolesOfRolePath(t.n[1], t.n[2]), t.name)
    BY <2>1 DEF NewAssignCatalogRoleToPrincipalRoleRequestWithBody
  <2>3. Request(t, "delete")
            = Management("DELETE", Append(CatalogRolesOfRolePath(t.n[1], t.n[2]), t.name), Unnamed)
    BY <2>1 DEF NewRevokeCatalogRoleFromPrincipalRoleRequest
  <2>4. CatalogRolesOfRolePath(t.n[1], t.n[2]) \in Seq(Segments(t))
    BY <1>1, PathsTyped
  <2>5. QED
    BY <1>1, <2>2, <2>3, <2>4, ManagementJoins
<1>8. CASE t.kind = "namespace"
  <2>1. /\ Request(t, "create")
             = NewCreateNamespaceRequestWithBody(t.n[1], t.name)
        /\ Request(t, "delete")
             = NewDropNamespaceRequest(t.n[1], t.name)
    BY <1>8 DEF Request
  <2>2. Request(t, "create") = Catalog("POST", NamespacesPath(t.n[1]), t.name)
    BY <2>1 DEF NewCreateNamespaceRequestWithBody
  <2>3. Request(t, "delete")
            = Catalog("DELETE", Append(NamespacesPath(t.n[1]), t.name), Unnamed)
    BY <2>1 DEF NewDropNamespaceRequest, NamespacePath
  <2>4. NamespacesPath(t.n[1]) \in Seq(Segments(t))
    BY <1>1, PathsTyped
  <2>5. QED
    BY <1>1, <2>2, <2>3, <2>4, CatalogJoins
<1>9. CASE t.kind = "table"
  <2>1. /\ Request(t, "create")
             = NewCreateTableRequestWithBody(t.n[1], t.n[2], t.name)
        /\ Request(t, "delete")
             = NewDropTableRequest(t.n[1], t.n[2], t.name)
    BY <1>9 DEF Request
  <2>2. Request(t, "create") = Catalog("POST", TablesPath(t.n[1], t.n[2]), t.name)
    BY <2>1 DEF NewCreateTableRequestWithBody
  <2>3. Request(t, "delete")
            = Catalog("DELETE", Append(TablesPath(t.n[1], t.n[2]), t.name), Unnamed)
    BY <2>1 DEF NewDropTableRequest
  <2>4. TablesPath(t.n[1], t.n[2]) \in Seq(Segments(t))
    BY <1>1, PathsTyped
  <2>5. QED
    BY <1>1, <2>2, <2>3, <2>4, CatalogJoins
<1>10. CASE t.kind = "view"
  <2>1. /\ Request(t, "create")
             = NewCreateViewRequestWithBody(t.n[1], t.n[2], t.name)
        /\ Request(t, "delete")
             = NewDropViewRequest(t.n[1], t.n[2], t.name)
    BY <1>10 DEF Request
  <2>2. Request(t, "create") = Catalog("POST", ViewsPath(t.n[1], t.n[2]), t.name)
    BY <2>1 DEF NewCreateViewRequestWithBody
  <2>3. Request(t, "delete")
            = Catalog("DELETE", Append(ViewsPath(t.n[1], t.n[2]), t.name), Unnamed)
    BY <2>1 DEF NewDropViewRequest
  <2>4. ViewsPath(t.n[1], t.n[2]) \in Seq(Segments(t))
    BY <1>1, PathsTyped
  <2>5. QED
    BY <1>1, <2>2, <2>3, <2>4, CatalogJoins
<1>11. CASE t.kind = "policy"
  <2>1. /\ Request(t, "create")
             = NewCreatePolicyRequestWithBody(t.n[1], t.n[2], t.name)
        /\ Request(t, "delete")
             = NewDropPolicyRequest(t.n[1], t.n[2], t.name)
    BY <1>11 DEF Request
  <2>2. Request(t, "create") = Catalog("POST", PoliciesPath(t.n[1], t.n[2]), t.name)
    BY <2>1 DEF NewCreatePolicyRequestWithBody
  <2>3. Request(t, "delete")
            = Catalog("DELETE", Append(PoliciesPath(t.n[1], t.n[2]), t.name), Unnamed)
    BY <2>1 DEF NewDropPolicyRequest
  <2>4. PoliciesPath(t.n[1], t.n[2]) \in Seq(Segments(t))
    BY <1>1, PathsTyped
  <2>5. QED
    BY <1>1, <2>2, <2>3, <2>4, CatalogJoins
<1>12. QED
  BY <1>2, <1>3, <1>4, <1>5, <1>6, <1>7, <1>8, <1>9, <1>10, <1>11
     DEF Addressed, TargetKinds

\* A path that ends in another literal does not end in "grants".
LEMMA EndsOtherwise ==
    ASSUME NEW S, Literals \subseteq S, NEW B \in Seq(S), NEW P \in Seq(S),
           NEW w \in { "rotate", "properties" }
    PROVE  LET q == B \o Append(P, Lit(w)) IN q[Len(q)] # Lit("grants")
<1>1. Lit(w) \in S
  BY DEF Literals
<1>2. B \o Append(P, Lit(w)) = Append(B \o P, Lit(w))
  BY <1>1, BaseJoins
<1>3. B \o P \in Seq(S)
  OBVIOUS
<1>4. LET q == Append(B \o P, Lit(w)) IN q[Len(q)] = Lit(w)
  BY <1>1, <1>3
<1>5. Lit(w) # Lit("grants")
  <2>1. w = << w >>[1]
    OBVIOUS
  <2>2. "grants" = << "grants" >>[1]
    OBVIOUS
  <2>3. w # "grants"
    OBVIOUS
  <2>4. QED
    BY <2>1, <2>2, <2>3 DEF Lit
<1>6. QED
  BY <1>2, <1>4, <1>5

\* Reads, updates and rotations name nothing new and remove nothing.
LEMMA Spares ==
    ASSUME NEW t, t.kind \in Addressed,
           NEW op \in Operations(t.kind) \cap { "get", "update", "rotate" }
    PROVE  /\ Request(t, op).body = Unnamed
           /\ ~Removes(Request(t, op))
<1>1. /\ Literals \subseteq Segments(t) /\ t.name \in Segments(t)
      /\ t.n[1] \in Segments(t) /\ t.n[2] \in Segments(t)
  BY SegmentsTyped
<1>2. t.kind \notin { "grant", "membership", "roleAssignment", "connection" }
  BY DEF Operations, Assigned, Addressed
<1>3. CASE op = "get"
  <2>1. Request(t, op).method = "GET" /\ Request(t, op).body = Unnamed
    BY <1>2, <1>3
       DEF Request, Addressed, TargetKinds, Management, Catalog,
           NewGetCatalogRequest, NewGetCatalogRoleRequest,
           NewGetPrincipalRequest, NewGetPrincipalRoleRequest,
           NewLoadNamespaceMetadataRequest, NewLoadTableRequest,
           NewLoadViewRequest, NewLoadPolicyRequest
  <2>2. QED
    BY <2>1 DEF Removes
<1>4. CASE op = "update" /\ t.kind # "namespace"
  <2>1. t.kind \notin { "table", "view" }
    BY <1>4 DEF Operations, Listed
  <2>2. Request(t, op).method = "PUT" /\ Request(t, op).body = Unnamed
    BY <1>2, <1>4, <2>1
       DEF Request, Addressed, TargetKinds, Management, Catalog,
           NewUpdateCatalogRequestWithBody, NewUpdateCatalogRoleRequestWithBody,
           NewUpdatePrincipalRequestWithBody,
           NewUpdatePrincipalRoleRequestWithBody,
           NewUpdatePolicyRequestWithBody
  <2>3. QED
    BY <2>2 DEF Removes
<1>5. CASE op = "update" /\ t.kind = "namespace"
  <2>1. Request(t, op) = NewUpdatePropertiesRequestWithBody(t.n[1], t.name)
    BY <1>5 DEF Request
  <2>2. CatalogBase \in Seq(Segments(t))
        /\ NamespacePath(t.n[1], t.name) \in Seq(Segments(t))
    BY <1>1, PathsTyped
  <2>3. LET q == Request(t, op).path IN q[Len(q)] # Lit("grants")
    <3>1. Request(t, op).path = CatalogBase
                \o Append(NamespacePath(t.n[1], t.name), Lit("properties"))
      BY <2>1 DEF NewUpdatePropertiesRequestWithBody, Catalog
    <3>2. QED
      BY <1>1, <2>2, <3>1, EndsOtherwise
  <2>4. Request(t, op).method = "POST" /\ Request(t, op).body = Unnamed
    BY <2>1 DEF NewUpdatePropertiesRequestWithBody, Catalog
  <2>5. QED
    BY <2>3, <2>4 DEF Removes
<1>6. CASE op = "rotate"
  <2>1. t.kind = "principal"
    BY <1>2, <1>6 DEF Operations, Listed, Kept
  <2>2. Request(t, op) = NewRotateCredentialsRequest(t.name)
    BY <1>6, <2>1 DEF Request
  <2>3. ManagementBase \in Seq(Segments(t))
        /\ PrincipalPath(t.name) \in Seq(Segments(t))
    BY <1>1, PathsTyped
  <2>4. LET q == Request(t, op).path IN q[Len(q)] # Lit("grants")
    BY <1>1, <2>2, <2>3, EndsOtherwise DEF NewRotateCredentialsRequest, Management
  <2>5. Request(t, op).method = "POST" /\ Request(t, op).body = Unnamed
    BY <2>2 DEF NewRotateCredentialsRequest, Management
  <2>6. QED
    BY <2>4, <2>5 DEF Removes
<1>7. QED
  BY <1>3, <1>4, <1>5, <1>6

\* A grant is revoked by the request that adds it, but for the method.
LEMMA Revokes ==
    ASSUME NEW t, t.kind = "grant"
    PROVE  /\ Request(t, "delete").body = t.name
           /\ AddressOf(Request(t, "delete")) = AddressOf(Request(t, "create"))
<1>1. /\ Request(t, "create")
           = NewAddGrantToCatalogRoleRequestWithBody(t.n[1], t.n[2], t.name)
      /\ Request(t, "delete")
           = NewRevokeGrantFromCatalogRoleRequestWithBody(t.n[1], t.n[2], t.name)
  BY DEF Request
<1>2. QED
  BY <1>1 DEF NewAddGrantToCatalogRoleRequestWithBody, Management, AddressOf,
              NewRevokeGrantFromCatalogRoleRequestWithBody

\* Whatever a target is asked for, the server changes nothing but it.
LEMMA TouchesOwn ==
    ASSUME NEW t, t.kind \in TargetKinds, t.name # Unnamed,
           NEW op \in Operations(t.kind) \ {"ping"},
           NEW a \in (objects \ Serve(Request(t, op)).objects)
                     \cup (Serve(Request(t, op)).objects \ objects)
    PROVE  a = AddressOf(Request(t, "create"))
<1>1. t.kind \in Addressed
  BY DEF Addressed, Operations
<1>2. op \in { "create", "get", "update", "rotate", "delete" }
  BY DEF Operations, Listed, Kept, Assigned
<1>3. CASE op \in { "get", "update", "rotate" }
  BY <1>1, <1>3, Spares, ReadsTouchNothing
<1>4. CASE op = "create"
  <2>1. ~IsDoor(Request(t, op))
    BY <1>1, <1>4, Creates DEF IsDoor
  <2>2. QED
    BY <1>4, <2>1, ServeTouches
<1>5. CASE op = "delete" /\ t.kind = "grant"
  <2>1. ~IsDoor(Request(t, op))
    BY <1>5, Revokes DEF IsDoor
  <2>2. QED
    BY <1>5, <2>1, ServeTouches, Revokes
<1>6. CASE op = "delete" /\ t.kind # "grant"
  <2>1. /\ Request(t, op).method = "DELETE" /\ Request(t, op).body = Unnamed
        /\ Request(t, op).path = AddressOf(Request(t, "create"))
    BY <1>1, <1>6, Deletes
  <2>2. ~IsDoor(Request(t, op))
    BY <2>1 DEF IsDoor
  <2>3. AddressOf(Request(t, op)) = Request(t, op).path
    BY <2>1 DEF AddressOf
  <2>4. QED
    BY <2>1, <2>2, <2>3, ServeTouches
<1>7. QED
  BY <1>2, <1>3, <1>4, <1>5, <1>6

-----------------------------------------------------------------------------
(* The client implements the token source.                                 *)

\* A step of the client is one of the token source, or none of its business.
LEMMA StepIsTokenStep == [ClientNext]_clientVars => [TokenNext]_tokenVars
<1>1. SUFFICES ASSUME [ClientNext]_clientVars PROVE [TokenNext]_tokenVars
  OBVIOUS
<1>2. CASE UNCHANGED clientVars
  BY <1>2 DEF clientVars
<1>3. CASE (Tick /\ UNCHANGED callVars) \/ StartOver
  BY <1>3 DEF StartOver, TokenNext
<1>4. ASSUME NEW c \in Callers, NEW op \in Kept \cup {"rotate", "ping"}, Ask(c, op)
      PROVE  [TokenNext]_tokenVars
  BY <1>4 DEF Ask, TokenNext
<1>5. ASSUME NEW c \in Callers,
             \/ Authenticate(c) \/ NotSent(c) \/ Pinged(c)
             \/ Arrive(c) \/ Unavailable(c) \/ Conclude(c) \/ Lost(c)
      PROVE  [TokenNext]_tokenVars
  BY <1>5 DEF Authenticate, NotSent, Pinged, Arrive, Unavailable, Conclude, Lost,
              TokenNext
<1>6. QED
  BY <1>1, <1>2, <1>3, <1>4, <1>5 DEF ClientNext

\* Whatever callers do with their tokens, the client behaves as PolarisTokenSource
\* says, fairness included: injectBearer and Ping are its only ways to token().
THEOREM Implements == ClientSpec => TokenSpec
<1>1. ClientInit => TokenInit
  BY DEF ClientInit
<1>2. QED
  BY <1>1, StepIsTokenStep, PTL DEF ClientSpec, TokenSpec

\* The token that a request of a reconciler bears is good when it is handed out,
\* and for as long as tokenLeadTime covers answer and request.
THEOREM BearsValid == ClientSpec => []HandedOutIsValid
BY Implements, HandedOut, PTL

-----------------------------------------------------------------------------
(* What a caller is at.                                                    *)

\* Targets stay what they are, and a caller that waits for a token, or has one,
\* is at an operation of its target's kind.
TargetInv ==
    /\ \A c \in Callers : IsTarget(target[c])
    /\ doing \in [Callers -> {"nothing", "ping", "rotate"} \cup Kept]
    /\ answer \in [Callers -> { answer[c] : c \in Callers }]
    /\ \A c \in Callers : at[c] # "idle" => doing[c] \in Operations(target[c].kind)

\* A caller is done with its request, or its operation and place stay.
LEMMA TargetFrame ==
    ASSUME TargetInv, IInv, NEW c \in Callers, target' = target,
           \/ doing' = doing
           \/ doing' = [doing EXCEPT ![c] = "nothing"] /\ at'[c] = "idle",
           \A d \in Callers : at'[d] # "idle" => at[d] # "idle",
           answer' = answer \/ \E a : answer' = [answer EXCEPT ![c] = a]
    PROVE  TargetInv'
<1>1. doing' \in [Callers -> {"nothing", "ping", "rotate"} \cup Kept]
  BY DEF TargetInv
<1>2. answer' \in [Callers -> { answer'[d] : d \in Callers }]
  BY DEF TargetInv
<1>3. ASSUME NEW d \in Callers, at'[d] # "idle"
      PROVE  doing'[d] \in Operations(target'[d].kind)
  BY <1>3 DEF TargetInv
<1>4. QED
  BY <1>1, <1>2, <1>3 DEF TargetInv

\* At first nobody is at anything.
LEMMA InitTarget == ClientInit => TargetInv
<1>1. SUFFICES ASSUME ClientInit PROVE TargetInv
  OBVIOUS
<1>2. PICK case \in Cases : target = case.target
  BY <1>1 DEF ClientInit
<1>3. at = [ c \in Callers |-> "idle" ]
  BY <1>1 DEF ClientInit, TokenInit
<1>4. QED
  BY <1>1, <1>2, <1>3, ClientAssumption DEF ClientInit, TargetInv

\* No step of the client breaks the invariant.
LEMMA NextTarget == TargetInv /\ IInv /\ [ClientNext]_clientVars => TargetInv'
<1>1. SUFFICES ASSUME TargetInv, IInv, [ClientNext]_clientVars PROVE TargetInv'
  OBVIOUS
<1>2. at \in [Callers -> Places]
  BY <1>1 DEF IInv, TokenTypeOK
<1>3. CASE UNCHANGED clientVars
  BY <1>1, <1>3 DEF clientVars, callVars, tokenVars, TargetInv
<1>4. CASE Tick /\ UNCHANGED callVars
  BY <1>1, <1>4 DEF Tick, callVars, TargetInv
<1>5. CASE StartOver
  BY <1>1, <1>5 DEF StartOver, Restart, TargetInv
<1>6. ASSUME NEW c \in Callers, NEW op \in Kept \cup {"rotate", "ping"}, Ask(c, op)
      PROVE  TargetInv'
  <2>1. /\ doing' = [doing EXCEPT ![c] = op] /\ at' = [at EXCEPT ![c] = "waiting"]
        /\ op \in Operations(target[c].kind)
        /\ target' = target /\ answer' = answer
    BY <1>6 DEF Ask, Call
  <2>2. QED
    BY <1>1, <1>2, <2>1 DEF TargetInv
<1>7. ASSUME NEW c \in Callers, Authenticate(c)
      PROVE  TargetInv'
  <2>1. \A d \in Callers : at'[d] # "idle" => at[d] # "idle"
    BY <1>2, <1>7 DEF Authenticate, TokenStep, UseCached, Fetch, FetchDone,
                      FetchFailed, HandOut
  <2>2. QED
    BY <1>1, <1>7, <2>1, TargetFrame DEF Authenticate, callVars
<1>8. ASSUME NEW c \in Callers,
             NotSent(c) \/ Pinged(c) \/ Conclude(c) \/ Lost(c)
      PROVE  TargetInv'
  <2>1. /\ at' = [at EXCEPT ![c] = "idle"] /\ target' = target
        /\ doing' = [doing EXCEPT ![c] = "nothing"]
        /\ answer' = answer \/ answer' = [answer EXCEPT ![c] = NoAnswer]
    BY <1>8 DEF NotSent, Pinged, Conclude, Lost, Leave
  <2>2. at'[c] = "idle" /\ \A d \in Callers : at'[d] # "idle" => at[d] # "idle"
    BY <1>2, <2>1
  <2>3. QED
    BY <1>1, <2>1, <2>2, TargetFrame
<1>9. ASSUME NEW c \in Callers, Arrive(c) \/ Unavailable(c)
      PROVE  TargetInv'
  <2>1. /\ at' = at /\ target' = target /\ doing' = doing
        /\ \E a : answer' = [answer EXCEPT ![c] = a]
    BY <1>9 DEF Arrive, Unavailable, tokenVars
  <2>2. QED
    BY <1>1, <2>1, TargetFrame
<1>10. QED
  BY <1>1, <1>3, <1>4, <1>5, <1>6, <1>7, <1>8, <1>9 DEF ClientNext

\* The invariants hold of every behaviour of the client.
LEMMA ClientInductive == ClientSpec => [](TargetInv /\ IInv)
<1>1. ClientSpec => []IInv
  BY Implements, Inductive, PTL
<1>2. QED
  BY <1>1, InitTarget, NextTarget, PTL DEF ClientSpec

\* No caller's request, as its builder addresses it, touches what another caller
\* looks after, whatever the kinds and the names.
THEOREM Minds == ClientSpec => MindsItsOwn
<1> DEFINE Own == \A c \in Callers : answer'[c] # answer[c] =>
                    \A a \in (objects \ objects') \cup (objects' \ objects) :
                        a = Home(target[c])
<1>1. ASSUME TargetInv, ClientNext PROVE Own
  <2>1. CASE objects' = objects
    BY <2>1
  <2>2. CASE objects' # objects
    <3>1. PICK c \in Callers : Arrive(c)
      BY <1>1, <2>2
         DEF ClientNext, callVars, StartOver, Ask, Authenticate, NotSent, Pinged,
             Unavailable, Conclude, Lost
    <3>2. /\ at[c] = "bearing" /\ doing[c] # "ping"
          /\ objects' = Serve(Request(target[c], doing[c])).objects
          /\ \E a : answer' = [answer EXCEPT ![c] = a]
      BY <2>2, <3>1 DEF Arrive
    <3>3. \A d \in Callers \ {c} : answer'[d] = answer[d]
      BY <1>1, <3>2 DEF TargetInv
    <3>4. /\ target[c].kind \in TargetKinds /\ target[c].name # Unnamed
          /\ doing[c] \in Operations(target[c].kind) \ {"ping"}
      BY <1>1, <3>2 DEF TargetInv, IsTarget
    <3>5. \A a \in (objects \ objects') \cup (objects' \ objects) :
                a = Home(target[c])
      BY <3>2, <3>4, TouchesOwn DEF Home
    <3>6. QED
      BY <3>3, <3>5
  <2>3. QED
    BY <2>1, <2>2
<1>2. TargetInv /\ [ClientNext]_clientVars => [Own]_clientVars
  BY <1>1
<1>3. QED
  BY <1>2, ClientInductive, PTL DEF ClientSpec, MindsItsOwn

-----------------------------------------------------------------------------
(* Where a target is made.                                                 *)

\* p is s and one more segment.
Longer(p, s, x) ==
    /\ Len(p) = Len(s) + 1 /\ p[Len(s) + 1] = x
    /\ \A i \in 1..Len(s) : p[i] = s[i]

\* What is appended comes last, and nothing else changes.
LEMMA AppendIsLonger ==
    ASSUME NEW S, NEW s \in Seq(S), NEW x \in S
    PROVE  Append(s, x) \in Seq(S) /\ Longer(Append(s, x), s, x)
BY DEF Longer

\* What tells the collections apart, and what they are in.
LEMMA PathShapes ==
    ASSUME NEW S, Literals \subseteq S, NEW a \in S, NEW b \in S
    PROVE  /\ Len(CatalogsPath) = 1 /\ CatalogsPath[1] = Lit("catalogs")
           /\ LET p == CatalogRolesPath(a)
              IN  Len(p) = 3 /\ p[1] = Lit("catalogs") /\ p[2] = a
           /\ LET p == GrantsPath(a, b) IN Len(p) = 5 /\ p[2] = a /\ p[4] = b
           /\ Len(PrincipalsPath) = 1 /\ PrincipalsPath[1] = Lit("principals")
           /\ Len(PrincipalRolesPath) = 1
           /\ PrincipalRolesPath[1] = Lit("principal-roles")
           /\ LET p == MembershipsPath(a)
              IN  Len(p) = 3 /\ p[1] = Lit("principals") /\ p[2] = a
           /\ LET p == CatalogRolesOfRolePath(a, b)
              IN  Len(p) = 4 /\ p[2] = a /\ p[4] = b
           /\ LET p == NamespacesPath(a) IN Len(p) = 3 /\ p[2] = a
           /\ LET p == TablesPath(a, b)
              IN  Len(p) = 5 /\ p[2] = a /\ p[4] = b /\ p[5] = Lit("tables")
           /\ LET p == ViewsPath(a, b)
              IN  Len(p) = 5 /\ p[2] = a /\ p[4] = b /\ p[5] = Lit("views")
           /\ LET p == PoliciesPath(a, b) IN Len(p) = 6 /\ p[3] = a /\ p[5] = b
<1>1. /\ Lit("catalogs") \in S /\ Lit("catalog-roles") \in S /\ Lit("grants") \in S
      /\ Lit("principals") \in S /\ Lit("principal-roles") \in S
      /\ Lit("tables") \in S /\ Lit("views") \in S
  BY DEF Literals
<1>2. /\ CatalogsPath \in Seq(S) /\ PrincipalsPath \in Seq(S)
      /\ PrincipalRolesPath \in Seq(S) /\ NamespacesPath(a) \in Seq(S)
      /\ NamespacePath(a, b) \in Seq(S)
  BY PathsTyped
<1>3. /\ Len(CatalogsPath) = 1 /\ CatalogsPath[1] = Lit("catalogs")
      /\ Len(PrincipalsPath) = 1 /\ PrincipalsPath[1] = Lit("principals")
      /\ Len(PrincipalRolesPath) = 1
      /\ PrincipalRolesPath[1] = Lit("principal-roles")
  BY DEF CatalogsPath, PrincipalsPath, PrincipalRolesPath
<1>4. Len(NamespacesPath(a)) = 3 /\ NamespacesPath(a)[2] = a
  BY DEF NamespacesPath
<1>5. LET p == PoliciesPath(a, b) IN Len(p) = 6 /\ p[3] = a /\ p[5] = b
  BY DEF PoliciesPath
<1>6. /\ CatalogPath(a) \in Seq(S) /\ Longer(CatalogPath(a), CatalogsPath, a)
      /\ PrincipalPath(a) \in Seq(S) /\ Longer(PrincipalPath(a), PrincipalsPath, a)
      /\ PrincipalRolePath(a) \in Seq(S)
      /\ Longer(PrincipalRolePath(a), PrincipalRolesPath, a)
      /\ Longer(NamespacePath(a, b), NamespacesPath(a), b)
  BY <1>2, AppendIsLonger
  DEF CatalogPath, PrincipalPath, PrincipalRolePath, NamespacePath
<1>7. /\ CatalogRolesPath(a) \in Seq(S)
      /\ Longer(CatalogRolesPath(a), CatalogPath(a), Lit("catalog-roles"))
      /\ Longer(MembershipsPath(a), PrincipalPath(a), Lit("principal-roles"))
      /\ Append(PrincipalRolePath(a), Lit("catalog-roles")) \in Seq(S)
      /\ Longer(Append(PrincipalRolePath(a), Lit("catalog-roles")),
                PrincipalRolePath(a), Lit("catalog-roles"))
      /\ Longer(TablesPath(a, b), NamespacePath(a, b), Lit("tables"))
      /\ Longer(ViewsPath(a, b), NamespacePath(a, b), Lit("views"))
  BY <1>1, <1>2, <1>6, AppendIsLonger
  DEF CatalogRolesPath, MembershipsPath, TablesPath, ViewsPath
<1>8. /\ CatalogRolePath(a, b) \in Seq(S)
      /\ Longer(CatalogRolePath(a, b), CatalogRolesPath(a), b)
      /\ Longer(CatalogRolesOfRolePath(a, b),
                Append(PrincipalRolePath(a), Lit("catalog-roles")), b)
  BY <1>7, AppendIsLonger DEF CatalogRolePath, CatalogRolesOfRolePath
<1>9. Longer(GrantsPath(a, b), CatalogRolePath(a, b), Lit("grants"))
  BY <1>1, <1>8, AppendIsLonger DEF GrantsPath
<1>10. LET p == CatalogRolesPath(a)
       IN  Len(p) = 3 /\ p[1] = Lit("catalogs") /\ p[2] = a
  <2>1. LET p == CatalogPath(a)
        IN  Len(p) = 2 /\ p[1] = Lit("catalogs") /\ p[2] = a
    BY <1>3, <1>6 DEF Longer
  <2> QED
    BY <1>7, <2>1 DEF Longer
<1>11. LET p == GrantsPath(a, b) IN Len(p) = 5 /\ p[2] = a /\ p[4] = b
  <2>1. LET p == CatalogRolePath(a, b) IN Len(p) = 4 /\ p[2] = a /\ p[4] = b
    BY <1>8, <1>10 DEF Longer
  <2> QED
    BY <1>9, <2>1 DEF Longer
<1>12. LET p == MembershipsPath(a)
       IN  Len(p) = 3 /\ p[1] = Lit("principals") /\ p[2] = a
  <2>1. LET p == PrincipalPath(a)
        IN  Len(p) = 2 /\ p[1] = Lit("principals") /\ p[2] = a
    BY <1>3, <1>6 DEF Longer
  <2> QED
    BY <1>7, <2>1 DEF Longer
<1>13. LET p == CatalogRolesOfRolePath(a, b)
       IN  Len(p) = 4 /\ p[2] = a /\ p[4] = b
  <2>1. LET p == PrincipalRolePath(a) IN Len(p) = 2 /\ p[2] = a
    BY <1>3, <1>6 DEF Longer
  <2>2. LET p == Append(PrincipalRolePath(a), Lit("catalog-roles"))
        IN  Len(p) = 3 /\ p[2] = a
    BY <1>7, <2>1 DEF Longer
  <2> QED
    BY <1>8, <2>2 DEF Longer
<1>14. LET p == NamespacePath(a, b) IN Len(p) = 4 /\ p[2] = a /\ p[4] = b
  BY <1>4, <1>6 DEF Longer
<1>15. LET p == TablesPath(a, b)
       IN  Len(p) = 5 /\ p[2] = a /\ p[4] = b /\ p[5] = Lit("tables")
  BY <1>7, <1>14 DEF Longer
<1>16. LET p == ViewsPath(a, b)
       IN  Len(p) = 5 /\ p[2] = a /\ p[4] = b /\ p[5] = Lit("views")
  BY <1>7, <1>14 DEF Longer
<1> QED
  BY <1>3, <1>4, <1>5, <1>10, <1>11, <1>12, <1>13, <1>15, <1>16
\* A path that is not empty, below a base.
LEMMA BaseShape ==
    ASSUME NEW S, NEW B \in Seq(S), NEW P \in Seq(S), NEW x \in S
    PROVE  LET h == Append(B \o P, x)
           IN  /\ Len(h) = Len(B) + Len(P) + 1
               /\ h[Len(B) + Len(P) + 1] = x
               /\ \A i \in 1..Len(B) : h[i] = B[i]
               /\ \A i \in 1..Len(P) : h[Len(B) + i] = P[i]
<1>1. /\ B \o P \in Seq(S) /\ Len(B \o P) = Len(B) + Len(P)
      /\ \A i \in 1..Len(B) : (B \o P)[i] = B[i]
      /\ \A i \in 1..Len(P) : (B \o P)[Len(B) + i] = P[i]
  OBVIOUS
<1>2. Longer(Append(B \o P, x), B \o P, x)
  BY <1>1, AppendIsLonger
<1>3. Len(B) \in Nat /\ Len(P) \in Nat
  OBVIOUS
<1>4. \A i \in 1..Len(P) : Len(B) + i \in 1..(Len(B) + Len(P))
  BY <1>3
<1>5. \A i \in 1..Len(B) : i \in 1..(Len(B) + Len(P))
  BY <1>3
<1> QED
  BY <1>1, <1>2, <1>4, <1>5 DEF Longer

\* Where a management request makes what it names: the plane, the collection's
\* path and the name.
LEMMA ManagementHome ==
    ASSUME NEW S, Literals \subseteq S, NEW P \in Seq(S), NEW x \in S,
           x # Unnamed, NEW m
    PROVE  LET h == AddressOf(Management(m, P, x))
           IN  /\ Len(h) = 4 + Len(P) /\ h[2] = Lit("management")
               /\ \A i \in 1..Len(P) : h[3 + i] = P[i]
               /\ h[4 + Len(P)] = x
<1>1. ManagementBase \in Seq(S)
  BY PathsTyped
<1>2. Len(ManagementBase) = 3 /\ ManagementBase[2] = Lit("management")
  BY DEF ManagementBase
<1>3. AddressOf(Management(m, P, x)) = Append(ManagementBase \o P, x)
  BY DEF AddressOf, Management
<1> DEFINE h == Append(ManagementBase \o P, x)
<1>4. /\ Len(h) = Len(ManagementBase) + Len(P) + 1
      /\ h[Len(ManagementBase) + Len(P) + 1] = x
      /\ \A i \in 1..Len(ManagementBase) : h[i] = ManagementBase[i]
      /\ \A i \in 1..Len(P) : h[Len(ManagementBase) + i] = P[i]
  BY <1>1, BaseShape
<1>5. Len(P) \in Nat
  OBVIOUS
<1> HIDE DEF h
<1>6. /\ Len(h) = 4 + Len(P) /\ h[2] = Lit("management")
      /\ \A i \in 1..Len(P) : h[3 + i] = P[i]
      /\ h[4 + Len(P)] = x
  BY <1>2, <1>4, <1>5
<1> QED
  BY <1>3, <1>6 DEF h

\* The same for the catalog plane.
LEMMA CatalogHome ==
    ASSUME NEW S, Literals \subseteq S, NEW P \in Seq(S), NEW x \in S,
           x # Unnamed, NEW m
    PROVE  LET h == AddressOf(Catalog(m, P, x))
           IN  /\ Len(h) = 3 + Len(P) /\ h[2] = Lit("catalog")
               /\ \A i \in 1..Len(P) : h[2 + i] = P[i]
               /\ h[3 + Len(P)] = x
<1>1. CatalogBase \in Seq(S)
  BY PathsTyped
<1>2. Len(CatalogBase) = 2 /\ CatalogBase[2] = Lit("catalog")
  BY DEF CatalogBase
<1>3. AddressOf(Catalog(m, P, x)) = Append(CatalogBase \o P, x)
  BY DEF AddressOf, Catalog
<1> DEFINE h == Append(CatalogBase \o P, x)
<1>4. /\ Len(h) = Len(CatalogBase) + Len(P) + 1
      /\ h[Len(CatalogBase) + Len(P) + 1] = x
      /\ \A i \in 1..Len(CatalogBase) : h[i] = CatalogBase[i]
      /\ \A i \in 1..Len(P) : h[Len(CatalogBase) + i] = P[i]
  BY <1>1, BaseShape
<1>5. Len(P) \in Nat
  OBVIOUS
<1> HIDE DEF h
<1>6. /\ Len(h) = 3 + Len(P) /\ h[2] = Lit("catalog")
      /\ \A i \in 1..Len(P) : h[2 + i] = P[i]
      /\ h[3 + Len(P)] = x
  BY <1>2, <1>4, <1>5
<1> QED
  BY <1>3, <1>6 DEF h

\* The request that makes a target: the plane, the collection and the name.
LEMMA CreateForm ==
    ASSUME NEW t, t.kind \in Addressed
    PROVE  LET req == Request(t, "create")
               a == t.n[1]
               b == t.n[2]
               x == t.name
           IN  /\ t.kind = "catalog"
                    => req = Management("POST", CatalogsPath, x)
               /\ t.kind = "catalogRole"
                    => req = Management("POST", CatalogRolesPath(a), x)
               /\ t.kind = "grant"
                    => req = Management("PUT", GrantsPath(a, b), x)
               /\ t.kind = "principal"
                    => req = Management("POST", PrincipalsPath, x)
               /\ t.kind = "principalRole"
                    => req = Management("POST", PrincipalRolesPath, x)
               /\ t.kind = "membership"
                    => req = Management("PUT", MembershipsPath(a), x)
               /\ t.kind = "roleAssignment"
                    => req = Management("PUT", CatalogRolesOfRolePath(a, b), x)
               /\ t.kind = "namespace"
                    => req = Catalog("POST", NamespacesPath(a), x)
               /\ t.kind = "table" => req = Catalog("POST", TablesPath(a, b), x)
               /\ t.kind = "view" => req = Catalog("POST", ViewsPath(a, b), x)
               /\ t.kind = "policy"
                    => req = Catalog("POST", PoliciesPath(a, b), x)
BY DEF Request, NewCreateCatalogRequestWithBody,
   NewCreateCatalogRoleRequestWithBody, NewAddGrantToCatalogRoleRequestWithBody,
   NewCreatePrincipalRequestWithBody, NewCreatePrincipalRoleRequestWithBody,
   NewAssignPrincipalRoleRequestWithBody,
   NewAssignCatalogRoleToPrincipalRoleRequestWithBody,
   NewCreateNamespaceRequestWithBody, NewCreateTableRequestWithBody,
   NewCreateViewRequestWithBody, NewCreatePolicyRequestWithBody

\* What is made of a target on the server, segment by segment.
LEMMA HomeShape ==
    ASSUME NEW t, t.kind \in Addressed, t.name # Unnamed
    PROVE  LET h == Home(t)
               a == t.n[1]
               b == t.n[2]
               x == t.name
           IN  /\ t.kind = "catalog" =>
                    /\ Len(h) = 5 /\ h[2] = Lit("management")
                    /\ h[4] = Lit("catalogs") /\ h[5] = x
               /\ t.kind = "catalogRole" =>
                    /\ Len(h) = 7 /\ h[2] = Lit("management")
                    /\ h[4] = Lit("catalogs") /\ h[5] = a /\ h[7] = x
               /\ t.kind = "grant" =>
                    /\ Len(h) = 9 /\ h[2] = Lit("management")
                    /\ h[5] = a /\ h[7] = b /\ h[9] = x
               /\ t.kind = "principal" =>
                    /\ Len(h) = 5 /\ h[2] = Lit("management")
                    /\ h[4] = Lit("principals") /\ h[5] = x
               /\ t.kind = "principalRole" =>
                    /\ Len(h) = 5 /\ h[2] = Lit("management")
                    /\ h[4] = Lit("principal-roles") /\ h[5] = x
               /\ t.kind = "membership" =>
                    /\ Len(h) = 7 /\ h[2] = Lit("management")
                    /\ h[4] = Lit("principals") /\ h[5] = a /\ h[7] = x
               /\ t.kind = "roleAssignment" =>
                    /\ Len(h) = 8 /\ h[2] = Lit("management")
                    /\ h[5] = a /\ h[7] = b /\ h[8] = x
               /\ t.kind = "namespace" =>
                    /\ Len(h) = 6 /\ h[2] = Lit("catalog")
                    /\ h[4] = a /\ h[6] = x
               /\ t.kind = "table" =>
                    /\ Len(h) = 8 /\ h[2] = Lit("catalog")
                    /\ h[4] = a /\ h[6] = b /\ h[7] = Lit("tables") /\ h[8] = x
               /\ t.kind = "view" =>
                    /\ Len(h) = 8 /\ h[2] = Lit("catalog")
                    /\ h[4] = a /\ h[6] = b /\ h[7] = Lit("views") /\ h[8] = x
               /\ t.kind = "policy" =>
                    /\ Len(h) = 9 /\ h[2] = Lit("catalog")
                    /\ h[5] = a /\ h[7] = b /\ h[9] = x
<1> DEFINE S == Segments(t)
           a == t.n[1]
           b == t.n[2]
<1>1. Literals \subseteq S /\ t.name \in S /\ a \in S /\ b \in S
  BY SegmentsTyped
<1> HIDE DEF S
<1>2. CASE t.kind = "catalog"
  <2> DEFINE P == CatalogsPath
             h == Home(t)
  <2>1. h = AddressOf(Management("POST", P, t.name))
    BY <1>2, CreateForm DEF Home, Addressed, TargetKinds
  <2>2. P \in Seq(S)
    BY <1>1, PathsTyped
  <2>3. Len(P) = 1 /\ P[1] = Lit("catalogs")
    BY <1>1, PathShapes
  <2> HIDE DEF P, h
  <2>4. /\ Len(h) = 4 + Len(P) /\ h[2] = Lit("management")
        /\ \A i \in 1..Len(P) : h[3 + i] = P[i]
        /\ h[4 + Len(P)] = t.name
    BY <1>1, <2>1, <2>2, ManagementHome
  <2>5. /\ Len(h) = 5 /\ h[2] = Lit("management") /\ h[4] = Lit("catalogs")
        /\ h[5] = t.name
    BY <2>3, <2>4
  <2> QED
    BY <1>2, <2>5 DEF h
<1>3. CASE t.kind = "catalogRole"
  <2> DEFINE P == CatalogRolesPath(a)
             h == Home(t)
  <2>1. h = AddressOf(Management("POST", P, t.name))
    BY <1>3, CreateForm DEF Home, Addressed, TargetKinds
  <2>2. P \in Seq(S)
    BY <1>1, PathsTyped
  <2>3. Len(P) = 3 /\ P[1] = Lit("catalogs") /\ P[2] = a
    BY <1>1, PathShapes
  <2> HIDE DEF P, h
  <2>4. /\ Len(h) = 4 + Len(P) /\ h[2] = Lit("management")
        /\ \A i \in 1..Len(P) : h[3 + i] = P[i]
        /\ h[4 + Len(P)] = t.name
    BY <1>1, <2>1, <2>2, ManagementHome
  <2>5. /\ Len(h) = 7 /\ h[2] = Lit("management") /\ h[4] = Lit("catalogs")
        /\ h[5] = a /\ h[7] = t.name
    BY <2>3, <2>4
  <2> QED
    BY <1>3, <2>5 DEF h
<1>4. CASE t.kind = "grant"
  <2> DEFINE P == GrantsPath(a, b)
             h == Home(t)
  <2>1. h = AddressOf(Management("PUT", P, t.name))
    BY <1>4, CreateForm DEF Home, Addressed, TargetKinds
  <2>2. P \in Seq(S)
    BY <1>1, PathsTyped
  <2>3. Len(P) = 5 /\ P[2] = a /\ P[4] = b
    BY <1>1, PathShapes
  <2> HIDE DEF P, h
  <2>4. /\ Len(h) = 4 + Len(P) /\ h[2] = Lit("management")
        /\ \A i \in 1..Len(P) : h[3 + i] = P[i]
        /\ h[4 + Len(P)] = t.name
    BY <1>1, <2>1, <2>2, ManagementHome
  <2>5. /\ Len(h) = 9 /\ h[2] = Lit("management") /\ h[5] = a
        /\ h[7] = b /\ h[9] = t.name
    BY <2>3, <2>4
  <2> QED
    BY <1>4, <2>5 DEF h
<1>5. CASE t.kind = "principal"
  <2> DEFINE P == PrincipalsPath
             h == Home(t)
  <2>1. h = AddressOf(Management("POST", P, t.name))
    BY <1>5, CreateForm DEF Home, Addressed, TargetKinds
  <2>2. P \in Seq(S)
    BY <1>1, PathsTyped
  <2>3. Len(P) = 1 /\ P[1] = Lit("principals")
    BY <1>1, PathShapes
  <2> HIDE DEF P, h
  <2>4. /\ Len(h) = 4 + Len(P) /\ h[2] = Lit("management")
        /\ \A i \in 1..Len(P) : h[3 + i] = P[i]
        /\ h[4 + Len(P)] = t.name
    BY <1>1, <2>1, <2>2, ManagementHome
  <2>5. /\ Len(h) = 5 /\ h[2] = Lit("management") /\ h[4] = Lit("principals")
        /\ h[5] = t.name
    BY <2>3, <2>4
  <2> QED
    BY <1>5, <2>5 DEF h
<1>6. CASE t.kind = "principalRole"
  <2> DEFINE P == PrincipalRolesPath
             h == Home(t)
  <2>1. h = AddressOf(Management("POST", P, t.name))
    BY <1>6, CreateForm DEF Home, Addressed, TargetKinds
  <2>2. P \in Seq(S)
    BY <1>1, PathsTyped
  <2>3. Len(P) = 1 /\ P[1] = Lit("principal-roles")
    BY <1>1, PathShapes
  <2> HIDE DEF P, h
  <2>4. /\ Len(h) = 4 + Len(P) /\ h[2] = Lit("management")
        /\ \A i \in 1..Len(P) : h[3 + i] = P[i]
        /\ h[4 + Len(P)] = t.name
    BY <1>1, <2>1, <2>2, ManagementHome
  <2>5. /\ Len(h) = 5 /\ h[2] = Lit("management") /\ h[4] = Lit("principal-roles")
        /\ h[5] = t.name
    BY <2>3, <2>4
  <2> QED
    BY <1>6, <2>5 DEF h
<1>7. CASE t.kind = "membership"
  <2> DEFINE P == MembershipsPath(a)
             h == Home(t)
  <2>1. h = AddressOf(Management("PUT", P, t.name))
    BY <1>7, CreateForm DEF Home, Addressed, TargetKinds
  <2>2. P \in Seq(S)
    BY <1>1, PathsTyped
  <2>3. Len(P) = 3 /\ P[1] = Lit("principals") /\ P[2] = a
    BY <1>1, PathShapes
  <2> HIDE DEF P, h
  <2>4. /\ Len(h) = 4 + Len(P) /\ h[2] = Lit("management")
        /\ \A i \in 1..Len(P) : h[3 + i] = P[i]
        /\ h[4 + Len(P)] = t.name
    BY <1>1, <2>1, <2>2, ManagementHome
  <2>5. /\ Len(h) = 7 /\ h[2] = Lit("management") /\ h[4] = Lit("principals")
        /\ h[5] = a /\ h[7] = t.name
    BY <2>3, <2>4
  <2> QED
    BY <1>7, <2>5 DEF h
<1>8. CASE t.kind = "roleAssignment"
  <2> DEFINE P == CatalogRolesOfRolePath(a, b)
             h == Home(t)
  <2>1. h = AddressOf(Management("PUT", P, t.name))
    BY <1>8, CreateForm DEF Home, Addressed, TargetKinds
  <2>2. P \in Seq(S)
    BY <1>1, PathsTyped
  <2>3. Len(P) = 4 /\ P[2] = a /\ P[4] = b
    BY <1>1, PathShapes
  <2> HIDE DEF P, h
  <2>4. /\ Len(h) = 4 + Len(P) /\ h[2] = Lit("management")
        /\ \A i \in 1..Len(P) : h[3 + i] = P[i]
        /\ h[4 + Len(P)] = t.name
    BY <1>1, <2>1, <2>2, ManagementHome
  <2>5. /\ Len(h) = 8 /\ h[2] = Lit("management") /\ h[5] = a
        /\ h[7] = b /\ h[8] = t.name
    BY <2>3, <2>4
  <2> QED
    BY <1>8, <2>5 DEF h
<1>9. CASE t.kind = "namespace"
  <2> DEFINE P == NamespacesPath(a)
             h == Home(t)
  <2>1. h = AddressOf(Catalog("POST", P, t.name))
    BY <1>9, CreateForm DEF Home, Addressed, TargetKinds
  <2>2. P \in Seq(S)
    BY <1>1, PathsTyped
  <2>3. Len(P) = 3 /\ P[2] = a
    BY <1>1, PathShapes
  <2> HIDE DEF P, h
  <2>4. /\ Len(h) = 3 + Len(P) /\ h[2] = Lit("catalog")
        /\ \A i \in 1..Len(P) : h[2 + i] = P[i]
        /\ h[3 + Len(P)] = t.name
    BY <1>1, <2>1, <2>2, CatalogHome
  <2>5. /\ Len(h) = 6 /\ h[2] = Lit("catalog") /\ h[4] = a
        /\ h[6] = t.name
    BY <2>3, <2>4
  <2> QED
    BY <1>9, <2>5 DEF h
<1>10. CASE t.kind = "table"
  <2> DEFINE P == TablesPath(a, b)
             h == Home(t)
  <2>1. h = AddressOf(Catalog("POST", P, t.name))
    BY <1>10, CreateForm DEF Home, Addressed, TargetKinds
  <2>2. P \in Seq(S)
    BY <1>1, PathsTyped
  <2>3. Len(P) = 5 /\ P[2] = a /\ P[4] = b /\ P[5] = Lit("tables")
    BY <1>1, PathShapes
  <2> HIDE DEF P, h
  <2>4. /\ Len(h) = 3 + Len(P) /\ h[2] = Lit("catalog")
        /\ \A i \in 1..Len(P) : h[2 + i] = P[i]
        /\ h[3 + Len(P)] = t.name
    BY <1>1, <2>1, <2>2, CatalogHome
  <2>5. /\ Len(h) = 8 /\ h[2] = Lit("catalog") /\ h[4] = a
        /\ h[6] = b /\ h[7] = Lit("tables") /\ h[8] = t.name
    BY <2>3, <2>4
  <2> QED
    BY <1>10, <2>5 DEF h
<1>11. CASE t.kind = "view"
  <2> DEFINE P == ViewsPath(a, b)
             h == Home(t)
  <2>1. h = AddressOf(Catalog("POST", P, t.name))
    BY <1>11, CreateForm DEF Home, Addressed, TargetKinds
  <2>2. P \in Seq(S)
    BY <1>1, PathsTyped
  <2>3. Len(P) = 5 /\ P[2] = a /\ P[4] = b /\ P[5] = Lit("views")
    BY <1>1, PathShapes
  <2> HIDE DEF P, h
  <2>4. /\ Len(h) = 3 + Len(P) /\ h[2] = Lit("catalog")
        /\ \A i \in 1..Len(P) : h[2 + i] = P[i]
        /\ h[3 + Len(P)] = t.name
    BY <1>1, <2>1, <2>2, CatalogHome
  <2>5. /\ Len(h) = 8 /\ h[2] = Lit("catalog") /\ h[4] = a
        /\ h[6] = b /\ h[7] = Lit("views") /\ h[8] = t.name
    BY <2>3, <2>4
  <2> QED
    BY <1>11, <2>5 DEF h
<1>12. CASE t.kind = "policy"
  <2> DEFINE P == PoliciesPath(a, b)
             h == Home(t)
  <2>1. h = AddressOf(Catalog("POST", P, t.name))
    BY <1>12, CreateForm DEF Home, Addressed, TargetKinds
  <2>2. P \in Seq(S)
    BY <1>1, PathsTyped
  <2>3. Len(P) = 6 /\ P[3] = a /\ P[5] = b
    BY <1>1, PathShapes
  <2> HIDE DEF P, h
  <2>4. /\ Len(h) = 3 + Len(P) /\ h[2] = Lit("catalog")
        /\ \A i \in 1..Len(P) : h[2 + i] = P[i]
        /\ h[3 + Len(P)] = t.name
    BY <1>1, <2>1, <2>2, CatalogHome
  <2>5. /\ Len(h) = 9 /\ h[2] = Lit("catalog") /\ h[5] = a
        /\ h[7] = b /\ h[9] = t.name
    BY <2>3, <2>4
  <2> QED
    BY <1>12, <2>5 DEF h
<1> QED
  BY <1>2, <1>3, <1>4, <1>5, <1>6, <1>7, <1>8, <1>9, <1>10, <1>11, <1>12 DEF Addressed, TargetKinds

\* Different literals are different segments.
LEMMA LiteralsDiffer == \A v, w : Lit(v) = Lit(w) => v = w
<1>1. ASSUME NEW v, NEW w, << v >> = << w >> PROVE v = w
  <2>1. << v >>[1] = v /\ << w >>[1] = w
    OBVIOUS
  <2> QED
    BY <1>1, <2>1
<1> QED
  BY <1>1 DEF Lit

\* Where a target's kind shows in its place: the plane, the length and, where
\* these are not enough, a literal.
LEMMA KindShape ==
    ASSUME NEW t, t.kind \in Addressed, t.name # Unnamed
    PROVE  LET h == Home(t)
           IN  /\ t.kind \in { "catalog", "principal", "principalRole" } => Len(h) = 5
               /\ t.kind = "namespace" => Len(h) = 6
               /\ t.kind \in { "catalogRole", "membership" } => Len(h) = 7
               /\ t.kind \in { "roleAssignment", "table", "view" } => Len(h) = 8
               /\ t.kind \in { "grant", "policy" } => Len(h) = 9
               /\ t.kind \in { "roleAssignment", "grant" } => h[2] = Lit("management")
               /\ t.kind \in { "table", "view", "policy" } => h[2] = Lit("catalog")
               /\ t.kind \in { "catalog", "catalogRole" } => h[4] = Lit("catalogs")
               /\ t.kind \in { "principal", "membership" } => h[4] = Lit("principals")
               /\ t.kind = "principalRole" => h[4] = Lit("principal-roles")
               /\ t.kind = "table" => h[7] = Lit("tables")
               /\ t.kind = "view" => h[7] = Lit("views")
BY HomeShape

\* Different targets are made in different places: whatever the names are, no two
\* builders' addresses meet.
THEOREM HomesDiffer ==
    ASSUME NEW t, NEW u, IsTarget(t), IsTarget(u),
           t.kind # "connection", u.kind # "connection", Home(t) = Home(u)
    PROVE  t = u
<1>1. /\ t.kind \in Addressed /\ u.kind \in Addressed
      /\ t.name # Unnamed /\ u.name # Unnamed
  BY DEF IsTarget, Addressed
<1>2. /\ Lit("management") # Lit("catalog") /\ Lit("tables") # Lit("views")
      /\ Lit("catalogs") # Lit("principals")
      /\ Lit("catalogs") # Lit("principal-roles")
      /\ Lit("principals") # Lit("principal-roles")
  BY LiteralsDiffer
<1> DEFINE h == Home(t)
           D == Depth(t.kind)
<1>3. h = Home(t) /\ h = Home(u)
  OBVIOUS
<1> HIDE DEF h
<1>4. u.kind = t.kind
  BY <1>1, <1>2, <1>3, KindShape DEF Addressed, TargetKinds
<1>5. /\ D >= 1 => t.n[1] = u.n[1]
      /\ D = 2 => t.n[2] = u.n[2]
      /\ t.name = u.name
  <2>1. CASE t.kind \in { "catalog", "principal", "principalRole" }
    <3>1. h[5] = t.name
      BY <1>1, <1>3, <2>1, HomeShape
    <3>2. h[5] = u.name
      BY <1>1, <1>3, <1>4, <2>1, HomeShape
    <3> QED
      BY <2>1, <3>1, <3>2 DEF Depth
  <2>2. CASE t.kind \in { "catalogRole", "membership" }
    <3>1. h[5] = t.n[1] /\ h[7] = t.name
      BY <1>1, <1>3, <2>2, HomeShape
    <3>2. h[5] = u.n[1] /\ h[7] = u.name
      BY <1>1, <1>3, <1>4, <2>2, HomeShape
    <3> QED
      BY <2>2, <3>1, <3>2 DEF Depth
  <2>3. CASE t.kind = "namespace"
    <3>1. h[4] = t.n[1] /\ h[6] = t.name
      BY <1>1, <1>3, <2>3, HomeShape
    <3>2. h[4] = u.n[1] /\ h[6] = u.name
      BY <1>1, <1>3, <1>4, <2>3, HomeShape
    <3> QED
      BY <2>3, <3>1, <3>2 DEF Depth
  <2>4. CASE t.kind = "roleAssignment"
    <3>1. h[5] = t.n[1] /\ h[7] = t.n[2] /\ h[8] = t.name
      BY <1>1, <1>3, <2>4, HomeShape
    <3>2. h[5] = u.n[1] /\ h[7] = u.n[2] /\ h[8] = u.name
      BY <1>1, <1>3, <1>4, <2>4, HomeShape
    <3> QED
      BY <2>4, <3>1, <3>2
  <2>5. CASE t.kind \in { "table", "view" }
    <3>1. h[4] = t.n[1] /\ h[6] = t.n[2] /\ h[8] = t.name
      BY <1>1, <1>3, <2>5, HomeShape
    <3>2. h[4] = u.n[1] /\ h[6] = u.n[2] /\ h[8] = u.name
      BY <1>1, <1>3, <1>4, <2>5, HomeShape
    <3> QED
      BY <2>5, <3>1, <3>2
  <2>6. CASE t.kind \in { "grant", "policy" }
    <3>1. h[5] = t.n[1] /\ h[7] = t.n[2] /\ h[9] = t.name
      BY <1>1, <1>3, <2>6, HomeShape
    <3>2. h[5] = u.n[1] /\ h[7] = u.n[2] /\ h[9] = u.name
      BY <1>1, <1>3, <1>4, <2>6, HomeShape
    <3> QED
      BY <2>6, <3>1, <3>2
  <2> QED
    BY <1>1, <2>1, <2>2, <2>3, <2>4, <2>5, <2>6 DEF Addressed, TargetKinds
<1>6. t.n = u.n
  <2>1. \A i \in 1..D : t.n[i] = u.n[i]
    <3>1. D \in 0..2
      BY DEF Depth
    <3> QED
      BY <1>5, <3>1
  <2>2. t.n = [ i \in 1..D |-> t.n[i] ] /\ u.n = [ i \in 1..D |-> u.n[i] ]
    BY <1>4 DEF IsTarget
  <2> HIDE DEF D
  <2>3. [ i \in 1..D |-> t.n[i] ] = [ i \in 1..D |-> u.n[i] ]
    BY <2>1
  <2> QED
    BY <2>2, <2>3
<1> QED
  BY <1>4, <1>5, <1>6 DEF IsTarget

-----------------------------------------------------------------------------
(* Every request of a target is about the same place.                      *)

\* The place on the server that a request is about.
Place(req) == IF IsDoor(req) THEN Above(req.path) ELSE AddressOf(req)

\* Above a path with one more segment is that path.
LEMMA AboveAppend ==
    ASSUME NEW S, NEW p \in Seq(S), NEW x \in S PROVE Above(Append(p, x)) = p
<1>1. Append(p, x) \in Seq(S) /\ Len(Append(p, x)) - 1 = Len(p)
  OBVIOUS
<1>2. SubSeq(Append(p, x), 1, Len(p)) = p
  OBVIOUS
<1> QED
  BY <1>1, <1>2 DEF Above

\* What is read is where it was made, as what is deleted is.
LEMMA Reads ==
    ASSUME NEW t, t.kind \in Addressed, t.name # Unnamed,
           "get" \in Operations(t.kind)
    PROVE  Place(Request(t, "get")) = Home(t)
<1>1. t.kind \notin { "grant", "membership", "roleAssignment", "connection" }
  BY DEF Operations, Assigned, Addressed
<1>2. /\ Request(t, "get").method = "GET" /\ Request(t, "get").body = Unnamed
      /\ Request(t, "get").path = Request(t, "delete").path
  BY <1>1
  DEF Request, Addressed, TargetKinds, Management, Catalog,
      NewGetCatalogRequest, NewGetCatalogRoleRequest, NewGetPrincipalRequest,
      NewGetPrincipalRoleRequest, NewLoadNamespaceMetadataRequest,
      NewLoadTableRequest, NewLoadViewRequest, NewLoadPolicyRequest,
      NewDeleteCatalogRequest, NewDeleteCatalogRoleRequest,
      NewDeletePrincipalRequest, NewDeletePrincipalRoleRequest,
      NewDropNamespaceRequest, NewDropTableRequest, NewDropViewRequest,
      NewDropPolicyRequest
<1>3. Request(t, "get").path = Home(t)
  BY <1>1, <1>2, Deletes DEF Home
<1> QED
  BY <1>2, <1>3 DEF Place, IsDoor, AddressOf

\* So is what is updated; a namespace's properties are a door to it.
LEMMA Updates ==
    ASSUME NEW t, t.kind \in Addressed, t.name # Unnamed,
           "update" \in Operations(t.kind)
    PROVE  Place(Request(t, "update")) = Home(t)
<1>1. t.kind \notin { "grant", "membership", "roleAssignment", "connection",
                      "table", "view" }
  BY DEF Operations, Assigned, Listed, Addressed
<1>2. CASE t.kind # "namespace"
  <2>1. /\ Request(t, "update").method = "PUT"
        /\ Request(t, "update").body = Unnamed
        /\ Request(t, "update").path = Request(t, "delete").path
    BY <1>1, <1>2
    DEF Request, Addressed, TargetKinds, Management, Catalog,
        NewUpdateCatalogRequestWithBody, NewUpdateCatalogRoleRequestWithBody,
        NewUpdatePrincipalRequestWithBody, NewUpdatePrincipalRoleRequestWithBody,
        NewUpdatePolicyRequestWithBody,
        NewDeleteCatalogRequest, NewDeleteCatalogRoleRequest,
        NewDeletePrincipalRequest, NewDeletePrincipalRoleRequest,
        NewDropPolicyRequest
  <2>2. Request(t, "update").path = Home(t)
    BY <1>1, <2>1, Deletes DEF Home
  <2> QED
    BY <2>1, <2>2 DEF Place, IsDoor, AddressOf
<1>3. CASE t.kind = "namespace"
  <2> DEFINE S == Segments(t)
             P == NamespacePath(t.n[1], t.name)
  <2>1. /\ Literals \subseteq S /\ t.name \in S /\ t.n[1] \in S
        /\ Lit("properties") \in S
    BY SegmentsTyped DEF Literals
  <2> HIDE DEF S
  <2>2. CatalogBase \in Seq(S) /\ P \in Seq(S)
    BY <2>1, PathsTyped
  <2>3. Request(t, "update") = Catalog("POST", Append(P, Lit("properties")), Unnamed)
    BY <1>3 DEF Request, NewUpdatePropertiesRequestWithBody
  <2>4. Request(t, "delete") = Catalog("DELETE", P, Unnamed)
    BY <1>3 DEF Request, NewDropNamespaceRequest
  <2> HIDE DEF P
  <2>5. CatalogBase \o Append(P, Lit("properties"))
          = Append(CatalogBase \o P, Lit("properties"))
    BY <2>1, <2>2, BaseJoins
  <2>6. CatalogBase \o P \in Seq(S)
    BY <2>2
  <2>7. /\ Request(t, "update").path = Append(CatalogBase \o P, Lit("properties"))
        /\ IsDoor(Request(t, "update"))
    BY <2>3, <2>5 DEF IsDoor, Catalog
  <2>8. Above(Append(CatalogBase \o P, Lit("properties"))) = CatalogBase \o P
    BY <2>1, <2>6, AboveAppend
  <2>9. Request(t, "delete").path = CatalogBase \o P
    BY <2>4 DEF Catalog
  <2>10. Request(t, "delete").path = Home(t)
    BY <1>1, Deletes DEF Home
  <2> QED
    BY <2>7, <2>8, <2>9, <2>10 DEF Place
<1> QED
  BY <1>2, <1>3

\* And what is rotated: the credentials are a door to the principal.
LEMMA Rotates ==
    ASSUME NEW t, t.kind = "principal", t.name # Unnamed
    PROVE  Place(Request(t, "rotate")) = Home(t)
<1> DEFINE S == Segments(t)
           P == PrincipalPath(t.name)
<1>1. Literals \subseteq S /\ t.name \in S /\ Lit("rotate") \in S
  BY SegmentsTyped DEF Literals
<1> HIDE DEF S
<1>2. ManagementBase \in Seq(S) /\ P \in Seq(S)
  BY <1>1, PathsTyped
<1>3. Request(t, "rotate") = Management("POST", Append(P, Lit("rotate")), Unnamed)
  BY DEF Request, NewRotateCredentialsRequest
<1>4. Request(t, "delete") = Management("DELETE", P, Unnamed)
  BY DEF Request, NewDeletePrincipalRequest
<1> HIDE DEF P
<1>5. ManagementBase \o Append(P, Lit("rotate"))
        = Append(ManagementBase \o P, Lit("rotate"))
  BY <1>1, <1>2, BaseJoins
<1>6. ManagementBase \o P \in Seq(S)
  BY <1>2
<1>7. /\ Request(t, "rotate").path = Append(ManagementBase \o P, Lit("rotate"))
      /\ IsDoor(Request(t, "rotate"))
  BY <1>3, <1>5 DEF IsDoor, Management
<1>8. Above(Append(ManagementBase \o P, Lit("rotate"))) = ManagementBase \o P
  BY <1>1, <1>6, AboveAppend
<1>9. Request(t, "delete").path = ManagementBase \o P
  BY <1>4 DEF Management
<1>10. Request(t, "delete").path = Home(t)
  BY Deletes DEF Home, Addressed, TargetKinds
<1> QED
  BY <1>7, <1>8, <1>9, <1>10 DEF Place

\* A creation is no removal: only a grant's collection is POSTed to remove.
LEMMA CreatesOnly ==
    ASSUME NEW t, t.kind \in Addressed, t.name # Unnamed
    PROVE  ~Removes(Request(t, "create"))
<1> DEFINE S == Segments(t)
           a == t.n[1]
           b == t.n[2]
<1>1. Literals \subseteq S /\ t.name \in S /\ a \in S /\ b \in S
  BY SegmentsTyped
<1>2. \A w \in { "catalogs", "catalog-roles", "principals", "principal-roles",
                 "namespaces", "tables", "views", "policies" } :
        Lit(w) \in S /\ Lit(w) # Lit("grants")
  BY <1>1, LiteralsDiffer DEF Literals
<1> HIDE DEF S
<1>3. ASSUME NEW B \in Seq(S), NEW P \in Seq(S), Len(P) > 0,
             P[Len(P)] # Lit("grants")
      PROVE  LET q == B \o P IN q[Len(q)] # Lit("grants")
  <2>1. /\ Len(B \o P) = Len(B) + Len(P)
        /\ \A i \in 1..Len(P) : (B \o P)[Len(B) + i] = P[i]
    OBVIOUS
  <2>2. Len(P) \in 1..Len(P)
    BY <1>3
  <2> QED
    BY <1>3, <2>1, <2>2
<1>4. ManagementBase \in Seq(S) /\ CatalogBase \in Seq(S)
  BY <1>1, PathsTyped
<1>5. ASSUME NEW P \in Seq(S), Len(P) > 0, P[Len(P)] # Lit("grants"),
             \/ Request(t, "create") = Management("POST", P, t.name)
             \/ Request(t, "create") = Catalog("POST", P, t.name)
      PROVE  ~Removes(Request(t, "create"))
  <2>1. CASE Request(t, "create") = Management("POST", P, t.name)
    <3>1. /\ Request(t, "create").method = "POST"
          /\ Request(t, "create").path = ManagementBase \o P
      BY <2>1 DEF Management
    <3>2. LET q == ManagementBase \o P IN q[Len(q)] # Lit("grants")
      BY <1>3, <1>4, <1>5
    <3> QED
      BY <3>1, <3>2 DEF Removes
  <2>2. CASE Request(t, "create") = Catalog("POST", P, t.name)
    <3>1. /\ Request(t, "create").method = "POST"
          /\ Request(t, "create").path = CatalogBase \o P
      BY <2>2 DEF Catalog
    <3>2. LET q == CatalogBase \o P IN q[Len(q)] # Lit("grants")
      BY <1>3, <1>4, <1>5
    <3> QED
      BY <3>1, <3>2 DEF Removes
  <2> QED
    BY <1>5, <2>1, <2>2
<1>6. CASE t.kind \in { "grant", "membership", "roleAssignment" }
  <2>1. Request(t, "create").method = "PUT"
    BY <1>6, CreateForm DEF Management
  <2> QED
    BY <2>1 DEF Removes
<1>7. CASE t.kind \in { "catalog", "principal", "principalRole" }
  <2>1. \A P \in { CatalogsPath, PrincipalsPath, PrincipalRolesPath } :
            Len(P) = 1 /\ P[1] # Lit("grants")
    BY <1>1, <1>2, PathShapes
  <2>2. \A P \in { CatalogsPath, PrincipalsPath, PrincipalRolesPath } : P \in Seq(S)
    BY <1>1, PathsTyped
  <2> QED
    BY <1>5, <1>7, <2>1, <2>2, CreateForm DEF Addressed, TargetKinds
<1>8. CASE t.kind = "catalogRole"
  <2>1. CatalogPath(a) \in Seq(S)
    <3>1. CatalogsPath \in Seq(S)
      BY <1>1, PathsTyped
    <3> QED
      BY <1>1, <3>1 DEF CatalogPath
  <2>2. LET P == CatalogRolesPath(a)
        IN  P \in Seq(S) /\ Len(P) > 0 /\ P[Len(P)] = Lit("catalog-roles")
    BY <1>2, <2>1 DEF CatalogRolesPath
  <2> QED
    BY <1>2, <1>5, <1>8, <2>2, CreateForm
<1>9. CASE t.kind = "namespace"
  <2>1. LET P == NamespacesPath(a)
        IN  P \in Seq(S) /\ Len(P) = 3 /\ P[3] = Lit("namespaces")
    <3>1. NamespacesPath(a) \in Seq(S)
      BY <1>1, PathsTyped
    <3>2. Len(NamespacesPath(a)) = 3 /\ NamespacesPath(a)[3] = Lit("namespaces")
      BY DEF NamespacesPath
    <3> QED
      BY <3>1, <3>2
  <2> QED
    BY <1>2, <1>5, <1>9, <2>1, CreateForm
<1>10. CASE t.kind = "table" \/ t.kind = "view"
  <2>1. \A P \in { TablesPath(a, b), ViewsPath(a, b) } :
            Len(P) = 5 /\ P[5] # Lit("grants")
    <3>1. /\ LET p == TablesPath(a, b) IN Len(p) = 5 /\ p[5] = Lit("tables")
          /\ LET p == ViewsPath(a, b) IN Len(p) = 5 /\ p[5] = Lit("views")
      BY <1>1, PathShapes
    <3> QED
      BY <1>2, <3>1
  <2>2. TablesPath(a, b) \in Seq(S) /\ ViewsPath(a, b) \in Seq(S)
    BY <1>1, PathsTyped
  <2> QED
    BY <1>5, <1>10, <2>1, <2>2, CreateForm
<1>11. CASE t.kind = "policy"
  <2>1. LET P == PoliciesPath(a, b)
        IN  P \in Seq(S) /\ Len(P) = 6 /\ P[6] = Lit("policies")
    <3>1. PoliciesPath(a, b) \in Seq(S)
      BY <1>1, PathsTyped
    <3>2. Len(PoliciesPath(a, b)) = 6 /\ PoliciesPath(a, b)[6] = Lit("policies")
      BY DEF PoliciesPath
    <3> QED
      BY <3>1, <3>2
  <2> QED
    BY <1>2, <1>5, <1>11, <2>1, CreateForm
<1> QED
  BY <1>6, <1>7, <1>8, <1>9, <1>10, <1>11 DEF Addressed, TargetKinds

\* Whatever a target is asked for, the request is about the place it was made in.
LEMMA OnePlace ==
    ASSUME NEW t, t.kind \in Addressed, t.name # Unnamed,
           NEW op \in Operations(t.kind) \ {"ping"}
    PROVE  Place(Request(t, op)) = Home(t)
<1>1. op \in { "create", "get", "update", "rotate", "delete" }
  BY DEF Operations, Listed, Kept, Assigned
<1>2. CASE op = "create"
  BY <1>2, Creates DEF Place, IsDoor, Home
<1>3. CASE op = "delete" /\ t.kind = "grant"
  BY <1>3, Revokes DEF Place, IsDoor, Home
<1>4. CASE op = "delete" /\ t.kind # "grant"
  BY <1>4, Deletes DEF Place, IsDoor, AddressOf, Home
<1>5. CASE op = "rotate"
  <2>1. t.kind = "principal"
    BY <1>5 DEF Operations, Listed, Kept, Assigned, Addressed
  <2> QED
    BY <1>5, <2>1, Rotates
<1> QED
  BY <1>1, <1>2, <1>3, <1>4, <1>5, Reads, Updates

\* What the server makes of a request of a target, and what it says of it.
LEMMA Served ==
    ASSUME NEW t, t.kind \in Addressed, t.name # Unnamed,
           NEW op \in Operations(t.kind) \ {"ping"}
    PROVE  LET s == Serve(Request(t, op))
               h == Home(t)
           IN  /\ op = "create" => h \in s.objects
               /\ op = "delete" => h \notin s.objects
               /\ op \notin { "create", "delete" } =>
                    /\ s.objects = objects
                    /\ s.status = IF h \in objects THEN 200 ELSE 404
<1> DEFINE req == Request(t, op)
<1>1. Place(req) = Home(t)
  BY OnePlace
<1>2. CASE op = "create"
  <2>1. req.body # Unnamed /\ ~Removes(req)
    BY <1>2, Creates, CreatesOnly
  <2> HIDE DEF req
  <2>2. Serve(req).objects = objects \cup {Place(req)}
    BY <2>1 DEF Serve, Place
  <2> QED
    BY <1>1, <1>2, <2>2 DEF req
<1>3. CASE op = "delete"
  <2>1. Removes(req)
    <3>1. CASE t.kind = "grant"
      <4> DEFINE S == Segments(t)
                 P == GrantsPath(t.n[1], t.n[2])
      <4>1. req = Management("POST", P, t.name)
        <5>1. req = NewRevokeGrantFromCatalogRoleRequestWithBody(
                        t.n[1], t.n[2], t.name)
          BY <1>3, <3>1 DEF Request
        <5> QED
          BY <5>1 DEF NewRevokeGrantFromCatalogRoleRequestWithBody
      <4>2. /\ Literals \subseteq S /\ Lit("grants") \in S
            /\ t.n[1] \in S /\ t.n[2] \in S
        BY SegmentsTyped DEF Literals
      <4> HIDE DEF S
      <4>3. ManagementBase \in Seq(S) /\ CatalogRolePath(t.n[1], t.n[2]) \in Seq(S)
        <5>1. ManagementBase \in Seq(S) /\ CatalogRolesPath(t.n[1]) \in Seq(S)
          BY <4>2, PathsTyped
        <5> QED
          BY <4>2, <5>1 DEF CatalogRolePath
      <4>4. ManagementBase \o P
              = Append(ManagementBase \o CatalogRolePath(t.n[1], t.n[2]), Lit("grants"))
        BY <4>2, <4>3, BaseJoins DEF GrantsPath
      <4>5. ManagementBase \o CatalogRolePath(t.n[1], t.n[2]) \in Seq(S)
        BY <4>3
      <4> HIDE DEF P
      <4>6. LET q == ManagementBase \o P IN q[Len(q)] = Lit("grants")
        BY <4>2, <4>4, <4>5
      <4>7. req.method = "POST" /\ req.path = ManagementBase \o P
        BY <4>1 DEF Management
      <4> HIDE DEF req
      <4> QED
        BY <4>6, <4>7 DEF Removes
    <3>2. CASE t.kind # "grant"
      BY <1>3, <3>2, Deletes DEF Removes
    <3> QED
      BY <3>1, <3>2
  <2> HIDE DEF req
  <2>2. Serve(req).objects = objects \ {Place(req)}
    BY <2>1 DEF Serve, Place
  <2> QED
    BY <1>1, <1>3, <2>2 DEF req
<1>4. CASE op \notin { "create", "delete" }
  <2>1. op \in { "get", "update", "rotate" }
    BY <1>4 DEF Operations, Listed, Kept, Assigned
  <2>2. req.body = Unnamed /\ ~Removes(req)
    BY <2>1, Spares
  <2> HIDE DEF req
  <2>3. /\ Serve(req).objects = objects
        /\ Serve(req).status = IF Place(req) \in objects THEN 200 ELSE 404
    BY <2>2 DEF Serve, Place
  <2> QED
    BY <1>1, <1>4, <2>3 DEF req
<1> QED
  BY <1>2, <1>3, <1>4

\* A parser fails or passes the status on.
LEMMA ParseKeeps ==
    ASSUME NEW a, NEW W
    PROVE  Parse(a, W) = ParseError \/ Parse(a, W).status = a.status
BY DEF Parse

\* Whatever a helper's parser is, it fails or passes the status on.
LEMMA ParsedKeeps ==
    ASSUME NEW kind \in Addressed, NEW op \in Operations(kind) \ {"ping"}, NEW a
    PROVE  Parsed(kind, op, a) = ParseError \/ Parsed(kind, op, a).status = a.status
<1>1. op \in { "create", "get", "update", "rotate", "delete" }
  BY DEF Operations, Listed, Kept, Assigned
<1>2. CASE kind = "catalog"
  <2>1. op # "rotate"
    BY <1>2 DEF Operations, Kept, Listed
  <2> QED
    BY <1>1, <1>2, <2>1, ParseKeeps
    DEF Parsed, ParseCreateCatalogWrapper, ParseGetCatalogWrapper,
        ParseUpdateCatalogWrapper
<1>3. CASE kind = "catalogRole"
  <2>1. op # "rotate"
    BY <1>3 DEF Operations, Kept, Listed
  <2> QED
    BY <1>1, <1>3, <2>1, ParseKeeps
    DEF Parsed, ParseCreateCatalogRoleWrapper, ParseGetCatalogRoleWrapper,
        ParseUpdateCatalogRoleWrapper, ParseDeleteCatalogRoleWrapper
<1>4. CASE kind \in { "grant", "membership", "roleAssignment" }
  <2>1. op \in { "create", "delete" }
    BY <1>4 DEF Operations, Assigned
  <2> QED
    BY <1>4, <2>1, ParseKeeps
    DEF Parsed, ParseAddGrantToCatalogRoleWrapper,
        ParseRevokeGrantFromCatalogRoleWrapper, ParseAssignPrincipalRoleWrapper,
        ParseRevokePrincipalRoleWrapper,
        ParseAssignCatalogRoleToPrincipalRoleWrapper,
        ParseRevokeCatalogRoleFromPrincipalRoleWrapper
<1>5. CASE kind = "principal"
  BY <1>1, <1>5, ParseKeeps
  DEF Parsed, ParseCreatePrincipalWrapper, ParseGetPrincipalWrapper,
      ParseUpdatePrincipalWrapper, ParseRotateCredentialsWrapper,
      ParseDeletePrincipalWrapper
<1>6. CASE kind = "principalRole"
  <2>1. op # "rotate"
    BY <1>6 DEF Operations, Kept, Listed
  <2> QED
    BY <1>1, <1>6, <2>1, ParseKeeps
    DEF Parsed, ParseCreatePrincipalRoleWrapper, ParseGetPrincipalRoleWrapper,
        ParseUpdatePrincipalRoleWrapper, ParseDeletePrincipalRoleWrapper
<1>7. CASE kind = "namespace"
  <2>1. op # "rotate"
    BY <1>7 DEF Operations, Kept, Listed
  <2> QED
    BY <1>1, <1>7, <2>1, ParseKeeps
    DEF Parsed, ParseCreateNamespaceWrapper, ParseLoadNamespaceMetadataWrapper,
        ParseUpdatePropertiesWrapper, ParseDropNamespaceWrapper
<1>8. CASE kind \in { "table", "view" }
  <2>1. op \in { "create", "get", "delete" }
    BY <1>8 DEF Operations, Listed
  <2> QED
    BY <1>8, <2>1, ParseKeeps
    DEF Parsed, ParseCreateTableWrapper, ParseLoadTableWrapper,
        ParseDropTableWrapper, ParseCreateViewWrapper, ParseLoadViewWrapper,
        ParseDropViewWrapper
<1>9. CASE kind = "policy"
  <2>1. op # "rotate"
    BY <1>9 DEF Operations, Kept, Listed
  <2> QED
    BY <1>1, <1>9, <2>1, ParseKeeps
    DEF Parsed, ParseCreatePolicyWrapper, ParseLoadPolicyWrapper,
        ParseUpdatePolicyWrapper, ParseDropPolicyWrapper
<1> QED
  BY <1>2, <1>3, <1>4, <1>5, <1>6, <1>7, <1>8, <1>9 DEF Addressed, TargetKinds

\* A verdict on the server's own answer says what the server has, and one on an
\* answer of 401 or 503 says nothing.
LEMMA VerdictIsRight ==
    ASSUME NEW t, t.kind \in Addressed, t.name # Unnamed,
           NEW op \in Operations(t.kind) \ {"ping"}, NEW a
    PROVE  LET s == Serve(Request(t, op))
               v == Verdict(op, Parsed(t.kind, op, a))
           IN  /\ a.status = s.status =>
                    /\ v = "present" => Home(t) \in s.objects
                    /\ v = "absent" => Home(t) \notin s.objects
               /\ a.status \in { 401, 503 } => v = "unknown"
<1> DEFINE s == Serve(Request(t, op))
           r == Parsed(t.kind, op, a)
           v == Verdict(op, r)
<1>1. r = ParseError \/ r.status = a.status
  BY ParsedKeeps
<1>2. /\ op = "create" => Home(t) \in s.objects
      /\ op = "delete" => Home(t) \notin s.objects
      /\ op \notin { "create", "delete" } =>
            /\ s.objects = objects
            /\ s.status = IF Home(t) \in objects THEN 200 ELSE 404
  BY Served
<1> HIDE DEF s, r
<1>3. /\ v = "present" => op # "delete" /\ r # ParseError
                            /\ (op = "create" \/ r.status < 400)
      /\ v = "absent" => /\ op \in { "get", "delete" } /\ r # ParseError
                         /\ op = "get" => r.status = 404
  BY DEF Verdict
<1>4. a.status \in { 401, 503 } => v = "unknown"
  BY <1>1 DEF Verdict
<1>5. a.status = s.status =>
            /\ v = "present" => Home(t) \in s.objects
            /\ v = "absent" => Home(t) \notin s.objects
  BY <1>1, <1>2, <1>3
<1> QED
  BY <1>4, <1>5 DEF s, r

-----------------------------------------------------------------------------
(* What a caller concludes.                                                *)

\* The server has, or has not, what caller c looks after, as v says.
Right(c, v) ==
    /\ v = "present" => Home(target[c]) \in objects
    /\ v = "absent" => Home(target[c]) \notin objects

\* Caller c forgets its last conclusion when it asks again, an answer waits for
\* it as long as it has its token, and an answer of the server stays right until
\* it is judged, because nobody else's request reaches the same place.
CallerBelieves(c) ==
    /\ doing[c] # "nothing" => belief[c] = "unknown"
    /\ answer[c] # NoAnswer => at[c] = "bearing" /\ doing[c] # "ping"
    /\ target[c].kind # "connection" /\ Alone(c) =>
        /\ Right(c, belief[c])
        /\ answer[c] # NoAnswer =>
            Right(c, Verdict(doing[c], Parsed(target[c].kind, doing[c], answer[c])))

BeliefInv ==
    /\ belief \in [Callers -> { "unknown", "present", "absent" }]
    /\ \A c \in Callers : CallerBelieves(c)

\* The answer of c's request has come, from the server or from something before
\* it: c keeps to what it may believe.
LEMMA AnswerIsRight ==
    ASSUME TargetInv, BeliefInv, NEW c \in Callers, Arrive(c) \/ Unavailable(c)
    PROVE  CallerBelieves(c)'
<1> DEFINE t == target[c]
           op == doing[c]
           a == answer'[c]
           s == Serve(Request(t, op))
<1>1. /\ at[c] = "bearing" /\ op # "ping"
      /\ at' = at /\ target' = target /\ doing' = doing /\ belief' = belief
  BY DEF Arrive, Unavailable, tokenVars
<1>2. t.kind \in Addressed /\ t.name # Unnamed /\ op \in Operations(t.kind) \ {"ping"}
  BY <1>1 DEF TargetInv, IsTarget, Addressed, Operations
<1>3. op # "nothing"
  BY <1>2 DEF Operations, Listed, Kept, Assigned
<1>4. belief[c] = "unknown"
  BY <1>3 DEF BeliefInv, CallerBelieves
<1>5. \/ a.status = s.status /\ objects' = s.objects
      \/ a.status \in { 401, 503 }
  BY DEF Arrive, Unavailable, TargetInv
<1>6. Verdict(op, Parsed(t.kind, op, a)) = "present" => Home(t) \in objects'
  BY <1>2, <1>5, VerdictIsRight
<1>7. Verdict(op, Parsed(t.kind, op, a)) = "absent" => Home(t) \notin objects'
  BY <1>2, <1>5, VerdictIsRight
<1> QED
  BY <1>1, <1>4, <1>6, <1>7 DEF CallerBelieves, Right

\* Nothing that happens elsewhere, at another caller or in the token source,
\* changes what c may believe.
LEMMA OthersKeepBelief ==
    ASSUME TargetInv, BeliefInv, NEW c \in Callers, target' = target,
           belief'[c] = belief[c], answer'[c] = answer[c], doing'[c] = doing[c],
           at[c] = "bearing" => at'[c] = "bearing",
           \/ objects' = objects
           \/ \E d \in Callers \ {c} : Arrive(d)
    PROVE  CallerBelieves(c)'
<1>1. Alone(c)' = Alone(c)
  BY DEF Alone
<1>2. ASSUME target[c].kind # "connection", Alone(c)
      PROVE  Home(target[c]) \in objects' <=> Home(target[c]) \in objects
  <2>1. ASSUME NEW d \in Callers \ {c}, Arrive(d), objects' # objects
        PROVE  Home(target[c]) \in objects' <=> Home(target[c]) \in objects
    <3>1. /\ at[d] = "bearing" /\ doing[d] # "ping"
          /\ objects' = Serve(Request(target[d], doing[d])).objects
      BY <2>1 DEF Arrive
    <3>2. /\ target[d].kind \in TargetKinds /\ target[d].name # Unnamed
          /\ doing[d] \in Operations(target[d].kind) \ {"ping"}
          /\ IsTarget(target[d]) /\ IsTarget(target[c])
      BY <3>1 DEF TargetInv, IsTarget
    <3>3. \A a \in (objects \ objects') \cup (objects' \ objects) :
                a = Home(target[d])
      BY <3>1, <3>2, TouchesOwn DEF Home
    <3>4. target[d].kind # "connection"
      BY <3>2 DEF Operations
    <3>5. Home(target[d]) # Home(target[c])
      BY <1>2, <3>2, <3>4, HomesDiffer DEF Alone
    <3> QED
      BY <3>3, <3>5
  <2> QED
    BY <2>1
<1>3. CallerBelieves(c)
  BY DEF BeliefInv
<1>4. Home(target'[c]) = Home(target[c])
  OBVIOUS
<1>5. \A v : Alone(c) /\ target[c].kind # "connection" /\ Right(c, v) => Right(c, v)'
  BY <1>2 DEF Right
<1> QED
  BY <1>1, <1>3, <1>5 DEF CallerBelieves

\* At first nobody believes anything.
LEMMA InitBelief == ClientInit => BeliefInv
BY DEF ClientInit, BeliefInv, CallerBelieves, Right

\* No step of the client makes a caller believe what is not so.
LEMMA NextBelief ==
    TargetInv /\ IInv /\ BeliefInv /\ [ClientNext]_clientVars => BeliefInv'
<1> SUFFICES ASSUME TargetInv, IInv, BeliefInv, [ClientNext]_clientVars
             PROVE  BeliefInv'
  OBVIOUS
<1> DEFINE Typed == belief' \in [Callers -> { "unknown", "present", "absent" }]
<1>1. /\ at \in [Callers -> Places]
      /\ doing \in [Callers -> {"nothing", "ping", "rotate"} \cup Kept]
      /\ answer \in [Callers -> { answer[c] : c \in Callers }]
      /\ belief \in [Callers -> { "unknown", "present", "absent" }]
  BY DEF IInv, TokenTypeOK, TargetInv, BeliefInv
<1>2. \A c \in Callers : CallerBelieves(c)
  BY DEF BeliefInv
<1>3. CASE UNCHANGED clientVars
  BY <1>3 DEF clientVars, callVars, tokenVars, BeliefInv, CallerBelieves, Alone, Right
<1>4. CASE Tick /\ UNCHANGED callVars
  BY <1>4 DEF Tick, callVars, BeliefInv, CallerBelieves, Alone, Right
<1>5. CASE StartOver
  BY <1>5 DEF StartOver, BeliefInv, CallerBelieves, Right
\* A step of caller c's, that leaves the server alone, and what c gets from it.
<1> DEFINE OwnStep(c) ==
        /\ target' = target /\ objects' = objects
        /\ \A d \in Callers \ {c} : /\ at'[d] = at[d] /\ doing'[d] = doing[d]
                                    /\ answer'[d] = answer[d] /\ belief'[d] = belief[d]
<1>6. ASSUME NEW c \in Callers, Typed, OwnStep(c), CallerBelieves(c)'
      PROVE  BeliefInv'
  BY <1>6, OthersKeepBelief DEF BeliefInv
<1>7. ASSUME NEW c \in Callers, NEW op \in Kept \cup {"rotate", "ping"}, Ask(c, op)
      PROVE  BeliefInv'
  <2>1. /\ at' = [at EXCEPT ![c] = "waiting"] /\ doing' = [doing EXCEPT ![c] = op]
        /\ belief' = [belief EXCEPT ![c] = "unknown"] /\ at[c] = "idle"
        /\ target' = target /\ answer' = answer /\ objects' = objects
    BY <1>7 DEF Ask, Call
  <2>2. answer'[c] = NoAnswer /\ belief'[c] = "unknown"
    BY <1>1, <1>2, <2>1 DEF CallerBelieves
  <2>3. CallerBelieves(c)'
    BY <2>2 DEF CallerBelieves, Right
  <2> QED
    BY <1>1, <1>6, <2>1, <2>3
<1>8. ASSUME NEW c \in Callers, Authenticate(c)
      PROVE  BeliefInv'
  <2>1. /\ target' = target /\ doing' = doing /\ answer' = answer
        /\ belief' = belief /\ objects' = objects
    BY <1>8 DEF Authenticate, callVars
  <2>2. /\ at[c] # "bearing"
        /\ \A d \in Callers \ {c} : at'[d] = at[d]
    BY <1>1, <1>8 DEF Authenticate, TokenStep, UseCached, Fetch, FetchDone,
                      FetchFailed, HandOut
  <2>3. CallerBelieves(c)'
    BY <1>2, <2>1, <2>2, OthersKeepBelief
  <2> QED
    BY <1>1, <1>6, <2>1, <2>2, <2>3
<1>9. ASSUME NEW c \in Callers, NotSent(c) \/ Pinged(c) \/ Lost(c)
      PROVE  BeliefInv'
  <2>1. /\ at' = [at EXCEPT ![c] = "idle"] /\ at[c] # "idle"
        /\ doing' = [doing EXCEPT ![c] = "nothing"]
        /\ answer' = answer \/ answer' = [answer EXCEPT ![c] = NoAnswer]
        /\ at[c] = "refused" \/ doing[c] = "ping" \/ answer' = [answer EXCEPT ![c] = NoAnswer]
        /\ target' = target /\ belief' = belief /\ objects' = objects
    BY <1>9 DEF NotSent, Pinged, Lost, Leave
  <2>2. doing[c] \in Operations(target[c].kind)
    BY <2>1 DEF TargetInv
  <2>3. doing[c] # "nothing"
    BY <2>2 DEF Operations, Listed, Kept, Assigned
  <2>4. belief'[c] = "unknown"
    BY <1>2, <2>1, <2>3 DEF CallerBelieves
  <2>5. answer'[c] = NoAnswer
    BY <1>1, <1>2, <2>1 DEF CallerBelieves
  <2>6. CallerBelieves(c)'
    BY <2>4, <2>5 DEF CallerBelieves, Right
  <2> QED
    BY <1>1, <1>6, <2>1, <2>6
<1>10. ASSUME NEW c \in Callers, Conclude(c)
      PROVE  BeliefInv'
  <2> DEFINE v == Verdict(doing[c], Parsed(target[c].kind, doing[c], answer[c]))
  <2>1. /\ at' = [at EXCEPT ![c] = "idle"] /\ answer[c] # NoAnswer
        /\ doing' = [doing EXCEPT ![c] = "nothing"]
        /\ answer' = [answer EXCEPT ![c] = NoAnswer]
        /\ belief' = [belief EXCEPT ![c] = v]
        /\ target' = target /\ objects' = objects
    BY <1>10 DEF Conclude, Leave
  <2>2. v \in { "unknown", "present", "absent" }
    BY DEF Verdict
  <2>3. target[c].kind # "connection" /\ Alone(c) => Right(c, v)
    BY <1>2, <2>1 DEF CallerBelieves
  <2> HIDE DEF v
  <2>4. belief'[c] = v /\ answer'[c] = NoAnswer /\ doing'[c] = "nothing"
    BY <1>1, <2>1
  <2>5. CallerBelieves(c)'
    BY <2>1, <2>3, <2>4 DEF CallerBelieves, Right, Alone
  <2> QED
    BY <1>1, <1>6, <2>1, <2>2, <2>5
<1>11. ASSUME NEW c \in Callers, Arrive(c) \/ Unavailable(c)
      PROVE  BeliefInv'
  <2>1. CallerBelieves(c)'
    BY <1>11, AnswerIsRight
  <2>2. /\ at' = at /\ target' = target /\ doing' = doing /\ belief' = belief
        /\ \A d \in Callers \ {c} : answer'[d] = answer[d]
        /\ objects' = objects \/ Arrive(c)
    BY <1>1, <1>11 DEF Arrive, Unavailable, tokenVars
  <2>3. \A d \in Callers \ {c} : CallerBelieves(d)'
    BY <2>2, OthersKeepBelief
  <2> QED
    BY <1>1, <2>1, <2>2, <2>3 DEF BeliefInv
<1> QED
  BY <1>3, <1>4, <1>5, <1>7, <1>8, <1>9, <1>10, <1>11 DEF ClientNext

\* What a reconciler concludes from an answer is so, and stays so until it asks
\* again, whoever else makes requests through the same client and whatever the
\* names are.
THEOREM Believed == ClientSpec => []BeliefIsTrue
<1>1. BeliefInv => BeliefIsTrue
  BY DEF BeliefInv, CallerBelieves, Right, BeliefIsTrue
<1>2. QED
  BY <1>1, InitBelief, NextBelief, ClientInductive, PTL DEF ClientSpec
=============================================================================
