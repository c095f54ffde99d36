----------------------------- MODULE PolarisAPI -----------------------------
(***************************************************************************)
(* The Polaris REST API as the generated clients speak it                  *)
(* (internal/polaris/management and internal/polaris/catalog,              *)
(* zz_generated.gen.go): for each operation that the operator uses, the    *)
(* request its builder makes and what its parser makes of the answer.      *)
(*                                                                         *)
(* A path is a sequence of segments and a segment a sequence of strings:   *)
(* <<"roles">> for a literal or for a name, a namespace's whole path for   *)
(* the one segment that encodeNamespacePath joins it to (the separator is  *)
(* in no name, and a name is escaped, so that neither adds segments).  Of  *)
(* a request's body only the name it gives the new object is kept.         *)
(***************************************************************************)
EXTENDS Naturals, Sequences

Lit(s) == <<s>>

\* No name in the body: an update, or nothing at all.
Unnamed == <<>>

ManagementBase == << Lit("api"), Lit("management"), Lit("v1") >>
CatalogBase    == << Lit("api"), Lit("catalog") >>

Management(method, path, body) ==
    [ method |-> method, path |-> ManagementBase \o path, body |-> body ]

Catalog(method, path, body) ==
    [ method |-> method, path |-> CatalogBase \o path, body |-> body ]

-----------------------------------------------------------------------------
(* Requests of the management plane.                                       *)

CatalogsPath == << Lit("catalogs") >>
CatalogPath(c) == Append(CatalogsPath, c)
CatalogRolesPath(c) == Append(CatalogPath(c), Lit("catalog-roles"))
CatalogRolePath(c, r) == Append(CatalogRolesPath(c), r)
GrantsPath(c, r) == Append(CatalogRolePath(c, r), Lit("grants"))
PrincipalsPath == << Lit("principals") >>
PrincipalPath(p) == Append(PrincipalsPath, p)
PrincipalRolesPath == << Lit("principal-roles") >>
PrincipalRolePath(r) == Append(PrincipalRolesPath, r)
MembershipsPath(p) == Append(PrincipalPath(p), Lit("principal-roles"))
CatalogRolesOfRolePath(r, c) ==
    Append(Append(PrincipalRolePath(r), Lit("catalog-roles")), c)

NewCreateCatalogRequestWithBody(c) == Management("POST", CatalogsPath, c)
NewGetCatalogRequest(c) == Management("GET", CatalogPath(c), Unnamed)
NewUpdateCatalogRequestWithBody(c) ==
    Management("PUT", CatalogPath(c), Unnamed)
NewDeleteCatalogRequest(c) == Management("DELETE", CatalogPath(c), Unnamed)

NewCreateCatalogRoleRequestWithBody(c, r) ==
    Management("POST", CatalogRolesPath(c), r)
NewGetCatalogRoleRequest(c, r) ==
    Management("GET", CatalogRolePath(c, r), Unnamed)
NewUpdateCatalogRoleRequestWithBody(c, r) ==
    Management("PUT", CatalogRolePath(c, r), Unnamed)
NewDeleteCatalogRoleRequest(c, r) ==
    Management("DELETE", CatalogRolePath(c, r), Unnamed)

\* A grant has no path of its own: both requests carry it in their bodies.
NewAddGrantToCatalogRoleRequestWithBody(c, r, grant) ==
    Management("PUT", GrantsPath(c, r), grant)
NewRevokeGrantFromCatalogRoleRequestWithBody(c, r, grant) ==
    Management("POST", GrantsPath(c, r), grant)

NewCreatePrincipalRequestWithBody(p) ==
    Management("POST", PrincipalsPath, p)
NewGetPrincipalRequest(p) == Management("GET", PrincipalPath(p), Unnamed)
NewUpdatePrincipalRequestWithBody(p) ==
    Management("PUT", PrincipalPath(p), Unnamed)
NewDeletePrincipalRequest(p) ==
    Management("DELETE", PrincipalPath(p), Unnamed)
NewRotateCredentialsRequest(p) ==
    Management("POST", Append(PrincipalPath(p), Lit("rotate")), Unnamed)

NewCreatePrincipalRoleRequestWithBody(r) ==
    Management("POST", PrincipalRolesPath, r)
NewGetPrincipalRoleRequest(r) ==
    Management("GET", PrincipalRolePath(r), Unnamed)
NewUpdatePrincipalRoleRequestWithBody(r) ==
    Management("PUT", PrincipalRolePath(r), Unnamed)
NewDeletePrincipalRoleRequest(r) ==
    Management("DELETE", PrincipalRolePath(r), Unnamed)

\* Memberships: the collection is PUT to, the member is DELETEd by its path.
NewAssignPrincipalRoleRequestWithBody(p, r) ==
    Management("PUT", MembershipsPath(p), r)
NewRevokePrincipalRoleRequest(p, r) ==
    Management("DELETE", Append(MembershipsPath(p), r), Unnamed)

NewAssignCatalogRoleToPrincipalRoleRequestWithBody(pr, c, r) ==
    Management("PUT", CatalogRolesOfRolePath(pr, c), r)
NewRevokeCatalogRoleFromPrincipalRoleRequest_Swapped(pr, c, r) ==
    Management("DELETE", Append(CatalogRolesOfRolePath(pr, r), c), Unnamed)
NewRevokeCatalogRoleFromPrincipalRoleRequest(pr, c, r) ==
    Management("DELETE", Append(CatalogRolesOfRolePath(pr, c), r), Unnamed)

-----------------------------------------------------------------------------
(* Requests of the catalog plane; ns is a namespace's path.                *)

NamespacesPath(c) == << Lit("v1"), c, Lit("namespaces") >>
NamespacePath(c, ns) == Append(NamespacesPath(c), ns)
TablesPath(c, ns) == Append(NamespacePath(c, ns), Lit("tables"))
ViewsPath(c, ns) == Append(NamespacePath(c, ns), Lit("views"))
PoliciesPath(c, ns) ==
    << Lit("polaris"), Lit("v1"), c, Lit("namespaces"), ns, Lit("policies") >>

NewCreateNamespaceRequestWithBody(c, ns) ==
    Catalog("POST", NamespacesPath(c), ns)
NewLoadNamespaceMetadataRequest(c, ns) ==
    Catalog("GET", NamespacePath(c, ns), Unnamed)
NewUpdatePropertiesRequestWithBody(c, ns) ==
    Catalog("POST", Append(NamespacePath(c, ns), Lit("properties")), Unnamed)
NewDropNamespaceRequest(c, ns) ==
    Catalog("DELETE", NamespacePath(c, ns), Unnamed)

NewCreateTableRequestWithBody(c, ns, t) ==
    Catalog("POST", TablesPath(c, ns), t)
NewLoadTableRequest(c, ns, t) ==
    Catalog("GET", Append(TablesPath(c, ns), t), Unnamed)
NewDropTableRequest(c, ns, t) ==
    Catalog("DELETE", Append(TablesPath(c, ns), t), Unnamed)

NewCreateViewRequestWithBody(c, ns, v) == Catalog("POST", ViewsPath(c, ns), v)
NewLoadViewRequest(c, ns, v) ==
    Catalog("GET", Append(ViewsPath(c, ns), v), Unnamed)
NewDropViewRequest_OfTables(c, ns, v) ==
    Catalog("DELETE", Append(TablesPath(c, ns), v), Unnamed)
NewDropViewRequest(c, ns, v) ==
    Catalog("DELETE", Append(ViewsPath(c, ns), v), Unnamed)

NewCreatePolicyRequestWithBody(c, ns, p) ==
    Catalog("POST", PoliciesPath(c, ns), p)
NewLoadPolicyRequest(c, ns, p) ==
    Catalog("GET", Append(PoliciesPath(c, ns), p), Unnamed)
NewUpdatePolicyRequestWithBody(c, ns, p) ==
    Catalog("PUT", Append(PoliciesPath(c, ns), p), Unnamed)
NewDropPolicyRequest(c, ns, p) ==
    Catalog("DELETE", Append(PoliciesPath(c, ns), p), Unnamed)

-----------------------------------------------------------------------------
(* Answers.  A parser decodes the body of the statuses its operation       *)
(* documents, if the Content-Type says JSON; a body it cannot decode is an *)
(* error to the caller, whatever the status.  Any other answer reaches the *)
(* caller by its status alone.                                             *)

ServerErrors == 500..599

ParseError == [ status |-> 0, typed |-> FALSE ]

Parse(answer, statuses) ==
    LET decoded == answer.json /\ answer.status \in statuses
    IN  IF decoded /\ ~answer.wellFormed
        THEN ParseError
        ELSE [ status |-> answer.status, typed |-> decoded ]

\* A wrapper is what a caller sees of an answer: its status, and a field for the
\* body of each of these statuses.
CreateCatalogWrapper == {201}
GetCatalogWrapper == {200}
UpdateCatalogWrapper == {200}
CreateCatalogRoleWrapper == {201}
GetCatalogRoleWrapper == {200}
UpdateCatalogRoleWrapper == {200}
DeleteCatalogRoleWrapper == {}
AddGrantToCatalogRoleWrapper == {}
RevokeGrantFromCatalogRoleWrapper == {}
CreatePrincipalWrapper == {201}
GetPrincipalWrapper == {200}
UpdatePrincipalWrapper == {200}
DeletePrincipalWrapper == {}
RotateCredentialsWrapper == {200}
CreatePrincipalRoleWrapper == {201}
GetPrincipalRoleWrapper == {200}
UpdatePrincipalRoleWrapper == {200}
DeletePrincipalRoleWrapper == {}
AssignPrincipalRoleWrapper == {}
RevokePrincipalRoleWrapper == {}
AssignCatalogRoleToPrincipalRoleWrapper == {}
RevokeCatalogRoleFromPrincipalRoleWrapper == {}

ParseCreateCatalogWrapper(a) == Parse(a, CreateCatalogWrapper)
ParseGetCatalogWrapper(a) == Parse(a, GetCatalogWrapper)
ParseUpdateCatalogWrapper(a) == Parse(a, UpdateCatalogWrapper)
ParseCreateCatalogRoleWrapper(a) == Parse(a, CreateCatalogRoleWrapper)
ParseGetCatalogRoleWrapper(a) == Parse(a, GetCatalogRoleWrapper)
ParseUpdateCatalogRoleWrapper(a) == Parse(a, UpdateCatalogRoleWrapper)
ParseDeleteCatalogRoleWrapper(a) == Parse(a, DeleteCatalogRoleWrapper)
ParseAddGrantToCatalogRoleWrapper(a) == Parse(a, AddGrantToCatalogRoleWrapper)
ParseRevokeGrantFromCatalogRoleWrapper(a) ==
    Parse(a, RevokeGrantFromCatalogRoleWrapper)
ParseCreatePrincipalWrapper(a) == Parse(a, CreatePrincipalWrapper)
ParseGetPrincipalWrapper(a) == Parse(a, GetPrincipalWrapper)
ParseUpdatePrincipalWrapper(a) == Parse(a, UpdatePrincipalWrapper)
ParseDeletePrincipalWrapper(a) == Parse(a, DeletePrincipalWrapper)
ParseRotateCredentialsWrapper(a) == Parse(a, RotateCredentialsWrapper)
ParseCreatePrincipalRoleWrapper(a) == Parse(a, CreatePrincipalRoleWrapper)
ParseGetPrincipalRoleWrapper(a) == Parse(a, GetPrincipalRoleWrapper)
ParseUpdatePrincipalRoleWrapper(a) == Parse(a, UpdatePrincipalRoleWrapper)
ParseDeletePrincipalRoleWrapper(a) == Parse(a, DeletePrincipalRoleWrapper)
ParseAssignPrincipalRoleWrapper(a) == Parse(a, AssignPrincipalRoleWrapper)
ParseRevokePrincipalRoleWrapper(a) == Parse(a, RevokePrincipalRoleWrapper)
ParseAssignCatalogRoleToPrincipalRoleWrapper(a) ==
    Parse(a, AssignCatalogRoleToPrincipalRoleWrapper)
ParseRevokeCatalogRoleFromPrincipalRoleWrapper(a) ==
    Parse(a, RevokeCatalogRoleFromPrincipalRoleWrapper)

\* What every operation of the catalog plane documents.
Documented == {400, 401, 403} \cup ServerErrors

CreateNamespaceWrapper == Documented \cup {200, 406, 409, 419}
LoadNamespaceMetadataWrapper == Documented \cup {200, 404, 419}
UpdatePropertiesWrapper == Documented \cup {200, 404, 406, 419, 422}
DropNamespaceWrapper == Documented \cup {404, 409, 419}
CreateTableWrapper == Documented \cup {200, 404, 409, 419}
LoadTableWrapper == Documented \cup {200, 404, 419}
DropTableWrapper == Documented \cup {404, 419}
CreateViewWrapper == Documented \cup {200, 404, 409, 419}
LoadViewWrapper == Documented \cup {200, 404, 419}
DropViewWrapper == Documented \cup {404, 419}
CreatePolicyWrapper == Documented \cup {200, 404, 409}
LoadPolicyWrapper == Documented \cup {200, 404}
UpdatePolicyWrapper == Documented \cup {200, 404, 409}
DropPolicyWrapper == Documented \cup {404}

ParseCreateNamespaceWrapper(a) == Parse(a, CreateNamespaceWrapper)
ParseLoadNamespaceMetadataWrapper(a) == Parse(a, LoadNamespaceMetadataWrapper)
ParseUpdatePropertiesWrapper(a) == Parse(a, UpdatePropertiesWrapper)
ParseDropNamespaceWrapper(a) == Parse(a, DropNamespaceWrapper)
ParseCreateTableWrapper(a) == Parse(a, CreateTableWrapper)
ParseLoadTableWrapper(a) == Parse(a, LoadTableWrapper)
ParseDropTableWrapper(a) == Parse(a, DropTableWrapper)
ParseCreateViewWrapper(a) == Parse(a, CreateViewWrapper)
ParseLoadViewWrapper(a) == Parse(a, LoadViewWrapper)
ParseDropViewWrapper(a) == Parse(a, DropViewWrapper)
ParseCreatePolicyWrapper(a) == Parse(a, CreatePolicyWrapper)
ParseLoadPolicyWrapper(a) == Parse(a, LoadPolicyWrapper)
ParseUpdatePolicyWrapper(a) == Parse(a, UpdatePolicyWrapper)
ParseDropPolicyWrapper(a) == Parse(a, DropPolicyWrapper)
=============================================================================
