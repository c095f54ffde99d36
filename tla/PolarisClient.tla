---------------------------- MODULE PolarisClient ----------------------------
(***************************************************************************)
(* The operator's Polaris client (internal/polaris/client.go and the       *)
(* generated clients it wires the token source into) between the           *)
(* reconcilers' helpers (createX, getX, updateX, finalize, ...) that use   *)
(* it and the server.                                                      *)
(*                                                                         *)
(* Every caller looks after one target, an object or an assignment, and    *)
(* makes the requests its reconciler makes of it, one at a time and in any *)
(* order.  A request takes a token (PolarisTokenSource), is carried out by *)
(* the server at the address its builder gives it (PolarisAPI), and its    *)
(* answer, if it comes, is parsed and judged.                              *)
(*                                                                         *)
(* External: the server keeps a set of addresses.  What a target lives in  *)
(* (its catalog, its namespace) is there all along.                        *)
(***************************************************************************)
EXTENDS PolarisTokenSource, PolarisAPI

CONSTANT Cases    \* who looks after what, and where the clock stops

VARIABLES
    target,   \* what each caller looks after
    doing,    \* the operation it is at, or "nothing"
    answer,   \* the server's answer to it
    belief,   \* what the caller concluded last
    objects   \* addresses the server has something at

callVars   == <<target, doing, answer, belief, objects>>
clientVars == <<tokenVars, callVars>>

Listed   == { "create", "get", "delete" }
Kept     == Listed \cup { "update" }
Assigned == { "create", "delete" }

\* A rotation is a principal's business only; a connection is only pinged.
Operations(kind) ==
    CASE kind = "connection" -> {"ping"}
      [] kind \in {"table", "view"} -> Listed
      [] kind \in {"grant", "membership", "roleAssignment"} -> Assigned
      [] kind = "principal" -> Kept \cup {"rotate"}
      [] OTHER -> Kept

TargetKinds ==
    { "connection", "catalog", "catalogRole", "grant", "principal",
      "principalRole", "membership", "roleAssignment", "namespace", "table",
      "view", "policy" }

\* How many names say what a target is in.
Depth(kind) ==
    CASE kind \in { "connection", "catalog", "principal", "principalRole" } -> 0
      [] kind \in { "catalogRole", "membership", "namespace" } -> 1
      [] OTHER -> 2

\* A target is named by its spec or, if that is silent, by its resource.
IsTarget(t) ==
    /\ t = [ kind |-> t.kind, n |-> t.n, name |-> t.name ]
    /\ t.kind \in TargetKinds
    /\ t.n = [ i \in 1..Depth(t.kind) |-> t.n[i] ]
    /\ t.name # Unnamed

ASSUME ClientAssumption ==
    \A case \in Cases :
        /\ case.target \in [Callers -> { case.target[c] : c \in Callers }]
        /\ \A c \in Callers : IsTarget(case.target[c])

NoAnswer == [ status |-> 0, json |-> FALSE, wellFormed |-> FALSE ]

-----------------------------------------------------------------------------
(* What the reconcilers ask for.  A target t has a kind, the names n of    *)
(* what it is in, outermost first, and its own name.                       *)

Request(t, op) ==
    LET outer == t.n[1]
        inner == t.n[2]
        me    == t.name
    IN CASE t.kind = "catalog" ->
            [ create |-> NewCreateCatalogRequestWithBody(me),
              get    |-> NewGetCatalogRequest(me),
              update |-> NewUpdateCatalogRequestWithBody(me),
              delete |-> NewDeleteCatalogRequest(me) ][op]
         [] t.kind = "catalogRole" ->
            [ create |-> NewCreateCatalogRoleRequestWithBody(outer, me),
              get    |-> NewGetCatalogRoleRequest(outer, me),
              update |-> NewUpdateCatalogRoleRequestWithBody(outer, me),
              delete |-> NewDeleteCatalogRoleRequest(outer, me) ][op]
         [] t.kind = "grant" ->
            [ create |->
                NewAddGrantToCatalogRoleRequestWithBody(outer, inner, me),
              delete |->
                NewRevokeGrantFromCatalogRoleRequestWithBody(outer, inner, me)
            ][op]
         [] t.kind = "principal" ->
            [ create |-> NewCreatePrincipalRequestWithBody(me),
              get    |-> NewGetPrincipalRequest(me),
              update |-> NewUpdatePrincipalRequestWithBody(me),
              rotate |-> NewRotateCredentialsRequest(me),
              delete |-> NewDeletePrincipalRequest(me) ][op]
         [] t.kind = "principalRole" ->
            [ create |-> NewCreatePrincipalRoleRequestWithBody(me),
              get    |-> NewGetPrincipalRoleRequest(me),
              update |-> NewUpdatePrincipalRoleRequestWithBody(me),
              delete |-> NewDeletePrincipalRoleRequest(me) ][op]
         [] t.kind = "membership" ->
            [ create |-> NewAssignPrincipalRoleRequestWithBody(outer, me),
              delete |-> NewRevokePrincipalRoleRequest(outer, me) ][op]
         [] t.kind = "roleAssignment" ->
            [ create |-> NewAssignCatalogRoleToPrincipalRoleRequestWithBody(
                            outer, inner, me),
              delete |-> NewRevokeCatalogRoleFromPrincipalRoleRequest(
                            outer, inner, me) ][op]
         [] t.kind = "namespace" ->
            [ create |-> NewCreateNamespaceRequestWithBody(outer, me),
              get    |-> NewLoadNamespaceMetadataRequest(outer, me),
              update |-> NewUpdatePropertiesRequestWithBody(outer, me),
              delete |-> NewDropNamespaceRequest(outer, me) ][op]
         [] t.kind = "table" ->
            [ create |-> NewCreateTableRequestWithBody(outer, inner, me),
              get    |-> NewLoadTableRequest(outer, inner, me),
              delete |-> NewDropTableRequest(outer, inner, me) ][op]
         [] t.kind = "view" ->
            [ create |-> NewCreateViewRequestWithBody(outer, inner, me),
              get    |-> NewLoadViewRequest(outer, inner, me),
              delete |-> NewDropViewRequest(outer, inner, me) ][op]
         [] t.kind = "policy" ->
            [ create |-> NewCreatePolicyRequestWithBody(outer, inner, me),
              get    |-> NewLoadPolicyRequest(outer, inner, me),
              update |-> NewUpdatePolicyRequestWithBody(outer, inner, me),
              delete |-> NewDropPolicyRequest(outer, inner, me) ][op]

\* finalize of a catalog looks at the bare response, without a parser.
Parsed(kind, op, a) ==
    CASE kind = "catalog" ->
            [ create |-> ParseCreateCatalogWrapper(a),
              get    |-> ParseGetCatalogWrapper(a),
              update |-> ParseUpdateCatalogWrapper(a),
              delete |-> [ status |-> a.status, typed |-> FALSE ] ][op]
      [] kind = "catalogRole" ->
            [ create |-> ParseCreateCatalogRoleWrapper(a),
              get    |-> ParseGetCatalogRoleWrapper(a),
              update |-> ParseUpdateCatalogRoleWrapper(a),
              delete |-> ParseDeleteCatalogRoleWrapper(a) ][op]
      [] kind = "grant" ->
            [ create |-> ParseAddGrantToCatalogRoleWrapper(a),
              delete |-> ParseRevokeGrantFromCatalogRoleWrapper(a) ][op]
      [] kind = "principal" ->
            [ create |-> ParseCreatePrincipalWrapper(a),
              get    |-> ParseGetPrincipalWrapper(a),
              update |-> ParseUpdatePrincipalWrapper(a),
              rotate |-> ParseRotateCredentialsWrapper(a),
              delete |-> ParseDeletePrincipalWrapper(a) ][op]
      [] kind = "principalRole" ->
            [ create |-> ParseCreatePrincipalRoleWrapper(a),
              get    |-> ParseGetPrincipalRoleWrapper(a),
              update |-> ParseUpdatePrincipalRoleWrapper(a),
              delete |-> ParseDeletePrincipalRoleWrapper(a) ][op]
      [] kind = "membership" ->
            [ create |-> ParseAssignPrincipalRoleWrapper(a),
              delete |-> ParseRevokePrincipalRoleWrapper(a) ][op]
      [] kind = "roleAssignment" ->
            [ create |-> ParseAssignCatalogRoleToPrincipalRoleWrapper(a),
              delete |-> ParseRevokeCatalogRoleFromPrincipalRoleWrapper(a) ][op]
      [] kind = "namespace" ->
            [ create |-> ParseCreateNamespaceWrapper(a),
              get    |-> ParseLoadNamespaceMetadataWrapper(a),
              update |-> ParseUpdatePropertiesWrapper(a),
              delete |-> ParseDropNamespaceWrapper(a) ][op]
      [] kind = "table" ->
            [ create |-> ParseCreateTableWrapper(a),
              get    |-> ParseLoadTableWrapper(a),
              delete |-> ParseDropTableWrapper(a) ][op]
      [] kind = "view" ->
            [ create |-> ParseCreateViewWrapper(a),
              get    |-> ParseLoadViewWrapper(a),
              delete |-> ParseDropViewWrapper(a) ][op]
      [] kind = "policy" ->
            [ create |-> ParseCreatePolicyWrapper(a),
              get    |-> ParseLoadPolicyWrapper(a),
              update |-> ParseUpdatePolicyWrapper(a),
              delete |-> ParseDropPolicyWrapper(a) ][op]

\* What the helpers make of an answer: 409 is success to a creation and 404 to
\* a deletion, 404 means absent to a read; any other status from 400 on, and an
\* answer that does not parse, is an error that fails the pass.
Verdict(op, r) ==
    IF r = ParseError THEN "unknown"
    ELSE CASE op = "delete" /\ (r.status < 400 \/ r.status = 404) -> "absent"
           [] op = "get" /\ r.status = 404 -> "absent"
           [] op = "create" /\ r.status = 409 -> "present"
           [] op # "delete" /\ r.status < 400 -> "present"
           [] OTHER -> "unknown"

-----------------------------------------------------------------------------
(* The server.                                                             *)

\* Where a request makes, or looks for, what it names.
AddressOf(req) ==
    IF req.body = Unnamed THEN req.path ELSE Append(req.path, req.body)

\* rotate and properties are no objects but doors to the one above them.
IsDoor(req) == req.method = "POST" /\ req.body = Unnamed

Above(path) == SubSeq(path, 1, Len(path) - 1)

\* A grant is revoked by a POST to the collection that a PUT adds it to.
Removes(req) ==
    \/ req.method = "DELETE"
    \/ req.method = "POST" /\ req.path[Len(req.path)] = Lit("grants")

Serve(req) ==
    LET place == IF IsDoor(req) THEN Above(req.path) ELSE AddressOf(req)
        there == place \in objects
        adds  == req.body # Unnamed /\ ~Removes(req)
    IN  [ status |->
            CASE adds -> IF there /\ req.method = "POST" THEN 409 ELSE 201
              [] ~adds /\ ~there -> 404
              [] ~adds /\ there -> IF Removes(req) THEN 204 ELSE 200,
          objects |-> CASE adds -> objects \cup {place}
                        [] Removes(req) -> objects \ {place}
                        [] OTHER -> objects ]

-----------------------------------------------------------------------------
(* Requests.                                                               *)

\* A helper of the reconciler makes a request.
Ask(c, op) ==
    /\ doing[c] = "nothing"
    /\ op \in Operations(target[c].kind)
    /\ Call(c)
    /\ doing' = [doing EXCEPT ![c] = op]
    /\ belief' = [belief EXCEPT ![c] = "unknown"]
    /\ UNCHANGED <<target, answer, objects>>

Authenticate(c) == TokenStep(c) /\ UNCHANGED callVars

\* Without a token no request is sent: injectBearer's error is the request's.
NotSent(c) ==
    /\ at[c] = "refused"
    /\ Leave(c)
    /\ doing' = [doing EXCEPT ![c] = "nothing"]
    /\ UNCHANGED <<target, answer, belief, objects>>

\* Ping wants the token and nothing else.
Pinged(c) ==
    /\ at[c] = "bearing"
    /\ doing[c] = "ping"
    /\ Leave(c)
    /\ doing' = [doing EXCEPT ![c] = "nothing"]
    /\ UNCHANGED <<target, answer, belief, objects>>

\* The server carries the request out, unless the token has died on the way.
\* A proxy may answer in the place of JSON, or garble it.
Arrive(c) ==
    /\ at[c] = "bearing"
    /\ doing[c] # "ping"
    /\ answer[c] = NoAnswer
    /\ LET served == Serve(Request(target[c], doing[c]))
           valid  == now < bears[c].until
       IN  /\ objects' = IF valid THEN served.objects ELSE objects
           /\ \E json, wellFormed \in BOOLEAN :
                /\ wellFormed => json
                /\ answer' = [answer EXCEPT ![c] =
                    [ status |-> IF valid THEN served.status ELSE 401,
                      json |-> json, wellFormed |-> wellFormed ]]
    /\ UNCHANGED <<tokenVars, target, doing, belief>>

\* The server, or something before it, is out of order.
Unavailable(c) ==
    /\ at[c] = "bearing"
    /\ doing[c] # "ping"
    /\ answer[c] = NoAnswer
    /\ answer' = [answer EXCEPT ![c] =
            [ status |-> 503, json |-> TRUE, wellFormed |-> TRUE ]]
    /\ UNCHANGED <<tokenVars, target, doing, belief, objects>>

Conclude(c) ==
    /\ at[c] = "bearing"
    /\ answer[c] # NoAnswer
    /\ Leave(c)
    /\ belief' = [belief EXCEPT ![c] =
            Verdict(doing[c], Parsed(target[c].kind, doing[c], answer[c]))]
    /\ doing' = [doing EXCEPT ![c] = "nothing"]
    /\ answer' = [answer EXCEPT ![c] = NoAnswer]
    /\ UNCHANGED <<target, objects>>

\* The connection breaks, or the timeout strikes, before or after the server
\* carried the request out.
Lost(c) ==
    /\ at[c] = "bearing"
    /\ doing[c] # "ping"
    /\ Leave(c)
    /\ doing' = [doing EXCEPT ![c] = "nothing"]
    /\ answer' = [answer EXCEPT ![c] = NoAnswer]
    /\ UNCHANGED <<target, belief, objects>>

\* The next incarnation of the operator takes up where it finds the server.
StartOver ==
    /\ Restart
    /\ doing' = [ c \in Callers |-> "nothing" ]
    /\ answer' = [ c \in Callers |-> NoAnswer ]
    /\ belief' = [ c \in Callers |-> "unknown" ]
    /\ UNCHANGED <<target, objects>>

-----------------------------------------------------------------------------

ClientInit ==
    /\ TokenInit
    /\ \E case \in Cases :
        /\ target = case.target
        /\ horizon = case.horizon
    /\ doing = [ c \in Callers |-> "nothing" ]
    /\ answer = [ c \in Callers |-> NoAnswer ]
    /\ belief = [ c \in Callers |-> "unknown" ]
    /\ objects = {}

ClientNext ==
    \/ Tick /\ UNCHANGED callVars
    \/ StartOver
    \/ \E c \in Callers :
        \/ \E op \in Kept \cup {"rotate", "ping"} : Ask(c, op)
        \/ Authenticate(c) \/ NotSent(c) \/ Pinged(c)
        \/ Arrive(c) \/ Unavailable(c) \/ Conclude(c) \/ Lost(c)

ClientSpec == ClientInit /\ [][ClientNext]_clientVars /\ TokenFairness

-----------------------------------------------------------------------------
(* Properties; those of PolarisTokenSource are checked here too.           *)

\* Where a target's object, or assignment, is made.
Home(t) == AddressOf(Request(t, "create"))

\* Nobody else's resource names the same thing.
Alone(c) == \A d \in Callers \ {c} : target[d] # target[c]

\* What a reconciler concluded from its last request is so: the object or the
\* assignment is there after a creation, an update or a read that found it, it is
\* gone after a deletion, whoever else uses the client for something else.  The
\* builders of one object's requests (New...Request) agree on its address with
\* each other and with nobody else's, and no answer is taken for more than it
\* says.
BeliefIsTrue ==
    \A c \in Callers : target[c].kind # "connection" /\ Alone(c) =>
        /\ belief[c] = "present" => Home(target[c]) \in objects
        /\ belief[c] = "absent" => Home(target[c]) \notin objects

\* A request, as its builder (New...Request) addresses it, changes nothing on the
\* server but what its caller looks after.
MindsItsOwn ==
    [][ \A c \in Callers : answer'[c] # answer[c] =>
            \A a \in (objects \ objects') \cup (objects' \ objects) :
                a = Home(target[c]) ]_clientVars
=============================================================================
