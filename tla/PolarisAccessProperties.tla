----------------------- MODULE PolarisAccessProperties -----------------------
(***************************************************************************)
(* What bindings and grants promise, given that the reconcilers of the     *)
(* entities they tie together do what PolarisResource says.                *)
(***************************************************************************)
EXTENDS PolarisAccess

\* Every variable keeps its type; of the code this says that no binding
\* becomes Ready before ensureFinalizer has put the finalizer on it.
TypeOK ==
    /\ ent \in [Entities -> EntityStates]
    /\ cr \in [Bindings -> Objects]
    /\ queued \subseteq Bindings
    /\ call \in [Bindings -> Calls]
    /\ aim \in [Bindings -> Accesses \cup {NoAccess}]
    /\ current \in [Bindings -> BOOLEAN]
    /\ reachable \in BOOLEAN
    /\ access \subseteq Accesses
    /\ faults \in 0..MaxFaults
    /\ lost \in BOOLEAN /\ tampered \in BOOLEAN
    /\ edited \in BOOLEAN /\ taken \in BOOLEAN

Guarded(b) == cr[b].exists /\ cr[b].finalizer

\* A grant does not wait for its target, so nothing is known of the resource
\* of a target that the server had before the operator came.
TargetsAreOurs ==
    \A b \in Bindings : \A a \in Specs[b] : \A e \in a \cap Before :
        Kind[b] = "grant" => EntityKind[e] = "catalogRole"

\* polarisprincipalrolebinding_types.go: "The binding can be removed
\* independently of either side."  Whatever is deleted first, a binding, an
\* entity or both at once, nobody keeps an access that no guarded binding
\* names: a finalizer is dropped without a revocation only when the access
\* went with one of its ends.  Checked and proved where TargetsAreOurs.
AccessIsBacked ==
    ~lost /\ ~tampered /\ ~edited =>
        \A a \in access : \E b \in Bindings : Guarded(b) /\ cr[b].spec = a

\* "principal is assigned the role", says the Ready condition: it is true
\* until an end goes, or another binding of the same two ends is deleted.
ReadyMeansAccess ==
    ~edited /\ ~taken =>
        \A b \in Bindings :
            cr[b].ready /\ ~cr[b].deleting => cr[b].spec \in access

\* As PolarisResource has it, a binding's object is an access that its spec may
\* name; if somebody takes that access away or has the binding name another, it
\* is no longer the operator's.
Stage(b) ==
    IF ~cr[b].exists THEN "absent"
    ELSE IF ~cr[b].finalizer THEN "applied"
    ELSE IF ~cr[b].deleting THEN "guarded" ELSE "doomed"

Resource(b) ==
    INSTANCE PolarisResource
        WITH stage <- Stage(b), ready <- cr[b].ready,
             there <- Specs[b] \cap access # {},
             outside <- lost \/ tampered \/ edited \/ taken

\* No two bindings may name the same access: the last of them to be deleted
\* would find it revoked.
Unshared ==
    \A b, c \in Bindings : b # c => Specs[b] \cap Specs[c] = {}

\* A binding keeps the promise that its ends keep: it gives nothing before it
\* has its finalizer, reports Ready only what is given, and its finalizer goes
\* after the access, even if it goes without a revocation because an end does
\* not resolve.  Checked and proved where TargetsAreOurs and Unshared.
ImplementsResource ==
    /\ \A b \in Bindings : Resource(b)!Init
    /\ [][\A b \in Bindings : [Resource(b)!Next]_(Resource(b)!resource)]_vars

AllApplied    == \A b \in Bindings : cr[b].exists /\ ~cr[b].deleting
AllReady      == \A b \in Bindings : cr[b].ready
AllDoomed     == \A b \in Bindings : cr[b].exists => cr[b].deleting
AllGone       == \A b \in Bindings : ~cr[b].exists
EntitiesReady == \A e \in Entities : ent[e].ready /\ ent[e].stage = "guarded"

\* A binding that is not Ready, or is being deleted, has a pass under way or
\* queued, whatever becomes of its ends, of its writes and of the operator: no
\* event of an end would wake it.
NeverForgotten ==
    \A b \in Bindings :
        \/ b \in queued \/ call[b] # "idle"
        \/ ~cr[b].exists
        \/ cr[b].ready /\ ~cr[b].deleting

\* Applied before its ends, a binding waits; no event of an end wakes it, but
\* once the ends are Ready it becomes and stays Ready.
Converges ==
    <>[](AllApplied /\ EntitiesReady /\ reachable /\ ~lost /\ ~tampered)
        => <>[]AllReady

\* Deletion of bindings ends, whatever happens to the entities and to the
\* connection meanwhile: it waits for nothing.
RevocationCompletes == <>[]AllDoomed => <>[]AllGone
=============================================================================
