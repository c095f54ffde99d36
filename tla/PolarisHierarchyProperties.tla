--------------------- MODULE PolarisHierarchyProperties ---------------------
(***************************************************************************)
(* What the reconcilers of a tree of resources promise together, and what  *)
(* comments and docs say of it that the code does not keep.                *)
(***************************************************************************)
EXTENDS PolarisHierarchy

\* Every variable keeps its type; of the code this says that no resource
\* becomes Ready before ensureFinalizer has put the finalizer on it.
TypeOK ==
    /\ cr \in [Resources -> Objects]
    /\ queued \subseteq Resources
    /\ call \in [Resources -> Calls]
    /\ current \in [Resources -> BOOLEAN]
    /\ conn \in Connections
    /\ remote \subseteq Resources
    /\ made \subseteq remote
    /\ faults \in 0..MaxFaults
    /\ lost \in BOOLEAN /\ tampered \in BOOLEAN

Guarded(r) == cr[r].exists /\ cr[r].finalizer

\* helpers.go: the finalizer makes sure that "deletion blocks until the
\* operator has removed the remote resource".  For a tree this takes more than
\* each finalizer: a child's deletion finds the server through the resources
\* above it, so these must outlive what the child has on the server, in
\* whatever order users delete and apply.  They do, as long as the connection
\* stays and nobody else changes the tree in Polaris.
DeletedBottomUp ==
    ~lost /\ ~tampered =>
        \A r \in remote : Guarded(r) /\ \A a \in Above[r] : Guarded(a)

\* Ready=True means that the object and everything it lies in are on the
\* server, whatever became of the connection in the meantime.
ReadyMeansPresent ==
    ~tampered =>
        \A r \in Resources :
            cr[r].ready /\ ~cr[r].deleting => {r} \cup Above[r] \subseteq remote

\* Each resource is the one that PolarisResource describes.
Stage(r) ==
    IF ~cr[r].exists THEN "absent"
    ELSE IF ~cr[r].finalizer THEN "applied"
    ELSE IF ~cr[r].deleting THEN "guarded" ELSE "doomed"

Resource(r) ==
    INSTANCE PolarisResource
        WITH stage <- Stage(r), ready <- cr[r].ready, there <- r \in remote,
             outside <- lost \/ tampered

\* All that a neighbour may know of a resource of the tree: among others that
\* nothing is created for what has no finalizer, and that the finalizer is not
\* removed while the object is there, whatever became of the resources above.
\* It is Resource(r)!Spec of every r, in the form that TLC checks.
ImplementsResource ==
    /\ \A r \in Resources : Resource(r)!Init
    /\ [][\A r \in Resources : [Resource(r)!Next]_(Resource(r)!resource)]_vars

AllApplied == \A r \in Resources : cr[r].exists /\ ~cr[r].deleting
AllReady   == \A r \in Resources : cr[r].ready
AllDoomed  == \A r \in Resources : cr[r].exists => cr[r].deleting
AllGone    == \A r \in Resources : ~cr[r].exists

\* A pass over r is under way, or one will come.
Awake(r) == r \in queued \/ call[r] # "idle"

\* A resource's next pass is put off only when nothing is left to do, or when an
\* event will bring it: however writes conflict, calls fail, parents are missing
\* and the operator restarts, what is not Ready, or is being deleted, is not left
\* alone.  Nobody else would wake it.
NeverForgotten ==
    \A r \in Resources :
        cr[r].exists => Awake(r) \/ (cr[r].ready /\ ~cr[r].deleting)

\* The resources do not wait for one another in a circle while they come up: as
\* long as one of them is not Ready, one that is not has a pass coming that would
\* get past every gate (references, parentReady) and find its parent on the
\* server, so that nothing but a fault keeps it from Ready.
BuildUpNeverStuck ==
    AllApplied /\ conn = "ready" /\ ~tampered /\ ~AllReady =>
        \E r \in Resources :
            /\ ~cr[r].ready
            /\ Awake(r)
            /\ FirstCall(r) \in {"finalizer", "get"}
            /\ ParentThere(r)

\* Nor while they are torn down: as long as one of them is left, one has a pass
\* coming that drops its finalizer, or deletes an object that the server lets go
\* because nothing is left in it.
TeardownNeverStuck ==
    AllDoomed /\ ~AllGone /\ ~lost /\ ~tampered =>
        \E r \in Resources :
            /\ cr[r].exists
            /\ Awake(r)
            /\ \/ FirstCall(r) = "drop"
               \/ FirstCall(r) = "delete" /\ Empty(r)

\* helpers.go, on parentReady: a child applied before its parent "waits
\* quietly".  No event of a parent wakes a child, but once everything is
\* applied, in any order, and the connection is Ready, everything becomes and
\* stays Ready, if nobody else takes its object away.
Converges ==
    <>[](AllApplied /\ conn = "ready" /\ ~tampered) => <>[]AllReady

\* Deleting everything, in any order, ends: refused deletions are retried
\* until what they contain is gone.
TeardownCompletes ==
    <>[](AllDoomed /\ conn # "unreachable" /\ ~lost /\ ~tampered) => <>[]AllGone

\* The comment in every Reconcile on the deletion path: when "the remote is
\* unreachable" for good, no object is wedged "in Terminating forever".
TeardownWithoutServer ==
    <>[](AllDoomed /\ conn = "unreachable") => <>[]AllGone

-----------------------------------------------------------------------------
(* Sentences of the repository that the code does not keep.                *)

\* docs/tutorial.md: "Each Polaris-side object is deleted before its
\* Kubernetes record disappears, so nothing gets orphaned in Polaris".
NothingOrphaned == \A r \in made : Guarded(r)

\* The same comment on the deletion path, for a connection that goes away and
\* comes back while the tree is being deleted.
NeverWedged == <>[](AllDoomed /\ conn # "unreachable") => <>[]AllGone
=============================================================================
