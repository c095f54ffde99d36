------------------------ MODULE PolarisSyncProperties ------------------------
(***************************************************************************)
(* What "state matches spec" and a resolved path mean.                     *)
(***************************************************************************)
EXTENDS PolarisSync

Specs == UNION { c.specs : c \in Cases }

\* Every variable keeps its type.  Of the code this says that the walk up
\* parentRef stays within its depth, and that a pass which updates has read what
\* it compares with.
TypeOK ==
    /\ case \in Cases
    /\ cr.spec \in case.specs /\ cr.gen \in 1..MaxGen
    /\ cr.ready \in BOOLEAN /\ cr.readyGen \in Generations
    /\ queued \in BOOLEAN
    /\ pc \in { "idle", "walk", "get", "create", "update", "ready", "notReady" }
    /\ mine.spec \in case.specs /\ mine.gen \in Generations
    /\ walk.cur \in Namespaces \cup {NoParent}
    /\ walk.path \in Seq(Namespaces) /\ Len(walk.path) <= MaxDepth + 1
    /\ pc = "update" => IsObject(kind, current)
    /\ exists => IsObject(kind, object)
    /\ present \subseteq Namespaces \cup Catalogs
    /\ there \in BOOLEAN /\ exists \in BOOLEAN
    /\ faults \in 0..MaxFaults
    /\ fresh \in BOOLEAN /\ sound \in BOOLEAN /\ tampered \in BOOLEAN

-----------------------------------------------------------------------------
(* The path.                                                               *)

\* The chain of the leaf: from a namespace without a parent down to it, along
\* parentRefs, in one catalog, no more than maxDepth parents.
IsChain(p) ==
    /\ Len(p) \in 1..MaxDepth + 1
    /\ p[Len(p)] = case.leaf
    /\ case.parent[p[1]] = NoParent
    /\ \A i \in 1..Len(p) - 1 : case.parent[p[i + 1]] = p[i]
    /\ \A i \in 1..Len(p) : case.catalog[p[i]] = case.catalog[case.leaf]

Paths == UNION { [1..n -> Namespaces] : n \in 1..MaxDepth + 1 }

\* The leaf was read before the walk began.
Exists(p) ==
    /\ \A i \in 1..Len(p) - 1 : p[i] \in present
    /\ case.catalog[case.leaf] \in present

\* resolveNamespacePath either ends with the chain of parentRefs, whole and in
\* order, or fails because there is none that it may follow to its end: a
\* cycle is refused, the longest chain allowed is not, whatever comes and goes
\* while it walks.
ResolveIsRight ==
    [][pc = "walk" =>
        /\ pc' = "get" => IsChain(walk.path)
        /\ pc' = "notReady" => ~\E p \in Paths : IsChain(p) /\ Exists(p)]_vars

-----------------------------------------------------------------------------
(* The contents.                                                           *)

\* What the latest Ready says is of the stored spec, and nobody else changed the
\* object since the pass that wrote it read it; nor could that pass not read it.
ReadyNow == cr.ready /\ cr.readyGen = cr.gen /\ sound

\* "... state matches spec": Ready for the stored generation means that the
\* object exists and, unless it is a table or a view, is what the spec says in all
\* that can be read back.
ReadyMeansSynced ==
    ReadyNow => exists /\ (kind \in CreateOnly \/ InSync(kind, cr.spec, object))

\* "Initial create is full-fidelity": what a POST creates, and the same pass then
\* reports as matching the spec, is all of the spec: for tables and views, which
\* are never compared, and for a catalog's storage fields, which are not read
\* back, a field lost here stays lost.
CreatedInFull ==
    [][pc = "create" /\ ~exists /\ exists' /\ ~UNCHANGED pc =>
        InFull(kind, mine.spec, object')]_vars

\* A spec property of the location's own key: dropped from the body, yet counted
\* in the comparison, so that such a spec never stops drifting.
NeverSettles(spec) ==
    kind = "catalog" /\ Reserved \in Keys(spec.properties)

\* "... would flag that as perpetual drift, causing a reconcile hot-loop that
\* hammers the Polaris API": what a pass read and found in sync it leaves alone.
UpdatesOnlyDrift ==
    pc = "update" /\ ~NeverSettles(mine.spec) => ~InSync(kind, mine.spec, current)

\* "Pass observed version for optimistic concurrency": an update replaces the
\* very content that the pass read, and a namespace's patch touches no key in
\* which that agreed with the spec, whatever others wrote in the meantime.
MindsOthers ==
    [][pc = "update" /\ object' # object /\ ~UNCHANGED pc =>
        IF kind = "namespace"
        THEN \A k \in Keys(object.properties) \cup Keys(object'.properties) :
                Entry(current.properties, k) = Entry(mine.spec.properties, k)
                  => Entry(object'.properties, k) = Entry(object.properties, k)
        ELSE object = current]_vars

\* The resource, which has its finalizer and is not deleted, is the one that
\* PolarisResource describes.
Resource ==
    INSTANCE PolarisResource
        WITH stage <- "guarded", ready <- cr.ready, there <- exists,
             outside <- tampered

\* What PolarisHierarchy takes a pass for in a few calls it is in all of them:
\* whatever walk, comparison, body, version, conflict, lost answer, 409 or
\* answer without JSON leads to the status write, Ready is claimed only of what
\* the server has, and nothing but somebody else takes that away.
ImplementsResource == [][Resource!Next]_(Resource!resource)

\* How many calls a pass may still make: one for each parentRef that the walk may
\* follow and one for the catalog, then a read, a write and a status.
CallsLeft ==
    CASE pc = "idle" -> 0
      [] pc \in { "ready", "notReady" } -> 1
      [] pc \in { "create", "update" } -> 2
      [] pc = "get" -> 3
      [] pc = "walk" -> MaxDepth + 5 - Len(walk.path)

\* Each call brings the end of the pass closer, however the parentRefs are tied,
\* in a circle or longer than maxDepth: a worker is never kept for ever.
PassEnds ==
    [][Reconcile => CallsLeft' \in Nat /\ CallsLeft' < CallsLeft]_vars

\* A resource that is not Ready for its stored generation has a pass under way or
\* queued, whatever its walk, its calls and its status writes meet.
NeverForgotten ==
    queued \/ pc # "idle" \/ (cr.ready /\ cr.readyGen = cr.gen)

\* The path resolves, the server has the parent, and the body can be built.
Possible ==
    /\ kind \in Walkers => \E p \in Paths : IsChain(p) /\ Exists(p)
    /\ kind \in Walkers => case.leaf \in present
    /\ there
    /\ Builds(kind, cr.spec)

\* Once that holds for good, the resource becomes Ready for its last generation:
\* nothing but its own requeue brings a failed or a waiting pass back.
Converges ==
    <>[]Possible => <>[](cr.ready /\ cr.readyGen = cr.gen)
=============================================================================
