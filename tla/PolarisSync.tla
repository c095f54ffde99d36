---------------------------- MODULE PolarisSync ----------------------------
(***************************************************************************)
(* A reconciler that keeps an object of the server in step with its spec:  *)
(* of catalogs, principal roles, catalog roles, namespaces and policies,   *)
(* and of tables and views, which it only creates.  What it compares and   *)
(* sends is in PolarisDrift.  What lies in a namespace, or is one, first   *)
(* walks up the parentRefs of a PolarisNamespace, a read each, to find the *)
(* path of its object (resolveNamespacePath).                              *)
(*                                                                         *)
(* Abstractions.  Finalizers, deletion, the connection and the wait for a  *)
(* parent's Ready are PolarisHierarchy's subject, the informer's lag       *)
(* PolarisPrincipal's: here the resource exists, its references stay what  *)
(* they are, and a pass works on what was stored when it began.  Entity    *)
(* versions are not counted: fresh says that the object is as this pass    *)
(* read it, so that a body with the version it read is accepted.           *)
(*                                                                         *)
(* An operator named <definition>_<Variant> is a wrong variant of that     *)
(* definition: no action uses it, it shows what a property rules out.      *)
(***************************************************************************)
EXTENDS PolarisDrift

CONSTANTS
    Cases,      \* what the resource, its namespaces and the server may hold
    Namespaces, \* PolarisNamespace resources
    Catalogs,   \* PolarisCatalog resources
    NoParent,   \* no parentRef
    MaxDepth,   \* maxDepth of resolveNamespacePath
    MaxGen,     \* bound: metadata.generation
    MaxFaults,  \* bound: how many faults and outside interventions happen
    Faults      \* which kinds of them are possible

FaultKinds ==
    { "call",       \* a call fails before it takes effect
      "reply",      \* a call takes effect, the caller sees an error
      "untyped",    \* a 200 that is not JSON
      "crash",      \* the operator restarts
      "server",     \* somebody else changes the object or its parent
      "reference" } \* somebody creates or deletes a resource on the path

Walkers == { "namespace", "policy", "table", "view" }

\* The parent in the server of a principal role and of a catalog is the server.
Contained == Walkers \cup { "catalogRole" }

ASSUME SyncAssumption ==
    /\ NoParent \notin Namespaces
    /\ Namespaces \cap Catalogs = {}
    /\ MaxDepth \in Nat /\ MaxGen \in Nat \ {0} /\ MaxFaults \in Nat
    /\ Faults \subseteq FaultKinds
    /\ \A c \in Cases :
          /\ c.kind \in Kinds
          /\ c.parent \in [Namespaces -> Namespaces \cup {NoParent}]
          /\ c.catalog \in [Namespaces -> Catalogs]
          /\ c.leaf \in Namespaces
          /\ \A s \in c.specs : IsSpec(c.kind, s)
          /\ \A o \in c.contents : IsObject(c.kind, o)

VARIABLES
    case,      \* which of Cases this is: kind, references, specs, contents
    cr,        \* the resource in the API server
    queued,    \* its request is in the work queue
    pc,        \* the call Reconcile makes next; "idle" between passes
    mine,      \* Reconcile's copy of the resource: spec and generation
    walk,      \* cur and path of resolveNamespacePath, and its depth
    current,   \* what the pass read of the object
    present,   \* the namespaces and catalogs that exist as resources
    there,     \* the object's parent exists on the server
    exists,    \* the object exists on the server,
    object,    \* with this content
    faults,    \* faults and outside interventions so far
    fresh,     \* nobody else changed the object since this pass read it
    \* History, read by properties only:
    sound,     \* nor since the pass that set Ready read it
    tampered   \* somebody else changed the object, ever

server == <<there, exists, object>>
vars   == <<case, cr, queued, pc, mine, walk, current, present, server,
            faults, fresh, sound, tampered>>

kind == case.kind

Generations == 0..MaxGen

\* Nothing was read yet.
Unread == Nil

\* The namespace at the head of the path so far, and those below it.
NoWalk == [ cur |-> NoParent, path |-> <<>> ]

-----------------------------------------------------------------------------
NoFault == UNCHANGED faults

Fault(f) ==
    /\ f \in Faults
    /\ faults < MaxFaults
    /\ faults' = faults + 1

GoTo(call) == pc' = call /\ UNCHANGED queued

\* Reconcile returns; an error or a requeue puts the request back.
Finish(requeue) ==
    /\ pc' = "idle"
    /\ queued' = (queued \/ requeue)
    /\ walk' = NoWalk
    /\ current' = Unread

\* Optimistic concurrency: an edit since r.Get makes the write fail.
Newest == mine.gen = cr.gen

WriteOk(o) == Newest /\ NoFault /\ cr' = o

WriteErr(o) ==
    \/ ~Newest /\ NoFault /\ UNCHANGED cr
    \/ Fault("call") /\ UNCHANGED cr
    \/ Fault("reply") /\ Newest /\ cr' = o

\* Reconcile starts.  What lies in a namespace first reads the one it names.
Begin ==
    /\ pc = "idle" /\ queued
    /\ queued' = FALSE
    /\ mine' = [ spec |-> cr.spec, gen |-> cr.gen ]
    /\ IF kind \notin Walkers
       THEN pc' = "get" /\ UNCHANGED walk
       ELSE IF case.leaf \in present
       THEN /\ pc' = "walk"
            /\ walk' = [ cur |-> case.leaf, path |-> << case.leaf >> ]
       ELSE pc' = "notReady" /\ UNCHANGED walk
    /\ UNCHANGED <<case, cr, current, present, server, faults,
                   fresh, sound, tampered>>

-----------------------------------------------------------------------------
(* resolveNamespacePath.  The loop has run once for each parent that is on *)
(* the path already.                                                       *)

parentRef == case.parent[walk.cur]

Depth == Len(walk.path) - 1

TooDeep_ByOne == Depth > MaxDepth
TooDeep == Depth >= MaxDepth

SameCatalog_Unchecked(n) == TRUE
SameCatalog(n) == case.catalog[n] = case.catalog[case.leaf]

\* One more parentRef is followed.
StepUp ==
    /\ pc = "walk"
    /\ parentRef # NoParent /\ ~TooDeep
    /\ parentRef \in present /\ SameCatalog(parentRef)
    /\ walk' = [ cur |-> parentRef, path |-> << parentRef >> \o walk.path ]
    /\ UNCHANGED <<case, cr, queued, pc, mine, current, present, server,
                   faults, fresh, sound, tampered>>

\* A cycle, a missing parent, or one in another catalog.
RefuseStep ==
    /\ pc = "walk"
    /\ parentRef # NoParent
    /\ TooDeep \/ parentRef \notin present \/ ~SameCatalog(parentRef)
    /\ GoTo("notReady")
    /\ UNCHANGED <<case, cr, mine, walk, current, present, server, faults,
                   fresh, sound, tampered>>

\* The root is reached: the catalog is read.
EndWalk ==
    /\ pc = "walk"
    /\ parentRef = NoParent
    /\ GoTo(IF case.catalog[case.leaf] \in present THEN "get" ELSE "notReady")
    /\ UNCHANGED <<case, cr, mine, walk, current, present, server, faults,
                   fresh, sound, tampered>>

-----------------------------------------------------------------------------
(* The calls to Polaris.                                                   *)

\* A 200 without a body that the client knows: the namespace reconciler takes
\* the properties to be empty, those of policies, tables and views see no drift,
\* and in the others driftsFrom dereferences nil, which controller-runtime
\* recovers from.
OnUntyped ==
    CASE kind = "namespace" ->
            /\ current' = [ properties |-> EmptyMap ]
            /\ GoTo(IF namespaceDrifts(mine.spec, [ properties |-> EmptyMap ])
                    THEN "update" ELSE "ready")
            /\ UNCHANGED walk
      [] kind \in CreateOnly \cup {"policy"} ->
            GoTo("ready") /\ UNCHANGED <<current, walk>>
      [] OTHER -> Finish(TRUE)

\* getCatalog, getRole, getNamespace and the Load calls, and the comparison.
loadRemote ==
    /\ pc = "get"
    /\ \/ /\ ~exists /\ NoFault                                      \* 404
          /\ GoTo("create") /\ UNCHANGED <<current, walk>>
          /\ fresh' = TRUE
       \/ /\ exists /\ NoFault
          /\ current' = object /\ UNCHANGED walk
          /\ GoTo(IF Drifts(kind, mine.spec, object)
                  THEN "update" ELSE "ready")
          /\ fresh' = TRUE
       \/ /\ exists /\ Fault("untyped")
          /\ OnUntyped
          /\ fresh' = FALSE
       \/ /\ Fault("call")
          /\ GoTo("notReady") /\ UNCHANGED <<current, walk, fresh>>
    /\ UNCHANGED <<case, cr, mine, present, server, sound, tampered>>

\* A POST that reaches the server makes the object, if its parent is there and
\* it is not.
Post ==
    /\ ~exists /\ there
    /\ exists' = TRUE /\ object' = Created(kind, mine.spec)
    /\ UNCHANGED there

\* The server has no parent for the object: the pass waits.
OnParentMissing_TakenForDone == "ready"
OnParentMissing == "notReady"

createRemote ==
    /\ pc = "create"
    /\ \/ /\ ~Builds(kind, mine.spec) /\ NoFault
          /\ GoTo("notReady") /\ UNCHANGED server
       \/ /\ Builds(kind, mine.spec)
          /\ \/ Post /\ NoFault /\ GoTo("ready")
             \/ Post /\ Fault("reply") /\ GoTo("notReady")
             \/ exists /\ NoFault /\ GoTo("ready") /\ UNCHANGED server  \* 409
             \/ ~there /\ NoFault                                       \* 404
                  /\ GoTo(OnParentMissing) /\ UNCHANGED server
             \/ Fault("call") /\ GoTo("notReady") /\ UNCHANGED server
    /\ UNCHANGED <<case, cr, mine, walk, current, present,
                   fresh, sound, tampered>>

\* The update bodies of catalogs, roles and policies carry the version that
\* was read; a namespace's patch has none.
Versioned_Never == FALSE
Versioned == kind # "namespace"

\* The server refuses what is not there, and what has another version.
Refused == ~exists \/ (Versioned /\ ~fresh)

Put ==
    /\ ~Refused
    /\ object' = Updated(kind, mine.spec, current, object)
    /\ UNCHANGED <<there, exists>>

updateRemote ==
    /\ pc = "update"
    /\ \/ /\ ~Builds(kind, mine.spec) /\ NoFault
          /\ GoTo("notReady") /\ UNCHANGED server
       \/ /\ Builds(kind, mine.spec)
          /\ \/ Put /\ NoFault /\ GoTo("ready")
             \/ Put /\ Fault("reply") /\ GoTo("notReady")
             \/ Refused /\ NoFault /\ GoTo("notReady") /\ UNCHANGED server
             \/ Fault("call") /\ GoTo("notReady") /\ UNCHANGED server
    /\ UNCHANGED <<case, cr, mine, walk, current, present,
                   fresh, sound, tampered>>

\* The status write of a successful pass.
WriteReadyStatus ==
    /\ pc = "ready"
    /\ LET o == [ spec |-> cr.spec, gen |-> cr.gen,
                  ready |-> TRUE, readyGen |-> mine.gen ]
       IN  /\ \/ WriteOk(o) /\ Finish(FALSE)
              \/ WriteErr(o) /\ Finish(TRUE)
           /\ sound' = IF cr' = o THEN fresh ELSE sound
    /\ UNCHANGED <<case, mine, present, server, fresh, tampered>>

\* The status write of a failed pass, and of one that waits.
requeueAfterNotReady_Never == FALSE
requeueAfterNotReady == TRUE

WriteNotReadyStatus ==
    /\ pc = "notReady"
    /\ LET o == [ spec |-> cr.spec, gen |-> cr.gen,
                  ready |-> FALSE, readyGen |-> mine.gen ]
       IN  WriteOk(o) \/ WriteErr(o)
    /\ Finish(requeueAfterNotReady)
    /\ UNCHANGED <<case, mine, present, server, fresh, sound, tampered>>

Reconcile ==
    \/ StepUp \/ RefuseStep \/ EndWalk
    \/ loadRemote \/ createRemote \/ updateRemote
    \/ WriteReadyStatus \/ WriteNotReadyStatus

-----------------------------------------------------------------------------
(* The rest of the system.                                                 *)

\* The user edits the spec.
EditSpec(s) ==
    /\ cr.gen < MaxGen /\ s # cr.spec
    /\ cr' = [ spec |-> s, gen |-> cr.gen + 1,
               ready |-> cr.ready, readyGen |-> cr.readyGen ]
    /\ queued' = TRUE
    /\ UNCHANGED <<case, pc, mine, walk, current, present, server, faults,
                   fresh, sound, tampered>>

\* Somebody else writes or deletes the object through the Polaris API.
ServerChange ==
    /\ Fault("server")
    /\ \/ \E c \in case.contents \ {object} :
             there /\ exists' = TRUE /\ object' = c
       \/ exists /\ exists' = FALSE /\ object' = Nil
    /\ fresh' = FALSE /\ sound' = FALSE /\ tampered' = TRUE
    /\ UNCHANGED <<case, cr, queued, pc, mine, walk, current, present, there>>

\* The object's parent on the server goes while it is empty, or comes.
ParentVanishes ==
    /\ Fault("server")
    /\ kind \in Contained /\ there /\ ~exists
    /\ there' = FALSE
    /\ UNCHANGED <<case, cr, queued, pc, mine, walk, current, present, exists,
                   object, fresh, sound, tampered>>

ParentAppears ==
    /\ ~there /\ there' = TRUE
    /\ UNCHANGED <<case, cr, queued, pc, mine, walk, current, present, exists,
                   object, faults, fresh, sound, tampered>>

\* A resource on the path is deleted, or created.
ReferenceVanishes(n) ==
    /\ Fault("reference")
    /\ kind \in Walkers /\ n \in present
    /\ kind = "namespace" => n # case.leaf
    /\ present' = present \ {n}
    /\ UNCHANGED <<case, cr, queued, pc, mine, walk, current, server, fresh,
                   sound, tampered>>

ReferenceAppears(n) ==
    /\ n \notin present
    /\ present' = present \cup {n}
    /\ UNCHANGED <<case, cr, queued, pc, mine, walk, current, server, faults,
                   fresh, sound, tampered>>

\* The operator restarts: every existing resource is a creation event.
Restart ==
    /\ Fault("crash")
    /\ pc' = "idle" /\ queued' = TRUE
    /\ walk' = NoWalk /\ current' = Unread
    /\ UNCHANGED <<case, cr, mine, present, server, fresh, sound, tampered>>

Environment ==
    \/ \E s \in case.specs : EditSpec(s)
    \/ ServerChange \/ ParentVanishes \/ ParentAppears
    \/ \E n \in Namespaces \cup Catalogs :
            ReferenceVanishes(n) \/ ReferenceAppears(n)
    \/ Restart

\* The resource was just applied; the server may have an object of its name.
Init ==
    /\ case \in Cases
    /\ \E s \in case.specs :
            cr = [ spec |-> s, gen |-> 1, ready |-> FALSE, readyGen |-> 0 ]
    /\ queued = TRUE
    /\ pc = "idle"
    /\ mine = [ spec |-> cr.spec, gen |-> 0 ]
    /\ walk = NoWalk /\ current = Unread
    /\ present = Namespaces \cup Catalogs
    /\ there \in BOOLEAN /\ (kind \notin Contained => there)
    /\ \/ exists = FALSE /\ object = Nil
       \/ exists = TRUE /\ there /\ object \in case.contents
    /\ faults = 0
    /\ fresh = FALSE /\ sound = FALSE /\ tampered = FALSE

Next == Begin \/ Reconcile \/ Environment

Spec == Init /\ [][Next]_vars

\* The work queue hands out what it holds, and a pass makes its next call.
FairSpec == Spec /\ WF_vars(Begin) /\ WF_vars(Reconcile)
=============================================================================
