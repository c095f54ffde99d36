-------------------------- MODULE PolarisHierarchy --------------------------
(***************************************************************************)
(* The reconcilers whose resources form a tree below a PolarisConnection   *)
(* (catalogs, namespaces, tables, views, policies, principal roles and     *)
(* catalog roles), run together against one Polaris server.                *)
(*                                                                         *)
(* The seven Reconcile functions have one control flow and differ in the   *)
(* references they resolve and in whose Ready they wait for.  A pass is    *)
(* cut at every call that leaves the process; the reads of the informer's  *)
(* cache that it starts with are one step.                                 *)
(*                                                                         *)
(* Abstractions.  The lag of the informer is the subject of                *)
(* PolarisPrincipal: here a pass acts on what it read when it began, and   *)
(* anything may have happened since.  The contents of an object are not    *)
(* modelled, so whether a found one has drifted is a free choice.  A wait  *)
(* (waitForDependency) and a recorded failure differ in their reason and   *)
(* in who logs them: both set Ready to False and put the request back, and *)
(* both are "notReady".                                                    *)
(*                                                                         *)
(* An operator named <definition>_<Variant> is a wrong variant of that     *)
(* definition: no action uses it, it shows what a property rules out.      *)
(***************************************************************************)
EXTENDS Naturals, FiniteSets

CONSTANTS
    Resources,   \* the custom resources, each also a name on the server
    Connection,  \* the PolarisConnection at the root
    Kind,        \* Kind[r]: the kind of a resource
    Parent,      \* Parent[r]: what contains it, in the specs and on the server
    Above,       \* Above[r]: the resources that contain it, at any distance
    MaxFaults,   \* bound: how many faults and outside interventions happen
    Faults       \* which kinds of them are possible

Kinds ==
    { "catalog", "namespace", "table", "view", "policy",
      "principalRole", "catalogRole" }

\* The kinds whose spec has a connectionRef.
TopKinds == { "catalog", "principalRole" }

FaultKinds ==
    { "call",        \* a call fails before it takes effect
      "reply",       \* a call takes effect, the caller sees an error
      "crash",       \* the operator restarts
      "edit",        \* the user edits a spec
      "connection",  \* the PolarisConnection degrades
      "server" }     \* somebody else creates or deletes an object in Polaris

ASSUME HierarchyAssumption ==
    /\ IsFiniteSet(Resources)
    /\ Connection \notin Resources
    /\ Kind \in [Resources -> Kinds]
    /\ Parent \in [Resources -> Resources \cup {Connection}]
    /\ Above \in [Resources -> SUBSET Resources]
    \* Above[r] is what is reached from r by Parent, which has no cycle.
    /\ \A r \in Resources :
          Above[r] = IF Parent[r] = Connection
                     THEN {} ELSE {Parent[r]} \cup Above[Parent[r]]
    /\ \A r \in Resources : \A a \in Above[r] :
          \E s \in {r} \cup Above[r] : Parent[s] = a
    /\ \A r \in Resources : \A a \in Above[r] : Above[a] \subseteq Above[r]
    /\ \A r \in Resources : r \notin Above[r]
    /\ \A r \in Resources : Kind[r] \in TopKinds <=> Parent[r] = Connection
    /\ \A r \in Resources :
          Kind[r] = "namespace" => \E c \in Above[r] : Kind[c] = "catalog"
    /\ MaxFaults \in Nat
    /\ Faults \subseteq FaultKinds

VARIABLES
    cr,        \* cr[r]: the resource in the API server
    queued,    \* the resources whose request is in a work queue
    call,      \* call[r]: the call r's Reconcile makes next, or "idle"
    current,   \* current[r]: Reconcile's copy of r has r's resourceVersion
    conn,      \* the PolarisConnection and its credentials Secret
    remote,    \* the resources that exist on the server
    faults,    \* faults and outside interventions so far
    \* History, read by properties only:
    made,      \* those in remote that the operator created
    lost,      \* the connection was reachable and then was not
    tampered   \* somebody else created or deleted an object in Polaris

server  == <<remote, made>>
history == <<lost, tampered>>
vars    == <<cr, queued, call, current, conn, server, faults, history>>

\* The part of a resource that reconcilers and their neighbours act on.  Only
\* what has the finalizer can be deleting, and only that is ever Ready.
Objects ==
    { o \in [ exists : BOOLEAN, deleting : BOOLEAN,
              finalizer : BOOLEAN, ready : BOOLEAN ] :
        /\ o.deleting \/ o.ready => o.finalizer
        /\ o.finalizer => o.exists }

NoObject ==
    [ exists |-> FALSE, deleting |-> FALSE, finalizer |-> FALSE, ready |-> FALSE ]

Calls ==
    { "idle", "finalizer", "get", "create", "update", "ready", "notReady",
      "delete", "unfinalize", "drop" }

\* Unreachable: the connection or its Secret is missing, so getConnection or
\* the client builder fails.
Connections == { "unreachable", "notReady", "ready" }

-----------------------------------------------------------------------------
NoFault == UNCHANGED faults

Fault(kind) ==
    /\ kind \in Faults
    /\ faults < MaxFaults
    /\ faults' = faults + 1

Store(r, o) == cr' = [ cr EXCEPT ![r] = o ]

\* An Update or Status().Update of Reconcile's copy: optimistic concurrency
\* refuses a copy that is not the newest.
WriteOk(r, o) == current[r] /\ NoFault /\ Store(r, o)

WriteErr(r, o) ==
    \/ ~current[r] /\ NoFault /\ UNCHANGED cr
    \/ Fault("call") /\ UNCHANGED cr
    \/ Fault("reply") /\ current[r] /\ Store(r, o)

GoTo(r, c) ==
    /\ call' = [ call EXCEPT ![r] = c ]
    /\ UNCHANGED <<queued, current>>

\* Reconcile returns; an error or a requeue puts the request back.
Finish(r, requeue) ==
    /\ call' = [ call EXCEPT ![r] = "idle" ]
    /\ current' = [ current EXCEPT ![r] = FALSE ]
    /\ queued' = IF requeue THEN queued \cup {r} ELSE queued

-----------------------------------------------------------------------------
(* What a pass reads before its first call.                                *)

\* Every reference up to the connection resolves and the client is built:
\* getNamespace, resolveNamespacePath, getCatalog, getConnection, builder.
Resolves_DeletingIsGone(r) ==
    (\A a \in Above[r] : cr[a].exists /\ ~cr[a].deleting) /\ conn # "unreachable"
Resolves(r) == (\A a \in Above[r] : cr[a].exists) /\ conn # "unreachable"

\* The resource whose Ready is awaited: a namespace waits for its catalog, not
\* for its parent namespace; everything else waits for its direct parent.
Gate(r) ==
    IF Kind[r] = "namespace"
    THEN CHOOSE c \in Above[r] : Kind[c] = "catalog"
    ELSE Parent[r]

ParentReady(r) ==
    IF Kind[r] \in TopKinds THEN conn = "ready" ELSE cr[Gate(r)].ready

\* A deleting resource whose references do not resolve drops its finalizer.
OnDeletion_NeverDrop(r) == IF Resolves(r) THEN "delete" ELSE "notReady"
OnDeletion(r) == IF Resolves(r) THEN "delete" ELSE "drop"

AfterGate(r) == IF cr[r].finalizer THEN "get" ELSE "finalizer"

FirstCall(r) ==
    IF cr[r].deleting THEN OnDeletion(r)
    ELSE IF Resolves(r) /\ ParentReady(r) THEN AfterGate(r) ELSE "notReady"

\* Reconcile starts.  A kind has one worker.
Begin(r) ==
    /\ r \in queued
    /\ \A s \in Resources : Kind[s] = Kind[r] => call[s] = "idle"
    /\ queued' = queued \ {r}
    /\ IF cr[r].exists
       THEN /\ call' = [ call EXCEPT ![r] = FirstCall(r) ]
            /\ current' = [ current EXCEPT ![r] = TRUE ]
       ELSE UNCHANGED <<call, current>>
    /\ UNCHANGED <<cr, conn, server, faults, history>>

-----------------------------------------------------------------------------
(* The calls of a pass.                                                    *)

ensureFinalizer_NoRequeue(r) ==
    /\ call[r] = "finalizer"
    /\ LET o == [ cr[r] EXCEPT !.finalizer = TRUE ]
       IN  \/ WriteOk(r, o) /\ Finish(r, FALSE)
           \/ WriteErr(r, o) /\ Finish(r, TRUE)
    /\ UNCHANGED <<conn, server, history>>
ensureFinalizer(r) ==
    /\ call[r] = "finalizer"
    /\ LET o == [ cr[r] EXCEPT !.finalizer = TRUE ]
       IN  WriteOk(r, o) \/ WriteErr(r, o)
    /\ Finish(r, TRUE)
    /\ UNCHANGED <<conn, server, history>>

\* getCatalog, getNamespace, getRole and the loads of tables, views and
\* policies.  Tables and views are never updated.
loadRemote(r) ==
    /\ call[r] = "get"
    /\ \/ NoFault /\ r \notin remote /\ GoTo(r, "create")            \* 404
       \/ NoFault /\ r \in remote /\ GoTo(r, "ready")
       \/ NoFault /\ r \in remote /\ Kind[r] \notin {"table", "view"}
                  /\ GoTo(r, "update")
       \/ Fault("call") /\ GoTo(r, "notReady")
    /\ UNCHANGED <<cr, conn, server, history>>

\* The server creates r only inside its parent.
ParentThere(r) == Parent[r] = Connection \/ Parent[r] \in remote

\* The server's side of a create and of a delete.
Post(r) ==
    /\ remote' = remote \cup {r}
    /\ made' = IF r \in remote THEN made ELSE made \cup {r}

Drop(r) == remote' = remote \ {r} /\ made' = made \ {r}

\* What Reconcile does when the server has no parent for r: it waits.
OnParentMissing_TakenForDone == "ready"
OnParentMissing == "notReady"

\* A create, which takes a 409 (r is there already) for a success.
createRemote(r) ==
    /\ call[r] = "create"
    /\ \/ NoFault /\ ParentThere(r)
          /\ Post(r) /\ GoTo(r, "ready")
       \/ NoFault /\ ~ParentThere(r)                                 \* 404
          /\ GoTo(r, OnParentMissing) /\ UNCHANGED server
       \/ Fault("reply") /\ ParentThere(r)
          /\ Post(r) /\ GoTo(r, "notReady")
       \/ Fault("call") /\ GoTo(r, "notReady") /\ UNCHANGED server
    /\ UNCHANGED <<cr, conn, history>>

updateRemote(r) ==
    /\ call[r] = "update"
    /\ \/ NoFault /\ r \in remote /\ GoTo(r, "ready")
       \/ NoFault /\ r \notin remote /\ GoTo(r, "notReady")          \* 404
       \/ (Fault("call") \/ Fault("reply")) /\ GoTo(r, "notReady")
    /\ UNCHANGED <<cr, conn, server, history>>

\* The status write that ends a successful pass.
WriteReadyStatus(r) ==
    /\ call[r] = "ready"
    /\ LET o == [ cr[r] EXCEPT !.ready = TRUE ]
       IN  \/ WriteOk(r, o) /\ Finish(r, FALSE)
           \/ WriteErr(r, o) /\ Finish(r, TRUE)
    /\ UNCHANGED <<conn, server, history>>

\* waitForDependency requeues after dependencyRequeueAfter, without an error;
\* a failing pass returns its error, which is a requeue as well.
requeueAfterNotReady_Never == FALSE
requeueAfterNotReady == TRUE

WriteNotReadyStatus(r) ==
    /\ call[r] = "notReady"
    /\ LET o == [ cr[r] EXCEPT !.ready = FALSE ]
       IN  \/ WriteOk(r, o) /\ Finish(r, requeueAfterNotReady)
           \/ WriteErr(r, o) /\ Finish(r, TRUE)
    /\ UNCHANGED <<conn, server, history>>

\* The server refuses to delete what still contains something.
Empty(r) == \A s \in remote : Parent[s] # r

\* finalize: any status from 400 on but 404 is an error.
OnRefusedDelete_NoRetry(r) == Finish(r, FALSE)
OnRefusedDelete_Ignored(r) == GoTo(r, "unfinalize")
OnRefusedDelete(r) == Finish(r, TRUE)

NotFoundIsDone_Not(r) == r \in remote
NotFoundIsDone(r) == TRUE

\* finalize, up to removeFinalizer.
finalize(r) ==
    /\ call[r] = "delete"
    /\ \/ NoFault /\ r \in remote /\ Empty(r)
          /\ Drop(r) /\ GoTo(r, "unfinalize")
       \/ NoFault /\ r \in remote /\ ~Empty(r)
          /\ OnRefusedDelete(r) /\ UNCHANGED server
       \/ NoFault /\ r \notin remote /\ UNCHANGED server             \* 404
          /\ IF NotFoundIsDone(r) THEN GoTo(r, "unfinalize") ELSE Finish(r, TRUE)
       \/ Fault("reply") /\ Empty(r)
          /\ Drop(r) /\ Finish(r, TRUE)
       \/ Fault("call") /\ Finish(r, TRUE) /\ UNCHANGED server
    /\ UNCHANGED <<cr, conn, history>>

\* removeFinalizer, after the DELETE or without one.  Ours is the last
\* finalizer: the object is gone.
removeFinalizer(r) ==
    /\ call[r] \in {"unfinalize", "drop"}
    /\ \/ WriteOk(r, NoObject) /\ Finish(r, FALSE)
       \/ WriteErr(r, NoObject) /\ Finish(r, TRUE)
    /\ UNCHANGED <<conn, server, history>>

Reconcile(r) ==
    \/ ensureFinalizer(r) \/ loadRemote(r) \/ createRemote(r) \/ updateRemote(r)
    \/ WriteReadyStatus(r) \/ WriteNotReadyStatus(r)
    \/ finalize(r) \/ removeFinalizer(r)

-----------------------------------------------------------------------------
(* The rest of the system.  An event of a resource puts its own request in *)
(* the queue; no event of a parent puts a child's.                         *)

\* A user changes r: whatever a running pass holds is no longer the newest.
UserWrites(r, o) ==
    /\ Store(r, o)
    /\ current' = [ current EXCEPT ![r] = FALSE ]
    /\ queued' = queued \cup {r}
    /\ UNCHANGED <<call, conn, server, history>>

Apply(r) ==
    /\ ~cr[r].exists
    /\ UserWrites(r, [ NoObject EXCEPT !.exists = TRUE ])
    /\ NoFault

EditSpec(r) ==
    /\ cr[r].exists /\ ~cr[r].deleting
    /\ Fault("edit")
    /\ UserWrites(r, cr[r])

Delete(r) ==
    /\ cr[r].exists /\ ~cr[r].deleting
    /\ UserWrites(r, IF cr[r].finalizer
                     THEN [ cr[r] EXCEPT !.deleting = TRUE ] ELSE NoObject)
    /\ NoFault

\* The connection or its Secret is deleted, or it stops being Ready.
ConnectionDegrades ==
    /\ Fault("connection")
    /\ conn' \in Connections \ {conn, "ready"}
    /\ lost' = (lost \/ conn' = "unreachable")
    /\ UNCHANGED <<cr, queued, call, current, server, tampered>>

\* What is missing turns up, or the connection's own reconciler sets Ready.
ConnectionRecovers ==
    /\ conn # "ready"
    /\ conn' \in {"notReady", "ready"} \ {conn}
    /\ UNCHANGED <<cr, queued, call, current, server, faults, history>>

\* Somebody else creates or deletes an object through the Polaris API.
ServerChange(r) ==
    /\ Fault("server")
    /\ \/ r \notin remote /\ ParentThere(r)
          /\ remote' = remote \cup {r} /\ UNCHANGED made
       \/ r \in remote /\ Empty(r) /\ Drop(r)
    /\ tampered' = TRUE
    /\ UNCHANGED <<cr, queued, call, current, conn, lost>>

\* The operator restarts: every existing object is a creation event.
Restart ==
    /\ Fault("crash")
    /\ call' = [ r \in Resources |-> "idle" ]
    /\ current' = [ r \in Resources |-> FALSE ]
    /\ queued' = { r \in Resources : cr[r].exists }
    /\ UNCHANGED <<cr, conn, server, history>>

Environment ==
    \/ \E r \in Resources : Apply(r) \/ EditSpec(r) \/ Delete(r) \/ ServerChange(r)
    \/ ConnectionDegrades \/ ConnectionRecovers \/ Restart

\* Nothing has been applied and the server has none of the objects: what it
\* already has when a resource is applied comes from ServerChange.
Init ==
    /\ cr = [ r \in Resources |-> NoObject ]
    /\ queued = {}
    /\ call = [ r \in Resources |-> "idle" ]
    /\ current = [ r \in Resources |-> FALSE ]
    /\ conn \in Connections
    /\ remote = {} /\ made = {}
    /\ faults = 0
    /\ lost = FALSE /\ tampered = FALSE

Next == (\E r \in Resources : Begin(r) \/ Reconcile(r)) \/ Environment

Spec == Init /\ [][Next]_vars

\* The operator runs.  A work queue is first in, first out, so a request that
\* is there whenever its worker is free gets its turn.
OperatorFairness ==
    \A r \in Resources : SF_vars(Begin(r)) /\ WF_vars(Reconcile(r))

FairSpec == Spec /\ OperatorFairness
=============================================================================
