---------------------------- MODULE PolarisAccess ----------------------------
(***************************************************************************)
(* The reconcilers that give access: bindings of a principal to a          *)
(* principal role and of a principal role to a catalog role, and grants of *)
(* a privilege on something to a catalog role.  Each ties entities         *)
(* together that other reconcilers look after, and all it knows of these   *)
(* is what PolarisResource says.                                           *)
(*                                                                         *)
(* The three Reconcile functions have one control flow: resolve, wait,     *)
(* finalizer, one idempotent PUT, status; or resolve, one revocation,      *)
(* finalizer.  As in PolarisHierarchy, whose conventions this module       *)
(* keeps, a pass is cut at every call that leaves the process and the      *)
(* reads it starts with are one step.  An access is the set of the         *)
(* entities it ties together; the privilege of a grant is left out.        *)
(***************************************************************************)
EXTENDS Naturals

CONSTANTS
    Entities,    \* principals, roles, and what privileges are granted on
    EntityKind,  \* EntityKind[e]: the kind of an entity
    Bindings,    \* the resources that give access
    Kind,        \* Kind[b]: the kind of such a resource
    Specs,       \* Specs[b]: the accesses its spec may name
    Before,      \* the entities the server may know before the operator comes
    MaxFaults,   \* bound: how many faults and outside interventions happen
    Faults       \* which kinds of them are possible

Kinds == { "principalRoleBinding", "catalogRoleBinding", "grant" }

EntityKinds == { "principal", "principalRole", "catalogRole", "securable" }

FaultKinds ==
    { "call",        \* a call fails before it takes effect
      "reply",       \* a call takes effect, the caller sees an error
      "crash",       \* the operator restarts
      "edit",        \* the user makes a binding name another access
      "connection",  \* the PolarisConnection or its Secret is deleted
      "server" }     \* somebody else uses the Polaris API

ASSUME AccessAssumption ==
    /\ Kind \in [Bindings -> Kinds]
    /\ EntityKind \in [Entities -> EntityKinds]
    /\ Specs \in [Bindings -> SUBSET ((SUBSET Entities) \ {{}})]
    /\ Before \subseteq Entities
    /\ MaxFaults \in Nat
    /\ Faults \subseteq FaultKinds

VARIABLES
    ent,        \* ent[e]: an entity, as PolarisResource has it
    cr,         \* cr[b]: the binding or grant in the API server
    queued,     \* those whose request is in a work queue
    call,       \* call[b]: the call b's Reconcile makes next, or "idle"
    aim,        \* aim[b]: the access that b's pass read in the spec
    current,    \* current[b]: Reconcile's copy has b's resourceVersion
    reachable,  \* the connection and its Secret exist
    access,     \* the accesses given on the server
    faults,     \* faults and outside interventions so far
    \* History, read by properties only:
    lost,       \* the connection was reachable and then was not
    tampered,   \* somebody else used the Polaris API
    edited,     \* a binding was made to name another access
    taken       \* an access went that some other binding still names

operator == <<cr, queued, call, aim, current>>
history  == <<lost, tampered, edited, taken>>
vars     == <<ent, operator, reachable, access, faults, history>>

NoAccess == {}

Accesses == UNION { Specs[b] : b \in Bindings }

EntityStates ==
    [ stage : { "absent", "applied", "guarded", "doomed" },
      ready : BOOLEAN, there : BOOLEAN ]

\* Only what has the finalizer can be deleting, and only that is ever Ready.
Objects ==
    { o \in [ exists : BOOLEAN, deleting : BOOLEAN, finalizer : BOOLEAN,
              ready : BOOLEAN, spec : Accesses \cup {NoAccess} ] :
        /\ o.deleting \/ o.ready => o.finalizer
        /\ o.finalizer => o.exists
        /\ o.exists <=> o.spec # NoAccess }

NoObject ==
    [ exists |-> FALSE, deleting |-> FALSE, finalizer |-> FALSE,
      ready |-> FALSE, spec |-> NoAccess ]

Unguarded(a) ==
    [ exists |-> TRUE, deleting |-> FALSE, finalizer |-> FALSE,
      ready |-> FALSE, spec |-> a ]

Calls ==
    { "idle", "finalizer", "assign", "ready", "notReady", "revoke",
      "unfinalize", "drop" }

Entity(e) ==
    INSTANCE PolarisResource
        WITH stage <- ent[e].stage, ready <- ent[e].ready,
             there <- ent[e].there, outside <- lost \/ tampered

-----------------------------------------------------------------------------
NoFault == UNCHANGED faults

Fault(kind) ==
    /\ kind \in Faults
    /\ faults < MaxFaults
    /\ faults' = faults + 1

Store(b, o) == cr' = [ cr EXCEPT ![b] = o ]

\* An Update or Status().Update of Reconcile's copy.
WriteOk(b, o) == current[b] /\ NoFault /\ Store(b, o)

WriteErr(b, o) ==
    \/ ~current[b] /\ NoFault /\ UNCHANGED cr
    \/ Fault("call") /\ UNCHANGED cr
    \/ Fault("reply") /\ current[b] /\ Store(b, o)

GoTo(b, c) ==
    /\ call' = [ call EXCEPT ![b] = c ]
    /\ UNCHANGED <<queued, aim, current>>

\* Reconcile returns; an error or a requeue puts the request back.
Finish(b, requeue) ==
    /\ call' = [ call EXCEPT ![b] = "idle" ]
    /\ aim' = [ aim EXCEPT ![b] = NoAccess ]
    /\ current' = [ current EXCEPT ![b] = FALSE ]
    /\ queued' = IF requeue THEN queued \cup {b} ELSE queued

-----------------------------------------------------------------------------
(* What a pass reads before its first call.                                *)

\* What the ends lie in, catalogs and namespaces, resolves for certain while
\* the ends are on the server (DeletedBottomUp of PolarisHierarchy), and
\* otherwise perhaps.
AboveResolves(b, perhaps) ==
    \/ perhaps
    \/ ~lost /\ ~tampered /\ \A e \in cr[b].spec : ent[e].there

\* Every reference resolves and the client is built.
Resolves(b, perhaps) ==
    /\ \A e \in cr[b].spec : ent[e].stage # "absent"
    /\ AboveResolves(b, perhaps)
    /\ reachable

\* The ends whose Ready is awaited: a grant does not wait for its target.
Awaited(b) ==
    { e \in cr[b].spec :
        Kind[b] = "grant" => EntityKind[e] = "catalogRole" }

ParentsReady(b) == \A e \in Awaited(b) : ent[e].ready

AfterGate_NoFinalizer(b) == "assign"
AfterGate(b) == IF cr[b].finalizer THEN "assign" ELSE "finalizer"

FirstCall(b, perhaps) ==
    IF cr[b].deleting THEN (IF Resolves(b, perhaps) THEN "revoke" ELSE "drop")
    ELSE IF Resolves(b, perhaps) /\ ParentsReady(b) THEN AfterGate(b)
    ELSE "notReady"

\* Reconcile starts.  A kind has one worker.
Begin(b) ==
    /\ b \in queued
    /\ \A c \in Bindings : Kind[c] = Kind[b] => call[c] = "idle"
    /\ queued' = queued \ {b}
    /\ IF cr[b].exists
       THEN /\ \E perhaps \in BOOLEAN :
                  call' = [ call EXCEPT ![b] = FirstCall(b, perhaps) ]
            /\ aim' = [ aim EXCEPT ![b] = cr[b].spec ]
            /\ current' = [ current EXCEPT ![b] = TRUE ]
       ELSE UNCHANGED <<call, aim, current>>
    /\ UNCHANGED <<ent, cr, reachable, access, faults, history>>

-----------------------------------------------------------------------------
(* The calls of a pass.                                                    *)

ensureFinalizer(b) ==
    /\ call[b] = "finalizer"
    /\ LET o == [ cr[b] EXCEPT !.finalizer = TRUE ]
       IN  WriteOk(b, o) \/ WriteErr(b, o)
    /\ Finish(b, TRUE)
    /\ UNCHANGED <<ent, reachable, access, history>>

\* The server knows every entity that an access ties together.
Known(a) == \A e \in a : ent[e].there

\* What Reconcile does when the server does not know an end: it waits.
OnEndMissing_TakenForDone == "ready"
OnEndMissing == "notReady"

\* AssignPrincipalRole, AssignCatalogRoleToPrincipalRole,
\* AddGrantToCatalogRole: a PUT that may find the access given already.
assign(b) ==
    /\ call[b] = "assign"
    /\ \/ NoFault /\ Known(aim[b])
          /\ access' = access \cup {aim[b]} /\ GoTo(b, "ready")
       \/ NoFault /\ ~Known(aim[b])                                  \* 404
          /\ UNCHANGED access /\ GoTo(b, OnEndMissing)
       \/ Fault("reply") /\ Known(aim[b])
          /\ access' = access \cup {aim[b]} /\ GoTo(b, "notReady")
       \/ Fault("call") /\ UNCHANGED access /\ GoTo(b, "notReady")
    /\ UNCHANGED <<ent, cr, reachable, history>>

\* The status write that ends a successful pass.
WriteReadyStatus(b) ==
    /\ call[b] = "ready"
    /\ LET o == [ cr[b] EXCEPT !.ready = TRUE ]
       IN  \/ WriteOk(b, o) /\ Finish(b, FALSE)
           \/ WriteErr(b, o) /\ Finish(b, TRUE)
    /\ UNCHANGED <<ent, reachable, access, history>>

\* waitForDependency requeues, a failing pass returns its error.
requeueAfterNotReady_Never == FALSE
requeueAfterNotReady == TRUE

WriteNotReadyStatus(b) ==
    /\ call[b] = "notReady"
    /\ LET o == [ cr[b] EXCEPT !.ready = FALSE ]
       IN  \/ WriteOk(b, o) /\ Finish(b, requeueAfterNotReady)
           \/ WriteErr(b, o) /\ Finish(b, TRUE)
    /\ UNCHANGED <<ent, reachable, access, history>>

\* The server takes an access away on b's behalf.
Revoke(b) ==
    /\ access' = access \ {aim[b]}
    /\ taken' = (taken \/ \E c \in Bindings \ {b} : cr[c].spec \in access \cap {aim[b]})

\* finalize: an error, or any status from 400 on but 404, ends the pass.
OnRevokeFailed_Ignored(b) == GoTo(b, "unfinalize")
OnRevokeFailed(b) == Finish(b, TRUE)

NotFoundIsDone_Not(b) == aim[b] \in access
NotFoundIsDone(b) == TRUE

\* finalize, up to removeFinalizer.
finalize(b) ==
    /\ call[b] = "revoke"
    /\ \/ NoFault /\ aim[b] \in access /\ Revoke(b) /\ GoTo(b, "unfinalize")
       \/ NoFault /\ aim[b] \notin access /\ UNCHANGED <<access, taken>>  \* 404
          /\ IF NotFoundIsDone(b) THEN GoTo(b, "unfinalize") ELSE Finish(b, TRUE)
       \/ Fault("reply") /\ Revoke(b) /\ OnRevokeFailed(b)
       \/ Fault("call") /\ UNCHANGED <<access, taken>> /\ OnRevokeFailed(b)
    /\ UNCHANGED <<ent, cr, reachable, lost, tampered, edited>>

\* removeFinalizer, after the revocation or without one.  Ours is the last
\* finalizer: the object is gone.
removeFinalizer(b) ==
    /\ call[b] \in {"unfinalize", "drop"}
    /\ \/ WriteOk(b, NoObject) /\ Finish(b, FALSE)
       \/ WriteErr(b, NoObject) /\ Finish(b, TRUE)
    /\ UNCHANGED <<ent, reachable, access, history>>

Reconcile(b) ==
    \/ ensureFinalizer(b) \/ assign(b)
    \/ WriteReadyStatus(b) \/ WriteNotReadyStatus(b)
    \/ finalize(b) \/ removeFinalizer(b)

-----------------------------------------------------------------------------
(* The rest of the system.  No event of an entity puts a binding's request *)
(* in the queue.                                                           *)

\* With an entity that goes, the server drops every access that ties it.
AccessFollows ==
    /\ access' = { a \in access : \A e \in a : ent'[e].there }
    /\ taken' = (taken \/ access' # access)

\* The user, and the reconciler that looks after e: all that PolarisResource
\* allows but Interfere, which is ServerChange here.
EntityStep(e) ==
    /\ UNCHANGED <<operator, reachable, faults, lost, tampered, edited>>
    /\ \E n \in EntityStates : ent' = [ ent EXCEPT ![e] = n ]
    /\ \/ Entity(e)!Apply \/ Entity(e)!Guard \/ Entity(e)!Create
       \/ Entity(e)!Report \/ Entity(e)!Delete
       \/ Entity(e)!Remove \/ Entity(e)!Release
    /\ AccessFollows

\* A user changes b: whatever a running pass holds is no longer the newest.
UserWrites(b, o) ==
    /\ Store(b, o)
    /\ current' = [ current EXCEPT ![b] = FALSE ]
    /\ queued' = queued \cup {b}
    /\ UNCHANGED <<ent, call, aim, reachable, access, lost, tampered, taken>>

Apply(b) ==
    /\ ~cr[b].exists
    /\ \E a \in Specs[b] : UserWrites(b, Unguarded(a))
    /\ UNCHANGED edited
    /\ NoFault

EditSpec(b) ==
    /\ cr[b].exists /\ ~cr[b].deleting
    /\ Fault("edit")
    /\ \E a \in Specs[b] \ {cr[b].spec} :
          UserWrites(b, [ cr[b] EXCEPT !.spec = a ])
    /\ edited' = TRUE

Delete(b) ==
    /\ cr[b].exists /\ ~cr[b].deleting
    /\ UserWrites(b, IF cr[b].finalizer
                     THEN [ cr[b] EXCEPT !.deleting = TRUE ] ELSE NoObject)
    /\ UNCHANGED edited
    /\ NoFault

ConnectionGoes ==
    /\ reachable /\ Fault("connection")
    /\ reachable' = FALSE /\ lost' = TRUE
    /\ UNCHANGED <<ent, operator, access, tampered, edited, taken>>

ConnectionComes ==
    /\ ~reachable /\ reachable' = TRUE
    /\ UNCHANGED <<ent, operator, access, faults, history>>

\* Somebody else gives an access, takes one away, or creates or deletes an
\* entity.
ServerChange ==
    /\ Fault("server")
    /\ tampered' = TRUE
    /\ \/ \E a \in Accesses \ access : Known(a) /\ access' = access \cup {a}
          /\ UNCHANGED <<ent, taken>>
       \/ \E a \in access : access' = access \ {a}
          /\ taken' = TRUE /\ UNCHANGED ent
       \/ \E e \in Entities : ent' = [ ent EXCEPT ![e].there = ~@ ]
          /\ AccessFollows
    /\ UNCHANGED <<operator, reachable, lost, edited>>

\* The operator restarts: every existing object is a creation event.
Restart ==
    /\ Fault("crash")
    /\ call' = [ b \in Bindings |-> "idle" ]
    /\ aim' = [ b \in Bindings |-> NoAccess ]
    /\ current' = [ b \in Bindings |-> FALSE ]
    /\ queued' = { b \in Bindings : cr[b].exists }
    /\ UNCHANGED <<ent, cr, reachable, access, history>>

Environment ==
    \/ \E e \in Entities : EntityStep(e)
    \/ \E b \in Bindings : Apply(b) \/ EditSpec(b) \/ Delete(b)
    \/ ConnectionGoes \/ ConnectionComes \/ ServerChange \/ Restart

\* No binding has been applied.
Init ==
    /\ cr = [ b \in Bindings |-> NoObject ]
    /\ queued = {}
    /\ call = [ b \in Bindings |-> "idle" ]
    /\ aim = [ b \in Bindings |-> NoAccess ]
    /\ current = [ b \in Bindings |-> FALSE ]
    /\ reachable \in BOOLEAN
    /\ access = {}
    /\ faults = 0
    /\ lost = FALSE /\ tampered = FALSE /\ edited = FALSE /\ taken = FALSE
    /\ ent \in [Entities -> EntityStates]
    /\ \A e \in Entities : Entity(e)!Init /\ (ent[e].there => e \in Before)

Next == (\E b \in Bindings : Begin(b) \/ Reconcile(b)) \/ Environment

Spec == Init /\ [][Next]_vars

\* The operator runs; a work queue is first in, first out.
OperatorFairness ==
    \A b \in Bindings : SF_vars(Begin(b)) /\ WF_vars(Reconcile(b))

FairSpec == Spec /\ OperatorFairness
=============================================================================
