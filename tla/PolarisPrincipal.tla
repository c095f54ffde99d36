-------------------------- MODULE PolarisPrincipal --------------------------
(***************************************************************************)
(* The PolarisPrincipal reconciler (internal/controller/                   *)
(* polarisprincipal_controller.go) driving one custom resource against a   *)
(* Polaris server.                                                         *)
(*                                                                         *)
(* One pass of Reconcile is cut at every call that leaves the process (a   *)
(* read or write of the Kubernetes API, a request to Polaris), because     *)
(* everything else in the system can move there: the user edits or deletes *)
(* the resource, the informer cache catches up, the connection comes and   *)
(* goes, somebody else uses the Polaris API, a call fails before or after  *)
(* taking effect, the operator restarts.                                   *)
(*                                                                         *)
(* Abstractions.  An object's resourceVersion is never a number: what a    *)
(* write needs to know is whether a copy is still the newest version       *)
(* (cacheCurrent, ppCurrent, secretSeen).  A credential is never a value   *)
(* either: what a reader of the Secret needs to know is whether it holds   *)
(* the credential that the server issued last ("current") or one that was  *)
(* replaced ("stale").  A spec is its rotation flag and its property bag;  *)
(* the four error reasons of a Ready=False condition are one, "Failed".    *)
(*                                                                         *)
(* An operator named <definition>_<Variant> is a wrong variant of that     *)
(* definition: no action uses it, it shows what a property rules out.      *)
(***************************************************************************)
EXTENDS Naturals

CONSTANTS
    Props,      \* the property bags a spec, or the server, can hold
    MaxGen,     \* bound: the last generation a spec edit may create
    MaxFaults,  \* bound: how many faults and outside interventions happen
    Faults      \* which kinds of them are possible

FaultKinds ==
    { "call",        \* a call fails before it takes effect
      "reply",       \* a call takes effect, the caller sees an error
      "crash",       \* the operator restarts
      "connection",  \* the PolarisConnection degrades
      "server",      \* somebody else changes the principal on the server
      "secret" }     \* somebody deletes the generated Secret

ASSUME PrincipalAssumption ==
    /\ Props # {}
    /\ MaxGen \in Nat \ {0}
    /\ MaxFaults \in Nat
    /\ Faults \subseteq FaultKinds

VARIABLES
    cr,            \* the PolarisPrincipal in the API server
    cache,         \* the informer's copy of it, which r.Get reads
    cacheCurrent,  \* cache has cr's resourceVersion
    queued,        \* the request is in the work queue (due or backing off)
    pc,            \* the call Reconcile makes next; "idle" between passes
    pp,            \* Reconcile's copy of the resource
    ppCurrent,     \* pp has cr's resourceVersion
    justCreated,   \* Reconcile's local of the same name
    creds,         \* the credentials Reconcile holds in memory
    seenCurrent,   \* the entityVersion Reconcile read is the server's
    conn,          \* the PolarisConnection and its credentials Secret
    remote,        \* the principal on the Polaris server
    secret,        \* the generated credentials Secret
    secretSeen,    \* the informer's copy of it has its resourceVersion
    faults,        \* faults and outside interventions so far
    \* History, read by properties only:
    freshFor,      \* generations for which the operator had a credential issued
    credLost,      \* the last credential issued to the operator was dropped
    tampered,      \* somebody else changed the principal or the Secret
    dropped        \* the finalizer was removed without reaching the server

apiVars == <<cr, cache, cacheCurrent>>
locals  == <<pp, ppCurrent, justCreated, creds, seenCurrent>>
world   == <<conn, remote, secret, secretSeen>>
history == <<freshFor, credLost, tampered, dropped>>
vars    == <<apiVars, queued, pc, locals, world, faults, history>>

Generations == 0..MaxGen + 1

Readiness == {"None", "Ready", "DependencyNotReady", "Failed"}

Objects ==
    [ exists    : BOOLEAN,
      gen       : Generations,     \* metadata.generation
      deleting  : BOOLEAN,         \* metadata.deletionTimestamp is set
      finalizer : BOOLEAN,         \* PolarisFinalizer is present
      rotate    : BOOLEAN,         \* spec.credentialRotationRequired
      props     : Props,           \* spec.properties
      obs       : Generations,     \* status.observedGeneration
      ready     : Readiness,       \* Ready: True iff "Ready", else its reason
      readyGen  : Generations,     \* Ready's observedGeneration
      syncedGen : Generations,     \* Synced=True's observedGeneration, or 0
      written   : {"None", "True", "False"} ]   \* CredentialsWritten

AnyProps == CHOOSE p \in Props : TRUE

NoObject ==
    [ exists |-> FALSE, gen |-> 0, deleting |-> FALSE, finalizer |-> FALSE,
      rotate |-> FALSE, props |-> AnyProps, obs |-> 0, ready |-> "None",
      readyGen |-> 0, syncedGen |-> 0, written |-> "None" ]

\* A resource as the user applies it.
Applied(r, p) ==
    [ NoObject EXCEPT !.exists = TRUE, !.gen = 1, !.rotate = r, !.props = p ]

Principals == [ exists : BOOLEAN, props : Props, mine : BOOLEAN ]

NoPrincipal == [ exists |-> FALSE, props |-> AnyProps, mine |-> FALSE ]

\* Unreachable: the connection, its credentials Secret or its CA Secret is
\* missing, so getConnection or the client builder fails.
Connections == {"unreachable", "notReady", "ready"}

-----------------------------------------------------------------------------
(* Faults, and the Kubernetes API as a client sees it.                     *)

NoFault == UNCHANGED faults

Fault(kind) ==
    /\ kind \in Faults
    /\ faults < MaxFaults
    /\ faults' = faults + 1

\* A new version of the resource is stored; the cache has yet to hear of it.
Store(o) ==
    /\ cr' = o
    /\ cacheCurrent' = (cacheCurrent /\ o = cr)
    /\ UNCHANGED cache

\* An Update or Status().Update of pp that the API server accepts.  Update
\* carries pp's resourceVersion: optimistic concurrency refuses any other.
WriteOk_NoConflictCheck(o) == cr.exists /\ NoFault /\ Store(o)
WriteOk(o) == ppCurrent /\ NoFault /\ Store(o)

\* An Update that returns an error: a conflict or NotFound, a failure, or a
\* write that was applied but whose answer was lost.
WriteErr(o) ==
    \/ ~ppCurrent /\ NoFault /\ UNCHANGED apiVars
    \/ Fault("call") /\ UNCHANGED apiVars
    \/ Fault("reply") /\ ppCurrent /\ Store(o)

\* The status subresource: spec and metadata of the stored object stay.
WithStatusOf(o, p) ==
    [ o EXCEPT !.obs = p.obs, !.ready = p.ready, !.readyGen = p.readyGen,
               !.syncedGen = p.syncedGen, !.written = p.written ]

-----------------------------------------------------------------------------
(* Control flow of Reconcile.                                              *)

GoTo(call) == pc' = call /\ UNCHANGED queued

\* Reconcile returns; an error or a requeue puts the request back.
Finish(requeue) ==
    /\ pc' = "idle"
    /\ queued' = (queued \/ requeue)
    /\ pp' = NoObject /\ ppCurrent' = FALSE
    /\ justCreated' = FALSE /\ creds' = "nil" /\ seenCurrent' = FALSE

setNotReady(o, reason) == [ o EXCEPT !.ready = reason, !.readyGen = o.gen ]

\* setNotReady, then pp.Status.ObservedGeneration = pp.Generation.
Failed(o) == [ setNotReady(o, "Failed") EXCEPT !.obs = o.gen ]

\* The status of a pass that ran to its end.
Reconciled(o) ==
    [ o EXCEPT !.obs = o.gen, !.syncedGen = o.gen,
               !.ready = "Ready", !.readyGen = o.gen ]

driftsFrom_OncePerGeneration(o, current) ==
    current.props # o.props /\ o.obs < o.gen
driftsFrom(o, current) == current.props # o.props

\* The rotation test at the end of the create/update branch.
AfterSync_RotateAlways(created) ==
    IF pp.rotate /\ pp.obs < pp.gen THEN "rotate" ELSE "status"
AfterSync(created) ==
    IF ~created /\ pp.rotate /\ pp.obs < pp.gen THEN "rotate" ELSE "status"

AfterGate_NoFinalizer(o) == IF o.deleting THEN "delete" ELSE "get"
AfterGate(o) ==
    IF o.deleting THEN "delete" ELSE IF o.finalizer THEN "get" ELSE "finalizer"

\* Reconcile starts: r.Get from the cache.
Begin ==
    /\ pc = "idle" /\ queued
    /\ queued' = FALSE
    /\ cache.exists
    /\ pp' = cache /\ ppCurrent' = cacheCurrent
    /\ pc' = "resolve"
    /\ UNCHANGED <<justCreated, creds, seenCurrent>>
    /\ UNCHANGED <<apiVars, world, faults, history>>

\* r.Get answers NotFound: nothing to do.
BeginNotFound ==
    /\ pc = "idle" /\ queued
    /\ queued' = FALSE
    /\ ~cache.exists
    /\ UNCHANGED <<apiVars, pc, locals, world, faults, history>>

\* getConnection or the client builder fails: on the deletion path the
\* finalizer is dropped, otherwise the failure goes to the status.
resolveFail ==
    /\ pc = "resolve" /\ conn = "unreachable"
    /\ IF pp.deleting
       THEN GoTo("drop") /\ UNCHANGED pp
       ELSE GoTo("report") /\ pp' = Failed(pp)
    /\ UNCHANGED <<ppCurrent, justCreated, creds, seenCurrent>>
    /\ UNCHANGED <<apiVars, world, faults, history>>

\* waitForDependency requeues after dependencyRequeueAfter, without an error.
dependencyRequeue_Never == FALSE
dependencyRequeue == TRUE

\* waitForDependency, up to its status write: skipped when it is in place.
waitForDependency ==
    /\ pc = "resolve" /\ conn = "notReady" /\ ~pp.deleting
    /\ \/ /\ pp.ready = "DependencyNotReady" /\ pp.readyGen = pp.gen
          /\ Finish(dependencyRequeue)
       \/ /\ ~(pp.ready = "DependencyNotReady" /\ pp.readyGen = pp.gen)
          /\ GoTo("wait")
          /\ pp' = setNotReady(pp, "DependencyNotReady")
          /\ UNCHANGED <<ppCurrent, justCreated, creds, seenCurrent>>
    /\ UNCHANGED <<apiVars, world, faults, history>>

\* The connection is reachable, and Ready unless the resource is going away.
ConnectionResolved ==
    /\ pc = "resolve" /\ conn # "unreachable"
    /\ pp.deleting \/ conn = "ready"
    /\ GoTo(AfterGate(pp))
    /\ UNCHANGED <<apiVars, locals, world, faults, history>>

\* ensureFinalizer adds the finalizer and requeues.
ensureFinalizer ==
    /\ pc = "finalizer"
    /\ LET o == [ cr EXCEPT !.finalizer = TRUE ]
       IN  WriteOk(o) \/ WriteErr(o)
    /\ Finish(TRUE)
    /\ UNCHANGED <<world, history>>

\* waitForDependency's status write; only a write that fails is an error.
WriteWaitStatus ==
    /\ pc = "wait"
    /\ LET o == WithStatusOf(cr, pp)
       IN  \/ WriteOk(o) /\ Finish(dependencyRequeue)
           \/ WriteErr(o) /\ Finish(TRUE)
    /\ UNCHANGED <<world, history>>

\* The status write of every failing path.  Its own error is only logged, and
\* the pass returns the error it reports: a requeue either way.
WriteFailedStatus ==
    /\ pc = "report"
    /\ LET o == WithStatusOf(cr, pp)
       IN  WriteOk(o) \/ WriteErr(o)
    /\ Finish(TRUE)
    /\ UNCHANGED <<world, history>>

\* The status write that ends a successful pass; Reconcile returns its error.
WriteReadyStatus ==
    /\ pc = "status"
    /\ LET o == WithStatusOf(cr, Reconciled(pp))
       IN  \/ WriteOk(o) /\ Finish(FALSE)
           \/ WriteErr(o) /\ Finish(TRUE)
    /\ UNCHANGED <<world, history>>

-----------------------------------------------------------------------------
(* Calls to Polaris.                                                       *)

\* A call has no effect and Reconcile sees an error.  Over a connection that is
\* not Ready (its credentials rejected, its server down) the client still
\* builds and any call may fail, as often as one is made.
CallFails ==
    \/ Fault("call")
    \/ conn = "notReady" /\ NoFault

\* The server issues a credential; the one in the Secret is no longer it.
Issue ==
    secret' = IF secret = "current" THEN "stale" ELSE secret

getPrincipal ==
    /\ pc = "get"
    /\ \/ ~remote.exists /\ NoFault                              \* 404
          /\ justCreated' = TRUE
          /\ GoTo("create") /\ UNCHANGED <<pp, seenCurrent>>
       \/ remote.exists /\ NoFault
          /\ seenCurrent' = TRUE
          /\ GoTo(IF driftsFrom(pp, remote) THEN "update" ELSE AfterSync(FALSE))
          /\ UNCHANGED <<pp, justCreated>>
       \/ CallFails
          /\ pp' = Failed(pp)
          /\ GoTo("report") /\ UNCHANGED <<justCreated, seenCurrent>>
    /\ UNCHANGED <<ppCurrent, creds>>
    /\ UNCHANGED <<apiVars, world, history>>

\* The server's side of a create it accepts.
PostPrincipal ==
    /\ ~remote.exists
    /\ remote' = [ exists |-> TRUE, props |-> pp.props, mine |-> TRUE ]
    /\ Issue
    /\ freshFor' = freshFor \cup {pp.gen}

\* createPrincipal.  A 409, like a success whose answer has no JSON body,
\* yields nil credentials, which the caller hands to writeCredentialsSecret.
createPrincipal ==
    /\ pc = "create"
    /\ \/ /\ NoFault /\ PostPrincipal
          /\ creds' = "current"
          /\ GoTo("secret") /\ UNCHANGED <<pp, credLost>>
       \/ /\ NoFault /\ remote.exists                            \* 409
          /\ GoTo("secret")
          /\ UNCHANGED <<pp, creds, remote, secret, freshFor, credLost>>
       \/ /\ Fault("reply") /\ PostPrincipal
          /\ credLost' = TRUE
          /\ \/ GoTo("secret") /\ UNCHANGED pp
             \/ GoTo("report") /\ pp' = Failed(pp)
          /\ UNCHANGED creds
       \/ /\ CallFails
          /\ pp' = Failed(pp)
          /\ GoTo("report")
          /\ UNCHANGED <<creds, remote, secret, freshFor, credLost>>
    /\ UNCHANGED <<ppCurrent, justCreated, seenCurrent>>
    /\ UNCHANGED <<apiVars, conn, secretSeen, tampered, dropped>>

\* writeCredentialsSecret's guard on what Polaris returned.
CredentialsReturned_Unchecked == TRUE
CredentialsReturned == creds # "nil"

\* The mutate function of CreateOrUpdate: the Secret's data, old or absent,
\* becomes the new credentials.
CreateOrUpdate_CreateOnly(old, new) == IF old = "absent" THEN new ELSE old
CreateOrUpdate(old, new) == new

\* How Reconcile records a failing writeCredentialsSecret: the create branch
\* stamps the generation and Ready, the rotation branch does neither.
SecretFailed(o) ==
    IF justCreated
    THEN [ Failed(o) EXCEPT !.written = "False" ]
    ELSE [ o EXCEPT !.written = "False" ]

\* writeCredentialsSecret in either branch.  CreateOrUpdate reads the Secret
\* from the informer's cache: from an old copy it creates a Secret that
\* exists, or updates one that has changed or gone, and is refused.
writeCredentialsSecret ==
    /\ pc = "secret"
    /\ \/ /\ CredentialsReturned /\ secretSeen /\ NoFault
          /\ secret' = CreateOrUpdate(secret, creds)
          /\ secretSeen' = FALSE /\ credLost' = FALSE
          /\ pp' = IF justCreated THEN [ pp EXCEPT !.written = "True" ] ELSE pp
          /\ GoTo(IF justCreated THEN AfterSync(justCreated) ELSE "status")
       \/ /\ CredentialsReturned /\ secretSeen /\ Fault("reply")
          /\ secret' = CreateOrUpdate(secret, creds)
          /\ secretSeen' = FALSE /\ credLost' = FALSE
          /\ pp' = SecretFailed(pp)
          /\ GoTo("report")
       \/ /\ CredentialsReturned /\ ((~secretSeen /\ NoFault) \/ Fault("call"))
          /\ credLost' = TRUE
          /\ pp' = SecretFailed(pp)
          /\ GoTo("report") /\ UNCHANGED <<secret, secretSeen>>
       \/ /\ ~CredentialsReturned /\ NoFault
          /\ pp' = SecretFailed(pp)
          /\ GoTo("report") /\ UNCHANGED <<secret, secretSeen, credLost>>
    /\ UNCHANGED <<ppCurrent, justCreated, creds, seenCurrent>>
    /\ UNCHANGED <<apiVars, conn, remote, freshFor, tampered, dropped>>

\* updatePrincipal: the PUT carries the entityVersion of the GET, and the
\* server refuses it when the principal changed or went away since.
updatePrincipal ==
    /\ pc = "update"
    /\ \/ /\ NoFault /\ seenCurrent
          /\ remote' = [ remote EXCEPT !.props = pp.props ]
          /\ GoTo(AfterSync(FALSE)) /\ UNCHANGED pp
       \/ /\ NoFault /\ ~seenCurrent
          /\ pp' = Failed(pp)
          /\ GoTo("report") /\ UNCHANGED remote
       \/ /\ Fault("reply") /\ seenCurrent
          /\ remote' = [ remote EXCEPT !.props = pp.props ]
          /\ pp' = Failed(pp)
          /\ GoTo("report")
       \/ /\ CallFails
          /\ pp' = Failed(pp)
          /\ GoTo("report") /\ UNCHANGED remote
    /\ UNCHANGED <<ppCurrent, justCreated, creds, seenCurrent>>
    /\ UNCHANGED <<apiVars, conn, secret, secretSeen, history>>

\* rotateCredentials.  An error leaves observedGeneration alone; a success
\* whose answer has no JSON body skips the Secret and carries on.
rotateCredentials ==
    /\ pc = "rotate"
    /\ \/ /\ NoFault /\ remote.exists
          /\ Issue
          /\ freshFor' = freshFor \cup {pp.gen}
          /\ creds' = "current"
          /\ GoTo("secret") /\ UNCHANGED <<pp, credLost>>
       \/ /\ Fault("reply") /\ remote.exists
          /\ Issue
          /\ freshFor' = freshFor \cup {pp.gen}
          /\ credLost' = TRUE
          /\ \/ GoTo("status") /\ UNCHANGED pp
             \/ GoTo("report") /\ pp' = setNotReady(pp, "Failed")
          /\ UNCHANGED creds
       \/ /\ \/ NoFault /\ ~remote.exists                        \* 404
             \/ CallFails
          /\ pp' = setNotReady(pp, "Failed")
          /\ GoTo("report")
          /\ UNCHANGED <<creds, secret, freshFor, credLost>>
    /\ UNCHANGED <<ppCurrent, justCreated, seenCurrent>>
    /\ UNCHANGED <<apiVars, conn, remote, secretSeen, tampered, dropped>>

\* finalize accepts any status below 400, and a 404.
DeleteAccepted_404Fails == remote.exists
DeleteAccepted == TRUE

\* finalize, up to removeFinalizer.  It runs over any connection the client
\* builds for, so a DELETE may fail on every pass while that is not Ready.
finalize ==
    /\ pc = "delete"
    /\ \/ /\ NoFault /\ DeleteAccepted
          /\ remote' = NoPrincipal
          /\ GoTo("unfinalize") /\ UNCHANGED locals
       \/ /\ NoFault /\ ~DeleteAccepted
          /\ Finish(TRUE) /\ UNCHANGED remote
       \/ /\ Fault("reply")
          /\ remote' = NoPrincipal
          /\ Finish(TRUE)
       \/ /\ CallFails
          /\ Finish(TRUE) /\ UNCHANGED remote
    /\ UNCHANGED <<apiVars, conn, secret, secretSeen, history>>

\* removeFinalizer, from finalize ("unfinalize") or from resolveFail
\* ("drop").  Ours is the last finalizer: without it the object is gone.
removeFinalizer ==
    /\ pc \in {"unfinalize", "drop"}
    /\ \/ WriteOk(NoObject) /\ Finish(FALSE)
       \/ WriteErr(NoObject) /\ Finish(TRUE)
    /\ dropped' = (dropped \/ (pc = "drop" /\ cr' # cr))
    /\ UNCHANGED <<world, freshFor, credLost, tampered>>

-----------------------------------------------------------------------------
(* The rest of the system.                                                 *)

\* The informer delivers.  GenerationChangedPredicate lets creations,
\* deletions and changes of generation through to the work queue.
CacheSync ==
    /\ ~cacheCurrent
    /\ cache' = cr /\ cacheCurrent' = TRUE
    /\ queued' = (queued \/ cache.exists # cr.exists \/ cache.gen # cr.gen)
    /\ UNCHANGED <<cr, pc, locals, world, faults, history>>

\* The user edits the spec: the API server moves the generation on.
EditSpec(rotate, props) ==
    /\ cr.exists /\ ~cr.deleting /\ cr.gen < MaxGen
    /\ rotate # cr.rotate \/ props # cr.props
    /\ Store([ cr EXCEPT !.rotate = rotate, !.props = props, !.gen = @ + 1 ])
    /\ ppCurrent' = FALSE
    /\ UNCHANGED <<queued, pc, pp, justCreated, creds, seenCurrent>>
    /\ UNCHANGED <<world, faults, history>>

\* The user deletes the resource: it stays, deleting, while a finalizer does.
DeleteResource ==
    /\ cr.exists /\ ~cr.deleting
    /\ Store(IF cr.finalizer
             THEN [ cr EXCEPT !.deleting = TRUE, !.gen = @ + 1 ]
             ELSE NoObject)
    /\ ppCurrent' = FALSE
    /\ UNCHANGED <<queued, pc, pp, justCreated, creds, seenCurrent>>
    /\ UNCHANGED <<world, faults, history>>

\* The informer delivers the Secret's new version: the reconciler owns the
\* Secret, so the event is one for its resource.
SecretSync ==
    /\ ~secretSeen
    /\ secretSeen' = TRUE
    /\ queued' = TRUE
    /\ UNCHANGED <<apiVars, pc, locals, conn, remote, secret, faults, history>>

\* Somebody deletes the Secret.
DeleteSecret ==
    /\ secret # "absent" /\ Fault("secret")
    /\ secret' = "absent" /\ secretSeen' = FALSE
    /\ tampered' = TRUE
    /\ UNCHANGED <<apiVars, queued, pc, locals, conn, remote>>
    /\ UNCHANGED <<freshFor, credLost, dropped>>

\* Kubernetes collects the Secret some time after the resource that controls it
\* (SetControllerReference) has gone, whichever way that went.
CollectSecret ==
    /\ ~cr.exists /\ secret # "absent"
    /\ secret' = "absent" /\ secretSeen' = FALSE
    /\ UNCHANGED <<apiVars, queued, pc, locals, conn, remote, faults, history>>

\* The connection or its Secret is deleted, or it stops being Ready.
ConnectionDegrades ==
    /\ Fault("connection")
    /\ conn' \in Connections \ {conn, "ready"}
    /\ UNCHANGED <<apiVars, queued, pc, locals, remote, secret, secretSeen, history>>

\* What was missing turns up, or the connection's own reconciler sets Ready.
ConnectionRecovers ==
    /\ conn # "ready"
    /\ conn' \in {"notReady", "ready"} \ {conn}
    /\ UNCHANGED <<apiVars, queued, pc, locals, remote, secret, secretSeen>>
    /\ UNCHANGED <<faults, history>>

\* Somebody else creates, deletes, updates or rotates the principal.
ServerChange ==
    /\ Fault("server")
    /\ \/ ~remote.exists /\ Issue /\ UNCHANGED creds
          /\ \E p \in Props :
                remote' = [ exists |-> TRUE, props |-> p, mine |-> FALSE ]
       \/ remote.exists /\ remote' = NoPrincipal /\ UNCHANGED <<secret, creds>>
       \/ remote.exists /\ UNCHANGED <<secret, creds>>
          /\ \E p \in Props \ {remote.props} :
                remote' = [ remote EXCEPT !.props = p ]
       \/ remote.exists /\ Issue /\ UNCHANGED remote
          /\ creds' = IF creds = "current" THEN "stale" ELSE creds
    /\ tampered' = TRUE
    /\ seenCurrent' = FALSE
    /\ UNCHANGED <<apiVars, queued, pc, pp, ppCurrent, justCreated>>
    /\ UNCHANGED <<conn, secretSeen, freshFor, credLost, dropped>>

\* The operator restarts: the locals die with it, the informer lists afresh
\* and every existing object is a creation event.
Restart ==
    /\ Fault("crash")
    /\ pc' = "idle" /\ pp' = NoObject /\ ppCurrent' = FALSE
    /\ justCreated' = FALSE /\ creds' = "nil" /\ seenCurrent' = FALSE
    /\ queued' = cr.exists
    /\ cache' = cr /\ cacheCurrent' = TRUE /\ secretSeen' = TRUE
    /\ credLost' = (credLost \/ (pc = "secret" /\ creds # "nil"))
    /\ UNCHANGED <<cr, conn, remote, secret, freshFor, tampered, dropped>>

-----------------------------------------------------------------------------

Reconcile ==
    \/ resolveFail \/ waitForDependency \/ ConnectionResolved
    \/ ensureFinalizer \/ WriteWaitStatus \/ WriteFailedStatus
    \/ WriteReadyStatus
    \/ getPrincipal \/ createPrincipal \/ writeCredentialsSecret
    \/ updatePrincipal \/ rotateCredentials
    \/ finalize \/ removeFinalizer

Environment ==
    \/ \E rotate \in BOOLEAN, props \in Props : EditSpec(rotate, props)
    \/ DeleteResource \/ DeleteSecret \/ CollectSecret
    \/ ConnectionDegrades \/ ConnectionRecovers
    \/ ServerChange \/ Restart

\* The resource was just applied; the server may already know a principal of
\* its name, and the connection may be in any state.
Init ==
    /\ \E r \in BOOLEAN, p \in Props : cr = Applied(r, p)
    /\ cache = NoObject /\ cacheCurrent = FALSE
    /\ queued = FALSE
    /\ pc = "idle" /\ pp = NoObject /\ ppCurrent = FALSE
    /\ justCreated = FALSE /\ creds = "nil" /\ seenCurrent = FALSE
    /\ conn \in Connections
    /\ remote \in { NoPrincipal,
                    [ exists |-> TRUE, props |-> AnyProps, mine |-> FALSE ] }
    /\ secret = "absent" /\ secretSeen = TRUE
    /\ faults = 0
    /\ freshFor = {} /\ credLost = FALSE /\ tampered = FALSE /\ dropped = FALSE

Next ==
    Begin \/ BeginNotFound \/ Reconcile \/ CacheSync \/ SecretSync \/ Environment

Spec == Init /\ [][Next]_vars

\* The operator runs: the informer delivers, the work queue hands out what it
\* holds, and a pass that started makes its next call.
OperatorFairness ==
    /\ WF_vars(CacheSync) /\ WF_vars(SecretSync)
    /\ WF_vars(Begin \/ BeginNotFound)
    /\ WF_vars(Reconcile)

FairSpec == Spec /\ OperatorFairness
=============================================================================
