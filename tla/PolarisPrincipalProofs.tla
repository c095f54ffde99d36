----------------------- MODULE PolarisPrincipalProofs -----------------------
(***************************************************************************)
(* Safety of the principal reconciler, for any set of property bags and    *)
(* any bounds on generations and faults.                                   *)
(***************************************************************************)
EXTENDS PolarisPrincipalProperties, TLAPS

\* Only deletion takes a generation past the last edit.
GenerationBounded == cr.exists /\ ~cr.deleting => cr.gen <= MaxGen

TypeInv == TypeOK /\ GenerationBounded

\* What Reconcile does to its copy and to the stored object keeps their type.
LEMMA StatusTypes ==
    ASSUME NEW o \in Objects, NEW p \in Objects,
           NEW reason \in Readiness
    PROVE  /\ WithStatusOf(o, p) \in Objects
           /\ setNotReady(o, reason) \in Objects
           /\ Failed(o) \in Objects
           /\ Reconciled(o) \in Objects
  BY DEF Objects, Readiness, WithStatusOf, setNotReady, Failed, Reconciled

\* Two copies agree on all that the status does not hold.
SameSpec(o, p) ==
    /\ o.exists = p.exists /\ o.gen = p.gen /\ o.deleting = p.deleting
    /\ o.finalizer = p.finalizer /\ o.rotate = p.rotate /\ o.props = p.props

\* A status write, and the helpers that fill the status in, touch nothing else.
LEMMA StatusOnly ==
    ASSUME NEW o \in Objects, NEW p \in Objects, NEW reason \in Readiness
    PROVE  /\ SameSpec(WithStatusOf(o, p), o)
           /\ SameSpec(setNotReady(o, reason), o)
           /\ SameSpec(Failed(o), o)
           /\ SameSpec(Reconciled(o), o)
  BY DEF Objects, Readiness, SameSpec, WithStatusOf, setNotReady, Failed, Reconciled

\* The empty object and the empty principal are typed.
LEMMA NoObjectType == NoObject \in Objects /\ NoPrincipal \in Principals
  <1>1. AnyProps \in Props
    BY PrincipalAssumption DEF AnyProps
  <1>2. 0 \in Generations
    BY PrincipalAssumption DEF Generations
  <1>3. QED
    BY <1>1, <1>2 DEF NoObject, NoPrincipal, Objects, Principals, Readiness

\* Init gives every variable its type.
LEMMA InitType == Init => TypeInv
  <1> SUFFICES ASSUME Init PROVE TypeInv
    OBVIOUS
  <1>1. AnyProps \in Props /\ 0 \in Generations /\ 1 \in Generations
    BY PrincipalAssumption DEF AnyProps, Generations
  <1>2. cr \in Objects /\ cr.gen = 1
    <2>1. PICK r \in BOOLEAN, p \in Props : cr = Applied(r, p)
      BY DEF Init
    <2>2. QED
      BY <1>1, <2>1, NoObjectType DEF Applied, NoObject, Objects, Readiness
  <1>3. remote \in Principals
    <2>1. [ exists |-> TRUE, props |-> AnyProps, mine |-> FALSE ] \in Principals
      BY <1>1 DEF Principals
    <2>2. QED
      BY <2>1, NoObjectType DEF Init
  <1>4. TypeOK
    <2>1. faults \in 0..MaxFaults
      BY PrincipalAssumption DEF Init
    <2>2. QED
      BY <1>2, <1>3, <2>1, NoObjectType DEF Init, TypeOK, Calls
  <1>5. GenerationBounded
    BY <1>2, PrincipalAssumption DEF GenerationBounded
  <1>6. QED
    BY <1>4, <1>5 DEF TypeInv

\* An update of the resource, whichever way it ends, leaves a typed object
\* and a fault count within its bound.
LEMMA WriteTypes ==
    ASSUME TypeOK, NEW o \in Objects, WriteOk(o) \/ WriteErr(o)
    PROVE  /\ cr' \in {cr, o} /\ cache' = cache
           /\ cacheCurrent' \in BOOLEAN
           /\ faults' \in 0..MaxFaults
  <1>1. faults' \in 0..MaxFaults
    BY PrincipalAssumption DEF TypeOK, WriteOk, WriteErr, NoFault, Fault
  <1>2. cr' \in {cr, o} /\ cache' = cache /\ cacheCurrent' \in BOOLEAN
    BY DEF TypeOK, WriteOk, WriteErr, Store, apiVars
  <1>3. QED
    BY <1>1, <1>2

\* Faults are counted up to their bound.
LEMMA FaultTypes ==
    ASSUME TypeOK, NEW kind, NoFault \/ Fault(kind)
    PROVE  faults' \in 0..MaxFaults
  BY PrincipalAssumption DEF TypeOK, NoFault, Fault

\* A call that fails, over whatever connection, is counted as a fault or not.
LEMMA CallFailsCounted == CallFails => NoFault \/ Fault("call")
  BY DEF CallFails

\* The locals of a pass that has returned.
LEMMA FinishTypes ==
    ASSUME NEW requeue \in BOOLEAN, TypeOK, Finish(requeue)
    PROVE  /\ pp' \in Objects /\ ppCurrent' \in BOOLEAN /\ queued' \in BOOLEAN
           /\ pc' \in Calls /\ justCreated' \in BOOLEAN
           /\ creds' \in {"nil", "current", "stale"} /\ seenCurrent' \in BOOLEAN
  BY NoObjectType DEF Finish, TypeOK, Calls

\* Every step keeps every variable's type and the bound on generations.
LEMMA NextType == TypeInv /\ [Next]_vars => TypeInv'
  <1> SUFFICES ASSUME TypeInv, [Next]_vars PROVE TypeInv'
    OBVIOUS
  <1> USE DEF TypeInv
  <1>a. TypeOK /\ GenerationBounded
    OBVIOUS
  <1>b. /\ MaxGen \in Nat \ {0} /\ MaxFaults \in Nat
        /\ NoObject \in Objects /\ NoPrincipal \in Principals
    BY PrincipalAssumption, NoObjectType
  <1>1. CASE Begin
    <2>1. /\ pc' \in Calls /\ queued' \in BOOLEAN
          /\ pp' \in Objects /\ ppCurrent' \in BOOLEAN
      BY <1>1, <1>a DEF Begin, TypeOK, Calls
    <2>2. QED
      BY <1>1, <1>a, <2>1
      DEF Begin, TypeOK, GenerationBounded, apiVars, world, history
  <1>2. CASE BeginNotFound
    <2>1. TypeOK'
      BY <1>2, <1>a DEF BeginNotFound, TypeOK, locals, apiVars, world, history
    <2>2. GenerationBounded'
      BY <1>2, <1>a DEF BeginNotFound, GenerationBounded, apiVars
    <2>3. QED
      BY <2>1, <2>2
  <1>3. CASE resolveFail
    BY <1>3, <1>a, StatusTypes
    DEF resolveFail, TypeOK, GenerationBounded, GoTo, Calls, Readiness, apiVars, world, history
  <1>4. CASE waitForDependency
    <2>1. dependencyRequeue \in BOOLEAN /\ "DependencyNotReady" \in Readiness
      BY DEF dependencyRequeue, Readiness
    <2>2. CASE Finish(dependencyRequeue)
      BY <1>4, <1>a, <2>1, <2>2, FinishTypes
      DEF waitForDependency, TypeOK, GenerationBounded, apiVars, world, history
    <2>3. CASE ~Finish(dependencyRequeue)
      BY <1>4, <1>a, <2>1, <2>3, StatusTypes
      DEF waitForDependency, TypeOK, GenerationBounded, GoTo, Calls, apiVars, world, history
    <2>4. QED
      BY <2>2, <2>3
  <1>5. CASE ConnectionResolved
    <2>1. pc' \in Calls
      BY <1>5 DEF ConnectionResolved, GoTo, AfterGate, Calls
    <2>2. QED
      BY <1>5, <1>a, <2>1
      DEF ConnectionResolved, TypeOK, GenerationBounded, GoTo, AfterGate, locals,
          apiVars, world, history
  <1>6. CASE ensureFinalizer
    <2> DEFINE o == [ cr EXCEPT !.finalizer = TRUE ]
    <2>1. o \in Objects /\ o.gen = cr.gen /\ o.exists = cr.exists /\ o.deleting = cr.deleting
      BY <1>a DEF TypeOK, Objects
    <2>2. (WriteOk(o) \/ WriteErr(o)) /\ Finish(TRUE)
      BY <1>6 DEF ensureFinalizer
    <2> HIDE DEF o
    <2>3. cr' \in {cr, o} /\ cache' = cache /\ cacheCurrent' \in BOOLEAN /\ faults' \in 0..MaxFaults
      BY <1>a, <2>1, <2>2, WriteTypes
    <2>4. QED
      BY <1>6, <1>a, <2>1, <2>2, <2>3, FinishTypes
      DEF ensureFinalizer, TypeOK, GenerationBounded, world, history
  <1>7. CASE WriteWaitStatus \/ WriteFailedStatus
    <2> DEFINE o == WithStatusOf(cr, pp)
    <2>1. o \in Objects /\ SameSpec(o, cr)
      BY <1>a, StatusTypes, StatusOnly DEF TypeOK, Readiness
    <2>2. (WriteOk(o) \/ WriteErr(o)) /\ (Finish(TRUE) \/ Finish(dependencyRequeue))
      BY <1>7 DEF WriteWaitStatus, WriteFailedStatus
    <2> HIDE DEF o
    <2>3. cr' \in {cr, o} /\ cache' = cache /\ cacheCurrent' \in BOOLEAN /\ faults' \in 0..MaxFaults
      BY <1>a, <2>1, <2>2, WriteTypes
    <2>4. dependencyRequeue \in BOOLEAN
      BY DEF dependencyRequeue
    <2>5. QED
      BY <1>7, <1>a, <2>1, <2>2, <2>3, <2>4, FinishTypes
      DEF WriteWaitStatus, WriteFailedStatus, TypeOK, GenerationBounded, SameSpec, world, history
  <1>8. CASE WriteReadyStatus
    <2> DEFINE o == WithStatusOf(cr, Reconciled(pp))
    <2>1. o \in Objects /\ SameSpec(o, cr)
      BY <1>a, StatusTypes, StatusOnly DEF TypeOK, Readiness
    <2>2. (WriteOk(o) \/ WriteErr(o)) /\ (Finish(TRUE) \/ Finish(FALSE))
      BY <1>8 DEF WriteReadyStatus
    <2> HIDE DEF o
    <2>3. cr' \in {cr, o} /\ cache' = cache /\ cacheCurrent' \in BOOLEAN /\ faults' \in 0..MaxFaults
      BY <1>a, <2>1, <2>2, WriteTypes
    <2>4. QED
      BY <1>8, <1>a, <2>1, <2>2, <2>3, FinishTypes
      DEF WriteReadyStatus, TypeOK, GenerationBounded, SameSpec, world, history
  <1>9. CASE removeFinalizer
    <2>1. (WriteOk(NoObject) \/ WriteErr(NoObject)) /\ (Finish(TRUE) \/ Finish(FALSE))
      BY <1>9 DEF removeFinalizer
    <2>2. cr' \in {cr, NoObject} /\ cache' = cache /\ cacheCurrent' \in BOOLEAN /\ faults' \in 0..MaxFaults
      BY <1>a, <1>b, <2>1, WriteTypes
    <2>3. ~NoObject.exists
      BY DEF NoObject
    <2>4. dropped' \in BOOLEAN
      BY <1>9, <1>a DEF removeFinalizer, TypeOK
    <2>5. QED
      BY <1>9, <1>a, <1>b, <2>1, <2>2, <2>3, <2>4, FinishTypes
      DEF removeFinalizer, TypeOK, GenerationBounded, world
  <1>10. CASE getPrincipal
    <2>1. faults' \in 0..MaxFaults
      <3>1. NoFault \/ Fault("reply") \/ Fault("call")
        BY <1>10, CallFailsCounted DEF getPrincipal
      <3>2. QED
        BY <3>1, <1>a, FaultTypes
    <2>2. pc' \in Calls /\ queued' = queued
      BY <1>10 DEF getPrincipal, GoTo, AfterSync, Calls
    <2>3. pp' \in Objects /\ justCreated' \in BOOLEAN /\ seenCurrent' \in BOOLEAN
      BY <1>10, <1>a, StatusTypes DEF getPrincipal, TypeOK, Readiness
    <2>4. QED
      BY <1>10, <1>a, <2>1, <2>2, <2>3
      DEF getPrincipal, TypeOK, GenerationBounded, apiVars, world, history
  <1>11. CASE createPrincipal
    <2>1. faults' \in 0..MaxFaults
      BY <1>11, <1>a, <1>b DEF createPrincipal, CallFails, NoFault, Fault, TypeOK
    <2>2. pc' \in Calls /\ queued' = queued
      BY <1>11 DEF createPrincipal, GoTo, Calls
    <2>3. pp' \in Objects
      BY <1>11, <1>a, StatusTypes DEF createPrincipal, TypeOK, Readiness
    <2>4. /\ remote' \in Principals /\ secret' \in {"absent", "current", "stale"}
          /\ freshFor' \subseteq Generations
      <3>1. CASE PostPrincipal
        <4>1. pp.props \in Props /\ pp.gen \in Generations
          BY <1>a DEF TypeOK, Objects
        <4>2. remote' \in Principals
          BY <3>1, <4>1 DEF PostPrincipal, Principals
        <4>3. secret' \in {"absent", "current", "stale"}
          BY <3>1, <1>a DEF PostPrincipal, Issue, TypeOK
        <4>4. freshFor' \subseteq Generations
          BY <3>1, <4>1, <1>a DEF PostPrincipal, TypeOK
        <4>5. QED
          BY <4>2, <4>3, <4>4
      <3>2. CASE ~PostPrincipal
        BY <1>11, <3>2, <1>a DEF createPrincipal, TypeOK
      <3>3. QED
        BY <3>1, <3>2
    <2>5. creds' \in {"nil", "current", "stale"} /\ credLost' \in BOOLEAN
      BY <1>11, <1>a DEF createPrincipal, TypeOK
    <2>6. TypeOK'
      BY <1>11, <1>a, <2>1, <2>2, <2>3, <2>4, <2>5 DEF createPrincipal, TypeOK, apiVars
    <2>7. GenerationBounded'
      BY <1>11, <1>a DEF createPrincipal, GenerationBounded, apiVars
    <2>8. QED
      BY <2>6, <2>7
  <1>12. CASE writeCredentialsSecret
    <2>1. faults' \in 0..MaxFaults
      BY <1>12, <1>a, <1>b DEF writeCredentialsSecret, NoFault, Fault, TypeOK
    <2>2. pc' \in Calls /\ queued' \in BOOLEAN
      BY <1>12, <1>a DEF writeCredentialsSecret, GoTo, AfterSync, Calls, TypeOK
    <2>3. pp' \in Objects
      <3>1. SecretFailed(pp) \in Objects /\ [ pp EXCEPT !.written = "True" ] \in Objects
        BY <1>a, StatusTypes DEF SecretFailed, TypeOK, Objects, Readiness
      <3>2. QED
        BY <1>12, <1>a, <3>1 DEF writeCredentialsSecret, TypeOK
    <2>4. secret' \in {"absent", "current", "stale"} /\ credLost' \in BOOLEAN
      BY <1>12, <1>a DEF writeCredentialsSecret, CredentialsReturned, CreateOrUpdate, TypeOK
    <2>5. QED
      BY <1>12, <1>a, <2>1, <2>2, <2>3, <2>4
      DEF writeCredentialsSecret, TypeOK, GenerationBounded, apiVars
  <1>13. CASE updatePrincipal
    <2>1. faults' \in 0..MaxFaults
      <3>1. NoFault \/ Fault("reply") \/ Fault("call")
        BY <1>13, CallFailsCounted DEF updatePrincipal
      <3>2. QED
        BY <3>1, <1>a, FaultTypes
    <2>2. pc' \in Calls /\ queued' = queued
      BY <1>13 DEF updatePrincipal, GoTo, AfterSync, Calls
    <2>3. pp' \in Objects
      BY <1>13, <1>a, StatusTypes DEF updatePrincipal, TypeOK, Readiness
    <2>4. remote' \in Principals
      <3>1. [ remote EXCEPT !.props = pp.props ] \in Principals
        BY <1>a DEF TypeOK, Objects, Principals
      <3>2. QED
        BY <1>13, <1>a, <3>1 DEF updatePrincipal, TypeOK
    <2>5. QED
      BY <1>13, <1>a, <2>1, <2>2, <2>3, <2>4
      DEF updatePrincipal, TypeOK, GenerationBounded, apiVars, history
  <1>14. CASE rotateCredentials
    <2>1. faults' \in 0..MaxFaults
      BY <1>14, <1>a, <1>b DEF rotateCredentials, CallFails, NoFault, Fault, TypeOK
    <2>2. pc' \in Calls /\ queued' = queued
      BY <1>14 DEF rotateCredentials, GoTo, Calls
    <2>3. pp' \in Objects
      BY <1>14, <1>a, StatusTypes DEF rotateCredentials, TypeOK, Readiness
    <2>4. /\ secret' \in {"absent", "current", "stale"} /\ freshFor' \subseteq Generations
          /\ creds' \in {"nil", "current", "stale"} /\ credLost' \in BOOLEAN
      <3>1. pp.gen \in Generations
        BY <1>a DEF TypeOK, Objects
      <3>2. QED
        BY <1>14, <1>a, <3>1 DEF rotateCredentials, Issue, TypeOK
    <2>5. QED
      BY <1>14, <1>a, <2>1, <2>2, <2>3, <2>4
      DEF rotateCredentials, TypeOK, GenerationBounded, apiVars
  <1>15. CASE finalize
    <2>1. faults' \in 0..MaxFaults /\ remote' \in Principals
      <3>1. NoFault \/ Fault("reply") \/ Fault("call")
        BY <1>15, CallFailsCounted DEF finalize
      <3>2. remote' \in {remote, NoPrincipal}
        BY <1>15 DEF finalize
      <3>3. QED
        BY <3>1, <3>2, <1>a, <1>b, FaultTypes DEF TypeOK
    <2>2. CASE Finish(TRUE)
      BY <1>15, <1>a, <2>1, <2>2, FinishTypes
      DEF finalize, TypeOK, GenerationBounded, apiVars, history
    <2>3. CASE ~Finish(TRUE)
      <3>1. pc' = "unfinalize" /\ queued' = queued /\ UNCHANGED locals
        BY <1>15, <2>3 DEF finalize, GoTo
      <3>2. QED
       BY <1>15, <1>a, <2>1, <3>1
       DEF finalize, GoTo, TypeOK, GenerationBounded, Calls, locals, apiVars, history
    <2>4. QED
      BY <2>2, <2>3
  <1>16. CASE CacheSync \/ SecretSync
    <2>1. CASE CacheSync
      <3>1. cache' \in Objects /\ cacheCurrent' \in BOOLEAN /\ queued' \in BOOLEAN
        BY <2>1, <1>a DEF CacheSync, TypeOK
      <3>2. QED
        BY <2>1, <3>1, <1>a
        DEF CacheSync, TypeOK, GenerationBounded, locals, world, history
    <2>2. CASE SecretSync
      BY <2>2, <1>a DEF SecretSync, TypeOK, GenerationBounded, apiVars, locals, history
    <2>3. QED
      BY <1>16, <2>1, <2>2
  <1>17. ASSUME NEW rotate \in BOOLEAN, NEW props \in Props, EditSpec(rotate, props)
         PROVE  TypeInv'
    <2> DEFINE o == [ cr EXCEPT !.rotate = rotate, !.props = props, !.gen = @ + 1 ]
    <2>1. cr.gen \in 0..MaxGen + 1 /\ cr.gen < MaxGen
      BY <1>17, <1>a DEF EditSpec, TypeOK, Objects, Generations
    <2>2. o.gen = cr.gen + 1 /\ o.gen \in Generations /\ o.gen <= MaxGen
      BY <1>a, <1>b, <2>1 DEF TypeOK, Objects, Generations
    <2>3. o \in Objects
      BY <1>a, <2>2 DEF TypeOK, Objects
    <2>4. cr' = o /\ cache' = cache /\ cacheCurrent' \in BOOLEAN
      BY <1>17, <1>a DEF EditSpec, Store, TypeOK
    <2> HIDE DEF o
    <2>5. QED
      BY <1>17, <1>a, <2>2, <2>3, <2>4
      DEF EditSpec, TypeOK, GenerationBounded, world, history
  <1>18. CASE DeleteResource
    <2> DEFINE o == [ cr EXCEPT !.deleting = TRUE, !.gen = @ + 1 ]
    <2>1. cr.gen \in 0..MaxGen + 1 /\ cr.gen <= MaxGen
      BY <1>18, <1>a DEF DeleteResource, TypeOK, Objects, Generations, GenerationBounded
    <2>2. o.gen \in Generations /\ o.deleting
      BY <1>a, <1>b, <2>1 DEF TypeOK, Objects, Generations
    <2>3. o \in Objects
      BY <1>a, <2>2 DEF TypeOK, Objects
    <2>4. cr' \in {o, NoObject} /\ cache' = cache /\ cacheCurrent' \in BOOLEAN
      BY <1>18, <1>a DEF DeleteResource, Store, TypeOK
    <2>5. ~NoObject.exists
      BY DEF NoObject
    <2> HIDE DEF o
    <2>6. QED
      BY <1>18, <1>a, <1>b, <2>2, <2>3, <2>4, <2>5
      DEF DeleteResource, TypeOK, GenerationBounded, world, history
  <1>19. CASE DeleteSecret
    <2>1. faults' \in 0..MaxFaults
      BY <1>19, <1>a, <1>b DEF DeleteSecret, Fault, TypeOK
    <2>2. secret' \in {"absent", "current", "stale"} /\ secretSeen' \in BOOLEAN
      BY <1>19 DEF DeleteSecret
    <2>3. QED
      BY <1>19, <1>a, <2>1, <2>2
      DEF DeleteSecret, TypeOK, GenerationBounded, apiVars, locals
  <1>20. CASE ConnectionDegrades
    BY <1>20, <1>a, <1>b
    DEF ConnectionDegrades, Fault, TypeOK, GenerationBounded, apiVars, locals, history
  <1>21. CASE ConnectionRecovers
    <2>1. conn' \in Connections
      BY <1>21, <1>a DEF ConnectionRecovers, Connections, TypeOK
    <2>2. QED
      BY <1>21, <1>a, <2>1
      DEF ConnectionRecovers, TypeOK, GenerationBounded, apiVars, locals, history
  <1>22. CASE ServerChange
    <2>1. remote' \in Principals
      <3>1. \A p \in Props : /\ [ exists |-> TRUE, props |-> p, mine |-> FALSE ] \in Principals
                             /\ [ remote EXCEPT !.props = p ] \in Principals
        BY <1>a DEF TypeOK, Principals
      <3>2. QED
        BY <1>22, <1>a, <1>b, <3>1 DEF ServerChange, TypeOK
    <2>2. secret' \in {"absent", "current", "stale"} /\ creds' \in {"nil", "current", "stale"}
      BY <1>22, <1>a DEF ServerChange, Issue, TypeOK
    <2>3. faults' \in 0..MaxFaults
      BY <1>22, <1>a, <1>b DEF ServerChange, Fault, TypeOK
    <2>4. QED
      BY <1>22, <1>a, <2>1, <2>2, <2>3
      DEF ServerChange, TypeOK, GenerationBounded, apiVars
  <1>23. CASE Restart
    <2>1. faults' \in 0..MaxFaults
      BY <1>23, <1>a, <1>b DEF Restart, Fault, TypeOK
    <2>2. credLost' \in BOOLEAN /\ queued' \in BOOLEAN
      BY <1>23, <1>a DEF Restart, TypeOK, Objects
    <2>3. QED
      BY <1>23, <1>a, <1>b, <2>1, <2>2
      DEF Restart, TypeOK, GenerationBounded, Calls, world
  <1>24. CASE CollectSecret
    BY <1>24, <1>a DEF CollectSecret, TypeOK, GenerationBounded, apiVars, locals, history
  <1>25. CASE UNCHANGED vars
    BY <1>25, <1>a DEF vars, TypeOK, GenerationBounded, apiVars, locals, world, history
  <1>26. QED
    BY <1>1, <1>2, <1>3, <1>4, <1>5, <1>6, <1>7, <1>8, <1>9, <1>10, <1>11, <1>12, <1>13,
       <1>14, <1>15, <1>16, <1>17, <1>18, <1>19, <1>20, <1>21, <1>22, <1>23, <1>24,
       <1>25
    DEF Next, Reconcile, Environment

-----------------------------------------------------------------------------

\* Every state of every behaviour is typed: whatever fails, the reconciler
\* never writes a Secret from a nil credential.
THEOREM TypeCorrect == Spec => []TypeOK
  <1>1. Spec => []TypeInv
    BY InitType, NextType, PTL DEF Spec
  <1>2. TypeInv => TypeOK
    BY DEF TypeInv
  <1>3. QED
    BY <1>1, <1>2, PTL

-----------------------------------------------------------------------------
(* The copies of the resource: what Reconcile and the cache hold is old, but *)
(* the finalizer and the deletion they show are still there.                *)

\* The calls made for a resource that is not going away, with its finalizer.
Mutating == {"get", "create", "secret", "update", "rotate", "status"}

\* What Reconcile's copy says of the resource at each call.
PassShape ==
    /\ pc = "idle" <=> ~pp.exists
    /\ pc \in Mutating => ~pp.deleting /\ pp.finalizer
    /\ pc \in {"finalizer", "wait", "report"} => ~pp.deleting
    /\ pc \in {"delete", "unfinalize", "drop"} => pp.deleting

\* A finalizer seen on a live copy is still on the resource.
FinalizerSeen(o) ==
    o.exists /\ o.finalizer /\ ~o.deleting => cr.exists /\ cr.finalizer

\* A deletion seen on a copy is never undone in a newer one.
DeletionSeen(old, new) ==
    old.exists /\ old.deleting /\ new.exists => new.deleting

CopiesInv ==
    /\ PassShape
    /\ FinalizerSeen(cache) /\ FinalizerSeen(pp)
    /\ DeletionSeen(cache, cr) /\ DeletionSeen(pp, cr) /\ DeletionSeen(pp, cache)

\* finalize reaches removeFinalizer with the principal gone.
DeletedFirst == pc = "unfinalize" => ~(remote.exists /\ remote.mine)

FinalizerInv == CopiesInv /\ DeletedFirst /\ FinalizerGuardsRemote

\* Init: nothing has been copied, nothing created.
LEMMA InitFinalizer == Init => FinalizerInv
  <1> SUFFICES ASSUME Init PROVE FinalizerInv
    OBVIOUS
  <1>1. ~NoObject.exists /\ ~NoPrincipal.exists
    BY DEF NoObject, NoPrincipal
  <1>2. ~(remote.exists /\ remote.mine)
    BY <1>1 DEF Init
  <1>3. pc = "idle" /\ ~pp.exists /\ ~cache.exists
    BY <1>1 DEF Init
  <1>4. QED
    BY <1>2, <1>3
    DEF FinalizerInv, CopiesInv, PassShape, FinalizerSeen, DeletionSeen, DeletedFirst,
        FinalizerGuardsRemote, Mutating

\* A pass moves on to its next call: the copy keeps its spec, the resource and
\* the cache stand still.
LEMMA CallKeepsCopies ==
    ASSUME CopiesInv, SameSpec(pp', pp), UNCHANGED <<cr, cache>>, PassShape'
    PROVE  CopiesInv'
  BY DEF CopiesInv, FinalizerSeen, DeletionSeen, SameSpec

\* A pass returns, having stored at most a new version of the resource that
\* has the old one's deletion and no less than its finalizer.
LEMMA ReturnKeepsCopies ==
    ASSUME NEW requeue \in BOOLEAN, CopiesInv, Finish(requeue), cache' = cache,
           cr'.exists = cr.exists, cr'.deleting = cr.deleting,
           cr.finalizer => cr'.finalizer
    PROVE  CopiesInv'
  <1>1. pc' = "idle" /\ ~pp'.exists
    BY DEF Finish, NoObject
  <1>2. QED
    BY <1>1 DEF CopiesInv, PassShape, FinalizerSeen, DeletionSeen, Mutating

\* Every step keeps them.
LEMMA NextFinalizer == TypeInv /\ FinalizerInv /\ [Next]_vars => FinalizerInv'
  <1> SUFFICES ASSUME TypeInv, FinalizerInv, [Next]_vars PROVE FinalizerInv'
    OBVIOUS
  <1>a. TypeOK /\ CopiesInv /\ PassShape /\ DeletedFirst /\ FinalizerGuardsRemote
    BY DEF TypeInv, FinalizerInv, CopiesInv
  <1>b. ~NoObject.exists /\ ~NoPrincipal.exists
    BY DEF NoObject, NoPrincipal
  <1>c. /\ SameSpec(pp, pp) /\ SameSpec(Failed(pp), pp)
        /\ SameSpec(setNotReady(pp, "DependencyNotReady"), pp)
        /\ SameSpec(setNotReady(pp, "Failed"), pp)
    BY <1>a, StatusOnly DEF TypeOK, SameSpec, Readiness
  <1>1. CASE Begin
    BY <1>1, <1>a
    DEF Begin, FinalizerInv, CopiesInv, PassShape, FinalizerSeen, DeletionSeen, Mutating,
        DeletedFirst, FinalizerGuardsRemote, apiVars, world, history
  <1>2. CASE BeginNotFound
    BY <1>2, <1>a
    DEF BeginNotFound, FinalizerInv, CopiesInv, PassShape, FinalizerSeen, DeletionSeen,
        DeletedFirst, FinalizerGuardsRemote, apiVars, locals, world, history
  <1>3. CASE resolveFail
    <2>1. SameSpec(pp', pp) /\ UNCHANGED <<cr, cache, remote, dropped>> /\ pc' # "unfinalize"
      BY <1>3, <1>c DEF resolveFail, GoTo, apiVars, world, history
    <2>2. PassShape'
      BY <1>3, <1>a, <2>1 DEF resolveFail, GoTo, PassShape, SameSpec, Mutating
    <2>3. QED
      BY <1>a, <2>1, <2>2, CallKeepsCopies
      DEF FinalizerInv, DeletedFirst, FinalizerGuardsRemote
  <1>4. CASE waitForDependency
    <2>1. UNCHANGED <<cr, cache, remote, dropped>>
      BY <1>4 DEF waitForDependency, apiVars, world, history
    <2>2. CASE Finish(dependencyRequeue)
      BY <1>a, <2>1, <2>2, ReturnKeepsCopies
      DEF dependencyRequeue, Finish, FinalizerInv, DeletedFirst, FinalizerGuardsRemote
    <2>3. CASE ~Finish(dependencyRequeue)
      <3>1. SameSpec(pp', pp) /\ pc' = "wait" /\ pc = "resolve" /\ ~pp.deleting
        BY <1>4, <1>c, <2>3 DEF waitForDependency, GoTo
      <3>2. PassShape'
        BY <1>a, <3>1 DEF PassShape, SameSpec, Mutating
      <3>3. QED
        BY <1>a, <2>1, <3>1, <3>2, CallKeepsCopies
        DEF FinalizerInv, DeletedFirst, FinalizerGuardsRemote
    <2>4. QED
      BY <2>2, <2>3
  <1>5. CASE ConnectionResolved
    <2>1. /\ SameSpec(pp', pp) /\ UNCHANGED <<pp, cr, cache, remote, dropped>>
          /\ pc = "resolve" /\ pc' = AfterGate(pp)
      BY <1>5, <1>c DEF ConnectionResolved, GoTo, apiVars, locals, world, history
    <2>2. PassShape' /\ pc' # "unfinalize"
      BY <1>a, <2>1 DEF AfterGate, PassShape, Mutating
    <2>3. QED
      BY <1>a, <2>1, <2>2, CallKeepsCopies
      DEF FinalizerInv, DeletedFirst, FinalizerGuardsRemote
  <1>6. CASE ensureFinalizer
    <2>1. UNCHANGED <<cache, remote, dropped>> /\ Finish(TRUE) /\ pc' = "idle"
      BY <1>6 DEF ensureFinalizer, WriteOk, WriteErr, Store, Finish, apiVars, world, history
    <2>2. cr' \in {cr, [ cr EXCEPT !.finalizer = TRUE ]}
      BY <1>6 DEF ensureFinalizer, WriteOk, WriteErr, Store, apiVars
    <2>3. cr'.exists = cr.exists /\ cr'.deleting = cr.deleting /\ (cr.finalizer => cr'.finalizer)
      BY <1>a, <2>2 DEF TypeOK, Objects
    <2>4. QED
      BY <1>a, <2>1, <2>3, ReturnKeepsCopies
      DEF FinalizerInv, DeletedFirst, FinalizerGuardsRemote
  <1>7. CASE WriteWaitStatus \/ WriteFailedStatus \/ WriteReadyStatus
    <2>1. PICK requeue \in BOOLEAN : Finish(requeue)
      BY <1>7 DEF WriteWaitStatus, WriteFailedStatus, WriteReadyStatus, dependencyRequeue
    <2>2. UNCHANGED <<cache, remote, dropped>> /\ pc' = "idle"
      BY <1>7, <2>1
      DEF WriteWaitStatus, WriteFailedStatus, WriteReadyStatus, WriteOk, WriteErr, Store,
          Finish, apiVars, world, history
    <2>3. cr' \in {cr, WithStatusOf(cr, pp), WithStatusOf(cr, Reconciled(pp))}
      BY <1>7 DEF WriteWaitStatus, WriteFailedStatus, WriteReadyStatus, WriteOk, WriteErr,
                  Store, apiVars
    <2>4. SameSpec(cr', cr)
      <3>1. cr \in Objects /\ pp \in Objects /\ "Ready" \in Readiness
        BY <1>a DEF TypeOK, Readiness
      <3>2. Reconciled(pp) \in Objects
        BY <3>1, StatusTypes
      <3>3. SameSpec(WithStatusOf(cr, pp), cr) /\ SameSpec(WithStatusOf(cr, Reconciled(pp)), cr)
        BY <3>1, <3>2, StatusOnly
      <3>4. SameSpec(cr, cr)
        BY DEF SameSpec
      <3>5. QED
        BY <2>3, <3>3, <3>4
    <2>5. QED
      BY <1>a, <2>1, <2>2, <2>4, ReturnKeepsCopies
      DEF FinalizerInv, DeletedFirst, FinalizerGuardsRemote, SameSpec
  <1>8. CASE removeFinalizer
    <2>1. /\ pc' = "idle" /\ ~pp'.exists /\ cache' = cache /\ cr' \in {cr, NoObject}
          /\ remote' = remote
      BY <1>8, <1>b DEF removeFinalizer, WriteOk, WriteErr, Store, Finish, apiVars, world
    <2>2. pp.exists /\ pp.deleting
      BY <1>8, <1>a DEF removeFinalizer, PassShape
    <2>3. CopiesInv'
      BY <1>a, <1>b, <2>1, <2>2
      DEF CopiesInv, PassShape, FinalizerSeen, DeletionSeen, Mutating
    <2>4. FinalizerGuardsRemote'
      BY <1>8, <1>a, <1>b, <2>1 DEF removeFinalizer, DeletedFirst, FinalizerGuardsRemote
    <2>5. QED
      BY <2>1, <2>3, <2>4 DEF FinalizerInv, DeletedFirst
  <1>9. CASE getPrincipal \/ updatePrincipal
    <2>1. /\ SameSpec(pp', pp) /\ UNCHANGED <<cr, cache, dropped>>
          /\ pc \in Mutating /\ pc' \in Mutating \cup {"report"}
      BY <1>9, <1>c
      DEF getPrincipal, updatePrincipal, GoTo, AfterSync, Mutating, apiVars, history
    <2>2. remote'.exists /\ remote'.mine => remote.exists /\ remote.mine
      BY <1>9, <1>a DEF getPrincipal, updatePrincipal, world, TypeOK, Principals
    <2>3. PassShape'
      BY <1>a, <2>1 DEF PassShape, SameSpec, Mutating
    <2>4. QED
      BY <1>a, <2>1, <2>2, <2>3, CallKeepsCopies
      DEF FinalizerInv, DeletedFirst, FinalizerGuardsRemote, Mutating
  <1>10. CASE createPrincipal
    <2>1. /\ SameSpec(pp', pp) /\ UNCHANGED <<cr, cache, dropped>>
          /\ pc = "create" /\ pc' \in {"secret", "report"}
      BY <1>10, <1>c DEF createPrincipal, GoTo, apiVars
    <2>2. PassShape'
      BY <1>a, <2>1 DEF PassShape, SameSpec, Mutating
    <2>3. cr.exists /\ cr.finalizer
      BY <1>a, <2>1 DEF PassShape, CopiesInv, FinalizerSeen, Mutating
    <2>4. QED
      BY <1>a, <2>1, <2>2, <2>3, CallKeepsCopies
      DEF FinalizerInv, DeletedFirst, FinalizerGuardsRemote
  <1>11. CASE writeCredentialsSecret
    <2>1. SameSpec([ pp EXCEPT !.written = "True" ], pp) /\ SameSpec(SecretFailed(pp), pp)
      BY <1>a, <1>c, StatusTypes DEF SameSpec, SecretFailed, TypeOK, Objects, Readiness
    <2>2. /\ SameSpec(pp', pp) /\ UNCHANGED <<cr, cache, remote, dropped>>
          /\ pc = "secret" /\ pc' \in Mutating \cup {"report"}
      BY <1>11, <1>c, <2>1
      DEF writeCredentialsSecret, GoTo, AfterSync, Mutating, apiVars
    <2>3. PassShape'
      BY <1>a, <2>2 DEF PassShape, SameSpec, Mutating
    <2>4. QED
      BY <1>a, <2>2, <2>3, CallKeepsCopies
      DEF FinalizerInv, DeletedFirst, FinalizerGuardsRemote, Mutating
  <1>12. CASE rotateCredentials
    <2>1. /\ SameSpec(pp', pp) /\ UNCHANGED <<cr, cache, remote, dropped>>
          /\ pc = "rotate" /\ pc' \in {"secret", "status", "report"}
      BY <1>12, <1>c DEF rotateCredentials, GoTo, apiVars
    <2>2. PassShape'
      BY <1>a, <2>1 DEF PassShape, SameSpec, Mutating
    <2>3. QED
      BY <1>a, <2>1, <2>2, CallKeepsCopies
      DEF FinalizerInv, DeletedFirst, FinalizerGuardsRemote
  <1>13. CASE finalize
    <2>1. UNCHANGED <<cr, cache, dropped>> /\ pc = "delete" /\ remote' \in {remote, NoPrincipal}
      BY <1>13 DEF finalize, apiVars, history
    <2>2. CASE Finish(TRUE)
      BY <1>a, <1>b, <2>1, <2>2, ReturnKeepsCopies
      DEF Finish, FinalizerInv, DeletedFirst, FinalizerGuardsRemote
    <2>3. CASE ~Finish(TRUE)
      <3>1. pc' = "unfinalize" /\ remote' = NoPrincipal /\ pp' = pp
        BY <1>13, <2>3 DEF finalize, GoTo, locals
      <3>2. PassShape' /\ SameSpec(pp', pp)
        BY <1>a, <2>1, <3>1 DEF PassShape, SameSpec, Mutating
      <3>3. QED
        BY <1>a, <1>b, <2>1, <3>1, <3>2, CallKeepsCopies
        DEF FinalizerInv, DeletedFirst, FinalizerGuardsRemote
    <2>4. QED
      BY <2>2, <2>3
  <1>14. CASE CacheSync
    BY <1>14, <1>a
    DEF CacheSync, FinalizerInv, CopiesInv, PassShape, FinalizerSeen, DeletionSeen,
        DeletedFirst, FinalizerGuardsRemote, locals, world, history
  <1>15. CASE (\E rotate \in BOOLEAN, props \in Props : EditSpec(rotate, props)) \/ DeleteResource
    <2>1. /\ UNCHANGED <<cache, pc, pp, remote, dropped>>
          /\ cr.exists /\ ~cr.deleting
      BY <1>15 DEF EditSpec, DeleteResource, Store, world, history
    <2>2. \/ cr'.exists /\ cr'.finalizer = cr.finalizer
          \/ ~cr'.exists /\ ~cr.finalizer
      BY <1>15, <1>a, <1>b DEF EditSpec, DeleteResource, Store, TypeOK, Objects
    <2>3. QED
      BY <1>a, <2>1, <2>2
      DEF FinalizerInv, CopiesInv, PassShape, FinalizerSeen, DeletionSeen, DeletedFirst,
          FinalizerGuardsRemote, Mutating
  <1>16. CASE \/ DeleteSecret \/ CollectSecret \/ SecretSync
              \/ ConnectionDegrades \/ ConnectionRecovers
    BY <1>16, <1>a
    DEF DeleteSecret, CollectSecret, SecretSync, ConnectionDegrades, ConnectionRecovers,
        FinalizerInv, CopiesInv,
        PassShape, FinalizerSeen, DeletionSeen, DeletedFirst, FinalizerGuardsRemote,
        apiVars, locals, history
  <1>17. CASE ServerChange
    <2>1. UNCHANGED <<cr, cache, pc, pp, dropped>>
      BY <1>17 DEF ServerChange, apiVars
    <2>2. remote'.exists /\ remote'.mine => remote.exists /\ remote.mine
      BY <1>17, <1>a, <1>b DEF ServerChange, TypeOK, Principals
    <2>3. QED
      BY <1>a, <2>1, <2>2
      DEF FinalizerInv, CopiesInv, PassShape, FinalizerSeen, DeletionSeen, DeletedFirst,
          FinalizerGuardsRemote
  <1>18. CASE Restart
    BY <1>18, <1>a, <1>b
    DEF Restart, FinalizerInv, CopiesInv, PassShape, FinalizerSeen, DeletionSeen, Mutating,
        DeletedFirst, FinalizerGuardsRemote, world
  <1>19. CASE UNCHANGED vars
    BY <1>19, <1>a
    DEF vars, FinalizerInv, CopiesInv, PassShape, FinalizerSeen, DeletionSeen,
        DeletedFirst, FinalizerGuardsRemote, apiVars, locals, world, history
  <1>20. QED
    BY <1>1, <1>2, <1>3, <1>4, <1>5, <1>6, <1>7, <1>8, <1>9, <1>10, <1>11, <1>12, <1>13,
       <1>14, <1>15, <1>16, <1>17, <1>18, <1>19
    DEF Next, Reconcile, Environment

\* No principal the operator created is left without a resource whose
\* finalizer will delete it, except through resolveFail's dropped finalizer.
THEOREM FinalizerGuards == Spec => []FinalizerGuardsRemote
  <1>1. Spec => [](TypeInv /\ FinalizerInv)
    BY InitType, NextType, InitFinalizer, NextFinalizer, PTL DEF Spec
  <1>2. FinalizerInv => FinalizerGuardsRemote
    BY DEF FinalizerInv
  <1>3. QED
    BY <1>1, <1>2, PTL

-----------------------------------------------------------------------------
(* The credential on its way from the server to the Secret.                *)

\* Reconcile holds a credential only between receiving it and returning, and
\* one that is out of date only if somebody else rotated.
CredentialShape ==
    /\ creds # "nil" => pc \in {"secret", "status", "report"}
    /\ creds = "stale" => tampered

CredentialInv == CredentialShape /\ SecretAccounted

\* Init: no principal of ours, no credential.
LEMMA InitCredential == Init => CredentialInv
  BY DEF Init, CredentialInv, CredentialShape, SecretAccounted, NoPrincipal

\* Every step keeps it.  The collection of the Secret needs FinalizerInv: what
\* is gone took its principal with it, or its finalizer was dropped.
LEMMA NextCredential ==
    TypeInv /\ FinalizerInv /\ CredentialInv /\ [Next]_vars => CredentialInv'
  <1> SUFFICES ASSUME TypeInv, FinalizerInv, CredentialInv, [Next]_vars
               PROVE  CredentialInv'
    OBVIOUS
  <1>a. TypeOK /\ CredentialShape /\ SecretAccounted /\ FinalizerGuardsRemote
    BY DEF TypeInv, CredentialInv, FinalizerInv
  <1>1. CASE \/ Begin \/ BeginNotFound \/ resolveFail \/ ConnectionResolved
             \/ getPrincipal \/ updatePrincipal \/ CacheSync \/ SecretSync
             \/ (\E rotate \in BOOLEAN, props \in Props : EditSpec(rotate, props))
             \/ DeleteResource \/ ConnectionDegrades \/ ConnectionRecovers
             \/ UNCHANGED vars
    <2>1. UNCHANGED <<creds, secret, credLost, tampered, dropped>>
      BY <1>1
      DEF Begin, BeginNotFound, resolveFail, ConnectionResolved, getPrincipal,
          updatePrincipal, CacheSync, SecretSync, EditSpec, DeleteResource, ConnectionDegrades,
          ConnectionRecovers, vars, locals, world, history
    <2>2. pc' = pc \/ pc \in {"idle", "resolve", "get", "update"}
      BY <1>1
      DEF Begin, BeginNotFound, resolveFail, ConnectionResolved, getPrincipal,
          updatePrincipal, CacheSync, SecretSync, EditSpec, DeleteResource, ConnectionDegrades,
          ConnectionRecovers, vars, locals
    <2>3. remote'.exists = remote.exists /\ remote'.mine = remote.mine
      BY <1>1, <1>a
      DEF Begin, BeginNotFound, resolveFail, ConnectionResolved, getPrincipal,
          updatePrincipal, CacheSync, SecretSync, EditSpec, DeleteResource, ConnectionDegrades,
          ConnectionRecovers, vars, world, TypeOK, Principals
    <2>4. QED
      BY <1>a, <2>1, <2>2, <2>3 DEF CredentialInv, CredentialShape, SecretAccounted
  <1>2. CASE \/ waitForDependency \/ ensureFinalizer \/ WriteWaitStatus
             \/ WriteFailedStatus \/ WriteReadyStatus \/ removeFinalizer
    <2>1. UNCHANGED <<remote, secret, credLost, tampered>>
      BY <1>2
      DEF waitForDependency, ensureFinalizer, WriteWaitStatus, WriteFailedStatus,
          WriteReadyStatus, removeFinalizer, world, history
    <2>2. pc # "secret" /\ (creds' = "nil" \/ (creds' = creds /\ pc = "resolve"))
      BY <1>2
      DEF waitForDependency, ensureFinalizer, WriteWaitStatus, WriteFailedStatus,
          WriteReadyStatus, removeFinalizer, Finish
    <2>3. dropped => dropped'
      <3>1. CASE removeFinalizer
        BY <3>1, Zenon DEF removeFinalizer
      <3>2. CASE ~removeFinalizer
        BY <1>2, <3>2
        DEF waitForDependency, ensureFinalizer, WriteWaitStatus, WriteFailedStatus,
            WriteReadyStatus, history
      <3>3. QED
        BY <3>1, <3>2
    <2>4. QED
      BY <1>a, <2>1, <2>2, <2>3
      DEF CredentialInv, CredentialShape, SecretAccounted
  <1>3. CASE createPrincipal
    <2>1. CASE PostPrincipal
      BY <1>3, <1>a, <2>1
      DEF createPrincipal, GoTo, CredentialInv, CredentialShape, SecretAccounted
    <2>2. CASE ~PostPrincipal
      BY <1>3, <1>a, <2>2
      DEF createPrincipal, GoTo, CredentialInv, CredentialShape, SecretAccounted
    <2>3. QED
      BY <2>1, <2>2
  <1>4. CASE writeCredentialsSecret
    <2>1. UNCHANGED <<creds, remote, tampered, dropped>> /\ pc = "secret"
      BY <1>4 DEF writeCredentialsSecret
    <2>2. pc' \in {"status", "report"}
      BY <1>4 DEF writeCredentialsSecret, AfterSync, GoTo
    <2>3. \/ secret' = creds /\ creds # "nil"
          \/ credLost'
          \/ creds = "nil" /\ UNCHANGED <<secret, credLost>>
      BY <1>4 DEF writeCredentialsSecret, CredentialsReturned, CreateOrUpdate
    <2>4. creds \in {"nil", "current", "stale"}
      BY <1>a DEF TypeOK
    <2>5. QED
      BY <1>a, <2>1, <2>2, <2>3, <2>4 DEF CredentialInv, CredentialShape, SecretAccounted
  <1>5. CASE rotateCredentials
    BY <1>5, <1>a
    DEF rotateCredentials, GoTo, Issue, CredentialInv, CredentialShape, SecretAccounted
  <1>6. CASE finalize
    <2>1. pc = "delete" /\ UNCHANGED <<secret, credLost, tampered, dropped>>
      BY <1>6 DEF finalize, history
    <2>2. remote' \in {remote, NoPrincipal} /\ creds' \in {creds, "nil"}
      BY <1>6 DEF finalize, Finish, locals
    <2>3. QED
      BY <1>a, <2>1, <2>2
      DEF CredentialInv, CredentialShape, SecretAccounted, NoPrincipal
  <1>7. CASE DeleteSecret \/ ServerChange
    BY <1>7, <1>a
    DEF DeleteSecret, ServerChange, Issue, locals, CredentialInv, CredentialShape,
        SecretAccounted
  <1>8. CASE Restart
    BY <1>8, <1>a DEF Restart, world, CredentialInv, CredentialShape, SecretAccounted
  <1>9. CASE CollectSecret
    <2>1. UNCHANGED <<pc, creds, remote, credLost, tampered, dropped>> /\ ~cr.exists
      BY <1>9 DEF CollectSecret, locals, history
    <2>2. remote.exists /\ remote.mine => dropped
      BY <1>a, <2>1 DEF FinalizerGuardsRemote
    <2>3. QED
      BY <1>a, <2>1, <2>2 DEF CredentialInv, CredentialShape, SecretAccounted
  <1>10. QED
    BY <1>1, <1>2, <1>3, <1>4, <1>5, <1>6, <1>7, <1>8, <1>9
    DEF Next, Reconcile, Environment

\* No interleaving of edits, stale reads, conflicts, retries and collection of
\* the Secret loses the credential of a principal the operator created: only a
\* failing call, a lost answer or a restart does, each of them recorded in
\* credLost, or a finalizer dropped by resolveFail, after which the Secret is
\* collected with its owner while the principal stays.
THEOREM SecretIsAccounted == Spec => []SecretAccounted
  <1>1. Spec => [](TypeInv /\ FinalizerInv /\ CredentialInv)
    BY InitType, NextType, InitFinalizer, NextFinalizer, InitCredential,
       NextCredential, PTL DEF Spec
  <1>2. CredentialInv => SecretAccounted
    BY DEF CredentialInv
  <1>3. QED
    BY <1>1, <1>2, PTL

\* A pass never replaces the credential it received: after a create it does
\* not rotate, after a rotation it does not rotate again.
THEOREM CredentialIssuedOnce == Spec => OneCredentialPerPass
  <1> DEFINE Kept == Reconcile /\ creds = "current" => (secret' = "stale" => secret = "stale")
  <1>1. TypeInv /\ CredentialInv /\ [Next]_vars => [Kept]_vars
    <2> SUFFICES ASSUME TypeInv, CredentialInv, Reconcile, creds = "current"
                 PROVE  secret' = "stale" => secret = "stale"
      OBVIOUS
    <2>1. pc \in {"secret", "status", "report"}
      BY DEF CredentialInv, CredentialShape
    <2>2. CASE writeCredentialsSecret
      BY <2>2 DEF writeCredentialsSecret, CreateOrUpdate
    <2>3. CASE WriteFailedStatus \/ WriteReadyStatus
      BY <2>3 DEF WriteFailedStatus, WriteReadyStatus, world
    <2>4. QED
      BY <2>1, <2>2, <2>3
      DEF Reconcile, resolveFail, waitForDependency, ConnectionResolved, ensureFinalizer,
          WriteWaitStatus, getPrincipal, createPrincipal, updatePrincipal,
          rotateCredentials, finalize, removeFinalizer
  <1>2. Spec => [](TypeInv /\ FinalizerInv /\ CredentialInv)
    BY InitType, NextType, InitFinalizer, NextFinalizer, InitCredential,
       NextCredential, PTL DEF Spec
  <1>3. QED
    BY <1>1, <1>2, PTL DEF Spec, OneCredentialPerPass

-----------------------------------------------------------------------------
(* The age of the copies: generations only grow, a copy is never ahead of  *)
(* a newer one, and equal generations mean equal specs.                    *)

\* The status never runs ahead of the spec.
StatusBehind(o) == o.obs <= o.gen /\ o.readyGen <= o.gen

\* old is a copy of the resource taken no later than new.
NotNewer(old, new) ==
    old.exists /\ new.exists =>
        /\ old.gen <= new.gen
        /\ old.gen = new.gen => old.props = new.props

\* A Ready that the resource carries was seen at that generation by every
\* copy there is.
ReadySeen(o) ==
    o.exists /\ cr.exists /\ cr.ready = "Ready" => cr.readyGen <= o.gen

\* What it means for a copy to be current, for all that a pass relies on.
CopyCurrent(o) ==
    /\ SameSpec(o, cr)
    /\ cr.obs <= o.obs
    /\ o.ready = "Ready" => cr.ready = "Ready" /\ cr.readyGen = o.readyGen

VersionInv ==
    /\ StatusBehind(cr) /\ StatusBehind(cache) /\ StatusBehind(pp)
    /\ NotNewer(cache, cr) /\ NotNewer(pp, cr) /\ NotNewer(pp, cache)
    /\ ReadySeen(cache) /\ ReadySeen(pp)
    /\ cacheCurrent => cache = cr
    /\ ppCurrent => CopyCurrent(pp)
    /\ cr.exists /\ cr.deleting /\ cr.ready = "Ready" => cr.readyGen < cr.gen

\* What a pass knows of the server while nobody else touches it.
ServerKnown ==
    ~tampered =>
        /\ pc = "create" => ~remote.exists
        /\ pc = "update" => remote.exists
        /\ pc \in {"rotate", "status"} => remote.exists /\ remote.props = pp.props
        /\ pc = "secret" /\ creds # "nil" => remote.exists /\ remote.props = pp.props

\* What a status write and the helpers put where.
LEMMA StatusFields ==
    ASSUME NEW o \in Objects, NEW p \in Objects, NEW reason \in Readiness
    PROVE  /\ WithStatusOf(o, p).obs = p.obs
           /\ WithStatusOf(o, p).ready = p.ready
           /\ WithStatusOf(o, p).readyGen = p.readyGen
           /\ setNotReady(o, reason).obs = o.obs
           /\ setNotReady(o, reason).ready = reason
           /\ setNotReady(o, reason).readyGen = o.gen
           /\ Failed(o).obs = o.gen /\ Failed(o).ready = "Failed"
           /\ Failed(o).readyGen = o.gen
           /\ Reconciled(o).obs = o.gen /\ Reconciled(o).ready = "Ready"
           /\ Reconciled(o).readyGen = o.gen
  BY DEF Objects, Readiness, WithStatusOf, setNotReady, Failed, Reconciled

\* What a step of a pass may do to its copy: move the status on.
Progresses(p, q) ==
    /\ SameSpec(q, p)
    /\ StatusBehind(p) => StatusBehind(q) /\ p.obs <= q.obs
    /\ q.ready = "Ready" => p.ready = "Ready" /\ p.readyGen = q.readyGen

\* The helpers do that.
LEMMA HelpersProgress ==
    ASSUME NEW p \in Objects
    PROVE  /\ Progresses(p, p) /\ Progresses(p, Failed(p))
           /\ Progresses(p, setNotReady(p, "Failed"))
           /\ Progresses(p, setNotReady(p, "DependencyNotReady"))
           /\ Progresses(p, SecretFailed(p))
           /\ Progresses(p, [ p EXCEPT !.written = "True" ])
  <1>1. p.gen \in Nat /\ p.obs \in Nat /\ p.readyGen \in Nat
    BY PrincipalAssumption DEF Objects, Generations
  <1>2. Progresses(p, p)
    BY <1>1 DEF Progresses, SameSpec, StatusBehind
  <1>a. "Failed" \in Readiness /\ "DependencyNotReady" \in Readiness
    BY DEF Readiness
  <1>3. Progresses(p, Failed(p))
    <2>1. SameSpec(Failed(p), p)
      BY <1>a, StatusOnly
    <2>2. Failed(p).obs = p.gen /\ Failed(p).ready = "Failed" /\ Failed(p).readyGen = p.gen
      BY <1>a, StatusFields
    <2>3. QED
      BY <1>1, <2>1, <2>2 DEF Progresses, StatusBehind, SameSpec
  <1>b. ASSUME NEW reason \in {"Failed", "DependencyNotReady"}
        PROVE  Progresses(p, setNotReady(p, reason))
    <2> DEFINE q == setNotReady(p, reason)
    <2>1. SameSpec(q, p)
      BY <1>a, StatusOnly
    <2>2. q.obs = p.obs /\ q.ready = reason /\ q.readyGen = p.gen
      BY <1>a, StatusFields
    <2> HIDE DEF q
    <2>3. Progresses(p, q)
      BY <1>1, <2>1, <2>2 DEF Progresses, StatusBehind, SameSpec
    <2>4. QED
      BY <2>3 DEF q
  <1>4. Progresses(p, setNotReady(p, "Failed"))
    BY <1>b
  <1>5. Progresses(p, setNotReady(p, "DependencyNotReady"))
    BY <1>b
  <1>6. ASSUME NEW q \in Objects, NEW w \in {"True", "False"}, Progresses(p, q)
        PROVE  Progresses(p, [ q EXCEPT !.written = w ])
    BY <1>1, <1>6 DEF Progresses, SameSpec, StatusBehind, Objects
  <1>7. Progresses(p, SecretFailed(p))
    <2>1. Failed(p) \in Objects
      BY StatusTypes DEF Readiness
    <2>2. QED
      BY <1>2, <1>3, <1>6, <2>1 DEF SecretFailed
  <1>8. QED
    BY <1>2, <1>3, <1>4, <1>5, <1>6, <1>7

\* A pass moves on to its next call.
LEMMA CallKeepsVersions ==
    ASSUME TypeOK, VersionInv, pp' \in Objects, Progresses(pp, pp'),
           UNCHANGED <<apiVars, ppCurrent>>
    PROVE  VersionInv'
  <1>1. /\ pp.gen \in Nat /\ pp.obs \in Nat /\ cr.obs \in Nat /\ pp'.obs \in Nat
    BY PrincipalAssumption DEF TypeOK, Objects, Generations
  <1>2. StatusBehind(pp) /\ (ppCurrent => CopyCurrent(pp))
    BY DEF VersionInv
  <1>3. StatusBehind(pp)'
    BY <1>2 DEF Progresses, StatusBehind
  <1>4. (ppCurrent => CopyCurrent(pp))'
    BY <1>1, <1>2 DEF Progresses, CopyCurrent, SameSpec, apiVars
  <1>5. (NotNewer(pp, cr) /\ NotNewer(pp, cache) /\ ReadySeen(pp))'
    BY DEF VersionInv, NotNewer, ReadySeen, Progresses, SameSpec, apiVars
  <1>6. QED
    BY <1>3, <1>4, <1>5 DEF VersionInv, StatusBehind, NotNewer, ReadySeen, apiVars

\* What a returning pass stored, if anything, is of the same generation, and
\* a Ready that it set is of the generation of its copy.
StoresSameGeneration ==
    /\ cr'.exists => cr.exists /\ cr'.gen = cr.gen /\ cr'.props = cr.props
                              /\ cr'.deleting = cr.deleting
    /\ StatusBehind(cr')
    /\ cr'.exists /\ cr'.ready = "Ready" =>
          \/ cr.ready = "Ready" /\ cr'.readyGen = cr.readyGen
          \/ cr'.readyGen = pp.gen /\ pp.exists /\ ~cr'.deleting

\* A pass that returns having stored no more than that keeps the versions.
LEMMA ReturnKeepsVersions ==
    ASSUME NEW requeue \in BOOLEAN, TypeOK, VersionInv, Finish(requeue),
           cache' = cache, cacheCurrent' => cacheCurrent /\ cr' = cr,
           StoresSameGeneration
    PROVE  VersionInv'
  <1>1. ~pp'.exists /\ StatusBehind(pp)' /\ ~ppCurrent'
    BY DEF Finish, NoObject, StatusBehind
  <1>2. StatusBehind(cr)' /\ StatusBehind(cache)'
    BY DEF StoresSameGeneration, VersionInv, StatusBehind
  <1>3. NotNewer(cache, cr)' /\ NotNewer(pp, cr)' /\ NotNewer(pp, cache)'
    BY <1>1 DEF StoresSameGeneration, VersionInv, NotNewer
  <1>4. ReadySeen(cache)' /\ ReadySeen(pp)'
    BY <1>1 DEF StoresSameGeneration, VersionInv, NotNewer, ReadySeen
  <1>5. (cacheCurrent => cache = cr)'
    BY DEF VersionInv
  <1>6. (cr.exists /\ cr.deleting /\ cr.ready = "Ready" => cr.readyGen < cr.gen)'
    BY DEF StoresSameGeneration, VersionInv
  <1>7. QED
    BY <1>1, <1>2, <1>3, <1>4, <1>5, <1>6 DEF VersionInv

\* A stored change leaves the cache where it was, and behind.
LEMMA StoreAgesCache ==
    ASSUME TypeOK, NEW o, WriteOk(o) \/ WriteErr(o)
    PROVE  cache' = cache /\ (cacheCurrent' => cacheCurrent /\ cr' = cr)
  <1>1. CASE UNCHANGED apiVars
    BY <1>1 DEF apiVars
  <1>2. CASE Store(o)
    BY <1>2 DEF Store, TypeOK
  <1>3. QED
    BY <1>1, <1>2 DEF WriteOk, WriteErr

\* The three status writes store the status of the copy, and only if it is
\* current.
StatusWrite == WriteWaitStatus \/ WriteFailedStatus \/ WriteReadyStatus

\* What such a write leaves behind.
LEMMA StatusWriteStores ==
    ASSUME TypeOK, PassShape, VersionInv, StatusWrite
    PROVE  /\ StoresSameGeneration
           /\ cr.exists /\ cr'.exists => cr.obs <= cr'.obs
           /\ cr'.exists /\ cr'.ready = "Ready" =>
                 \/ cr.ready = "Ready" /\ cr'.readyGen = cr.readyGen
                 \/ pc = "status" /\ cr'.gen = pp.gen /\ cr'.props = pp.props
  <1> DEFINE q == IF pc = "status" THEN Reconciled(pp) ELSE pp
  <1>1. pp \in Objects /\ cr \in Objects /\ "Ready" \in Readiness
    BY DEF TypeOK, Readiness
  <1>2. q \in Objects
    BY <1>1, StatusTypes
  <1>3. /\ pc \in {"wait", "report", "status"}
        /\ cr' = cr \/ (ppCurrent /\ cr' = WithStatusOf(cr, q))
    BY DEF StatusWrite, WriteWaitStatus, WriteFailedStatus, WriteReadyStatus, WriteOk,
           WriteErr, Store, apiVars
  <1>4. pp.exists /\ ~pp.deleting
    BY <1>3 DEF PassShape, Mutating
  <1>5. /\ cr.gen \in Nat /\ cr.obs \in Nat /\ pp.gen \in Nat /\ pp.obs \in Nat
        /\ cr.readyGen \in Nat /\ pp.readyGen \in Nat
    BY <1>1, PrincipalAssumption DEF Objects, Generations
  <1>6. CASE cr' = cr
    BY <1>5, <1>6 DEF VersionInv, StoresSameGeneration, StatusBehind
  <1>7. CASE ppCurrent /\ cr' = WithStatusOf(cr, q)
    <2>1. CopyCurrent(pp) /\ StatusBehind(pp) /\ StatusBehind(cr)
      BY <1>7 DEF VersionInv
    <2>2. SameSpec(cr', cr)
      BY <1>1, <1>2, <1>7, StatusOnly
    <2>3. /\ cr'.obs = q.obs /\ cr'.ready = q.ready /\ cr'.readyGen = q.readyGen
      BY <1>1, <1>2, <1>7, StatusFields
    <2>4. CASE pc = "status"
      <3>1. q.obs = pp.gen /\ q.ready = "Ready" /\ q.readyGen = pp.gen
        BY <1>1, <2>4, StatusFields
      <3>2. QED
        BY <1>4, <1>5, <2>1, <2>2, <2>3, <2>4, <3>1
        DEF StoresSameGeneration, CopyCurrent, SameSpec, StatusBehind
    <2>5. CASE pc # "status"
      <3>1. q = pp
        BY <2>5
      <3>2. QED
        BY <1>4, <1>5, <2>1, <2>2, <2>3, <3>1
        DEF StoresSameGeneration, CopyCurrent, SameSpec, StatusBehind
    <2>6. QED
      BY <2>4, <2>5
  <1>8. QED
    BY <1>3, <1>6, <1>7

\* Init: no copies, no status.
LEMMA InitVersion == Init => VersionInv /\ ServerKnown /\ ReadyMeansInSync
  <1> SUFFICES ASSUME Init PROVE VersionInv /\ ServerKnown /\ ReadyMeansInSync
    OBVIOUS
  <1>1. PICK r \in BOOLEAN, p \in Props : cr = Applied(r, p)
    BY DEF Init
  <1>2. cr.gen = 1 /\ cr.obs = 0 /\ cr.readyGen = 0 /\ cr.ready = "None" /\ ~cr.deleting
    BY <1>1 DEF Applied, NoObject
  <1>3. ~NoObject.exists /\ StatusBehind(NoObject)
    BY DEF NoObject, StatusBehind
  <1>4. QED
    BY <1>2, <1>3
    DEF Init, VersionInv, ServerKnown, ReadyMeansInSync, StatusBehind, NotNewer, ReadySeen

\* The calls that move a pass on without returning from it.
PassMovesOn ==
    \/ resolveFail \/ ConnectionResolved
    \/ waitForDependency /\ pc' = "wait"
    \/ getPrincipal \/ createPrincipal \/ writeCredentialsSecret
    \/ updatePrincipal \/ rotateCredentials

\* Such a call changes only the status of its copy, and stores nothing.
LEMMA PassProgresses ==
    ASSUME TypeOK, PassMovesOn
    PROVE  Progresses(pp, pp') /\ UNCHANGED <<apiVars, ppCurrent>>
  <1>1. pp \in Objects
    BY DEF TypeOK
  <1>2. pp' \in { pp, Failed(pp), setNotReady(pp, "Failed"),
                  setNotReady(pp, "DependencyNotReady"), SecretFailed(pp),
                  [ pp EXCEPT !.written = "True" ] }
    BY DEF PassMovesOn, resolveFail, ConnectionResolved, waitForDependency, Finish,
           getPrincipal, createPrincipal, writeCredentialsSecret, updatePrincipal,
           rotateCredentials, locals
  <1>3. Progresses(pp, pp')
    BY <1>1, <1>2, HelpersProgress
  <1>4. UNCHANGED <<apiVars, ppCurrent>>
    BY DEF PassMovesOn, resolveFail, ConnectionResolved, waitForDependency, Finish,
           getPrincipal, createPrincipal, writeCredentialsSecret, updatePrincipal,
           rotateCredentials, locals
  <1>5. QED
    BY <1>3, <1>4

\* Every step keeps the ages of the copies.
LEMMA NextVersion ==
    TypeInv /\ TypeInv' /\ CopiesInv /\ VersionInv /\ [Next]_vars => VersionInv'
  <1> SUFFICES ASSUME TypeInv, TypeInv', CopiesInv, VersionInv, [Next]_vars
               PROVE  VersionInv'
    OBVIOUS
  <1>a. TypeOK /\ PassShape /\ pp \in Objects /\ pp' \in Objects /\ cr \in Objects
    BY DEF TypeInv, CopiesInv, TypeOK
  <1>b. /\ cr.gen \in Nat /\ cr.obs \in Nat /\ cr.readyGen \in Nat
        /\ cache.gen \in Nat /\ pp.gen \in Nat
    BY PrincipalAssumption DEF TypeInv, TypeOK, Objects, Generations
  <1>c. ~NoObject.exists /\ StatusBehind(NoObject)
    BY DEF NoObject, StatusBehind
  <1>1. CASE Begin
    <2>1. pp' = cache /\ ppCurrent' = cacheCurrent /\ UNCHANGED <<cr, cache, cacheCurrent>>
      BY <1>1 DEF Begin, apiVars
    <2>2. cacheCurrent => CopyCurrent(cache)
      BY <1>b DEF VersionInv, CopyCurrent, SameSpec
    <2>3. QED
      BY <1>b, <2>1, <2>2
      DEF VersionInv, StatusBehind, NotNewer, ReadySeen, CopyCurrent, SameSpec
  <1>2. CASE PassMovesOn
    BY <1>2, <1>a, PassProgresses, CallKeepsVersions
  <1>3. CASE UNCHANGED <<apiVars, pp, ppCurrent>>
    BY <1>3, <1>a, HelpersProgress, CallKeepsVersions
  <1>4. ASSUME NEW requeue \in BOOLEAN, Finish(requeue), UNCHANGED apiVars
        PROVE  VersionInv'
    BY <1>4, <1>a, <1>b, ReturnKeepsVersions
    DEF StoresSameGeneration, VersionInv, StatusBehind, apiVars
  <1>5. CASE StatusWrite
    <2>1. StoresSameGeneration
      BY <1>5, <1>a, StatusWriteStores
    <2>2. PICK requeue \in BOOLEAN : Finish(requeue)
      BY <1>5 DEF StatusWrite, WriteWaitStatus, WriteFailedStatus, WriteReadyStatus,
                  dependencyRequeue
    <2>3. cache' = cache /\ (cacheCurrent' => cacheCurrent /\ cr' = cr)
      BY <1>5, <1>a, StoreAgesCache
      DEF StatusWrite, WriteWaitStatus, WriteFailedStatus, WriteReadyStatus
    <2>4. QED
      BY <1>a, <2>1, <2>2, <2>3, ReturnKeepsVersions
  <1>6. CASE ensureFinalizer
    <2>1. cache' = cache /\ (cacheCurrent' => cacheCurrent /\ cr' = cr)
      BY <1>6, <1>a, StoreAgesCache DEF ensureFinalizer
    <2>2. cr' \in {cr, [ cr EXCEPT !.finalizer = TRUE ]}
      BY <1>6 DEF ensureFinalizer, WriteOk, WriteErr, Store, apiVars
    <2>3. StoresSameGeneration
      BY <1>a, <1>b, <2>2 DEF StoresSameGeneration, VersionInv, StatusBehind, Objects
    <2>4. Finish(TRUE)
      BY <1>6 DEF ensureFinalizer
    <2>5. QED
      BY <1>a, <2>1, <2>3, <2>4, ReturnKeepsVersions
  <1>7. CASE removeFinalizer
    <2>1. cache' = cache /\ (cacheCurrent' => cacheCurrent /\ cr' = cr)
      BY <1>7, <1>a, StoreAgesCache DEF removeFinalizer
    <2>2. cr' \in {cr, NoObject}
      BY <1>7 DEF removeFinalizer, WriteOk, WriteErr, Store, apiVars
    <2>3. StoresSameGeneration
      BY <1>b, <1>c, <2>2 DEF StoresSameGeneration, VersionInv, StatusBehind
    <2>4. PICK requeue \in BOOLEAN : Finish(requeue)
      BY <1>7 DEF removeFinalizer
    <2>5. QED
      BY <1>a, <2>1, <2>3, <2>4, ReturnKeepsVersions
  <1>8. CASE CacheSync
    <2>1. /\ cache' = cr /\ cacheCurrent' /\ UNCHANGED <<cr, pp, ppCurrent>>
      BY <1>8 DEF CacheSync, locals
    <2>2. QED
      BY <1>b, <2>1
      DEF VersionInv, StatusBehind, NotNewer, ReadySeen, CopyCurrent, SameSpec
  <1>9. CASE (\E rotate \in BOOLEAN, props \in Props : EditSpec(rotate, props)) \/ DeleteResource
    <2>1. /\ UNCHANGED <<cache, pp>> /\ ~ppCurrent' /\ cr.exists
          /\ cacheCurrent' => cacheCurrent /\ cr' = cr
      BY <1>9 DEF EditSpec, DeleteResource, Store, VersionInv
    <2>2. \/ cr' = NoObject
          \/ /\ cr'.exists /\ cr'.gen = cr.gen + 1
             /\ cr'.obs = cr.obs /\ cr'.ready = cr.ready /\ cr'.readyGen = cr.readyGen
      BY <1>9, <1>a DEF EditSpec, DeleteResource, Store, Objects
    <2>3. CASE cr' = NoObject
      BY <1>c, <2>1, <2>3 DEF VersionInv, StatusBehind, NotNewer, ReadySeen
    <2>4. CASE cr' # NoObject
      BY <1>b, <2>1, <2>2, <2>4 DEF VersionInv, StatusBehind, NotNewer, ReadySeen
    <2>5. QED
      BY <2>3, <2>4
  <1>10. CASE Restart
    <2>1. /\ cache' = cr /\ cacheCurrent' /\ cr' = cr
          /\ pp' = NoObject /\ ~ppCurrent'
      BY <1>10 DEF Restart
    <2>2. QED
      BY <1>b, <1>c, <2>1 DEF VersionInv, StatusBehind, NotNewer, ReadySeen
  <1>11. QED
    <2>1. CASE waitForDependency
      BY <2>1, <1>2, <1>4
      DEF waitForDependency, PassMovesOn, GoTo, dependencyRequeue
    <2>2. CASE finalize
      BY <2>2, <1>3, <1>4 DEF finalize, locals
    <2>3. CASE \/ BeginNotFound \/ DeleteSecret \/ CollectSecret \/ SecretSync
               \/ ConnectionDegrades \/ ConnectionRecovers
               \/ ServerChange \/ UNCHANGED vars
      BY <2>3, <1>3
      DEF BeginNotFound, DeleteSecret, CollectSecret, SecretSync, ConnectionDegrades, ConnectionRecovers,
          ServerChange, vars, locals
    <2>4. QED
      BY <1>1, <1>2, <1>5, <1>6, <1>7, <1>8, <1>9, <1>10, <2>1, <2>2, <2>3
      DEF Next, Reconcile, Environment, PassMovesOn, StatusWrite

\* What a pass, and the status, know of the server.
SyncInv == ServerKnown /\ ReadyMeansInSync

\* It survives every step.
LEMMA NextSync ==
    TypeInv /\ CopiesInv /\ CredentialShape /\ VersionInv /\ SyncInv /\ [Next]_vars => SyncInv'
  <1> SUFFICES ASSUME TypeInv, CopiesInv, CredentialShape, VersionInv, SyncInv, [Next]_vars
               PROVE  SyncInv'
    OBVIOUS
  <1>a. TypeOK /\ PassShape /\ cr \in Objects /\ pp \in Objects /\ ServerKnown /\ ReadyMeansInSync
    BY DEF TypeInv, CopiesInv, TypeOK, SyncInv
  <1>b. cr.gen \in Nat /\ cr.readyGen \in Nat /\ pp.gen \in Nat
    BY <1>a, PrincipalAssumption DEF Objects, Generations
  <1>c. ~NoObject.exists /\ ~NoPrincipal.exists
    BY DEF NoObject, NoPrincipal
  <1>1. CASE /\ UNCHANGED <<cr, remote, tampered>>
             /\ \/ UNCHANGED <<pc, pp, creds>>
                \/ pc' \notin {"create", "update", "rotate", "status", "secret"}
    BY <1>1, <1>a DEF SyncInv, ServerKnown, ReadyMeansInSync
  <1>2. CASE StatusWrite
    <2>1. pc' = "idle" /\ UNCHANGED <<remote, tampered>>
      BY <1>2 DEF StatusWrite, WriteWaitStatus, WriteFailedStatus, WriteReadyStatus,
                  Finish, world, history
    <2>2. /\ StoresSameGeneration
          /\ cr'.exists /\ cr'.ready = "Ready" =>
                \/ cr.ready = "Ready" /\ cr'.readyGen = cr.readyGen
                \/ pc = "status" /\ cr'.gen = pp.gen /\ cr'.props = pp.props
      BY <1>2, <1>a, StatusWriteStores
    <2>3. QED
      BY <1>a, <2>1, <2>2 DEF SyncInv, ServerKnown, ReadyMeansInSync, StoresSameGeneration
  <1>3. CASE ensureFinalizer \/ removeFinalizer
    <2>1. pc' = "idle" /\ UNCHANGED <<remote, tampered>>
      BY <1>3 DEF ensureFinalizer, removeFinalizer, Finish, world, history
    <2>2. cr' \in {cr, [ cr EXCEPT !.finalizer = TRUE ], NoObject}
      BY <1>3 DEF ensureFinalizer, removeFinalizer, WriteOk, WriteErr, Store, apiVars
    <2>3. \/ ~cr'.exists
          \/ /\ cr'.exists = cr.exists /\ cr'.gen = cr.gen /\ cr'.props = cr.props
             /\ cr'.ready = cr.ready /\ cr'.readyGen = cr.readyGen
      BY <1>a, <1>c, <2>2 DEF Objects
    <2>4. QED
      BY <1>a, <2>1, <2>3 DEF SyncInv, ServerKnown, ReadyMeansInSync
  <1>4. CASE getPrincipal
    <2>1. UNCHANGED <<cr, remote, tampered>>
      BY <1>4 DEF getPrincipal, apiVars, world, history
    <2>2. \/ pc' = "report"
          \/ pc' = "create" /\ ~remote.exists
          \/ pc' = "update" /\ remote.exists
          \/ pc' \in {"rotate", "status"} /\ remote.exists /\ remote.props = pp.props /\ pp' = pp
      BY <1>4 DEF getPrincipal, GoTo, driftsFrom, AfterSync
    <2>3. QED
      BY <1>a, <2>1, <2>2 DEF SyncInv, ServerKnown, ReadyMeansInSync
  <1>5. CASE createPrincipal
    <2>1. /\ UNCHANGED <<cr, tampered>> /\ pc = "create" /\ pp'.props = pp.props
      BY <1>5, <1>a, PassProgresses
      DEF createPrincipal, PassMovesOn, Progresses, SameSpec, apiVars
    <2>2. \/ pc' = "report"
          \/ pc' = "secret" /\ remote'.exists /\ remote'.props = pp.props
          \/ pc' = "secret" /\ remote.exists
      BY <1>5 DEF createPrincipal, PostPrincipal, GoTo
    <2>3. QED
      BY <1>a, <2>1, <2>2 DEF SyncInv, ServerKnown, ReadyMeansInSync
  <1>6. CASE writeCredentialsSecret
    <2>1. /\ UNCHANGED <<cr, remote, tampered>> /\ pc = "secret" /\ pp'.props = pp.props
      BY <1>6, <1>a, PassProgresses
      DEF writeCredentialsSecret, PassMovesOn, Progresses, SameSpec, apiVars
    <2>2. pc' = "report" \/ (pc' = "status" /\ creds # "nil")
      BY <1>6 DEF writeCredentialsSecret, CredentialsReturned, AfterSync, GoTo
    <2>3. QED
      BY <1>a, <2>1, <2>2 DEF SyncInv, ServerKnown, ReadyMeansInSync
  <1>7. CASE updatePrincipal
    <2>1. /\ UNCHANGED <<cr, tampered>> /\ pc = "update" /\ pp'.props = pp.props
      BY <1>7, <1>a, PassProgresses
      DEF updatePrincipal, PassMovesOn, Progresses, SameSpec, apiVars, history
    <2>2. \/ remote' = remote /\ pc' = "report"
          \/ remote'.exists = remote.exists /\ remote'.props = pp.props
             /\ pc' \in {"rotate", "status", "report"}
      BY <1>7, <1>a DEF updatePrincipal, AfterSync, GoTo, TypeOK, Principals
    <2>3. cr.exists /\ cr.ready = "Ready" /\ cr.readyGen = cr.gen => cr.props = pp.props
      BY <1>a, <1>b, <2>1 DEF PassShape, VersionInv, ReadySeen, NotNewer
    <2>4. QED
      BY <1>a, <2>1, <2>2, <2>3 DEF SyncInv, ServerKnown, ReadyMeansInSync
  <1>8. CASE rotateCredentials
    <2>1. /\ UNCHANGED <<cr, remote, tampered>> /\ pc = "rotate" /\ pp'.props = pp.props
      BY <1>8, <1>a, PassProgresses
      DEF rotateCredentials, PassMovesOn, Progresses, SameSpec, apiVars
    <2>2. pc' \in {"secret", "status", "report"}
      BY <1>8 DEF rotateCredentials, GoTo
    <2>3. QED
      BY <1>a, <2>1, <2>2 DEF SyncInv, ServerKnown, ReadyMeansInSync
  <1>9. CASE finalize
    <2>1. /\ UNCHANGED <<cr, tampered>> /\ pc = "delete" /\ pc' \in {"idle", "unfinalize"}
      BY <1>9 DEF finalize, Finish, GoTo, apiVars, history
    <2>2. ~(cr.exists /\ cr.ready = "Ready" /\ cr.readyGen = cr.gen)
      BY <1>a, <1>b, <2>1 DEF PassShape, CopiesInv, DeletionSeen, VersionInv
    <2>3. QED
      BY <2>1, <2>2 DEF SyncInv, ServerKnown, ReadyMeansInSync
  <1>10. CASE (\E rotate \in BOOLEAN, props \in Props : EditSpec(rotate, props)) \/ DeleteResource
    <2>1. UNCHANGED <<pc, pp, creds, remote, tampered>>
      BY <1>10 DEF EditSpec, DeleteResource, world, history
    <2>2. ~cr'.exists \/ (cr'.gen = cr.gen + 1 /\ cr'.readyGen = cr.readyGen)
      BY <1>10, <1>a, <1>c DEF EditSpec, DeleteResource, Store, Objects
    <2>3. QED
      BY <1>a, <1>b, <2>1, <2>2
      DEF SyncInv, ServerKnown, ReadyMeansInSync, VersionInv, StatusBehind
  <1>11. CASE DeleteSecret \/ ServerChange
    BY <1>11 DEF DeleteSecret, ServerChange, SyncInv, ServerKnown, ReadyMeansInSync
  <1>12. QED
    <2>1. CASE waitForDependency \/ Begin \/ BeginNotFound \/ resolveFail \/ ConnectionResolved
               \/ CacheSync \/ SecretSync \/ CollectSecret
               \/ ConnectionDegrades \/ ConnectionRecovers \/ Restart
               \/ UNCHANGED vars
      BY <2>1, <1>1
      DEF waitForDependency, Begin, BeginNotFound, resolveFail, ConnectionResolved, AfterGate,
          CacheSync, SecretSync, CollectSecret, ConnectionDegrades, ConnectionRecovers,
          Restart, vars, apiVars, locals, world, history, GoTo, Finish
    <2>2. QED
      BY <1>2, <1>3, <1>4, <1>5, <1>6, <1>7, <1>8, <1>9, <1>10, <1>11, <2>1
      DEF Next, Reconcile, Environment, StatusWrite

-----------------------------------------------------------------------------

\* The inductive invariant of the module.
IInv ==
    TypeInv /\ FinalizerInv /\ CredentialInv /\ VersionInv /\ SyncInv

\* It is inductive: NextCredential uses FinalizerInv, NextVersion the copies'
\* shape in it, and NextSync the credentials' shape and the ages of the copies.
LEMMA Inductive == Spec => []IInv
  <1>1. Init => IInv
    BY InitType, InitFinalizer, InitCredential, InitVersion DEF IInv, SyncInv
  <1>2. IInv /\ [Next]_vars => IInv'
    <2> SUFFICES ASSUME IInv, [Next]_vars PROVE IInv'
      OBVIOUS
    <2>1. TypeInv' /\ FinalizerInv' /\ CredentialInv'
      BY NextType, NextFinalizer, NextCredential DEF IInv
    <2>2. VersionInv' /\ SyncInv'
      BY <2>1, NextVersion, NextSync DEF IInv, FinalizerInv, CredentialInv
    <2>3. QED
      BY <2>1, <2>2 DEF IInv
  <1>3. QED
    BY <1>1, <1>2, PTL DEF Spec

\* Ready=True for the current generation means the server holds the current
\* spec: stale copies, conflicts and lost answers never make it a lie.
THEOREM ReadyIsInSync == Spec => []ReadyMeansInSync
  <1>1. IInv => ReadyMeansInSync
    BY DEF IInv, SyncInv
  <1>2. QED
    BY <1>1, Inductive, PTL

\* observedGeneration never goes back.
THEOREM ObservedMonotone == Spec => ObservedNeverRegresses
  <1>1. IInv /\ [Next]_vars => [cr.exists /\ cr'.exists => cr'.obs >= cr.obs]_vars
    <2> SUFFICES ASSUME IInv, Next, cr.exists, cr'.exists
                 PROVE  cr'.obs >= cr.obs
      OBVIOUS
    <2>1. TypeOK /\ PassShape /\ VersionInv /\ cr \in Objects /\ cr.obs \in Nat
      BY PrincipalAssumption DEF IInv, TypeInv, FinalizerInv, CopiesInv, TypeOK, Objects, Generations
    <2>2. CASE StatusWrite
      <3>1. cr.obs <= cr'.obs
        BY <2>1, <2>2, StatusWriteStores
      <3>2. QED
        BY <2>1, <3>1 DEF StoresSameGeneration
    <2>3. CASE ~StatusWrite
      <3>1. cr' # cr =>
               ensureFinalizer \/ removeFinalizer \/ DeleteResource
               \/ \E rotate \in BOOLEAN, props \in Props : EditSpec(rotate, props)
        BY <2>3
        DEF Next, Reconcile, Environment, StatusWrite, Begin, BeginNotFound,
            resolveFail, waitForDependency, ConnectionResolved, getPrincipal,
            createPrincipal, writeCredentialsSecret, updatePrincipal,
            rotateCredentials, finalize, CacheSync, SecretSync, DeleteSecret, CollectSecret,
            ConnectionDegrades, ConnectionRecovers, ServerChange, Restart, apiVars
      <3>2. ~NoObject.exists
        BY DEF NoObject
      <3>3. cr' # cr => cr'.obs = cr.obs
        BY <2>1, <3>1, <3>2
        DEF ensureFinalizer, removeFinalizer, DeleteResource, EditSpec,
            WriteOk, WriteErr, Store, apiVars, Objects
      <3>4. QED
        BY <2>1, <3>3
    <2>4. QED
      BY <2>2, <2>3
  <1>2. QED
    BY <1>1, Inductive, PTL DEF Spec, ObservedNeverRegresses
-----------------------------------------------------------------------------
(* The reconciler implements the abstract life of a resource.              *)

\* Only what has the finalizer is ever deleting or Ready, and a pass that saw
\* the deletion of what is gone finds no principal, unless the server was
\* given up or somebody else made one.
LifeInv ==
    /\ cr.deleting \/ cr.ready = "Ready" => cr.exists /\ cr.finalizer
    /\ ~tampered /\ ~dropped =>
          /\ pc = "unfinalize" => ~remote.exists
          /\ (pp.exists /\ pp.deleting) \/ (cache.exists /\ cache.deleting)
                => cr.exists \/ ~remote.exists

\* Init: just applied.
LEMMA InitLife == Init => LifeInv /\ Resource!Init
  <1> SUFFICES ASSUME Init PROVE LifeInv /\ Resource!Init
    OBVIOUS
  <1>1. PICK r \in BOOLEAN, p \in Props : cr = Applied(r, p)
    BY DEF Init
  <1>2. cr.exists /\ ~cr.finalizer /\ cr.ready = "None" /\ ~cr.deleting
    BY <1>1 DEF Applied, NoObject
  <1>3. ~NoObject.exists /\ remote.exists \in BOOLEAN
    BY InitType DEF TypeInv, TypeOK, Principals, NoObject
  <1>4. ~tampered /\ ~dropped /\ pc = "idle" /\ cache = NoObject /\ pp = NoObject
    BY DEF Init
  <1>5. LifeInv
    BY <1>2, <1>3, <1>4 DEF LifeInv
  <1>6. Resource!Init
    BY <1>2, <1>3, <1>4 DEF Resource!Init, Stage
  <1>7. QED
    BY <1>5, <1>6

\* What a call may do to the stored resource.
LEMMA WritesOfPass ==
    ASSUME TypeOK, PassShape, VersionInv, LifeInv
    PROVE  /\ ensureFinalizer =>
                 \/ cr' = cr
                 \/ /\ cr.exists /\ ~cr.deleting
                    /\ cr' = [ cr EXCEPT !.finalizer = TRUE ]
           /\ StatusWrite =>
                 \/ cr' = cr
                 \/ /\ cr.exists /\ ~cr.deleting /\ SameSpec(cr', cr)
                    /\ cr'.ready = "Ready" =>
                          cr.ready = "Ready" \/ (pc = "status" /\ cr.finalizer)
           /\ removeFinalizer =>
                 \/ cr' = cr
                 \/ cr.exists /\ cr.deleting /\ cr' = NoObject
  <1>1. pp \in Objects /\ cr \in Objects /\ "Ready" \in Readiness
    BY DEF TypeOK, Readiness
  <1>2. ppCurrent => SameSpec(pp, cr) /\ (pp.ready = "Ready" => cr.ready = "Ready")
    BY DEF VersionInv, CopyCurrent
  <1>3. ASSUME ensureFinalizer
        PROVE  \/ cr' = cr
               \/ /\ cr.exists /\ ~cr.deleting
                  /\ cr' = [ cr EXCEPT !.finalizer = TRUE ]
    <2>1. cr' = cr \/ (ppCurrent /\ cr' = [ cr EXCEPT !.finalizer = TRUE ])
      BY <1>3 DEF ensureFinalizer, WriteOk, WriteErr, Store, apiVars
    <2>2. pp.exists /\ ~pp.deleting
      BY <1>3 DEF ensureFinalizer, PassShape
    <2>3. QED
      BY <1>2, <2>1, <2>2 DEF SameSpec
  <1>4. ASSUME StatusWrite
        PROVE  \/ cr' = cr
               \/ /\ cr.exists /\ ~cr.deleting /\ SameSpec(cr', cr)
                  /\ cr'.ready = "Ready" =>
                        cr.ready = "Ready" \/ (pc = "status" /\ cr.finalizer)
    <2> DEFINE q == IF pc = "status" THEN Reconciled(pp) ELSE pp
    <2>1. q \in Objects
      BY <1>1, StatusTypes
    <2>2. /\ pc \in {"wait", "report", "status"}
          /\ cr' = cr \/ (ppCurrent /\ cr' = WithStatusOf(cr, q))
      BY <1>4 DEF StatusWrite, WriteWaitStatus, WriteFailedStatus, WriteReadyStatus,
                  WriteOk, WriteErr, Store, apiVars
    <2>3. /\ pp.exists /\ ~pp.deleting /\ (pc = "status" => pp.finalizer)
      BY <2>2 DEF PassShape, Mutating
    <2>4. pc # "status" => q = pp
      OBVIOUS
    <2> HIDE DEF q
    <2>5. SameSpec(WithStatusOf(cr, q), cr) /\ WithStatusOf(cr, q).ready = q.ready
      BY <1>1, <2>1, StatusOnly, StatusFields
    <2>6. QED
      BY <1>2, <2>2, <2>3, <2>4, <2>5 DEF SameSpec
  <1>5. ASSUME removeFinalizer
        PROVE  cr' = cr \/ (cr.exists /\ cr.deleting /\ cr' = NoObject)
    <2>1. cr' = cr \/ (ppCurrent /\ cr' = NoObject)
      BY <1>5 DEF removeFinalizer, WriteOk, WriteErr, Store, apiVars
    <2>2. pp.exists /\ pp.deleting
      BY <1>5 DEF removeFinalizer, PassShape
    <2>3. QED
      BY <1>2, <2>1, <2>2 DEF SameSpec
  <1>6. QED
    BY <1>3, <1>4, <1>5

\* Every step keeps it.
LEMMA NextLife ==
    TypeInv /\ FinalizerInv /\ VersionInv /\ LifeInv /\ [Next]_vars => LifeInv'
  <1> SUFFICES ASSUME TypeInv, FinalizerInv, VersionInv, LifeInv, [Next]_vars
               PROVE  LifeInv'
    OBVIOUS
  <1>a. /\ TypeOK /\ PassShape /\ CopiesInv
        /\ cr \in Objects /\ remote \in Principals
        /\ ~NoObject.exists /\ ~NoObject.deleting /\ NoObject.ready = "None"
        /\ ~NoPrincipal.exists
    BY DEF TypeInv, TypeOK, FinalizerInv, CopiesInv, NoObject, NoPrincipal
  <1>1. CASE ensureFinalizer \/ StatusWrite
    <2>1. \/ cr' = cr
          \/ /\ cr.exists /\ ~cr.deleting
             /\ cr' = [ cr EXCEPT !.finalizer = TRUE ]
          \/ /\ cr.exists /\ ~cr.deleting /\ SameSpec(cr', cr)
             /\ cr'.ready = "Ready" => cr.ready = "Ready" \/ cr.finalizer
      BY <1>1, <1>a, WritesOfPass
    <2>2. pc' = "idle" /\ pp' = NoObject /\ cache' = cache /\ UNCHANGED <<remote, tampered, dropped>>
      BY <1>1
      DEF ensureFinalizer, StatusWrite, WriteWaitStatus, WriteFailedStatus, WriteReadyStatus,
          WriteOk, WriteErr, Store, apiVars, Finish, world, history
    <2>3. cr'.exists = cr.exists /\ (cr'.deleting \/ cr'.ready = "Ready" => cr'.finalizer /\ cr.exists)
      BY <2>1, <1>a DEF LifeInv, SameSpec, Objects
    <2>4. QED
      BY <2>2, <2>3, <1>a DEF LifeInv
  <1>2. CASE removeFinalizer
    <2>1. cr' = cr \/ (cr.exists /\ cr.deleting /\ cr' = NoObject)
      BY <1>2, <1>a, WritesOfPass
    <2>2. /\ pc' = "idle" /\ pp' = NoObject /\ cache' = cache /\ UNCHANGED <<remote, tampered>>
          /\ pc \in {"unfinalize", "drop"} /\ dropped' = (dropped \/ (pc = "drop" /\ cr' # cr))
      BY <1>2 DEF removeFinalizer, WriteOk, WriteErr, Store, apiVars, Finish, world
    <2>3. QED
      BY <2>1, <2>2, <1>a DEF LifeInv
  <1>3. CASE createPrincipal \/ getPrincipal \/ writeCredentialsSecret \/ updatePrincipal
               \/ rotateCredentials \/ resolveFail \/ waitForDependency
               \/ ConnectionResolved
    <2>1. UNCHANGED <<cr, cache, tampered, dropped>> /\ pc' # "unfinalize"
      BY <1>3
      DEF createPrincipal, getPrincipal, writeCredentialsSecret, updatePrincipal,
          rotateCredentials, resolveFail, waitForDependency, ConnectionResolved, AfterGate,
          AfterSync, GoTo, Finish, apiVars, history
    <2>2. (pp'.exists => pp'.deleting = pp.deleting /\ pp'.exists = pp.exists)
      <3>1. pp' = pp \/ pp' = NoObject \/ Progresses(pp, pp')
        BY <1>3, <1>a, HelpersProgress
        DEF TypeOK, createPrincipal, getPrincipal, writeCredentialsSecret, updatePrincipal,
            rotateCredentials, resolveFail, waitForDependency, ConnectionResolved, Finish, locals
      <3>2. QED
        BY <3>1, <1>a DEF Progresses, SameSpec
    <2>3. remote'.exists => remote.exists \/ cr.exists
      <3>1. CASE createPrincipal
        BY <3>1, <1>a DEF createPrincipal, PassShape, Mutating, CopiesInv, FinalizerSeen
      <3>2. CASE updatePrincipal
        BY <3>2, <1>a DEF updatePrincipal, Principals
      <3>3. CASE ~createPrincipal /\ ~updatePrincipal
        BY <1>3, <3>3
        DEF getPrincipal, writeCredentialsSecret, rotateCredentials, resolveFail,
            waitForDependency, ConnectionResolved, world
      <3>4. QED
        BY <3>1, <3>2, <3>3
    <2>4. QED
      BY <2>1, <2>2, <2>3 DEF LifeInv
  <1>4. CASE finalize
    <2>1. /\ UNCHANGED <<cr, cache, tampered, dropped>> /\ (pp' = pp \/ pp' = NoObject)
          /\ (remote' = NoPrincipal \/ (remote' = remote /\ pc' = "idle"))
      BY <1>4 DEF finalize, DeleteAccepted, Finish, locals, apiVars, history
    <2>2. QED
      BY <2>1, <1>a DEF LifeInv
  <1>5. CASE Begin \/ BeginNotFound \/ CacheSync \/ SecretSync \/ DeleteSecret
               \/ CollectSecret
               \/ ConnectionDegrades \/ ConnectionRecovers \/ ServerChange \/ Restart
               \/ UNCHANGED vars
    <2>1. /\ UNCHANGED <<cr, dropped>>
          /\ tampered' \/ UNCHANGED <<remote, tampered>>
          /\ pc' = "unfinalize" => pc = "unfinalize"
          /\ pp' \in {pp, cache, NoObject} /\ cache' \in {cache, cr}
      BY <1>5
      DEF Begin, BeginNotFound, CacheSync, SecretSync, DeleteSecret, CollectSecret,
          ConnectionDegrades,
          ConnectionRecovers, ServerChange, Restart, vars, apiVars, locals, world, history
    <2>2. QED
      BY <2>1, <1>a DEF LifeInv
  <1>6. CASE DeleteResource \/ \E rotate \in BOOLEAN, props \in Props : EditSpec(rotate, props)
    <2>1. /\ UNCHANGED <<pc, pp, cache, remote, tampered, dropped>>
          /\ cr.exists /\ ~cr.deleting
      BY <1>6 DEF DeleteResource, EditSpec, Store, world, history
    <2>2. ~(pp.exists /\ pp.deleting) /\ ~(cache.exists /\ cache.deleting)
      BY <2>1, <1>a DEF CopiesInv, DeletionSeen
    <2>3. cr'.deleting \/ cr'.ready = "Ready" => cr'.exists /\ cr'.finalizer
      <3>1. CASE DeleteResource
        BY <3>1, <2>1, <1>a DEF DeleteResource, Store, Objects, LifeInv
      <3>2. CASE \E rotate \in BOOLEAN, props \in Props : EditSpec(rotate, props)
        BY <3>2, <2>1, <1>a DEF EditSpec, Store, Objects, LifeInv
      <3>3. QED
        BY <1>6, <3>1, <3>2
    <2>4. QED
      BY <2>1, <2>2, <2>3 DEF LifeInv
  <1>7. QED
    BY <1>1, <1>2, <1>3, <1>4, <1>5, <1>6 DEF Next, Reconcile, Environment, StatusWrite

\* What leaves the resource and the principal's presence alone is a stutter.
LEMMA ResourceStutter ==
    ASSUME UNCHANGED <<cr, tampered, dropped>>, remote'.exists = remote.exists
    PROVE  UNCHANGED Resource!resource
  BY DEF Resource!resource, Stage

\* Every step is one that PolarisResource allows.
LEMMA ResourceStep ==
    ASSUME IInv, LifeInv, [Next]_vars
    PROVE  [Resource!Next]_(Resource!resource)
  <1>a. /\ TypeOK /\ PassShape /\ CopiesInv /\ VersionInv /\ ServerKnown
        /\ cr \in Objects /\ remote \in Principals /\ remote.exists \in BOOLEAN
        /\ tampered \in BOOLEAN /\ dropped \in BOOLEAN
        /\ cr.exists \in BOOLEAN /\ cr.finalizer \in BOOLEAN /\ cr.deleting \in BOOLEAN
        /\ ~NoObject.exists /\ NoObject.ready = "None" /\ ~NoPrincipal.exists
        /\ NoPrincipal.exists = FALSE
    BY DEF IInv, TypeInv, TypeOK, FinalizerInv, CopiesInv, SyncInv, Objects, Principals,
           NoObject, NoPrincipal
  <1>1. CASE ensureFinalizer
    <2>1. UNCHANGED <<remote, tampered, dropped>>
      BY <1>1 DEF ensureFinalizer, world, history
    <2>2. CASE cr' = cr
      BY <2>1, <2>2, ResourceStutter
    <2>3. CASE cr' # cr
      <3>1. /\ cr.exists /\ ~cr.deleting /\ cr'.exists /\ cr'.finalizer /\ ~cr'.deleting
            /\ cr'.ready = cr.ready /\ cr' = [ cr EXCEPT !.finalizer = TRUE ]
        BY <1>1, <1>a, <2>3, WritesOfPass DEF Objects
      <3>2. ~cr.finalizer
        BY <3>1, <2>3, <1>a DEF Objects
      <3>3. QED
        BY <2>1, <3>1, <3>2
        DEF Resource!Next, Resource!Guard, Resource!resource, Stage
    <2>4. QED
      BY <2>2, <2>3
  <1>2. CASE StatusWrite
    <2>1. UNCHANGED <<remote, tampered, dropped>>
      BY <1>2 DEF StatusWrite, WriteWaitStatus, WriteFailedStatus, WriteReadyStatus, world, history
    <2>2. CASE cr' = cr
      BY <2>1, <2>2, ResourceStutter
    <2>3. CASE cr' # cr
      <3>1. /\ cr.exists /\ ~cr.deleting /\ SameSpec(cr', cr)
            /\ cr'.ready = "Ready" =>
                  cr.ready = "Ready" \/ (pc = "status" /\ cr.finalizer)
        BY <1>2, <1>a, <2>3, WritesOfPass
      <3>2. CASE cr'.ready = "Ready" <=> cr.ready = "Ready"
        BY <2>1, <3>1, <3>2 DEF SameSpec, Resource!resource, Stage
      <3>3. CASE cr'.ready = "Ready" /\ cr.ready # "Ready"
        <4>1. remote.exists \/ tampered
          BY <3>1, <3>3, <1>a DEF ServerKnown
        <4>2. QED
          BY <2>1, <3>1, <3>3, <4>1
          DEF SameSpec, Resource!Next, Resource!Report, Resource!resource, Stage
      <3>4. CASE cr'.ready # "Ready" /\ cr.ready = "Ready"
        <4>1. cr.finalizer
          BY <3>4 DEF LifeInv
        <4>2. QED
          BY <2>1, <3>1, <3>4, <4>1
          DEF SameSpec, Resource!Next, Resource!Report, Resource!resource, Stage
      <3>5. QED
        BY <3>2, <3>3, <3>4
    <2>4. QED
      BY <2>2, <2>3
  <1>3. CASE removeFinalizer
    <2>1. /\ UNCHANGED <<remote, tampered>> /\ pc \in {"unfinalize", "drop"}
          /\ dropped' = (dropped \/ (pc = "drop" /\ cr' # cr))
      BY <1>3 DEF removeFinalizer, world
    <2>2. CASE cr' = cr
      BY <2>1, <2>2, <1>a, ResourceStutter
    <2>3. CASE cr' # cr
      <3>1. cr.exists /\ cr.deleting /\ cr' = NoObject
        BY <1>3, <1>a, <2>3, WritesOfPass
      <3>2. cr.finalizer /\ ~cr'.exists /\ cr'.ready # "Ready"
        BY <3>1, <1>a DEF LifeInv
      <3>3. ~remote.exists \/ tampered' \/ dropped'
        BY <2>1, <2>3 DEF LifeInv
      <3>4. QED
        BY <2>1, <3>1, <3>2, <3>3
        DEF Resource!Next, Resource!Release, Resource!resource, Stage
    <2>4. QED
      BY <2>2, <2>3
  <1>4. CASE createPrincipal
    <2>1. UNCHANGED <<cr, tampered, dropped>>
      BY <1>4 DEF createPrincipal, apiVars
    <2>2. CASE UNCHANGED remote
      BY <2>1, <2>2, ResourceStutter
    <2>3. CASE PostPrincipal
      <3>1. cr.exists /\ cr.finalizer
        BY <1>4, <1>a DEF createPrincipal, PassShape, Mutating, CopiesInv, FinalizerSeen
      <3>2. ~remote.exists /\ remote'.exists = TRUE
        BY <2>3 DEF PostPrincipal
      <3>3. QED
        BY <2>1, <3>1, <3>2
        DEF Resource!Next, Resource!Create, Resource!resource, Stage
    <2>4. QED
      BY <1>4, <2>2, <2>3 DEF createPrincipal
  <1>5. CASE finalize
    <2>1. UNCHANGED <<cr, tampered, dropped>> /\ remote' \in {remote, NoPrincipal}
      BY <1>5 DEF finalize, apiVars, history
    <2>2. CASE remote'.exists = remote.exists
      BY <2>1, <2>2, ResourceStutter
    <2>3. CASE remote'.exists # remote.exists
      <3>1. remote.exists /\ remote'.exists = FALSE
        BY <2>1, <2>3, <1>a
      <3>2. pp.exists /\ pp.deleting
        BY <1>5, <1>a DEF finalize, PassShape
      <3>3. CASE cr.exists
        <4>1. cr.deleting /\ cr.finalizer
          BY <3>2, <3>3, <1>a DEF CopiesInv, DeletionSeen, LifeInv
        <4>2. QED
          BY <2>1, <3>1, <3>3, <4>1
          DEF Resource!Next, Resource!Remove, Resource!resource, Stage
      <3>4. CASE ~cr.exists
        <4>1. tampered \/ dropped
          BY <3>1, <3>2, <3>4 DEF LifeInv
        <4>2. QED
          BY <2>1, <3>1, <4>1
          DEF Resource!Next, Resource!Interfere, Resource!resource, Stage
      <3>5. QED
        BY <3>3, <3>4
    <2>4. QED
      BY <2>2, <2>3
  <1>6. CASE \E rotate \in BOOLEAN, props \in Props : EditSpec(rotate, props)
    <2>1. UNCHANGED <<remote, tampered, dropped>>
      BY <1>6 DEF EditSpec, world, history
    <2>2. /\ cr'.exists = cr.exists /\ cr'.finalizer = cr.finalizer
          /\ cr'.deleting = cr.deleting /\ cr'.ready = cr.ready
      BY <1>6, <1>a DEF EditSpec, Store, Objects
    <2>3. QED
      BY <2>1, <2>2 DEF Resource!resource, Stage
  <1>7. CASE DeleteResource
    <2>1. UNCHANGED <<remote, tampered, dropped>> /\ cr.exists /\ ~cr.deleting
      BY <1>7 DEF DeleteResource, world, history
    <2>2. CASE cr.finalizer
      <3>1. cr'.exists /\ cr'.finalizer /\ cr'.deleting /\ cr'.ready = cr.ready
        BY <1>7, <2>1, <2>2, <1>a DEF DeleteResource, Store, Objects
      <3>2. QED
        BY <2>1, <2>2, <3>1
        DEF Resource!Next, Resource!Delete, Resource!resource, Stage
    <2>3. CASE ~cr.finalizer
      <3>1. ~cr'.exists /\ cr'.ready # "Ready" /\ cr.ready # "Ready"
        BY <1>7, <2>3, <1>a DEF DeleteResource, Store, LifeInv
      <3>2. QED
        BY <2>1, <2>3, <3>1
        DEF Resource!Next, Resource!Delete, Resource!resource, Stage
    <2>4. QED
      BY <2>2, <2>3
  <1>8. CASE ServerChange \/ DeleteSecret
    <2>1. cr' = cr /\ tampered' = TRUE
      BY <1>8 DEF ServerChange, DeleteSecret, apiVars
    <2>2. remote'.exists \in BOOLEAN
      <3>1. CASE ServerChange
        <4>1. \/ \E p \in Props : remote' = [ exists |-> TRUE, props |-> p, mine |-> FALSE ]
              \/ remote' = NoPrincipal
              \/ \E p \in Props : remote' = [ remote EXCEPT !.props = p ]
              \/ remote' = remote
          BY <3>1 DEF ServerChange
        <4>2. \A p \in Props : [ remote EXCEPT !.props = p ].exists = remote.exists
          BY <1>a DEF Principals
        <4>3. \/ remote'.exists = TRUE
              \/ remote'.exists = NoPrincipal.exists
              \/ remote'.exists = remote.exists
          <5>1. ASSUME NEW p \in Props,
                       remote' = [ exists |-> TRUE, props |-> p, mine |-> FALSE ]
                PROVE  remote'.exists = TRUE
            BY <5>1
          <5>2. QED
            BY <4>1, <4>2, <5>1, Zenon
        <4>4. QED
          BY <4>3, <1>a, Zenon
      <3>2. CASE DeleteSecret
        BY <3>2, <1>a DEF DeleteSecret
      <3>3. QED
        BY <1>8, <3>1, <3>2
    <2>3. QED
      BY <2>1, <2>2 DEF Resource!Next, Resource!Interfere, Resource!resource, Stage
  <1>9. CASE updatePrincipal
    <2>1. remote'.exists = remote.exists /\ UNCHANGED <<cr, tampered, dropped>>
      BY <1>9, <1>a DEF updatePrincipal, Principals, apiVars, history
    <2>2. QED
      BY <2>1, ResourceStutter
  <1>10. CASE resolveFail \/ waitForDependency \/ ConnectionResolved \/ getPrincipal
                \/ writeCredentialsSecret \/ rotateCredentials
                \/ Begin \/ BeginNotFound \/ CacheSync \/ SecretSync \/ CollectSecret
                \/ ConnectionDegrades \/ ConnectionRecovers \/ Restart \/ UNCHANGED vars
    <2>1. UNCHANGED <<cr, remote, tampered, dropped>>
      BY <1>10
      DEF resolveFail, waitForDependency, ConnectionResolved, getPrincipal,
          writeCredentialsSecret, rotateCredentials, Begin, BeginNotFound, CacheSync,
          SecretSync, CollectSecret, ConnectionDegrades, ConnectionRecovers, Restart,
          vars, apiVars, locals, world, history
    <2>2. QED
      BY <2>1, ResourceStutter
  <1>11. QED
    BY <1>1, <1>2, <1>3, <1>4, <1>5, <1>6, <1>7, <1>8, <1>9, <1>10
    DEF Next, Reconcile, Environment, StatusWrite

\* The principal reconciler implements the abstract life of a resource.
THEOREM Implements == Spec => ImplementsResource
  <1>1. Init => LifeInv /\ Resource!Init
    BY InitLife
  <1>2. IInv /\ LifeInv /\ [Next]_vars => LifeInv'
    BY NextLife DEF IInv, SyncInv
  <1>3. IInv /\ LifeInv /\ [Next]_vars => [Resource!Next]_(Resource!resource)
    BY ResourceStep
  <1>4. QED
    BY Inductive, <1>1, <1>2, <1>3, PTL DEF Spec, ImplementsResource, Resource!Spec
-----------------------------------------------------------------------------
(* Nobody is forgotten.                                                    *)

\* The user's writes move the generation past what the cache shows, so that the
\* event gets past the predicate; a Ready that ends a pass without a requeue is
\* of the stored generation, and a NotFound is of a resource that is gone or
\* whose creation has yet to be delivered.
LEMMA RememberStep ==
    ASSUME IInv, NeverForgotten, [Next]_vars
    PROVE  NeverForgotten'
  <1> USE DEF NeverForgotten
  <1>a. /\ TypeOK /\ PassShape /\ VersionInv
        /\ cr \in Objects /\ pp \in Objects /\ cache \in Objects
    BY DEF IInv, TypeInv, FinalizerInv, CopiesInv, TypeOK
  <1>b. cr.gen \in Nat /\ cache.gen \in Nat
    BY <1>a, PrincipalAssumption DEF Objects, Generations
  <1>1. CASE Begin
    BY <1>1 DEF Begin
  <1>2. CASE BeginNotFound
    BY <1>2, <1>a DEF BeginNotFound, Delivers, apiVars, Objects
  <1>3. CASE PassMovesOn
    <2>1. pc' # "idle"
      BY <1>3
      DEF PassMovesOn, resolveFail, ConnectionResolved, AfterGate, getPrincipal,
          AfterSync, createPrincipal, writeCredentialsSecret, updatePrincipal,
          rotateCredentials, GoTo
    <2> QED
      BY <2>1
  <1>4. ASSUME Finish(TRUE) PROVE NeverForgotten'
    BY <1>4 DEF Finish
  <1>5. CASE waitForDependency
    BY <1>5, <1>4 DEF waitForDependency, dependencyRequeue, GoTo
  <1>6. CASE ensureFinalizer \/ WriteWaitStatus \/ WriteFailedStatus
    BY <1>6, <1>4
    DEF ensureFinalizer, WriteWaitStatus, WriteFailedStatus, dependencyRequeue
  <1>7. CASE WriteReadyStatus
    <2> DEFINE o == WithStatusOf(cr, Reconciled(pp))
    <2>1. "Ready" \in Readiness
      BY DEF Readiness
    <2>2. Reconciled(pp) \in Objects
      BY <1>a, <2>1, StatusTypes
    <2>3. /\ SameSpec(o, cr)
          /\ o.ready = "Ready" /\ o.readyGen = pp.gen
      BY <1>a, <2>1, <2>2, StatusOnly, StatusFields
    <2>4. CASE WriteOk(o)
      <3>1. cr' = o /\ SameSpec(pp, cr)
        BY <1>a, <2>4 DEF WriteOk, Store, VersionInv, CopyCurrent
      <3>2. ~pp.deleting
        BY <1>7, <1>a DEF WriteReadyStatus, PassShape, Mutating
      <3> HIDE DEF o
      <3> QED
        BY <2>3, <3>1, <3>2 DEF SameSpec
    <2>5. QED
      BY <1>4, <1>7, <2>4 DEF WriteReadyStatus
  <1>8. CASE finalize
    BY <1>8, <1>4 DEF finalize, GoTo
  <1>9. CASE removeFinalizer
    <2>1. WriteOk(NoObject) => ~cr'.exists
      BY DEF WriteOk, Store, NoObject
    <2> QED
      BY <1>4, <1>9, <2>1 DEF removeFinalizer
  <1>10. CASE CacheSync
    BY <1>10 DEF CacheSync, Delivers, world
  <1>11. CASE SecretSync
    BY <1>11 DEF SecretSync
  <1>12. CASE (\E rotate \in BOOLEAN, props \in Props : EditSpec(rotate, props)) \/ DeleteResource
    <2>1. cache' = cache /\ cr.exists
      BY <1>12 DEF EditSpec, DeleteResource, Store
    <2>2. cr' = NoObject \/ cr'.gen = cr.gen + 1
      BY <1>12, <1>a DEF EditSpec, DeleteResource, Store, Objects
    <2>3. cache.exists => cache.gen <= cr.gen
      BY <1>a, <2>1 DEF VersionInv, NotNewer
    <2>4. ASSUME cr'.exists PROVE Delivers'
      <3>1. cr'.gen = cr.gen + 1
        BY <2>2, <2>4 DEF NoObject
      <3>2. CASE cache.exists
        <4>1. cache'.gen # cr'.gen
          BY <1>b, <2>1, <2>3, <3>1, <3>2
        <4> QED
          BY <4>1 DEF Delivers
      <3>3. CASE ~cache.exists
        <4>1. cache'.exists # cr'.exists
          BY <2>1, <2>4, <3>3
        <4> QED
          BY <4>1 DEF Delivers
      <3> QED
        BY <3>2, <3>3
    <2> QED
      BY <2>4
  <1>13. CASE DeleteSecret \/ CollectSecret
    BY <1>13 DEF DeleteSecret, CollectSecret, Delivers
  <1>14. CASE ConnectionDegrades \/ ConnectionRecovers \/ ServerChange \/ UNCHANGED vars
    BY <1>14
    DEF ConnectionDegrades, ConnectionRecovers, ServerChange, vars, Delivers,
        apiVars, world
  <1>15. CASE Restart
    BY <1>15 DEF Restart
  <1> QED
    BY <1>1, <1>2, <1>3, <1>5, <1>6, <1>7, <1>8, <1>9, <1>10, <1>11, <1>12,
       <1>13, <1>14, <1>15
    DEF Next, Reconcile, Environment, PassMovesOn

\* The requeues of the pass, the Secret's events and the changes of generation
\* leave no principal with work to do and nothing to start the pass.
THEOREM Remembered == Spec => []NeverForgotten
  <1>1. Init => NeverForgotten
    <2> SUFFICES ASSUME Init PROVE NeverForgotten
      OBVIOUS
    <2>1. cr.exists /\ ~cache.exists
      BY DEF Init, Applied, NoObject
    <2> QED
      BY <2>1 DEF NeverForgotten, Delivers
  <1>2. IInv /\ NeverForgotten /\ [Next]_vars => NeverForgotten'
    BY RememberStep
  <1> QED
    BY <1>1, <1>2, Inductive, PTL DEF Spec
=============================================================================
