----------------------- MODULE PolarisConnectionProofs -----------------------
(***************************************************************************)
(* For any specs, Secrets and bounds: the types, that Ready is earned, and *)
(* that a connection which is not Ready is not forgotten.                  *)
(***************************************************************************)
EXTENDS PolarisConnectionProperties, TLAPS

\* The informer and a pass have the stored object, or know that they have not;
\* the cache is never ahead of it.
CopyInv ==
    /\ cacheCurrent => cache = cr
    /\ connCurrent => conn = cr
    /\ cr.exists => cache.gen <= cr.gen

\* The finalizer of an older version keeps a deleted connection, and only
\* edits, which MaxGen bounds, and the deletion raise the generation.
Shape(o) ==
    /\ o.deleting => o.finalizer
    /\ ~o.deleting => o.gen <= MaxGen

ShapeInv ==
    /\ Shape(cr) /\ Shape(cache) /\ Shape(conn)
    /\ pc = "drop" => conn.deleting

\* What the Secrets hold, and what a pass took from them.
OfCredentials == Credentials \cup {"absent", "empty"}

SecretInv ==
    /\ \A n \in Names : secrets[n] \in Contents[n] /\ seen[n] \in Contents[n]
    /\ cfg.credentials \in OfCredentials
    /\ pc = "ping" => cfg.credentials \in Credentials
    /\ pc = "bundle" => conn.spec.bundle \in Names

\* ReadyIsEarned, what a pass that is about to write Ready knows, and that no
\* condition is of a generation that is yet to come.
EarnedInv ==
    /\ cr.ready = cr.auth
    /\ cr.condGen <= cr.gen
    /\ cr.ready = "True" /\ cr.condGen = cr.gen => cr.gen \in proved
    /\ pc = "status" => conn.gen \in proved

\* NeverForgotten, with the event that the informer has yet to deliver.
Pending == cache.exists # cr.exists \/ cache.gen # cr.gen

ReadyNow == cr.ready = "True" /\ cr.condGen = cr.gen

AwakeInv == queued \/ pc # "idle" \/ Pending \/ ~cr.exists \/ ReadyNow

IInv == TypeOK /\ CopyInv /\ ShapeInv /\ SecretInv /\ EarnedInv /\ AwakeInv

-----------------------------------------------------------------------------
\* There is a spec to stand in for none.
LEMMA NoObjectTyped ==
    /\ NoObject \in Objects
    /\ NoConfig \in Configs
    /\ Shape(NoObject)
    /\ ~NoObject.exists /\ NoObject.gen = 0
    /\ NoObject.ready = "Unknown" /\ NoObject.auth = "Unknown"
    /\ NoObject.condGen = 0
    /\ NoConfig.credentials = "absent"
<1>1. AnySpec \in Specs
  BY ConnectionAssumption DEF AnySpec
<1>2. QED
  BY <1>1, ConnectionAssumption
     DEF NoObject, Objects, Generations, Statuses, Shape, NoConfig, Configs,
         Values

\* What a status write stores: the object with the conditions of the copy.
LEMMA Statused ==
    ASSUME NEW o \in Objects, NEW p \in Objects, NEW s \in Statuses
    PROVE  LET w == WithStatusOf(o, WithConditions(p, s))
           IN  /\ w \in Objects
               /\ w.exists = o.exists /\ w.gen = o.gen
               /\ w.deleting = o.deleting /\ w.finalizer = o.finalizer
               /\ w.ready = s /\ w.auth = s /\ w.condGen = p.gen
BY DEF WithStatusOf, WithConditions, Objects

\* What an edit and a deletion store.
LEMMA Edited ==
    ASSUME NEW o \in Objects, NEW s \in Specs, o.gen < MaxGen
    PROVE  LET w == [ o EXCEPT !.spec = s, !.gen = @ + 1 ]
           IN  /\ w \in Objects
               /\ w.exists = o.exists /\ w.gen = o.gen + 1
               /\ w.deleting = o.deleting /\ w.finalizer = o.finalizer
               /\ w.ready = o.ready /\ w.auth = o.auth /\ w.condGen = o.condGen
<1>1. o.gen + 1 \in Generations
  BY ConnectionAssumption DEF Objects, Generations
<1>2. QED
  BY <1>1 DEF Objects

LEMMA Doomed ==
    ASSUME NEW o \in Objects, o.gen <= MaxGen
    PROVE  LET w == [ o EXCEPT !.deleting = TRUE, !.gen = @ + 1 ]
           IN  /\ w \in Objects
               /\ w.exists = o.exists /\ w.gen = o.gen + 1
               /\ w.deleting /\ w.finalizer = o.finalizer
               /\ w.ready = o.ready /\ w.auth = o.auth /\ w.condGen = o.condGen
<1>1. o.gen + 1 \in Generations
  BY ConnectionAssumption DEF Objects, Generations
<1>2. QED
  BY <1>1 DEF Objects

\* A write, accepted or not, stores what it is for, if the copy is current, and
\* keeps the bound on faults.
LEMMA Write ==
    ASSUME TypeOK, NEW o, WriteOk(o) \/ WriteErr(o)
    PROVE  /\ UNCHANGED cache
           /\ \/ UNCHANGED <<cr, cacheCurrent>>
              \/ connCurrent /\ cr' = o /\ cacheCurrent' = (cacheCurrent /\ o = cr)
           /\ faults' \in 0..MaxFaults
BY ConnectionAssumption
   DEF TypeOK, WriteOk, WriteErr, NoFault, Fault, Store, apiVars

\* A fault keeps the bound on faults.
LEMMA FaultTyped ==
    ASSUME TypeOK, \E kind \in FaultKinds : Fault(kind)
    PROVE  faults' \in 0..MaxFaults
BY ConnectionAssumption DEF TypeOK, Fault

\* What a Secret may hold is a value.
LEMMA ContentsAreValues ==
    /\ \A n \in Names : Contents[n] \subseteq Values
    /\ \A s \in Specs : s.credentials \in Names
                        /\ s.bundle \in Names \cup {NoRef}
                        /\ Contents[s.credentials] \subseteq OfCredentials
BY ConnectionAssumption DEF OfCredentials

-----------------------------------------------------------------------------
\* At first the connection is on its way to the informer.
LEMMA InitInv == Init => IInv
<1>1. SUFFICES ASSUME Init PROVE IInv
  OBVIOUS
<1>2. PICK s \in Specs, f \in BOOLEAN :
        cr = [ NoObject EXCEPT !.exists = TRUE, !.gen = 1, !.spec = s,
                               !.finalizer = f ]
  BY <1>1 DEF Init
<1>3. 1 \in Generations /\ 0 \in Generations /\ 1 <= MaxGen
  BY ConnectionAssumption DEF Generations
<1>4. /\ cr \in Objects
      /\ cr.exists /\ cr.gen = 1 /\ ~cr.deleting
      /\ cr.ready = "Unknown" /\ cr.auth = "Unknown" /\ cr.condGen = 0
  BY <1>2, <1>3, NoObjectTyped DEF NoObject, Objects
<1>5. /\ cache = NoObject /\ conn = NoObject /\ cfg = NoConfig
      /\ pc = "idle" /\ queued = FALSE /\ cacheCurrent = FALSE
      /\ connCurrent = FALSE
      /\ secrets \in [Names -> Values] /\ seen = secrets
      /\ \A n \in Names : secrets[n] \in Contents[n]
      /\ accepted \in Credentials /\ up \in BOOLEAN /\ faults = 0
      /\ proved = {} /\ offered = "absent"
  BY <1>1 DEF Init
<1>6. TypeOK
  <2>1. 0 \in 0..MaxFaults
    BY ConnectionAssumption
  <2>2. cache \in Objects /\ conn \in Objects /\ cfg \in Configs
    BY <1>5, NoObjectTyped
  <2>3. QED
    BY <1>4, <1>5, <2>1, <2>2 DEF TypeOK, Calls
<1>7. CopyInv /\ ShapeInv
  BY <1>3, <1>4, <1>5, NoObjectTyped DEF CopyInv, ShapeInv, Shape
<1>8. SecretInv
  BY <1>5, NoObjectTyped DEF SecretInv, OfCredentials
<1>9. EarnedInv
  BY <1>4, <1>5 DEF EarnedInv
<1>10. AwakeInv
  <2>1. cache.gen = 0 /\ cr.gen = 1
    BY <1>4, <1>5, NoObjectTyped
  <2>2. QED
    BY <2>1 DEF AwakeInv, Pending
<1>11. QED
  BY <1>6, <1>7, <1>8, <1>9, <1>10 DEF IInv

-----------------------------------------------------------------------------
(* Steps of a pass that read.                                              *)

\* A pass starts.
LEMMA BeginInv ==
    ASSUME IInv, Begin
    PROVE  IInv'
<1>1. /\ UNCHANGED <<cr, cache, cacheCurrent, cfg, secrets, seen, accepted, up,
                     faults, proved, offered>>
      /\ queued' = FALSE /\ cache.exists
      /\ conn' = cache /\ connCurrent' = cacheCurrent
      /\ pc' = IF cache.deleting THEN "drop" ELSE "credentials"
  BY DEF Begin, apiVars, world, history
<1>2. TypeOK'
  BY <1>1 DEF IInv, TypeOK, Calls
<1>3. CopyInv' /\ ShapeInv'
  BY <1>1 DEF IInv, CopyInv, ShapeInv, Shape
<1>4. SecretInv'
  BY <1>1 DEF IInv, SecretInv
<1>5. EarnedInv' /\ AwakeInv'
  BY <1>1 DEF IInv, EarnedInv, AwakeInv
<1>6. QED
  BY <1>2, <1>3, <1>4, <1>5 DEF IInv

\* A pass finds no connection: there is none, or one is about to be delivered.
LEMMA BeginNotFoundInv ==
    ASSUME IInv, BeginNotFound
    PROVE  IInv'
<1>1. /\ UNCHANGED <<cr, cache, cacheCurrent, pc, conn, connCurrent, cfg,
                     secrets, seen, accepted, up, faults, proved, offered>>
      /\ queued' = FALSE /\ ~cache.exists
  BY DEF BeginNotFound, apiVars, locals, world, history
<1>2. TypeOK'
  BY <1>1 DEF IInv, TypeOK
<1>3. CopyInv' /\ ShapeInv'
  BY <1>1 DEF IInv, CopyInv, ShapeInv, Shape
<1>4. SecretInv' /\ EarnedInv'
  BY <1>1 DEF IInv, SecretInv, EarnedInv
<1>5. AwakeInv'
  BY <1>1 DEF IInv, TypeOK, Objects, AwakeInv, Pending
<1>6. QED
  BY <1>2, <1>3, <1>4, <1>5 DEF IInv

\* A pass goes on to its next call, with what it read from the Secrets.
LEMMA GoesOn ==
    ASSUME IInv, pc # "idle",
           UNCHANGED <<cr, cache, cacheCurrent, queued, conn, connCurrent,
                       secrets, seen, accepted, up, faults>>,
           pc' \in Calls \ {"idle", "drop"},
           cfg' \in Configs, cfg'.credentials \in OfCredentials,
           pc' = "ping" => cfg'.credentials \in Credentials,
           pc' = "bundle" => conn.spec.bundle \in Names,
           proved' \subseteq Generations, proved \subseteq proved',
           pc' = "status" => conn.gen \in proved',
           offered' \in Credentials \cup {"absent"}
    PROVE  IInv'
<1>1. TypeOK'
  BY DEF IInv, TypeOK
<1>2. CopyInv'
  BY DEF IInv, CopyInv
<1>3. ShapeInv'
  BY DEF IInv, ShapeInv, Shape
<1>4. SecretInv'
  BY DEF IInv, SecretInv
<1>5. EarnedInv'
  BY DEF IInv, EarnedInv
<1>6. AwakeInv'
  BY DEF AwakeInv, Calls
<1>7. QED
  BY <1>1, <1>2, <1>3, <1>4, <1>5, <1>6 DEF IInv

\* NewClient goes on with credentials, or reports.
LEMMA NewClientGoes ==
    ASSUME NEW c \in Configs, c.credentials \in OfCredentials, NewClient(c)
    PROVE  /\ cfg' = c /\ UNCHANGED queued
           /\ pc' \in {"ping", "report"}
           /\ pc' = "ping" => c.credentials \in Credentials
BY DEF NewClient, GoTo, Validate, OfCredentials

LEMMA readCredentialsInv ==
    ASSUME IInv, readCredentials
    PROVE  IInv'
<1> DEFINE value == seen[conn.spec.credentials]
           c == [ cfg EXCEPT !.credentials = value ]
<1>1. /\ conn.spec \in Specs /\ cfg \in Configs
      /\ conn.exists
  BY DEF IInv, TypeOK, Objects, readCredentials
<1>2. conn.spec.credentials \in Names
  BY <1>1, ContentsAreValues
<1>3. value \in Contents[conn.spec.credentials]
  BY <1>2 DEF IInv, SecretInv
<1>4. value \in OfCredentials /\ value \in Values
  BY <1>1, <1>2, <1>3, ContentsAreValues
<1>5. c \in Configs /\ c.credentials = value
  BY <1>1, <1>4 DEF Configs
<1>6. \/ cfg' = c /\ GoTo("report")
      \/ cfg' = c /\ GoTo("bundle") /\ conn.spec.bundle # NoRef
      \/ NewClient(c)
  BY DEF readCredentials
<1>7. /\ UNCHANGED <<cr, cache, cacheCurrent, conn, connCurrent, secrets, seen,
                     accepted, up, faults, proved, offered>>
      /\ pc = "credentials"
  BY DEF readCredentials, apiVars, world, history
<1> HIDE DEF value, c
<1>8. /\ cfg' = c /\ UNCHANGED queued
      /\ pc' \in {"report", "bundle", "ping"}
      /\ pc' = "ping" => c.credentials \in Credentials
      /\ pc' = "bundle" => conn.spec.bundle \in Names
  BY <1>1, <1>4, <1>5, <1>6, NewClientGoes, ContentsAreValues DEF GoTo
<1>9. QED
  BY <1>4, <1>5, <1>7, <1>8, GoesOn DEF IInv, TypeOK, Calls

LEMMA readBundleInv ==
    ASSUME IInv, readBundle
    PROVE  IInv'
<1> DEFINE value == seen[conn.spec.bundle]
           c == [ cfg EXCEPT !.bundle = value ]
<1>1. cfg \in Configs /\ conn.spec.bundle \in Names
  BY DEF IInv, TypeOK, SecretInv, readBundle
<1>2. value \in Values
  BY <1>1, ContentsAreValues DEF IInv, SecretInv
<1>3. c \in Configs /\ c.credentials = cfg.credentials
  BY <1>1, <1>2 DEF Configs
<1>4. \/ cfg' = c /\ GoTo("report")
      \/ NewClient(c)
  BY DEF readBundle
<1>5. /\ UNCHANGED <<cr, cache, cacheCurrent, conn, connCurrent, secrets, seen,
                     accepted, up, faults, proved, offered>>
      /\ pc = "bundle"
      /\ cfg.credentials \in OfCredentials
  BY DEF IInv, SecretInv, readBundle, apiVars, world, history
<1> HIDE DEF value, c
<1>6. /\ cfg' = c /\ UNCHANGED queued
      /\ pc' \in {"report", "ping"}
      /\ pc' = "ping" => c.credentials \in Credentials
  BY <1>3, <1>4, <1>5, NewClientGoes DEF GoTo
<1>7. QED
  BY <1>3, <1>5, <1>6, GoesOn DEF IInv, TypeOK, Calls

\* An exchange that gets a token proves the generation whose credentials it is
\* made with.
LEMMA PingInv ==
    ASSUME IInv, Ping
    PROVE  IInv'
<1>1. /\ UNCHANGED <<cr, cache, cacheCurrent, conn, connCurrent, cfg, secrets,
                     seen, accepted, up, faults, queued>>
      /\ pc = "ping" /\ cfg.credentials \in Credentials
      /\ conn.gen \in Generations /\ cfg \in Configs
      /\ cfg.credentials \in OfCredentials
      /\ offered' = cfg.credentials
  BY DEF IInv, TypeOK, Objects, SecretInv, Ping, GoTo, apiVars, locals, world
<1>2. /\ pc' = IF Exchanged THEN "status" ELSE "report"
      /\ proved' = IF Exchanged THEN proved \cup {conn.gen} ELSE proved
  BY DEF Ping, GoTo, Exchanged
<1>3. QED
  BY <1>1, <1>2, GoesOn DEF IInv, TypeOK, Calls

-----------------------------------------------------------------------------
(* Steps that store the connection.                                        *)

\* o, or what was there before, is stored; the pass is over, or its copy old.
LEMMA Stored ==
    ASSUME IInv, NEW o \in Objects, Shape(o),
           o.exists => cr.exists /\ cr.gen <= o.gen,
           o.ready = o.auth, o.condGen <= o.gen,
           o.ready = "True" /\ o.condGen = o.gen => o.gen \in proved,
           cr' = o,
           cacheCurrent' \in BOOLEAN, cacheCurrent' => cacheCurrent /\ o = cr,
           \/ /\ pc' = "idle" /\ conn' = NoObject /\ cfg' = NoConfig
              /\ connCurrent' = FALSE
           \/ UNCHANGED <<pc, conn, cfg>> /\ connCurrent' = FALSE,
           UNCHANGED <<cache, secrets, seen, accepted, up, proved, offered>>,
           faults' \in 0..MaxFaults, queued' \in BOOLEAN,
           AwakeInv'
    PROVE  IInv'
<1>1. TypeOK'
  BY NoObjectTyped DEF IInv, TypeOK, Calls
<1>2. CopyInv'
  <2>1. cr.gen \in Nat /\ cache.gen \in Nat /\ o.gen \in Nat
    BY ConnectionAssumption DEF IInv, TypeOK, Objects, Generations
  <2>2. QED
    BY <2>1 DEF IInv, CopyInv
<1>3. ShapeInv'
  BY NoObjectTyped DEF IInv, ShapeInv, Shape
<1>4. SecretInv'
  BY NoObjectTyped DEF IInv, SecretInv, OfCredentials
<1>5. EarnedInv'
  BY DEF IInv, EarnedInv
<1>6. QED
  BY <1>1, <1>2, <1>3, <1>4, <1>5 DEF IInv

\* A pass that writes o, and returns.
LEMMA Written ==
    ASSUME IInv, NEW o \in Objects, WriteOk(o) \/ WriteErr(o),
           Finish(TRUE) \/ Finish(FALSE), UNCHANGED <<world, history>>,
           connCurrent =>
             /\ Shape(o)
             /\ o.exists => cr.exists /\ cr.gen <= o.gen
             /\ o.ready = o.auth /\ o.condGen <= o.gen
             /\ o.ready = "True" /\ o.condGen = o.gen => o.gen \in proved,
           AwakeInv'
    PROVE  IInv'
<1>1. /\ pc' = "idle" /\ conn' = NoObject /\ cfg' = NoConfig
      /\ connCurrent' = FALSE /\ queued' \in BOOLEAN
      /\ UNCHANGED <<secrets, seen, accepted, up, proved, offered>>
  BY DEF IInv, TypeOK, Finish, world, history
<1>2. /\ UNCHANGED cache /\ faults' \in 0..MaxFaults
      /\ \/ UNCHANGED <<cr, cacheCurrent>>
         \/ connCurrent /\ cr' = o /\ cacheCurrent' = (cacheCurrent /\ o = cr)
  BY Write DEF IInv
<1>3. CASE connCurrent /\ cr' = o /\ cacheCurrent' = (cacheCurrent /\ o = cr)
  <2>1. cacheCurrent' \in BOOLEAN /\ (cacheCurrent' => cacheCurrent /\ o = cr)
    BY <1>3 DEF IInv, TypeOK
  <2>2. QED
    BY <1>1, <1>2, <1>3, <2>1, Stored
<1>4. CASE UNCHANGED <<cr, cacheCurrent>>
  <2>1. /\ cr \in Objects /\ cacheCurrent \in BOOLEAN /\ cr.gen \in Nat
    BY ConnectionAssumption DEF IInv, TypeOK, Objects, Generations
  <2>2. /\ Shape(cr) /\ cr.ready = cr.auth /\ cr.condGen <= cr.gen
        /\ cr.ready = "True" /\ cr.condGen = cr.gen => cr.gen \in proved
    BY DEF IInv, ShapeInv, EarnedInv
  <2>3. /\ cr' = cr /\ cr.gen <= cr.gen
        /\ cacheCurrent' \in BOOLEAN /\ (cacheCurrent' => cacheCurrent /\ cr = cr)
    BY <1>4, <2>1
  <2>4. QED
    BY <1>1, <1>2, <2>1, <2>2, <2>3, Stored
<1>5. QED
  BY <1>2, <1>3, <1>4

\* A failed pass stamps its generation with False, and comes back.
LEMMA WriteFailedStatusInv ==
    ASSUME IInv, WriteFailedStatus
    PROVE  IInv'
<1> DEFINE o == WithStatusOf(cr, WithConditions(conn, "False"))
<1>1. cr \in Objects /\ conn \in Objects /\ "False" \in Statuses
  BY DEF IInv, TypeOK, Statuses
<1>2. /\ o \in Objects
      /\ o.exists = cr.exists /\ o.gen = cr.gen
      /\ o.deleting = cr.deleting /\ o.finalizer = cr.finalizer
      /\ o.ready = "False" /\ o.auth = "False" /\ o.condGen = conn.gen
  BY <1>1, Statused
<1>3. /\ WriteOk(o) \/ WriteErr(o)
      /\ Finish(TRUE) /\ UNCHANGED <<world, history>>
  BY DEF WriteFailedStatus, failureRequeue
<1> HIDE DEF o
<1>4. AwakeInv'
  BY <1>3 DEF Finish, AwakeInv
<1>5. connCurrent => conn = cr /\ Shape(o)
  BY <1>2 DEF IInv, CopyInv, ShapeInv, Shape
<1>6. cr.gen \in Nat
  BY <1>1, ConnectionAssumption DEF Objects, Generations
<1>7. connCurrent =>
        /\ Shape(o)
        /\ o.exists => cr.exists /\ cr.gen <= o.gen
        /\ o.ready = o.auth /\ o.condGen <= o.gen
        /\ o.ready = "True" /\ o.condGen = o.gen => o.gen \in proved
  BY <1>2, <1>3, <1>4, <1>5, <1>6
<1>8. QED
  BY <1>2, <1>3, <1>4, <1>5, <1>7, Written

\* A healthy pass writes True for a generation that was proved, or comes back.
LEMMA WriteReadyStatusInv ==
    ASSUME IInv, WriteReadyStatus
    PROVE  IInv'
<1> DEFINE o == WithStatusOf(cr, WithConditions(conn, "True"))
<1>1. cr \in Objects /\ conn \in Objects /\ "True" \in Statuses
  BY DEF IInv, TypeOK, Statuses
<1>2. /\ o \in Objects
      /\ o.exists = cr.exists /\ o.gen = cr.gen
      /\ o.deleting = cr.deleting /\ o.finalizer = cr.finalizer
      /\ o.ready = "True" /\ o.auth = "True" /\ o.condGen = conn.gen
  BY <1>1, Statused
<1>3. /\ \/ WriteOk(o) /\ Finish(FALSE)
         \/ WriteErr(o) /\ Finish(TRUE)
      /\ UNCHANGED <<world, history>>
      /\ conn.gen \in proved
  BY DEF WriteReadyStatus, IInv, EarnedInv
<1> HIDE DEF o
<1>4. connCurrent => conn = cr /\ Shape(o)
  BY <1>2 DEF IInv, CopyInv, ShapeInv, Shape
<1>5. AwakeInv'
  <2>1. CASE WriteOk(o)
    BY <1>2, <1>4, <2>1 DEF WriteOk, Store, AwakeInv, ReadyNow
  <2>2. CASE Finish(TRUE)
    BY <2>2 DEF Finish, AwakeInv
  <2>3. QED
    BY <1>3, <2>1, <2>2
<1>6. cr.gen \in Nat
  BY <1>1, ConnectionAssumption DEF Objects, Generations
<1>7. connCurrent =>
        /\ Shape(o)
        /\ o.exists => cr.exists /\ cr.gen <= o.gen
        /\ o.ready = o.auth /\ o.condGen <= o.gen
        /\ o.ready = "True" /\ o.condGen = o.gen => o.gen \in proved
  BY <1>2, <1>3, <1>4, <1>5, <1>6
<1>8. QED
  BY <1>2, <1>3, <1>4, <1>5, <1>7, Written

\* A deleted connection has a finalizer to remove: then it is gone, or the pass
\* comes back.
LEMMA removeFinalizerInv ==
    ASSUME IInv, removeFinalizer
    PROVE  IInv'
<1>1. conn.finalizer
  BY DEF IInv, ShapeInv, Shape, removeFinalizer
<1>2. /\ \/ WriteOk(NoObject) /\ Finish(FALSE)
         \/ WriteErr(NoObject) /\ Finish(TRUE)
      /\ UNCHANGED <<world, history>>
  BY <1>1 DEF removeFinalizer
<1>3. AwakeInv'
  <2>1. CASE WriteOk(NoObject)
    BY <2>1, NoObjectTyped DEF WriteOk, Store, AwakeInv
  <2>2. CASE Finish(TRUE)
    BY <2>2 DEF Finish, AwakeInv
  <2>3. QED
    BY <1>2, <2>1, <2>2
<1>4. connCurrent =>
        /\ Shape(NoObject)
        /\ NoObject.exists => cr.exists /\ cr.gen <= NoObject.gen
        /\ NoObject.ready = NoObject.auth /\ NoObject.condGen <= NoObject.gen
        /\ NoObject.ready = "True" /\ NoObject.condGen = NoObject.gen
             => NoObject.gen \in proved
  BY NoObjectTyped
<1>5. QED
  BY <1>2, <1>3, <1>4, NoObjectTyped, Written

-----------------------------------------------------------------------------
(* The informers, and the rest of the system.                              *)

\* The informer delivers, and wakes Reconcile if the generation or the existence
\* changed.
LEMMA CacheSyncInv ==
    ASSUME IInv, CacheSync
    PROVE  IInv'
<1>1. /\ UNCHANGED <<cr, pc, conn, connCurrent, cfg, secrets, seen, accepted,
                     up, faults, proved, offered>>
      /\ cache' = cr /\ cacheCurrent' = TRUE
      /\ queued' = (queued \/ Pending)
  BY DEF CacheSync, Pending, locals, world, history
<1>2. TypeOK'
  <2>1. queued' \in BOOLEAN
    BY <1>1 DEF IInv, TypeOK, Pending
  <2>2. QED
    BY <1>1, <2>1 DEF IInv, TypeOK
<1>3. CopyInv' /\ ShapeInv'
  BY <1>1, ConnectionAssumption
     DEF IInv, TypeOK, Objects, Generations, CopyInv, ShapeInv, Shape
<1>4. SecretInv' /\ EarnedInv'
  BY <1>1 DEF IInv, SecretInv, EarnedInv
<1>5. AwakeInv'
  BY <1>1 DEF IInv, AwakeInv, ReadyNow
<1>6. QED
  BY <1>2, <1>3, <1>4, <1>5 DEF IInv

\* What is not the connection changes: nobody wakes.
LEMMA Outside ==
    ASSUME IInv,
           UNCHANGED <<cr, cache, cacheCurrent, queued, pc, conn, connCurrent, cfg,
                       proved, offered>>,
           \A n \in Names : secrets'[n] \in Contents[n] /\ seen'[n] \in Contents[n],
           secrets' \in [Names -> Values], seen' \in [Names -> Values],
           accepted' \in Credentials, up' \in BOOLEAN, faults' \in 0..MaxFaults
    PROVE  IInv'
<1>1. TypeOK'
  BY DEF IInv, TypeOK
<1>2. CopyInv' /\ ShapeInv'
  BY DEF IInv, CopyInv, ShapeInv, Shape
<1>3. SecretInv' /\ EarnedInv'
  BY DEF IInv, SecretInv, EarnedInv
<1>4. AwakeInv'
  BY DEF IInv, AwakeInv, Pending, ReadyNow
<1>5. QED
  BY <1>1, <1>2, <1>3, <1>4 DEF IInv

\* The Secrets, their informer and the server.
LEMMA OutsideInv ==
    ASSUME IInv,
           SecretSync \/ (\E n \in Names : WriteSecret(n))
             \/ ServerDown \/ ServerUp \/ ServerRotates
    PROVE  IInv'
<1>1. UNCHANGED <<cr, cache, cacheCurrent, queued, pc, conn, connCurrent, cfg,
                  proved, offered>>
  BY DEF SecretSync, WriteSecret, ServerDown, ServerUp, ServerRotates, apiVars,
         locals, history
<1>2. faults' \in 0..MaxFaults
  <2>1. NoFault \/ \E kind \in FaultKinds : Fault(kind)
    BY DEF SecretSync, WriteSecret, ServerDown, ServerUp, ServerRotates, NoFault,
           FaultKinds
  <2>2. QED
    BY <2>1, FaultTyped DEF IInv, TypeOK, NoFault
<1>3. accepted' \in Credentials /\ up' \in BOOLEAN
  BY DEF IInv, TypeOK, SecretSync, WriteSecret, ServerDown, ServerUp, ServerRotates
<1>4. /\ \A n \in Names : secrets'[n] \in Contents[n] /\ seen'[n] \in Contents[n]
      /\ secrets' \in [Names -> Values] /\ seen' \in [Names -> Values]
  <2>1. CASE UNCHANGED <<secrets, seen>>
    BY <2>1 DEF IInv, TypeOK, SecretInv
  <2>2. CASE seen' = secrets /\ UNCHANGED secrets
    BY <2>2 DEF IInv, TypeOK, SecretInv
  <2>3. ASSUME NEW n \in Names, NEW value \in Contents[n],
               secrets' = [ secrets EXCEPT ![n] = value ], UNCHANGED seen
        PROVE  /\ \A m \in Names :
                    secrets'[m] \in Contents[m] /\ seen'[m] \in Contents[m]
               /\ secrets' \in [Names -> Values] /\ seen' \in [Names -> Values]
    <3>1. value \in Values
      BY ContentsAreValues
    <3>2. QED
      BY <2>3, <3>1 DEF IInv, TypeOK, SecretInv
  <2>4. QED
    BY <2>1, <2>2, <2>3
       DEF SecretSync, WriteSecret, ServerDown, ServerUp, ServerRotates
<1>5. QED
  BY <1>1, <1>2, <1>3, <1>4, Outside

\* An edit is a new generation, of which no condition speaks yet.
LEMMA EditSpecInv ==
    ASSUME IInv, NEW s \in Specs, EditSpec(s)
    PROVE  IInv'
<1> DEFINE o == [ cr EXCEPT !.spec = s, !.gen = @ + 1 ]
<1>1. cr \in Objects /\ cr.gen \in Nat /\ cr.condGen \in Nat /\ cache.gen \in Nat
  BY ConnectionAssumption DEF IInv, TypeOK, Objects, Generations
<1>2. cr.exists /\ ~cr.deleting /\ cr.gen < MaxGen /\ Store(o)
  BY DEF EditSpec
<1>3. /\ UNCHANGED <<queued, pc, conn, cfg, secrets, seen, accepted, up, faults,
                     proved, offered>>
      /\ connCurrent' = FALSE
  BY DEF EditSpec, world, history
<1>4. /\ o \in Objects
      /\ o.exists = cr.exists /\ o.gen = cr.gen + 1
      /\ o.deleting = cr.deleting /\ o.finalizer = cr.finalizer
      /\ o.ready = cr.ready /\ o.auth = cr.auth /\ o.condGen = cr.condGen
  BY <1>1, <1>2, Edited
<1>5. cr' = o /\ UNCHANGED cache /\ cacheCurrent' = (cacheCurrent /\ o = cr)
  BY <1>2 DEF Store
<1> HIDE DEF o
<1>6. AwakeInv'
  BY <1>1, <1>2, <1>4, <1>5 DEF IInv, CopyInv, AwakeInv, Pending
<1>7. /\ Shape(o) /\ cr.gen <= o.gen
      /\ o.ready = o.auth /\ o.condGen <= o.gen /\ o.condGen # o.gen
  BY <1>1, <1>2, <1>4, ConnectionAssumption
     DEF IInv, ShapeInv, EarnedInv, Shape
<1>8. /\ cacheCurrent' \in BOOLEAN /\ (cacheCurrent' => cacheCurrent /\ o = cr)
      /\ queued' \in BOOLEAN /\ faults' \in 0..MaxFaults
  BY <1>3, <1>5 DEF IInv, TypeOK
<1>9. QED
  BY <1>2, <1>3, <1>4, <1>5, <1>6, <1>7, <1>8, Stored

\* A deletion is one too, or the end.
LEMMA DeleteResourceInv ==
    ASSUME IInv, DeleteResource
    PROVE  IInv'
<1> DEFINE o == [ cr EXCEPT !.deleting = TRUE, !.gen = @ + 1 ]
<1>1. cr \in Objects /\ cr.gen \in Nat /\ cr.condGen \in Nat /\ cache.gen \in Nat
  BY ConnectionAssumption DEF IInv, TypeOK, Objects, Generations
<1>2. /\ cr.exists /\ ~cr.deleting /\ cr.gen <= MaxGen
      /\ \/ cr.finalizer /\ Store(o)
         \/ Store(NoObject)
  BY DEF DeleteResource, IInv, ShapeInv, Shape
<1>3. /\ UNCHANGED <<queued, pc, conn, cfg, secrets, seen, accepted, up, faults,
                     proved, offered>>
      /\ connCurrent' = FALSE
      /\ queued' \in BOOLEAN /\ faults' \in 0..MaxFaults
  BY DEF DeleteResource, IInv, TypeOK, world, history
<1>4. /\ o \in Objects
      /\ o.exists = cr.exists /\ o.gen = cr.gen + 1
      /\ o.deleting /\ o.finalizer = cr.finalizer
      /\ o.ready = cr.ready /\ o.auth = cr.auth /\ o.condGen = cr.condGen
  BY <1>1, <1>2, Doomed
<1> HIDE DEF o
<1>5. CASE cr.finalizer /\ Store(o)
  <2>1. /\ cr' = o /\ UNCHANGED cache
        /\ cacheCurrent' \in BOOLEAN /\ (cacheCurrent' => cacheCurrent /\ o = cr)
    BY <1>5 DEF IInv, TypeOK, Store
  <2>2. AwakeInv'
    <3>1. cache.gen < o.gen
      BY <1>1, <1>2, <1>4 DEF IInv, CopyInv
    <3>2. QED
      BY <1>1, <1>4, <2>1, <3>1 DEF AwakeInv, Pending
  <2>3. /\ Shape(o) /\ cr.gen <= o.gen
        /\ o.ready = o.auth /\ o.condGen <= o.gen /\ o.condGen # o.gen
    BY <1>1, <1>4, <1>5 DEF IInv, EarnedInv, Shape
  <2>4. QED
    BY <1>2, <1>3, <1>4, <2>1, <2>2, <2>3, Stored
<1>6. CASE Store(NoObject)
  <2>1. /\ cr' = NoObject /\ UNCHANGED cache
        /\ cacheCurrent' \in BOOLEAN
        /\ (cacheCurrent' => cacheCurrent /\ NoObject = cr)
    BY <1>6 DEF IInv, TypeOK, Store
  <2>2. AwakeInv'
    BY <2>1, NoObjectTyped DEF AwakeInv
  <2>3. /\ NoObject \in Objects /\ Shape(NoObject) /\ ~NoObject.exists
        /\ NoObject.ready = NoObject.auth /\ NoObject.condGen <= NoObject.gen
        /\ NoObject.ready # "True"
    BY NoObjectTyped
  <2>4. QED
    BY <1>3, <2>1, <2>2, <2>3, Stored
<1>7. QED
  BY <1>2, <1>5, <1>6

\* The next incarnation reads everything, and looks at the connection again.
LEMMA RestartInv ==
    ASSUME IInv, Restart
    PROVE  IInv'
<1>1. /\ UNCHANGED <<cr, secrets, accepted, up, proved, offered>>
      /\ pc' = "idle" /\ conn' = NoObject /\ connCurrent' = FALSE
      /\ cfg' = NoConfig /\ queued' = cr.exists
      /\ cache' = cr /\ cacheCurrent' = TRUE /\ seen' = secrets
      /\ Fault("crash")
  BY DEF Restart, history
<1>2. TypeOK'
  <2>1. faults' \in 0..MaxFaults
    BY <1>1, FaultTyped DEF IInv, FaultKinds
  <2>2. queued' \in BOOLEAN
    BY <1>1 DEF IInv, TypeOK, Objects
  <2>3. QED
    BY <1>1, <2>1, <2>2, NoObjectTyped DEF IInv, TypeOK, Calls
<1>3. CopyInv' /\ ShapeInv'
  BY <1>1, NoObjectTyped, ConnectionAssumption
     DEF IInv, TypeOK, Objects, Generations, CopyInv, ShapeInv, Shape
<1>4. SecretInv' /\ EarnedInv'
  BY <1>1, NoObjectTyped DEF IInv, SecretInv, EarnedInv, OfCredentials
<1>5. AwakeInv'
  BY <1>1 DEF AwakeInv
<1>6. QED
  BY <1>2, <1>3, <1>4, <1>5 DEF IInv

-----------------------------------------------------------------------------
\* Every step keeps the invariant.
LEMMA NextInv == IInv /\ [Next]_vars => IInv'
<1>1. SUFFICES ASSUME IInv, [Next]_vars PROVE IInv'
  OBVIOUS
<1>2. CASE UNCHANGED vars
  <2>1. /\ UNCHANGED <<cr, cache, cacheCurrent, queued, pc, conn, connCurrent, cfg,
                       proved, offered>>
        /\ UNCHANGED <<secrets, seen, accepted, up, faults>>
    BY <1>2 DEF vars, apiVars, locals, world, history
  <2>2. QED
    BY <1>1, <2>1, Outside DEF IInv, TypeOK, SecretInv
<1>3. CASE Reconcile
  BY <1>1, <1>3, readCredentialsInv, readBundleInv, PingInv,
     WriteFailedStatusInv, WriteReadyStatusInv, removeFinalizerInv DEF Reconcile
<1>4. CASE Environment
  BY <1>1, <1>4, OutsideInv, EditSpecInv, DeleteResourceInv, RestartInv
     DEF Environment
<1>5. QED
  BY <1>1, <1>2, <1>3, <1>4, BeginInv, BeginNotFoundInv, CacheSyncInv, OutsideInv
     DEF Next

\* The invariant holds of every behaviour.
LEMMA Inductive == Spec => []IInv
BY InitInv, NextInv, PTL DEF Spec

\* What the informer has yet to deliver, it knows that it has.
LEMMA AwakeMeansRemembered == IInv => NeverForgotten
<1>1. IInv => (Pending => ~cacheCurrent)
  BY DEF IInv, CopyInv, Pending
<1>2. QED
  BY <1>1 DEF IInv, AwakeInv, ReadyNow, NeverForgotten

-----------------------------------------------------------------------------
\* Every reachable state is typed, for any specs, Secrets and bounds; in
\* particular Ping never offers the content of a Secret without credentials.
THEOREM TypeCorrect == Spec => []TypeOK
<1>1. IInv => TypeOK
  BY DEF IInv
<1>2. QED
  BY <1>1, Inductive, PTL

\* Ready and AuthValid are True for the stored spec only if its credentials got a
\* token, whatever is edited, retried or lost before the status write.
THEOREM Earned == Spec => []ReadyIsEarned
<1>1. IInv => ReadyIsEarned
  BY DEF IInv, EarnedInv, ReadyIsEarned
<1>2. QED
  BY <1>1, Inductive, PTL

\* A connection that is not Ready is in the work queue, in a pass, or about to be
\* delivered: a Secret that appears later is found without a watch.
THEOREM Remembered == Spec => []NeverForgotten
BY Inductive, AwakeMeansRemembered, PTL
=============================================================================
