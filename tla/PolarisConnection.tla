-------------------------- MODULE PolarisConnection --------------------------
(***************************************************************************)
(* The PolarisConnection reconciler (internal/controller/                  *)
(* polarisconnection_controller.go) over one connection: the two Secrets   *)
(* its spec names, the client it builds from them (buildPolarisClient of   *)
(* helpers.go, NewClient of client.go) and the token exchange that proves  *)
(* the credentials.                                                        *)
(*                                                                         *)
(* A pass is cut at every read of the API server's cache, at the exchange  *)
(* and at every write, as in PolarisPrincipal, whose abstraction of        *)
(* resourceVersions is used here too.  A Secret's content is the value     *)
(* under the key that the reference names (or the default key), "empty"    *)
(* when that key is missing; the pair of client id and secret is one       *)
(* value.  A spec is a member of Specs: whether the URL parses, the names  *)
(* of its Secrets and insecureSkipVerify.                                  *)
(***************************************************************************)
EXTENDS Naturals

CONSTANTS
    Credentials,  \* values that a credentials Secret may hold
    Names,        \* names of Secrets
    Contents,     \* [Names -> what each of them may hold]
    Specs,        \* specs that a user may apply
    PublicCert,   \* the server's certificate is signed by a system root
    MaxGen,       \* bound: the last generation a spec edit may create
    MaxFaults,    \* bound: how many faults and outside interventions happen
    Faults        \* which kinds of them are possible

FaultKinds ==
    { "call",     \* a write fails before it takes effect
      "reply",    \* a write takes effect, the caller sees an error
      "crash",    \* the operator restarts
      "server",   \* the Polaris server is down, or forgets a credential
      "secret" }  \* somebody writes or deletes a Secret

Bundles == { "right", "wrong", "garbage" }
NoRef   == "none"
Values  == Credentials \cup Bundles \cup { "absent", "empty" }

ASSUME ConnectionAssumption ==
    /\ NoRef \notin Names
    /\ Credentials \cap (Bundles \cup {"absent", "empty"}) = {}
    /\ Contents \in [Names -> SUBSET Values]
    /\ Specs # {}
    /\ Specs \subseteq [ urlParses : BOOLEAN, credentials : Names,
                         bundle : Names \cup {NoRef}, skipVerify : BOOLEAN ]
    /\ \A s \in Specs :
            Contents[s.credentials] \subseteq Credentials \cup {"absent", "empty"}
    /\ PublicCert \in BOOLEAN
    /\ MaxGen \in Nat \ {0}
    /\ MaxFaults \in Nat

VARIABLES
    cr,            \* the PolarisConnection in the API server
    cache,         \* the informer's copy of it
    cacheCurrent,  \* cache has cr's resourceVersion
    queued,        \* the request is in the work queue (due or backing off)
    pc,            \* the call Reconcile makes next; "idle" between passes
    conn,          \* Reconcile's copy of the connection
    connCurrent,   \* conn has cr's resourceVersion
    cfg,           \* the values read from the Secrets in this pass
    secrets,       \* the Secrets in the API server
    seen,          \* the informer's copies of them
    accepted,      \* the credential that the Polaris server takes
    up,            \* the server answers
    faults,        \* faults and outside interventions so far
    \* History, read by properties only:
    proved,        \* generations whose credentials got a token
    offered        \* what the last exchange offered

apiVars == <<cr, cache, cacheCurrent>>
locals  == <<conn, connCurrent, cfg>>
world   == <<secrets, seen, accepted, up>>
history == <<proved, offered>>
vars    == <<apiVars, queued, pc, locals, world, faults, history>>

Generations == 0..MaxGen + 1

Statuses == { "Unknown", "True", "False" }

Objects ==
    [ exists    : BOOLEAN,
      gen       : Generations,    \* metadata.generation
      deleting  : BOOLEAN,        \* metadata.deletionTimestamp is set
      finalizer : BOOLEAN,        \* PolarisFinalizer, of an older version
      spec      : Specs,
      obs       : Generations,    \* status.observedGeneration
      ready     : Statuses,       \* conditions Ready and AuthValid, and the
      auth      : Statuses,       \* observedGeneration they both carry
      condGen   : Generations ]

AnySpec == CHOOSE s \in Specs : TRUE

NoObject ==
    [ exists |-> FALSE, gen |-> 0, deleting |-> FALSE, finalizer |-> FALSE,
      spec |-> AnySpec, obs |-> 0, ready |-> "Unknown", auth |-> "Unknown",
      condGen |-> 0 ]

Configs == [ credentials : Values, bundle : Values ]
NoConfig == [ credentials |-> "absent", bundle |-> "absent" ]

-----------------------------------------------------------------------------
(* Faults, and the Kubernetes API as a client sees it.                     *)

NoFault == UNCHANGED faults

Fault(kind) ==
    /\ kind \in Faults
    /\ faults < MaxFaults
    /\ faults' = faults + 1

Store(o) ==
    /\ cr' = o
    /\ cacheCurrent' = (cacheCurrent /\ o = cr)
    /\ UNCHANGED cache

\* An Update or Status().Update of conn: optimistic concurrency refuses one
\* that was computed from an older version.
WriteOk(o) == connCurrent /\ NoFault /\ Store(o)

WriteErr(o) ==
    \/ ~connCurrent /\ NoFault /\ UNCHANGED apiVars
    \/ Fault("call") /\ UNCHANGED apiVars
    \/ Fault("reply") /\ connCurrent /\ Store(o)

WithStatusOf(o, p) ==
    [ o EXCEPT !.obs = p.obs, !.ready = p.ready, !.auth = p.auth,
               !.condGen = p.condGen ]

-----------------------------------------------------------------------------
(* Reconcile.                                                              *)

GoTo(call) == pc' = call /\ UNCHANGED queued

\* Reconcile returns; an error puts the request back, with back-off.
Finish(requeue) ==
    /\ pc' = "idle"
    /\ queued' = (queued \/ requeue)
    /\ conn' = NoObject /\ connCurrent' = FALSE /\ cfg' = NoConfig

\* Both failures, of the builder and of the exchange, return their error.
failureRequeue_OnNextWatch == FALSE
failureRequeue == TRUE

\* The conditions of a pass, stamped with the generation it read.
WithConditions(o, status) ==
    [ o EXCEPT !.obs = o.gen, !.ready = status, !.auth = status,
               !.condGen = o.gen ]

\* Reconcile starts: r.Get from the cache.
Begin ==
    /\ pc = "idle" /\ queued
    /\ queued' = FALSE
    /\ cache.exists
    /\ conn' = cache /\ connCurrent' = cacheCurrent
    /\ pc' = IF cache.deleting THEN "drop" ELSE "credentials"
    /\ UNCHANGED <<apiVars, cfg, world, faults, history>>

\* The connection is gone: nothing to do.
BeginNotFound ==
    /\ pc = "idle" /\ queued
    /\ queued' = FALSE
    /\ ~cache.exists
    /\ UNCHANGED <<apiVars, pc, locals, world, faults, history>>

\* What Config.Validate and buildTransport refuse: a URL that does not parse,
\* no credentials, a bundle without a certificate.
Validate(c) ==
    /\ conn.spec.urlParses
    /\ c.credentials \notin {"absent", "empty"}
    /\ c.bundle # "garbage"

\* polaris.NewClient dials nobody yet.
NewClient(c) == cfg' = c /\ GoTo(IF Validate(c) THEN "ping" ELSE "report")

\* buildPolarisClient reads the credentials Secret.
readCredentials ==
    /\ pc = "credentials"
    /\ LET value == seen[conn.spec.credentials]
           c == [ cfg EXCEPT !.credentials = value ]
       IN  IF value \in {"absent", "empty"}
           THEN cfg' = c /\ GoTo("report")
           ELSE IF conn.spec.bundle # NoRef
                THEN cfg' = c /\ GoTo("bundle")
                ELSE NewClient(c)
    /\ UNCHANGED <<apiVars, conn, connCurrent, world, faults, history>>

\* The CA bundle's Secret, if the spec names one.
readBundle ==
    /\ pc = "bundle"
    /\ LET value == seen[conn.spec.bundle]
           c == [ cfg EXCEPT !.bundle = value ]
       IN  IF value \in {"absent", "empty"}
           THEN cfg' = c /\ GoTo("report")
           ELSE NewClient(c)
    /\ UNCHANGED <<apiVars, conn, connCurrent, world, faults, history>>

\* The roots that buildTransport sets are the system's and the bundle's.
Trusted == conn.spec.skipVerify \/ PublicCert \/ cfg.bundle = "right"

\* Ping, the token exchange: the server must answer over TLS that the client
\* trusts, and take the credentials.
Exchanged_AnyStatus == up /\ Trusted
Exchanged == up /\ Trusted /\ cfg.credentials = accepted

Ping ==
    /\ pc = "ping"
    /\ GoTo(IF Exchanged THEN "status" ELSE "report")
    /\ offered' = cfg.credentials
    /\ proved' = IF up /\ Trusted /\ cfg.credentials = accepted
                 THEN proved \cup {conn.gen} ELSE proved
    /\ UNCHANGED <<apiVars, locals, world, faults>>

\* The status write of both failing paths.  Its own error is only logged, and
\* the pass returns the error it reports.
WriteFailedStatus ==
    /\ pc = "report"
    /\ LET o == WithStatusOf(cr, WithConditions(conn, "False"))
       IN  WriteOk(o) \/ WriteErr(o)
    /\ Finish(failureRequeue)
    /\ UNCHANGED <<world, history>>

\* The status write of a healthy pass; Reconcile returns its error.
WriteReadyStatus ==
    /\ pc = "status"
    /\ LET o == WithStatusOf(cr, WithConditions(conn, "True"))
       IN  \/ WriteOk(o) /\ Finish(FALSE)
           \/ WriteErr(o) /\ Finish(TRUE)
    /\ UNCHANGED <<world, history>>

\* removeFinalizer writes only if the finalizer is there.
removeFinalizer_Never ==
    /\ pc = "drop"
    /\ Finish(FALSE)
    /\ UNCHANGED <<apiVars, world, faults, history>>
removeFinalizer ==
    /\ pc = "drop"
    /\ \/ ~conn.finalizer /\ Finish(FALSE) /\ UNCHANGED apiVars /\ NoFault
       \/ conn.finalizer /\ WriteOk(NoObject) /\ Finish(FALSE)
       \/ conn.finalizer /\ WriteErr(NoObject) /\ Finish(TRUE)
    /\ UNCHANGED <<world, history>>

Reconcile ==
    \/ readCredentials \/ readBundle \/ Ping
    \/ WriteFailedStatus \/ WriteReadyStatus \/ removeFinalizer

-----------------------------------------------------------------------------
(* The rest of the system.                                                 *)

\* The informer delivers.  GenerationChangedPredicate lets creations,
\* deletions and changes of generation through to the work queue.
CacheSync ==
    /\ ~cacheCurrent
    /\ cache' = cr /\ cacheCurrent' = TRUE
    /\ queued' = (queued \/ cache.exists # cr.exists \/ cache.gen # cr.gen)
    /\ UNCHANGED <<cr, pc, locals, world, faults, history>>

\* The informer of Secrets delivers.  SetupWithManager watches connections
\* only: nothing is queued.
SecretSync ==
    /\ seen # secrets
    /\ seen' = secrets
    /\ UNCHANGED <<apiVars, queued, pc, locals, secrets, accepted, up>>
    /\ UNCHANGED <<faults, history>>

\* The user edits the spec.
EditSpec(s) ==
    /\ cr.exists /\ ~cr.deleting /\ cr.gen < MaxGen /\ s # cr.spec
    /\ Store([ cr EXCEPT !.spec = s, !.gen = @ + 1 ])
    /\ connCurrent' = FALSE
    /\ UNCHANGED <<queued, pc, conn, cfg, world, faults, history>>

DeleteResource ==
    /\ cr.exists /\ ~cr.deleting
    /\ Store(IF cr.finalizer
             THEN [ cr EXCEPT !.deleting = TRUE, !.gen = @ + 1 ]
             ELSE NoObject)
    /\ connCurrent' = FALSE
    /\ UNCHANGED <<queued, pc, conn, cfg, world, faults, history>>

\* Somebody creates, changes or deletes a Secret.
WriteSecret(n) ==
    /\ Fault("secret")
    /\ \E value \in Contents[n] \ {secrets[n]} :
            secrets' = [ secrets EXCEPT ![n] = value ]
    /\ UNCHANGED <<apiVars, queued, pc, locals, seen, accepted, up, history>>

\* The server goes down or comes back, or has its credential rotated.
ServerDown ==
    /\ up /\ Fault("server") /\ up' = FALSE
    /\ UNCHANGED <<apiVars, queued, pc, locals, secrets, seen, accepted, history>>

ServerUp ==
    /\ ~up /\ up' = TRUE
    /\ UNCHANGED <<apiVars, queued, pc, locals, secrets, seen, accepted>>
    /\ UNCHANGED <<faults, history>>

ServerRotates ==
    /\ Fault("server")
    /\ accepted' \in Credentials \ {accepted}
    /\ UNCHANGED <<apiVars, queued, pc, locals, secrets, seen, up, history>>

\* The operator restarts: every existing object is a creation event.
Restart ==
    /\ Fault("crash")
    /\ pc' = "idle"
    /\ conn' = NoObject /\ connCurrent' = FALSE /\ cfg' = NoConfig
    /\ queued' = cr.exists
    /\ cache' = cr /\ cacheCurrent' = TRUE
    /\ seen' = secrets
    /\ UNCHANGED <<cr, secrets, accepted, up, history>>

Environment ==
    \/ \E s \in Specs : EditSpec(s)
    \/ DeleteResource
    \/ \E n \in Names : WriteSecret(n)
    \/ ServerDown \/ ServerUp \/ ServerRotates \/ Restart

-----------------------------------------------------------------------------

\* The connection was just applied, or was left by an older version of the
\* operator with the finalizer on; its Secrets may hold anything.
Init ==
    /\ \E s \in Specs, f \in BOOLEAN :
            cr = [ NoObject EXCEPT !.exists = TRUE, !.gen = 1, !.spec = s,
                                   !.finalizer = f ]
    /\ cache = NoObject /\ cacheCurrent = FALSE
    /\ queued = FALSE
    /\ pc = "idle" /\ conn = NoObject /\ connCurrent = FALSE /\ cfg = NoConfig
    /\ secrets \in [Names -> Values]
    /\ \A n \in Names : secrets[n] \in Contents[n]
    /\ seen = secrets
    /\ accepted \in Credentials
    /\ up \in BOOLEAN
    /\ faults = 0
    /\ proved = {} /\ offered = "absent"

Next ==
    Begin \/ BeginNotFound \/ Reconcile \/ CacheSync \/ SecretSync \/ Environment

Spec == Init /\ [][Next]_vars

\* The operator runs: the informers deliver, the work queue hands out what it
\* holds, and a pass that started makes its next call.
OperatorFairness ==
    /\ WF_vars(CacheSync) /\ WF_vars(SecretSync)
    /\ WF_vars(Begin \/ BeginNotFound)
    /\ WF_vars(Reconcile)

FairSpec == Spec /\ OperatorFairness
=============================================================================
