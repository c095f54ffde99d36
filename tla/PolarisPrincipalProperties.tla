--------------------- MODULE PolarisPrincipalProperties ---------------------
(***************************************************************************)
(* What the principal reconciler promises, and what its comments and docs  *)
(* say of it.  The definitions of the first part hold; each one of the     *)
(* second part translates a sentence of the repository that the code does  *)
(* not keep, and is the subject of a run that expects a violation.         *)
(***************************************************************************)
EXTENDS PolarisPrincipal

Calls ==
    { "idle", "resolve", "finalizer", "get", "create", "secret", "update",
      "rotate", "status", "wait", "report", "delete", "unfinalize", "drop" }

\* Every variable keeps its type.  Of the code this says that no pass writes
\* a Secret it has no credentials for (writeCredentialsSecret's nil check).
TypeOK ==
    /\ cr \in Objects /\ cache \in Objects /\ pp \in Objects
    /\ cacheCurrent \in BOOLEAN /\ ppCurrent \in BOOLEAN
    /\ queued \in BOOLEAN
    /\ pc \in Calls
    /\ justCreated \in BOOLEAN
    /\ creds \in {"nil", "current", "stale"}
    /\ seenCurrent \in BOOLEAN
    /\ conn \in Connections
    /\ remote \in Principals
    /\ secret \in {"absent", "current", "stale"}
    /\ secretSeen \in BOOLEAN
    /\ faults \in 0..MaxFaults
    /\ freshFor \subseteq Generations
    /\ credLost \in BOOLEAN /\ tampered \in BOOLEAN /\ dropped \in BOOLEAN

\* helpers.go, on PolarisFinalizer: "the finalizer all CRDs add before they
\* touch the Polaris server, so deletion blocks until the operator has
\* removed the remote resource".  A principal this operator created has a
\* resource with the finalizer, however stale the cache and wherever it
\* crashes, unless the finalizer went because the server was unreachable.
FinalizerGuardsRemote ==
    remote.exists /\ remote.mine => (cr.exists /\ cr.finalizer) \/ dropped

\* The only copy of a credential passes through Reconcile's memory.  While
\* nobody else interferes, the Secret holds the credential the server issued
\* last, or Reconcile holds it, or it was lost at one of three places: an
\* answer that did not arrive, a Secret write that failed, a restart between
\* the two.  Or the resource went without its principal (resolveFail dropped
\* the finalizer), and Kubernetes collects the Secret it controlled.  No
\* interleaving of edits, stale reads of the resource, conflicts on it,
\* retries and collection loses a credential in any other way.
SecretAccounted ==
    remote.exists /\ remote.mine /\ ~tampered =>
        \/ secret = "current"
        \/ pc = "secret" /\ creds = "current"
        \/ credLost
        \/ dropped

\* A Ready=True that carries the generation of the spec means the server
\* holds that spec, whatever conflicts and retries led to it, as long as
\* nobody else changed the principal.
ReadyMeansInSync ==
    cr.exists /\ cr.ready = "Ready" /\ cr.readyGen = cr.gen /\ ~tampered =>
        remote.exists /\ remote.props = cr.props

\* Status writes carry the resourceVersion they were computed from, so a pass
\* that worked on an old copy cannot take observedGeneration back.
ObservedNeverRegresses ==
    [][cr.exists /\ cr'.exists => cr'.obs >= cr.obs]_vars

\* The comment on the rotation branch: "Rotating again here would invalidate
\* that freshly issued credential".  A pass that received a credential never
\* has it replaced before it ends.
OneCredentialPerPass ==
    [][Reconcile /\ creds = "current" => (secret' = "stale" => secret = "stale")]_vars

\* The resource is the one that PolarisResource describes.
Stage ==
    IF ~cr.exists THEN "absent"
    ELSE IF ~cr.finalizer THEN "applied"
    ELSE IF ~cr.deleting THEN "guarded" ELSE "doomed"

Resource ==
    INSTANCE PolarisResource
        WITH stage <- Stage, ready <- cr.ready = "Ready",
             there <- remote.exists, outside <- tampered \/ dropped

\* All that bindings and grants may know of a principal: nothing is created for
\* a resource without the finalizer, whatever the cache showed, nothing else
\* removes the principal, and the finalizer goes after it or without it only
\* when the server is given up.
ImplementsResource == Resource!Spec

\* The informer has something to deliver that gets past the predicate.
Delivers == cache.exists # cr.exists \/ cache.gen # cr.gen \/ ~secretSeen

\* A pass runs, is queued, or will be queued, unless the principal is Ready for
\* its stored generation: no wait (waitForDependency), conflict, lost answer or
\* pass over an old copy leaves the resource behind, and no event of the
\* connection would bring it back.
NeverForgotten ==
    \/ queued \/ pc # "idle" \/ Delivers
    \/ ~cr.exists
    \/ ~cr.deleting /\ cr.ready = "Ready" /\ cr.readyGen = cr.gen

\* Once edits and faults stop, and if the connection is Ready from then on, the
\* resource ends up, for good, either deleted or Ready for its latest
\* generation: no wait, conflict or error leaves it out of the work queue.
Settles ==
    <>[](conn = "ready") =>
        <>[](\/ ~cr.exists
             \/ ~cr.deleting /\ cr.ready = "Ready" /\ cr.readyGen = cr.gen)

\* The comment in Reconcile on the deletion path: a connection or a credentials
\* Secret that went first does not leave "the object in Terminating forever".
\* A deletion completes if the connection ends up Ready or gone.  Over one that
\* stays NotReady the DELETE may fail on every pass and the resource stays.
DeletionCompletes ==
    <>[](conn # "notReady") =>
        (cr.exists /\ cr.deleting ~> ~cr.exists)

-----------------------------------------------------------------------------
(* Sentences of the repository that the code does not keep.                *)

\* docs/crds/principal.md: "Set to `true` to force the operator to rotate
\* `clientSecret` on the next reconcile."  Ready for a generation that asks
\* for rotation, and no credential was issued for that generation.
ReadyMeansRotated ==
    cr.exists /\ cr.ready = "Ready" /\ cr.readyGen = cr.gen
              /\ cr.rotate /\ remote.mine => cr.gen \in freshFor

\* docs/tutorial.md: "the operator writes that pair into a Secret you name".
\* Ready, for a principal this operator created, and no Secret was written.
ReadyMeansCredentials ==
    cr.exists /\ cr.ready = "Ready" /\ remote.mine => secret # "absent"
=============================================================================
