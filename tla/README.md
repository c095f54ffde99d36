# Verification of the Polaris Kubernetes operator

A TLA+ development kept beside the operator in `src/`: modules that model its
reconcilers call by call, TLC configurations that check them on small
instances, and proofs that TLAPS checks for every value of the constants.

Paths below are relative to `src/`; a file name alone is in
`internal/controller/`.

## The system

The operator is one process. It runs twelve reconcilers, one per kind of custom
resource (CR), each with its own work queue and one worker; they share an
informer cache through which every `Get` reads the Kubernetes API. A reconciler
gets the name of a CR from its queue, reads the CR, resolves the CRs it refers
to down to a `PolarisConnection`, builds a client for the Polaris server from
the connection and its credentials Secret, and brings the server's object to
the CR's spec. Nothing is kept between two passes but what the Kubernetes API
and the Polaris server hold. A CR with the operator's finalizer stays, marked
as deleting, until the reconciler has deleted the server's object and removed
the finalizer.

| Component | State it keeps | Operations | What makes it correct |
|---|---|---|---|
| Principal reconciler (`polarisprincipal_controller.go`) | CR metadata, spec and status; the generated credentials Secret; the principal on the server | create, drift check and update, rotate, write Secret, delete | no principal without a finalizer to remove it; Ready means in sync; the only copy of a credential is not lost or replaced unnoticed; convergence; deletion completes |
| Connection reconciler (`polarisconnection_controller.go`) | Ready of the connection; two Secrets it reads | read Secrets, validate, ping | Ready is earned by the credentials of the stored spec; a broken connection is looked at again until it is repaired |
| Catalog, namespace, table, view, policy, principal role and catalog role reconcilers | CRs that form a tree below a connection; the same tree on the server, which refuses to delete what is not empty | resolve the path, create once the parent is there, drift check and update, delete | parents first on the way up, children first on the way down, whatever the order of the events; no wedge, no orphan; Ready means that the content is the spec's, and an update overwrites nobody's work |
| Principal role binding, catalog role binding and grant reconcilers | CRs that relate others; membership and grants on the server | assign, revoke | what was given is revoked, whatever is deleted first; Ready means given |
| Helpers (`helpers.go`) | none | references, waits, finalizers, conditions, namespace paths | a wait always ends in a retry; a path never crosses catalogs |
| OAuth token source (`internal/polaris/auth.go`) | the cached token and its expiry, behind a mutex | token, fetch | no expired token is handed out; one refresh at a time |
| Polaris client (`internal/polaris/client.go`), generated clients (`internal/polaris/{management,catalog}/zz_generated.gen.go`) | none that changes | address a request, bear the token, parse and judge the answer | create, read, update and delete of one object go to one address, which is no other object's; no answer is taken for more than it says |
| API types (`api/v1alpha1`) | none that changes | | |
| Manager (`cmd/main.go`) | work queues, informer cache | start, leader election | at most one pass per CR at a time |

Components meet in four places: the status of a parent CR, read by the wait of
its children; the connection, read by everything; the Polaris server; and the
work queue, which is fed by creations, deletions and generation changes of the
CR itself (`GenerationChangedPredicate`), by the requeue of a pass that failed
or waits, and, for principals, by events of the Secret they own. In particular
a change of a parent never wakes its children: only their own requeue does.

What is hard to test here is what happens between two calls of a pass: the
informer's copy is older than the stored object, the user edits or deletes, the
connection goes and comes back, somebody else uses the Polaris API, a call
fails before or after it took effect, the process restarts. `PROJECT.json`
lists these hazards at their lines.

## How the modules fit together

`PolarisResource` says what a reconciler promises of one CR and of the object
it stands for on the server: seven steps, and what outsiders may do. It is the
joint of the development:

    PolarisPrincipal   (one CR, call by call) ---- implements --.
    PolarisHierarchy   (a tree of CRs) ----------- implements --+-> PolarisResource
    PolarisSync        (a pass, with contents) --- implements --+
    PolarisAccess      (bindings and grants) --- relies on, and implements

    PolarisClient      (every request and answer)  implements ----> PolarisTokenSource
        uses PolarisAPI (addresses and parsers)
    PolarisSync        uses ----------> PolarisDrift (comparison, bodies)
    PolarisConnection  (what Ready of a connection is worth)

`PolarisPrincipal`, `PolarisHierarchy` and `PolarisSync` are shown to implement
`PolarisResource`, by TLC and by proof. `PolarisAccess` has the CRs that a
binding ties together take exactly its steps, and so holds for principals, roles
and everything a privilege can be granted on, without repeating their
reconcilers; and given that, bindings and grants are shown to implement it too.

The others look at what these take for granted. For `PolarisHierarchy` a path
resolves or not and an object has drifted or not: `PolarisSync` is about how a
pass finds out, and what it then writes. For all of them a connection is Ready
or not, which `PolarisConnection` takes apart, and a call to Polaris succeeds,
fails, or takes effect with an error: `PolarisClient` puts the token, the
address and the answer's parser below that.

| Module | Contents |
|---|---|
| `PolarisResource` | the abstract reconciler |
| `PolarisPrincipal`, `...Properties`, `...Proofs` | the principal reconciler with the informer |
| `PolarisHierarchy`, `...Properties`, `...Proofs`, `MCHierarchy` | the seven reconcilers of the tree |
| `PolarisAccess`, `...Properties`, `...Proofs`, `MCAccess` | the two binding reconcilers and the grant reconciler |
| `PolarisDrift`, `...Proofs` | comparisons and request bodies of the seven reconcilers, as operators |
| `PolarisSync`, `...Properties`, `...Proofs`, `MCSync` | a pass of those reconcilers between the resource, the path and the server's object |
| `PolarisConnection`, `...Properties`, `...Proofs`, `MCConnection` | the connection reconciler, its Secrets and the client it builds |
| `PolarisTokenSource`, `...Proofs` | the OAuth token cache |
| `PolarisAPI` | requests and answers of the generated clients, as operators |
| `PolarisClient`, `...Proofs`, `MCClient` | callers that share a client, and the server |

A module `...Properties` states what is checked or proved, `MC...` the instances
for TLC. Nearly everything that is proved is checked by a run too. The type
invariants below `PolarisPrincipal`, `NeverForgotten` of `PolarisAccess` and
`PolarisSync`, and `ObservedNeverRegresses` are proved only: the proofs hold for
every instance that a run could have, and the time of the runs goes to the rest.
An operator `<definition>_<Variant>` is a wrong variant of a definition, which
no action uses and which shows what some property rules out.

## Plan

Done, in this order:

1. `PolarisPrincipal`: one reconciler in full, with the informer, the work
   queue and every fault between two calls. It is the only one that holds data
   that exists nowhere else (a credential is shown once), and its control flow
   contains that of every other reconciler.
2. `PolarisHierarchy`: catalogs, namespaces (nested), tables, views, policies,
   principal roles and catalog roles as one composition.
3. `PolarisResource`, and the refinement of 1 and 2 to it.
4. `PolarisAccess`: bindings and grants over `PolarisResource`.
5. `PolarisTokenSource`: the token cache behind its mutex, with the lead time
   and the expiry arithmetic.
6. `PolarisConnection`: validation of credentials, what its Ready promises and
   when it notices a new Secret.
7. `PolarisDrift`: `driftsFrom` and the body builders of each kind,
   `equalStringSet`, `diffProperties`; and `PolarisSync`, the pass around them
   with `resolveNamespacePath` and its depth limit.
8. `PolarisAPI` and `PolarisClient`: the requests of the generated clients and
   the judgement of their answers, over the token source, which they implement.
9. Proofs of the safety of 5 to 8, and about the operators of `PolarisDrift`.
10. That no reconciler forgets a CR with work to do, that a pass of
    `PolarisSync` ends, and that the tree of `PolarisHierarchy` never gets stuck
    on the way up or down; the refinement of `PolarisResource` by `PolarisSync`
    and `PolarisAccess`; the address of every target, and what a caller may
    believe. All of it checked and proved.

Left:

11. References and names that are edited, and two CRs with one Polaris name, as
    extensions of `PolarisHierarchy`. The code keeps no record of an earlier
    reference and no mark of ownership on the server, so what can be promised
    there has to be settled first.
12. The deletion path of `PolarisSync`, so that its pass and that of
    `PolarisHierarchy`, which implement the same abstract resource, can be
    related call by call.
13. From `NeverForgotten`, `PassEnds` and the absence of circles to `Converges`:
    the liveness argument itself is TLC's, the steps it rests on are proved.

## PolarisPrincipal

One custom resource, one server. A pass of `Reconcile` is cut at every call
that leaves the process; the variable `pc` is the call it makes next, and each
action is one call with everything the code does with its answer.

| Model | Code |
|---|---|
| `cr` | the resource in the API server: existence, generation, deletion timestamp, finalizer, spec (rotation flag, properties), status (observedGeneration, Ready, Synced, CredentialsWritten) |
| `cache`, `cacheCurrent` | the informer's copy, which `r.Get` reads, and whether it has the stored resourceVersion |
| `pp`, `ppCurrent`, `justCreated`, `creds`, `seenCurrent` | Reconcile's locals |
| `queued` | the request is in the work queue |
| `conn` | the connection as `getConnection`, `parentReady` and the client builder see it |
| `remote` | the principal on the server |
| `secret`, `secretSeen` | the generated Secret, and whether the informer has its newest version |
| `freshFor`, `credLost`, `tampered`, `dropped` | history, read by properties only |
| `Begin`, `BeginNotFound` | `r.Get` (:57) |
| `resolveFail`, `waitForDependency`, `ConnectionResolved` | the part up to the client (:65-85) |
| `ensureFinalizer` | :93 |
| `getPrincipal`, `createPrincipal`, `updatePrincipal`, `rotateCredentials`, `writeCredentialsSecret` | the functions of these names, and what Reconcile does with their results (:99-177) |
| `WriteReadyStatus`, `WriteFailedStatus`, `WriteWaitStatus` | the status updates |
| `finalize`, `removeFinalizer` | deletion |
| `CacheSync`, `SecretSync` | the informer, with the predicate of `SetupWithManager` |
| `CollectSecret` | Kubernetes collects the Secret once the resource that controls it (`SetControllerReference`, :293) has gone |
| `EditSpec`, `DeleteResource`, `DeleteSecret`, `ConnectionDegrades`, `ConnectionRecovers`, `ServerChange`, `Restart` | everybody else |

Every write of the resource carries the resourceVersion it was computed from,
and the API server refuses it if that is not the newest; the model keeps
whether a copy is the newest instead of the number. A call can fail before it
takes effect (`"call"`) or take effect and report an error (`"reply"`); for
`createPrincipal` and `rotateCredentials` the latter includes an answer whose
body is not the expected JSON, where the code continues without credentials.
Faults are bounded by `MaxFaults`, with one exception (`CallFails`): over a
connection that is not Ready the client still builds if its Secret is there, and
any call may fail as often as it is made, since what made the connection
NotReady (rejected credentials, a server that is down) fails them too.

### Runs

| Run | Question | Result |
|---|---|---|
| `principal` | type correctness, `FinalizerGuardsRemote`, `SecretAccounted`, `ReadyMeansInSync`, `NeverForgotten`: a principal with work to do has a pass under way or coming; `OneCredentialPerPass` and `ImplementsResource` under two faults of any kind | holds |
| `principal_liveness` | `Settles`: after edits and faults stop, and if the connection is Ready from then on, the resource is deleted, or Ready for its latest generation, for good; `DeletionCompletes`: a deletion completes if the connection ends up Ready or gone | holds |
| `principal_rotation_lost` | `docs/crds/principal.md:11`: rotation is forced on the next reconcile | violated: one failing GET stamps observedGeneration, and the rotation is skipped for good |
| `principal_no_secret` | `docs/tutorial.md:163`: the credentials are written to the Secret | violated: if the Secret write after the create fails, the next pass reports Ready and no Secret is ever written |

`SecretAccounted` excuses a finalizer that was dropped because the connection
was gone: the principal stays on the server, and Kubernetes collects the Secret
that the resource controlled. `DeletionCompletes` needs its hypothesis: while a
connection stays NotReady every DELETE may fail (:201-207), and TLC finds the
resource that stays in Terminating if it is left out.

A run that expects a violation states the quoted sentence as a property; TLC's
counterexample is the argument of the finding in `PROJECT.json`.

### Bounds

`Props` has two property bags, enough for a drift and for an edit that undoes
another. `MaxGen = 2` lets the user edit once before a deletion (which moves
the generation on again), so that a stale pass, a current one and a deletion
meet; `MaxFaults` bounds faults and outside interventions: two in the safety
run, so that one may strike while the operator recovers from another, and one
in the liveness runs. No other variable is bounded. The safety run has 6,890,101
states, the liveness run 1,015,647. `CHECK_DEADLOCK FALSE`:
an operator whose resource is deleted and whose queue is empty has nothing to
do, and rightly stops.

### Fairness

`OperatorFairness`: the informer delivers what was stored, the worker takes a
queued request, a pass that runs makes its next call. controller-runtime
provides each of them: informers re-list on errors, a request that returned an
error is put back with a back-off that is bounded, and calls have time-outs, so
that a pass does not hang. Nobody is assumed to
repair a broken connection: `Settles` speaks of behaviours in which it is Ready
in the end, and `DeletionCompletes` of those in which it is Ready or gone: the
deletion path is meant to work without a connection, but not over one that
refuses its calls. No fairness is assumed of users or faults.

### Proofs

`PolarisPrincipalProofs` proves every property of the run `principal`, and that
observedGeneration never goes back (`ObservedNeverRegresses`), for arbitrary
property bags, generation and fault bounds and sets of fault kinds, from
`PrincipalAssumption` alone. The inductive invariant is the conjunction

    IInv == TypeInv /\ FinalizerInv /\ CredentialInv /\ VersionInv /\ SyncInv

- `TypeInv`: types, and the shape of the idle state.
- `FinalizerInv`: a pass at a call to Polaris that may create works on an
  object whose finalizer was stored, and while its copy is not deleting nothing
  has removed it. `FinalizerGuardsRemote` alone is not inductive: a pass could
  be about to create for an object that lost its finalizer.
- `CredentialInv`: which of Secret, memory and `credLost` accounts for the last
  credential at each call. It rests on `FinalizerInv`: a Secret is collected only
  after the finalizer went, with the principal or dropped.
- `VersionInv`: a copy that is current equals the stored object, an older one
  has neither a higher generation nor a higher observedGeneration. It makes the
  status writes monotone.
- `SyncInv`: at the status write the server holds the properties of the copy,
  and a stored Ready of the newest generation does too.

`LifeInv` adds what the refinement needs: what is deleting or Ready has the
finalizer, and a pass that is about to remove it has nothing left on the
server. With `IInv` it gives `Implements`: every step is a step of
`PolarisResource` or leaves it alone.

`NeverForgotten` is inductive beside `IInv`: a pass ends with a requeue, or with
Ready for the stored generation, or with a write that the predicate of
`SetupWithManager` lets through. The interesting case is a pass over an old copy
that ends quietly: then the cache has something to deliver (`Remembered`).

The proof that a step preserves each part has one lemma per part and one step
per action. Liveness (`Settles`, `DeletionCompletes`) and the violated
sentences are model-checked only: liveness under fairness is out of the
prover's reach.

### Not modelled

A resource that is deleted and created again under the same name; edits of
`spec.name`, `connectionRef` and `credentialsSecretRef`; other finalizers; two
resources that name the same Polaris principal; a Secret that belongs to
somebody else; a request that takes effect after its caller gave up and moved
on; a success without a body where the code dereferences it (`driftsFrom`
would panic; controller-runtime recovers and retries); an entity version that a
rotation moves on (a following update would fail once and be retried).
Status texts, the client id in the status and timestamps are left out.

The model also shows, without any fault, that one generation can be rotated
twice: the pass that the event of the Secret's write starts may read a copy
whose observedGeneration is still the old one. `OneCredentialPerPass` therefore
speaks of a pass, and `SecretAccounted` of where the last credential is: neither
counts the rotations of a generation, and the hazard is listed without a
property. Nor would any property of this module break if the PUT of a changed
principal overwrote it; `MindsOthers` of `PolarisSync` says that of the kinds
whose updates carry the version in the same way.

## PolarisHierarchy

All resources below one `PolarisConnection`, with the seven reconcilers that
work on them and one server that holds the same tree. The `Reconcile` functions
of catalogs, namespaces, tables, views, policies, principal roles and catalog
roles are the same sequence of calls; they differ in the references they
resolve, in the parent whose Ready they wait for, and in whether they ever
update what they find. `Kind`, `Parent` and `Above` are constants, so one
module stands for any tree.

| Model | Code |
|---|---|
| `cr[r]` | existence, deletion timestamp, finalizer and Ready of a resource |
| `queued`, `call[r]` | the work queues; the call r's pass makes next |
| `current[r]` | whether the pass's copy has the stored resourceVersion |
| `conn` | the connection: missing or without its Secret, not Ready, Ready |
| `remote`, `made` | what the server holds; what of it the operator created |
| `lost`, `tampered` | history, read by properties only |
| `Resolves` | `getNamespace`, `resolveNamespacePath`, `getCatalog`, `getConnection`, the client builder |
| `Gate`, `ParentReady` | the wait before the client is built: catalogs and principal roles wait for the connection, namespaces for their catalog, everything else for its parent |
| `FirstCall` | everything in `Reconcile` up to its first call that leaves the process |
| `ensureFinalizer`, `finalize`, `removeFinalizer` | the functions of these names |
| `loadRemote`, `createRemote`, `updateRemote` | the get, create and update of each kind |
| `WriteReadyStatus`, `WriteNotReadyStatus` | the status updates |

`PolarisPrincipal` takes one reconciler apart; here the interest is in what
several do together, and each is simpler. A pass reads what the informer shows
when it starts and sees nothing of what happens later; the informer itself does
not lag. The contents of an object are left out, so whether one that was found
has drifted is a free choice. A wait and a recorded failure are one call,
`"notReady"`: both set Ready to False and come back.

`Above` is what the constants call the ancestors; `HierarchyAssumption` says
that it is the closure of `Parent` and has no cycle, and that there are finitely
many resources; TLC evaluates it on each tree.

### Runs

| Run | Question | Result |
|---|---|---|
| `hierarchy` | for nested namespaces under two faults of any kind: `DeletedBottomUp`, `ReadyMeansPresent`, `ImplementsResource`; `NeverForgotten`: what is not Ready, or is being deleted, has a pass under way or queued; `BuildUpNeverStuck`, `TeardownNeverStuck`: nothing waits for what waits for it; `Converges`; `TeardownCompletes`; `TeardownWithoutServer`: teardown ends although the connection never comes back | holds |
| `hierarchy_wedged` | `polarisnamespace_controller.go:58`: no object is wedged in Terminating | violated: a connection that goes and comes back leaves a child's object on the server, and its parent's DELETE is refused for good |
| `hierarchy_orphan` | `docs/tutorial.md:299`: nothing is orphaned | violated: a nested namespace does not need its parent's resource to be guarded |

### Bounds

The trees are in `MCHierarchy`. `Nested` (a catalog and two namespaces, one
inside the other) is the smallest in which the wait of a resource and its
parent differ, two resources share a worker and a deletion has to pass through
three levels; the other kinds take the same actions, and the proofs are for any
tree. `MaxFaults` bounds faults and outside interventions, edits included: two
in `hierarchy`, so that one can strike while the first is being repaired, one
in the violated runs, which need no more. Users apply and delete without a
bound: the same name comes and goes any number of times. `CHECK_DEADLOCK
FALSE`, as for the principal, in the runs where everything may be done.

### Fairness

A pass that runs makes its next call (weak fairness of `Reconcile`), and a
request that is in the queue whenever its worker is free gets its turn (strong
fairness of `Begin`): a work queue is first in, first out, and a resource that
is retried goes to its end. Again nobody is assumed to repair the connection.
`Converges` asks that users stop changing their minds and that the connection
is Ready in the end; `TeardownCompletes` that everything stays deleted and the
connection was never lost; `TeardownWithoutServer` that it is lost for good.
What remains between the last two is `NeverWedged`, which fails.

### Proofs

`PolarisHierarchyProofs` proves the safety properties of the run `hierarchy`,
its types, and that each resource implements `PolarisResource` (`Implements`,
in the form TLC checks, and `ImplementsSpec`, as an implication of
specifications), for every tree of resources and every bound, from
`HierarchyAssumption`. The inductive invariant is

    IInv == TypeOK /\ WorkInv /\ TreeInv /\ ConnInv /\ GuardInv /\ PresentInv

- `WorkInv`: a pass that may still create works on a guarded resource, and one
  on the deletion path on a deleting one. The finalizer is removed by the pass
  itself only, and a kind's worker runs one pass at a time.
- `TreeInv`: the server holds whole branches.
- `ConnInv`: a connection that was never reachable has let nobody create.
- `GuardInv`: what is on the server is guarded, and a pass that is about to
  remove a finalizer has nothing left on the server.
- `PresentInv`: what is Ready, or about to be, is on the server.

`DeletedBottomUp` speaks of everything above an object. That part needs no
invariant of its own: by `TreeInv` what lies above it is on the server, and by
`GuardInv` it is guarded. But `GuardInv` is inductive only together with
`TreeInv`: a pass may drop a finalizer without a DELETE when a reference does
not resolve, which is harmless because a missing ancestor is not on the server,
and so neither is the resource. `ReadyMeansPresent` follows from `PresentInv`
and `TreeInv` in the same way. The refinement needs no more: a step that could
break it is a create without a guard (`WorkInv`) or a finalizer that goes while
the object is there (`GuardInv`).

The rest is about progress. `NeverForgotten` is inductive beside `IInv`
(`Remembered`): every pass that ends without a requeue leaves nothing to do, and
every event puts the request back. `BuildUpNeverStuck` and `TeardownNeverStuck`
follow from it and `IInv` in every reachable state, without a step. `Above`
orders the resources, and there are finitely many, so among those that are not
Ready one is outermost (`Outermost`) and among those that are left one is
innermost (`Innermost`). The outermost has nothing above it to wait for: every
gate lies above (`GateIsAbove`), is Ready, and by `PresentInv` on the server.
The innermost has nothing below it on the server, since by `GuardInv` that would
still be a CR, so its DELETE is not refused. That the pass which then comes is
made, and made without faults in the end, is fairness: `Converges`,
`TeardownCompletes` and `TeardownWithoutServer` are model-checked only.

### Not modelled

Edits of references and names; two resources with one Polaris name; a
`parentRef` chain that is cyclic, too long or crosses catalogs and invalid
specs (an error in every pass, as an unresolved reference is; `PolarisSync` has
both); a Ready parent whose object somebody else deletes (with `"server"`
faults the safety properties are stated for what nobody tampered with); the
status fields `fullPath`, `location` and `tableUUID`; requests that take effect
after their caller gave up; the event of a removal, which starts a pass that
finds nothing.

## PolarisResource

A CR is absent, applied, guarded (it has the finalizer) or doomed (it is also
deleting); it is Ready or not; the server has its object or not. The steps are
those a user sees: `Apply`, `Guard`, `Create`, `Report`, `Delete`, `Remove`,
`Release`. What it promises is in what is missing. Nothing is created for a CR
without a finalizer, nothing but a deletion removes the object, Ready is
claimed only of what is there, and the finalizer goes after the object. The
last two yield when the server is given up, because the connection went away,
or when somebody else uses the Polaris API: that is `outside`, and from then on
`Interfere` allows anything of the object. A pass that began before a deletion
may still create, so `Create` is possible of a doomed CR.

## PolarisAccess

Bindings of a principal to a principal role, of a principal role to a catalog
role, and grants of a privilege on a catalog, namespace, table or view to a
catalog role. The three `Reconcile` functions are one sequence of calls. The
access that a spec names is the set of the entities it ties together; for an
entity e, `ent[e]` takes the steps of `PolarisResource`.

| Model | Code |
|---|---|
| `cr[b]` | existence, deletion timestamp, finalizer, Ready and spec of a binding or grant |
| `ent[e]` | the resource a reference names, and its object on the server |
| `queued`, `call[b]`, `aim[b]`, `current[b]` | work queues; the call b's pass makes next; the spec it read; whether its copy has the stored resourceVersion |
| `reachable` | the connection and its Secret exist |
| `access` | memberships and grants on the server |
| `lost`, `tampered`, `edited`, `taken` | history, read by properties only |
| `Resolves` | the `get...` helpers, `buildGrantBody`, the client builder |
| `Awaited`, `ParentsReady` | `parentReady` of both ends of a binding; of the role of a grant, but not of its target (`polarisgrant_controller.go:80`) |
| `FirstCall` | everything in `Reconcile` up to its first call that leaves the process |
| `ensureFinalizer`, `assign`, `finalize`, `removeFinalizer` | the functions of these names; the idempotent PUT |
| `WriteReadyStatus`, `WriteNotReadyStatus` | the status updates |
| `AccessFollows` | the server: with an entity goes every access that ties it |

Of what lies above an entity, its catalog and the namespaces around it, a pass
needs that it resolves. That is certain while the entities are on the server
and nobody interferes, which is what `DeletedBottomUp` of `PolarisHierarchy`
says, and otherwise a free choice (`AboveResolves`).

### Runs

| Run | Question | Result |
|---|---|---|
| `access` | for a grant under two faults of any kind: `AccessIsBacked`, `ReadyMeansAccess`; `ImplementsResource`; `Converges`; `RevocationCompletes` | holds |

`AccessIsBacked` is the property that matters: nobody keeps an access that no
guarded CR names. It holds where `TargetsAreOurs`, that is, where no target of
a grant was on the server before its resource, and as long as the specs of
bindings are not edited.

`ImplementsResource` says that a binding is to others what its ends are to it:
its object is the access, and `outside` is what took that out of the operator's
hands, an edit or the end of one of its ends included. It needs `Unshared` as
well, that no two bindings may name one access. The reconcilers do not see to
that: of two such bindings the one that is deleted first takes the access from
the other, which stays Ready. `ReadyMeansAccess` has that case in `taken`.

### Bounds

The instances are in `MCAccess`. `Grants` has one grant, on a table or on its
whole catalog, so that it can be edited, and its two ends, of which the grant
awaits one. The role is on the server before its resource, the table is not.
With two faults this has 426,520 states. A grant has every transition of a
binding and one more way to go wrong. More bindings meet only in `taken`, when
two name the same ends and one is deleted; this is beyond the instance and
within the proofs, which are for any number of bindings. `CHECK_DEADLOCK FALSE`
as above.

### Fairness

As for `PolarisHierarchy`: weak for a running pass, strong for `Begin`. Nothing
is assumed of the entities: `Converges` asks that they end up Ready, and
`RevocationCompletes` asks nothing but that the bindings are deleted, since
revocation waits for nobody.

### Proofs

`PolarisAccessProofs` proves `TypeOK` and `ReadyMeansAccess` from
`AccessAssumption`, and `AccessIsBacked` from `TargetsAreOurs` as well, for any
bindings, grants, entities and bounds. The inductive invariant is

    IInv == BaseInv /\ EndsInv /\ BackInv

- `BaseInv` holds whatever the server had before. It says what a pass knows of
  its binding (`WorkInv`), that the server gives no access to what it does not
  know (`KnownInv`), that what is Ready or new on the server is guarded or
  doomed (`EntInv`), that without a connection nothing was given (`ReachInv`),
  and that a pass about to write Ready has given the access (`GivenInv`).
- `EndsInv`: an access ties only what is held, by which we mean: if the server
  has it, its resource has had the finalizer since. An awaited end was Ready;
  any other was not there before.
- `BackInv`: every access is named by a guarded binding that is not about to
  go.

The heart is a deletion. It skips the revocation when a reference does not
resolve, and that must not happen while the access is there. If it is there,
its ends are on the server (`KnownInv`) and held (`EndsInv`), so their
resources exist; by `PolarisResource` a held end stays held, since its
finalizer goes after its object. Hence everything resolves (`GivenResolves`).

`NeverForgotten` needs one fact more (`WakeInv`): a pass whose copy of a deleting
binding is the newest is on the deletion path, so that its status write cannot
end the pass of a deletion that it did not see. With both invariants, and that a
pass works on an access that the spec may name (`AimInv`), each step is one of
`PolarisResource` or leaves the binding alone (`Implements`, from
`TargetsAreOurs` and `Unshared`). Here `BackInv` is used again: an access of the
binding's own is backed by nobody else, and not by a pass that is about to drop
the finalizer, so that the access is gone by then (`OwnAccess`). `Converges` and
`RevocationCompletes` are model-checked only.

### Not modelled

The privilege of a grant (two grants of different privileges on one target are
different accesses; one access here stands for one privilege); edits of an
entity's name or connection; a principal that is on another connection than its
role; invalid grants (`:209`, an error in every pass, as a reference that does
not resolve is); `observedGeneration`, which no pass reads.

Two things stay outside what `AccessIsBacked` promises, since the code does not
keep them. A grant does not wait for its target (`:80`), so it may name a table
that Polaris had before; if that table's resource is deleted before it had the
finalizer, the grant's own deletion no longer resolves, drops its finalizer and
leaves the privilege. And a binding whose references are edited is assigned
anew; the assignment of its earlier spec stays, since no pass knows of it.

## PolarisTokenSource, PolarisAPI and PolarisClient

What lies between a reconciler's helper and the server: the bearer token, the
address of the request, and what is made of the answer.

`PolarisTokenSource` is `internal/polaris/auth.go`: the callers of one client,
the mutex, the token it guards and a clock. The server counts a token's
lifetime from the instant it issues it, the source from the instant the answer
is back; the difference is a field of the token that the code never sees.
`PolarisAPI` is the generated clients: for each of the 37 operations that the
operator uses the path, method and body name that `New...Request` builds, and
the statuses whose body `Parse...Response` decodes. `PolarisClient` joins them:
callers, each with a target it looks after, make any of the requests their
reconciler makes, in any order, and conclude from the answer whether the target
is there.

| Model | Code |
|---|---|
| `mu`, `cached`, `expiresAt` | the fields of `tokenSource` |
| `Fresh`, `UseCached`, `Fetch`, `FetchDone`, `FetchFailed` | `token` and `fetch`: the check against `tokenLeadTime`, the exchange under the mutex, `expires_in` missing or told |
| `at`, `since`, `bears` | where a caller is, since when, and the token it was given |
| `Tick` | time; `http.Client.Timeout` ends an exchange and a request |
| `New...`, `Parse...` of `PolarisAPI` | the functions of these names; a name is one segment, a namespace's path is the one segment that `encodeNamespacePath` makes of it |
| `Request`, `Parsed` | the client's method that each helper calls for its kind |
| `Verdict` | what the helpers make of a status: 409 is success to a create, 404 to a delete, and means absent to a read |
| `Authenticate`, `NotSent`, `Pinged` | `injectBearer`, its error, and `Ping` |
| `Serve`, `Arrive`, `Unavailable`, `Lost` | external: the server, a proxy that garbles or replaces the answer, and the network |

### Runs

| Run | Question | Result |
|---|---|---|
| `client` | two callers of one client, while tokens expire and exchanges, requests and answers are lost or garbled and the operator restarts: `HandedOutIsValid`: a token is good when it is handed out and for what the lead time covers; `OneRefresh`: one exchange at a time, when one is due; `Answered`: nobody waits for the mutex for ever; `BeliefIsTrue`: what a caller concluded is so; `MindsItsOwn`: no request touches what another caller looks after | holds |

`HandedOutIsValid` carries its condition with it: the lead time has to pay for
the time the issuing answer took and the time the request takes. With the
defaults (`tokenLeadTime` 30 s, `HTTPTimeout` 30 s) each alone fits and both
together need not: a request that takes its whole timeout with a token whose
answer was slow can be refused, which the reconciler's retry makes up for.

### Bounds

`MCClient` has pairs of targets, chosen so that addresses could meet: one name
for everything, and the kinds whose paths run in parallel. For them the clock
stands still, so that tokens do not multiply the states; one pair, a membership
and a connection that pings, has a clock that runs for six ticks. Lead time and
timeout are two ticks, lifetimes two and four: with the shorter one each call
fetches its own token, with the longer one a token is handed out, ages, and is
replaced. That gives 273,049 states.

### Fairness

`TokenFairness`: a caller that the mutex is free for again and again gets it,
which `sync.Mutex` provides (a waiter that is starved for a millisecond is
handed the lock), hence strong fairness; an exchange ends, if only by the
timeout, hence weak. The server owes nothing.

### Proofs

`PolarisTokenSourceProofs` proves `TokenTypeOK`, `HandedOutIsValid` and
`OneRefresh` for any callers, lifetimes and lead time, from
`TokenSourceAssumption`, which includes that the timeout is not longer than the
lead time. The invariant adds that whoever fetches holds the mutex
(`MutexInv`), that an exchange or a request lasts no longer than the timeout
(`TimeInv`), that the source is wrong about a token's end by what its answer
took and no more (`ExpiryInv`), and what was true when a token was handed out
(`LeadInv`) or an exchange began (`DueInv`).

`PolarisClientProofs` shows that `PolarisClient` implements
`PolarisTokenSource` (`Implements`), fairness included, since neither
`injectBearer` nor `Ping` gets at the token but through `token`. So
`HandedOutIsValid` holds of the bearer of every request (`BearsValid`).
`MindsItsOwn` is proved for all kinds and names of targets (`Minds`): whatever
a builder's address is, only a create with a name in the body adds, and a
deletion removes what a creation of the same target made.

`BeliefIsTrue`, for callers that are alone on their target and of any kind but
connections, which have no object, needs more, in three parts. All requests of
one target are about one place (`OnePlace`), whose address its create, read,
update, rotate and delete builders put together from different pieces. Different
targets have different places, whatever they are called (`HomesDiffer`): a name
is one segment whose content does not matter, so that the kinds are told apart by
the length of the path and by its literal segments. And the verdict on an answer,
the server's or what a proxy made of it, is right of that place when it is given
(`VerdictIsRight`). The invariant `BeliefInv` carries this from the answer to the
conclusion: nobody else's request, being about another place, comes between
(`OthersKeepBelief`). `Answered` is liveness, and model-checked only.

### Not modelled

A request that reaches the server after its caller gave up (`Lost` decides at
once whether it took effect); what the target lives in, which is there all
along; the fields of bodies other than the name (`PolarisDrift` has them);
default values and URL joining in `NewClient`. `buildPolarisClient` makes a
client per pass, so callers share one only where a pass makes calls in
parallel or a later version caches clients: the mutex is modelled for what it
says, sharing, and one caller is the special case the operator has today.

## PolarisConnection

The connection reconciler, cut at every read of the cache, at the token
exchange and at every write; the abstraction of resourceVersions is that of
`PolarisPrincipal`.

| Model | Code |
|---|---|
| `cr`, `cache`, `cacheCurrent`, `conn`, `connCurrent` | the `PolarisConnection`, the informer's copy, Reconcile's copy |
| `cfg` | the values that `buildPolarisClient` has read from Secrets |
| `secrets`, `seen` | the Secrets, and the informer's copies of them |
| `accepted`, `up` | external: the credential the server takes, and whether it answers |
| `proved`, `offered` | history, read by properties only |
| `Begin`, `BeginNotFound` | `r.Get` |
| `readCredentials`, `readBundle` | the two halves of `buildPolarisClient` in `helpers.go` |
| `Validate`, `NewClient` | `Config.Validate`, `buildTransport` and `NewClient` of `client.go` |
| `Ping` | `Client.Ping`, the exchange |
| `WriteFailedStatus`, `WriteReadyStatus`, `removeFinalizer` | the status updates; the finalizer of an older version |
| `CacheSync`, `SecretSync` | the informers; only the first one feeds the work queue |

### Runs

| Run | Question | Result |
|---|---|---|
| `connection` | `ReadyIsEarned`: Ready and AuthValid for the stored spec only if its credentials got a token; `NeverForgotten`: what is not Ready will be looked at again; `Settles`: once server and Secrets are in order for good it becomes Ready; `DeletionCompletes` with the Secret gone and the server down | holds |
| `connection_secret` | `polarisconnection_controller.go:111`: a credentials update triggers re-validation | violated: nothing watches Secrets and a healthy pass does not come back, so that the new credentials are never tried |

### Bounds

Three specs: a URL that does not parse, a private certificate with a bundle,
and no verification; a bundle that is right, empty or no certificate; two
credentials. One edit, one fault or outside intervention of any kind, from any
initial state of server and Secrets: this has 426,040 states. A second fault
multiplies them without a new case, since the initial states already combine a
broken Secret with a server that is down.

### Fairness

As for the principal: informers deliver, the queue hands out what it holds, a
pass makes its next call. Nobody is assumed to repair Secret or server.

### Proofs

`PolarisConnectionProofs` proves `TypeOK`, `ReadyIsEarned` and `NeverForgotten`
for any specs, Secrets, credentials and bounds, from `ConnectionAssumption`.
The invariant: a current copy is the stored object (`CopyInv`), only an object
with a finalizer outlives its deletion (`ShapeInv`), a pass that pings has
credentials (`SecretInv`), a pass about to write Ready has proved its own
generation and no condition is of a later one (`EarnedInv`), and an object that
is not Ready is queued, in a pass, or an event away from it (`AwakeInv`).
`Settles` and `DeletionCompletes` are model-checked only.

### Not modelled

`serverVersion`, which no code sets; edits of the key names in a Secret
reference (a Secret is the value under the key that is named); a Secret with
one of the two keys only, which is refused as an empty one is.

## PolarisDrift and PolarisSync

`PolarisDrift` has the comparisons and request bodies of the seven reconcilers
of the tree as operators over Go maps, lists and strings, and the two references
they are compared with: `InSync`, that an object is what its spec says in every
field that a pass reads back, and `InFull`, that it is so in every field that
the operator writes. `InFull` has what is never read back: the fields of the
cloud a catalog's storage is on, and all of a table or a view, the identifier
fields of its schema included.
`PolarisSync` is a pass of such a reconciler around them: the walk up
`parentRef`, the read of the object, create or update, and the status write,
while users edit the spec, others write the object and references come and go.

| Model | Code |
|---|---|
| `equalProperties`, `equalStringSet`, `diffProperties` | the functions of these names |
| `...DriftsFrom`, `namespaceDrifts`, `policyDrifts` | `driftsFrom` and its inlined counterparts |
| `build...Body`, `...Body`, `catalogProperties`, `tableProperties`, `copyStringMap` | the request bodies of each kind |
| `DefaultBaseLocation`, `AdditionalProperties` | how the generated `Catalog_Properties` splits a JSON object |
| `walk`, `StepUp`, `RefuseStep`, `EndWalk` | `resolveNamespacePath`: its loop, one read a step, `maxDepth` |
| `current`, `loadRemote`, `OnUntyped` | the object as the pass read it; an answer that is a 200 without JSON |
| `sound`, `tampered` | history, read by properties only |
| `createRemote`, `updateRemote`, `Versioned`, `fresh` | POST, PUT and the namespace's patch; `currentEntityVersion` |
| `WriteReadyStatus`, `WriteNotReadyStatus` | the status updates and the requeue |

### Runs

| Run | Question | Result |
|---|---|---|
| `sync` | for every kind, under an edit and two faults or outside changes: `ReadyMeansSynced`; `UpdatesOnlyDrift`: what is in sync is not updated again and again; `ResolveIsRight`: the path is the chain of parents or there is none; `MindsOthers`: an update replaces only what it was computed from; `CreatedInFull`: what a pass creates is the spec in every field (`InFull`); `PassEnds`: each call brings the end of the pass closer; `ImplementsResource`; `Converges` | holds |

`ReadyMeansSynced` leaves out the contents of tables and views, which are
compared with nothing. For schemas and SQL the documentation says so
(`docs/index.md:25`); but the comment at `polaristable_controller.go:34-37` says
that drift of a table's properties is enforced, and the code does not do that
either: a table that LoadTable finds is reported Ready (`:157-169`).

### Bounds

`MCSync` has for each kind the specs and contents that a comparison could
confuse: nil and empty maps, more keys on one side, the same locations in
another order, the reserved key, a write format with and without properties,
a schema with identifier fields, a catalog spec with the blocks of
two clouds and one without the block it needs, a policy whose description is
left out.
For the walk it has a chain of the longest length allowed, one that is longer,
a cycle, and a chain that crosses catalogs. `MaxDepth = 2` stands for 32: the
loop and its limit are the same. Two faults let one strike between the read and
the write of a pass that repairs the other. In all, 116,354 states.

### Fairness

A request in the queue is taken and a pass makes its next call. `Converges`
assumes that the path resolves, the server has the parent and the body can be
built in the end, and nothing of users or faults beyond that.

### Proofs

`PolarisDriftProofs` proves for property maps and lists of any size:
`equalProperties` and `equalStringSet` are equality of entries and of sets (the
latter for lists without duplicates, which `+listType=set` keeps); a create
body of any kind is the spec in every field (`CreatedIsFull`, with `InFull`);
the comparison reports drift exactly if the object is not in sync
(`DriftIsNotInSync`); an update makes it the spec in every field
(`UpdatedIsFull`). The assumptions are `DriftAssumption`:
finitely many keys, and nil is neither a map nor a string. The one exception is
in the statements: a catalog spec with a property named `default-base-location`
drifts for ever, since the body builder drops it and the comparison counts it.

`PolarisSyncProofs` builds on these. For any kinds, forests of namespaces
(cyclic ones too), depth and bounds it proves every property of the run `sync`
but `Converges`, and `NeverForgotten`. The invariant is

    SyncInv == TypeOK /\ PathIsChain /\ ChainsAgree /\ Read /\ InOrder
                 /\ ReadyMeansSynced

- `PathIsChain`: what the walk has so far is the lower end of a chain.
- `ChainsAgree`: and of every chain of the leaf. It makes a refused step the
  proof that there is no chain. That chains agree would follow by induction over
  their length, which the prover cannot do; as an invariant of the walk it needs
  one step at a time.
- `Read`: what a pass read is so, unless somebody else changed it.
- `InOrder`: a generation names one spec.

`PassEnds` is proved with the bound it states (`Ends`): at most `MaxDepth + 5`
calls in a pass, the first read included, whatever is created and deleted under
the walk. That the walk stays in its depth is `PathIsChain`, and needs no
well-founded order on the namespaces, which may be tied in circles.

`PolarisHierarchy` leaves it open how a pass finds out what to do; `PolarisSync`
does not, and still is a resource of `PolarisResource` (`Implements`; always
guarded, since it has no deletion). The additional invariant is `Placed`: at an
update or a status write of Ready the object is there, or somebody else took it,
which no 404, 409, refused version or answer without JSON may get around.

`Converges` is model-checked only.

### Not modelled

Deletion, finalizers and the wait for a parent's Ready (`PolarisHierarchy`);
the informer's lag (`PolarisPrincipal`); edits of references. The fields of a
cloud's storage are sent but never read back, so `InSync` leaves them out, while
`InFull` has them: an edit of these alone, or what somebody changes there, goes
unnoticed, as the comment at `polariscatalog_controller.go:231` says. `policyBody`
leaves an empty description out of the PUT; that the server then clears it is the
assumption `PolicyReplaced`, which no document in the repository confirms: with
the opposite one `ReadyMeansSynced` is violated. A panic on an answer without JSON is a failed pass, as
controller-runtime makes it. The contents of status fields other than Ready.

## Not modelled at all

Manifests, chart, documentation and build files; deep copies and API types,
which the API server validates; flags, metrics, health probes and web-hooks of
`cmd/main.go`; the operations of the generated clients that the operator never
calls, and the fields of bodies it does not set.
