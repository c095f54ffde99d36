--------------------- MODULE PolarisConnectionProperties ---------------------
(***************************************************************************)
(* What the connection reconciler promises to those who wait for its Ready *)
(* condition, and what its comment says and the code does not do.          *)
(***************************************************************************)
EXTENDS PolarisConnection

Calls == { "idle", "credentials", "bundle", "ping", "report",
           "status", "drop" }

\* Every variable keeps its type.  Of the code this says that a pass works on a
\* connection that r.Get found, and that Ping offers credentials, never the
\* content of a Secret without them.
TypeOK ==
    /\ cr \in Objects /\ cache \in Objects /\ conn \in Objects
    /\ cacheCurrent \in BOOLEAN /\ connCurrent \in BOOLEAN
    /\ queued \in BOOLEAN
    /\ pc \in Calls
    /\ pc # "idle" => conn.exists
    /\ cfg \in Configs
    /\ secrets \in [Names -> Values] /\ seen \in [Names -> Values]
    /\ accepted \in Credentials
    /\ up \in BOOLEAN
    /\ faults \in 0..MaxFaults
    /\ proved \subseteq Generations
    /\ offered \in Credentials \cup {"absent"}

\* "mint a token to prove the credentials work, and surface the outcome in
\* status conditions so child resources ... can refuse to reconcile against a
\* broken connection": Ready and AuthValid are True for the spec that is stored
\* only if its own credentials got a token, whatever was edited, retried or lost
\* between the exchange and the write.
ReadyIsEarned ==
    cr.exists /\ (cr.ready = "True" \/ cr.auth = "True") =>
        /\ cr.ready = cr.auth
        /\ cr.condGen = cr.gen => cr.gen \in proved

\* A connection that is not Ready for its spec is in the work queue, in a pass or
\* about to be: no watch on Secrets would bring it back.
NeverForgotten ==
    \/ queued \/ pc # "idle" \/ ~cacheCurrent
    \/ ~cr.exists
    \/ cr.ready = "True" /\ cr.condGen = cr.gen

\* The server answers, and takes what the spec's Secrets hold.
Healthy ==
    LET s == cr.spec
        bundle == IF s.bundle = NoRef THEN "absent" ELSE secrets[s.bundle]
    IN  /\ up
        /\ s.urlParses
        /\ secrets[s.credentials] = accepted
        /\ s.bundle # NoRef => bundle \in {"right", "wrong"}
        /\ s.skipVerify \/ PublicCert \/ bundle = "right"

\* Once the server and the Secrets are in order for good, the connection becomes
\* Ready for its spec, or goes: whatever was wrong when Reconcile last looked.
Settles ==
    <>[]Healthy =>
        <>[](\/ ~cr.exists
             \/ ~cr.deleting /\ cr.ready = "True" /\ cr.condGen = cr.gen)

\* "Connections own no remote state, so we just drop the finalizer if one was
\* ever added": a deletion completes with the Secret gone and the server down.
DeletionCompletes == cr.exists /\ cr.deleting ~> ~cr.exists

-----------------------------------------------------------------------------
(* A sentence of the repository that the code does not keep.               *)

\* The comment on SetupWithManager: "We also watch Secrets so a credentials
\* update triggers re-validation."  What the credentials Secret holds for good
\* is what the last exchange offered, as long as there is something to offer
\* and nothing but the credentials can be wrong.
UpdateIsValidated ==
    \A v \in Credentials :
        <>[](/\ cr.exists /\ ~cr.deleting /\ cr.spec.urlParses
             /\ cr.spec.bundle = NoRef
             /\ secrets[cr.spec.credentials] = v)
            => <>[](offered = v)
=============================================================================
