--------------------------- MODULE PolarisResource ---------------------------
(***************************************************************************)
(* What a reconciler promises of one custom resource and the object it     *)
(* stands for on the Polaris server: everything that refers to a resource  *)
(* may rely on this and on nothing else.  PolarisPrincipal and PolarisSync *)
(* are shown to implement it, PolarisHierarchy for each of its resources   *)
(* and PolarisAccess, which relies on it, for each of its bindings.        *)
(***************************************************************************)

VARIABLES
    stage,   \* of the custom resource, one of Stages
    ready,   \* its Ready condition is True
    there,   \* the server has the object
    outside  \* the server was given up, or somebody else uses the Polaris API

resource == <<stage, ready, there, outside>>

Stages ==
    { "absent",    \* not in the API server
      "applied",   \* without the finalizer
      "guarded",   \* with the finalizer
      "doomed" }   \* with the finalizer and a deletion timestamp

\* Perhaps just applied; the server may know an object of its name already.
Init ==
    /\ stage \in {"absent", "applied"} /\ ready = FALSE
    /\ there \in BOOLEAN /\ outside = FALSE

Apply ==
    /\ stage = "absent" /\ stage' = "applied"
    /\ UNCHANGED <<ready, there, outside>>

Guard ==
    /\ stage = "applied" /\ stage' = "guarded"
    /\ UNCHANGED <<ready, there, outside>>

\* A pass that began before the deletion may still create.
Create ==
    /\ stage \in {"guarded", "doomed"} /\ ~there /\ there' = TRUE
    /\ UNCHANGED <<stage, ready, outside>>

\* Ready is claimed of what is there, and withdrawn at any time.
Report ==
    /\ stage = "guarded" /\ ready' = ~ready
    /\ ready' => there \/ outside
    /\ UNCHANGED <<stage, there, outside>>

Delete ==
    /\ \/ stage = "applied" /\ stage' = "absent"
       \/ stage = "guarded" /\ stage' = "doomed"
    /\ UNCHANGED <<ready, there, outside>>

Remove ==
    /\ stage = "doomed" /\ there /\ there' = FALSE
    /\ UNCHANGED <<stage, ready, outside>>

\* The finalizer goes last, after the object, unless the server is given up.
Release ==
    /\ stage = "doomed" /\ stage' = "absent" /\ ready' = FALSE
    /\ outside => outside'
    /\ ~there \/ outside'
    /\ UNCHANGED there

Interfere ==
    /\ outside' = TRUE
    /\ there' \in BOOLEAN
    /\ UNCHANGED <<stage, ready>>

Next ==
    \/ Apply \/ Guard \/ Create \/ Report \/ Delete \/ Remove \/ Release
    \/ Interfere

Spec == Init /\ [][Next]_resource
=============================================================================
