----------------------- MODULE PolarisHierarchyProofs -----------------------
(***************************************************************************)
(* For every tree of resources and every kind of fault: the types, that    *)
(* what is on the server keeps its resource and those above it, that Ready *)
(* means present, that each resource lives the life PolarisResource tells, *)
(* and that nothing is forgotten or waits in a circle.                     *)
(*                                                                         *)
(* The inductive invariant is a conjunction of named parts; a step of each *)
(* part is a lemma with one step per action.                               *)
(***************************************************************************)
EXTENDS PolarisHierarchyProperties, FiniteSetTheorems, TLAPS

\* What a pass knows of its resource: its finalizer cannot go while the pass
\* may still create, and it does not leave the deletion path.
WorkInv ==
    \A r \in Resources :
        /\ call[r] \in {"get", "create", "update", "ready"} => Guarded(r)
        /\ call[r] \in {"delete", "unfinalize", "drop"} => cr[r].deleting
        /\ call[r] # "idle" /\ current[r] => cr[r].exists
        /\ current[r] /\ cr[r].deleting
              => call[r] \in {"idle", "delete", "unfinalize", "drop"}

\* The server keeps a tree.
TreeInv == \A r \in remote : Above[r] \subseteq remote

\* As long as the connection was never reachable, nothing was created.
ConnInv ==
    conn = "unreachable" /\ ~lost /\ ~tampered =>
        /\ remote = {}
        /\ \A r \in Resources : call[r] \in {"idle", "notReady", "drop"}

\* The heart of DeletedBottomUp, with what makes it inductive: when a pass is
\* about to remove the finalizer, the object is not on the server.
GuardInv ==
    ~lost /\ ~tampered =>
        /\ \A r \in remote : Guarded(r)
        /\ \A r \in Resources :
              call[r] \in {"unfinalize", "drop"} => r \notin remote

\* A pass about to write Ready has seen its object on the server.
PresentInv ==
    ~tampered =>
        \A r \in Resources :
            \/ call[r] = "ready" /\ ~cr[r].deleting
            \/ cr[r].ready /\ ~cr[r].deleting
            => r \in remote

IInv == TypeOK /\ WorkInv /\ TreeInv /\ ConnInv /\ GuardInv /\ PresentInv

-----------------------------------------------------------------------------
\* What a user, a status write or a finalizer write may store is an Object.
LEMMA StoredObjects ==
    ASSUME NEW o \in Objects
    PROVE  /\ NoObject \in Objects
           /\ [ NoObject EXCEPT !.exists = TRUE ] \in Objects
           /\ o.exists => [ o EXCEPT !.finalizer = TRUE ] \in Objects
           /\ o.finalizer => [ o EXCEPT !.ready = TRUE ] \in Objects
           /\ [ o EXCEPT !.ready = FALSE ] \in Objects
           /\ o.finalizer => [ o EXCEPT !.deleting = TRUE ] \in Objects
BY DEF Objects, NoObject

\* Storing an object keeps the type of the resources.
LEMMA StoreTyped ==
    ASSUME TypeOK, NEW r \in Resources, NEW o \in Objects, Store(r, o)
    PROVE  cr' \in [Resources -> Objects]
BY DEF Store, TypeOK

\* A write, accepted or not, keeps the type of the resources and the bound on
\* faults; so does an outside intervention for the latter.
LEMMA WriteTyped ==
    ASSUME TypeOK, NEW r \in Resources, NEW o, current[r] => o \in Objects,
           WriteOk(r, o) \/ WriteErr(r, o)
    PROVE  cr' \in [Resources -> Objects] /\ faults' \in 0..MaxFaults
<1>1. faults' \in 0..MaxFaults
  BY HierarchyAssumption DEF TypeOK, WriteOk, WriteErr, NoFault, Fault
<1>2. CASE current[r] /\ Store(r, o)
  BY <1>1, <1>2, StoreTyped
<1>3. CASE UNCHANGED cr
  BY <1>1, <1>3 DEF TypeOK
<1> QED
  BY <1>2, <1>3 DEF WriteOk, WriteErr

\* A fault or none keeps the bound on faults.
LEMMA FaultTyped ==
    ASSUME TypeOK, NoFault \/ \E kind \in FaultKinds : Fault(kind)
    PROVE  faults' \in 0..MaxFaults
BY HierarchyAssumption DEF TypeOK, NoFault, Fault

\* Where a pass goes from here stays typed.
LEMMA ControlTyped ==
    ASSUME TypeOK, NEW r \in Resources,
           \/ \E c \in Calls : GoTo(r, c)
           \/ \E requeue \in BOOLEAN : Finish(r, requeue)
    PROVE  /\ queued' \subseteq Resources
           /\ call' \in [Resources -> Calls]
           /\ current' \in [Resources -> BOOLEAN]
BY DEF TypeOK, GoTo, Finish, Calls

\* A pass starts at a call.
LEMMA FirstCallTyped ==
    ASSUME NEW r \in Resources PROVE FirstCall(r) \in Calls
BY DEF FirstCall, OnDeletion, AfterGate, Calls

\* The types are kept by every step.
LEMMA TypeStep ==
    ASSUME TypeOK, WorkInv, [Next]_vars PROVE TypeOK'
<1>0. CASE UNCHANGED vars
  BY <1>0 DEF TypeOK, vars, server, history
<1>1. ASSUME NEW r \in Resources, Begin(r) PROVE TypeOK'
  <2>1. call' \in [Resources -> Calls] /\ current' \in [Resources -> BOOLEAN]
    BY <1>1, FirstCallTyped DEF TypeOK, Begin
  <2>2. queued' \subseteq Resources
    BY <1>1 DEF TypeOK, Begin
  <2> QED
    BY <1>1, <2>1, <2>2 DEF TypeOK, Begin, server, history
<1>2. ASSUME NEW r \in Resources, ensureFinalizer(r) PROVE TypeOK'
  <2> DEFINE o == [ cr[r] EXCEPT !.finalizer = TRUE ]
  <2>1. current[r] => o \in Objects
    BY <1>2, StoredObjects DEF TypeOK, WorkInv, ensureFinalizer
  <2>2. WriteOk(r, o) \/ WriteErr(r, o)
    BY <1>2 DEF ensureFinalizer
  <2>3. \E requeue \in BOOLEAN : Finish(r, requeue)
    BY <1>2 DEF ensureFinalizer
  <2> HIDE DEF o
  <2>4. cr' \in [Resources -> Objects] /\ faults' \in 0..MaxFaults
    BY <2>1, <2>2, WriteTyped
  <2> QED
    BY <1>2, <2>3, <2>4, ControlTyped DEF TypeOK, ensureFinalizer, server, history
<1>3. ASSUME NEW r \in Resources, loadRemote(r) PROVE TypeOK'
  <2>1. faults' \in 0..MaxFaults
    BY <1>3, FaultTyped DEF loadRemote, FaultKinds
  <2>2. \E c \in Calls : GoTo(r, c)
    BY <1>3 DEF loadRemote, Calls
  <2> QED
    BY <1>3, <2>1, <2>2, ControlTyped DEF TypeOK, loadRemote, server, history
<1>4. ASSUME NEW r \in Resources, createRemote(r) PROVE TypeOK'
  <2>1. faults' \in 0..MaxFaults
    BY <1>4, FaultTyped DEF createRemote, FaultKinds
  <2>2. \E c \in Calls : GoTo(r, c)
    BY <1>4 DEF createRemote, Calls, OnParentMissing
  <2>3. remote' \subseteq Resources /\ made' \subseteq remote'
    BY <1>4 DEF TypeOK, createRemote, Post, server
  <2> QED
    BY <1>4, <2>1, <2>2, <2>3, ControlTyped DEF TypeOK, createRemote, history
<1>5. ASSUME NEW r \in Resources, updateRemote(r) PROVE TypeOK'
  <2>1. faults' \in 0..MaxFaults
    BY <1>5, FaultTyped DEF updateRemote, FaultKinds
  <2>2. \E c \in Calls : GoTo(r, c)
    BY <1>5 DEF updateRemote, Calls
  <2> QED
    BY <1>5, <2>1, <2>2, ControlTyped DEF TypeOK, updateRemote, server, history
<1>6. ASSUME NEW r \in Resources, WriteReadyStatus(r) PROVE TypeOK'
  <2> DEFINE o == [ cr[r] EXCEPT !.ready = TRUE ]
  <2>1. current[r] => o \in Objects
    BY <1>6, StoredObjects DEF TypeOK, WorkInv, WriteReadyStatus, Guarded
  <2>2. WriteOk(r, o) \/ WriteErr(r, o)
    BY <1>6 DEF WriteReadyStatus
  <2>3. \E requeue \in BOOLEAN : Finish(r, requeue)
    BY <1>6 DEF WriteReadyStatus
  <2> HIDE DEF o
  <2>4. cr' \in [Resources -> Objects] /\ faults' \in 0..MaxFaults
    BY <2>1, <2>2, WriteTyped
  <2> QED
    BY <1>6, <2>3, <2>4, ControlTyped DEF TypeOK, WriteReadyStatus, server, history
<1>7. ASSUME NEW r \in Resources, WriteNotReadyStatus(r) PROVE TypeOK'
  <2> DEFINE o == [ cr[r] EXCEPT !.ready = FALSE ]
  <2>1. current[r] => o \in Objects
    BY <1>7, StoredObjects DEF TypeOK, WorkInv, WriteNotReadyStatus
  <2>2. WriteOk(r, o) \/ WriteErr(r, o)
    BY <1>7 DEF WriteNotReadyStatus
  <2>3. \E requeue \in BOOLEAN : Finish(r, requeue)
    BY <1>7 DEF WriteNotReadyStatus, requeueAfterNotReady
  <2> HIDE DEF o
  <2>4. cr' \in [Resources -> Objects] /\ faults' \in 0..MaxFaults
    BY <2>1, <2>2, WriteTyped
  <2> QED
    BY <1>7, <2>3, <2>4, ControlTyped DEF TypeOK, WriteNotReadyStatus, server, history
<1>8. ASSUME NEW r \in Resources, finalize(r) PROVE TypeOK'
  <2>1. faults' \in 0..MaxFaults
    BY <1>8, FaultTyped DEF finalize, FaultKinds
  <2>2. \/ \E c \in Calls : GoTo(r, c)
        \/ \E requeue \in BOOLEAN : Finish(r, requeue)
    BY <1>8 DEF finalize, Calls, OnRefusedDelete, NotFoundIsDone
  <2>3. remote' \subseteq Resources /\ made' \subseteq remote'
    BY <1>8 DEF TypeOK, finalize, Drop, server
  <2> QED
    BY <1>8, <2>1, <2>2, <2>3, ControlTyped DEF TypeOK, finalize, history
<1>9. ASSUME NEW r \in Resources, removeFinalizer(r) PROVE TypeOK'
  <2>1. NoObject \in Objects
    BY DEF Objects, NoObject
  <2> QED
    BY <1>9, <2>1, WriteTyped, ControlTyped
    DEF TypeOK, removeFinalizer, server, history
<1>10. ASSUME NEW r \in Resources, NEW o \in Objects, UserWrites(r, o),
              faults' \in 0..MaxFaults
       PROVE  TypeOK'
  <2>1. cr' \in [Resources -> Objects]
    BY <1>10, StoreTyped DEF UserWrites
  <2> QED
    BY <1>10, <2>1 DEF TypeOK, UserWrites, server, history
<1>11. ASSUME NEW r \in Resources, Apply(r) PROVE TypeOK'
  <2>1. [ NoObject EXCEPT !.exists = TRUE ] \in Objects
    BY DEF Objects, NoObject
  <2> QED
    BY <1>11, <2>1, <1>10, FaultTyped DEF Apply
<1>12. ASSUME NEW r \in Resources, EditSpec(r) PROVE TypeOK'
  <2>1. faults' \in 0..MaxFaults
    BY <1>12, FaultTyped DEF EditSpec, FaultKinds
  <2> QED
    BY <1>12, <2>1, <1>10 DEF EditSpec, TypeOK
<1>13. ASSUME NEW r \in Resources, Delete(r) PROVE TypeOK'
  <2>1. (IF cr[r].finalizer
         THEN [ cr[r] EXCEPT !.deleting = TRUE ] ELSE NoObject) \in Objects
    <3>1. cr[r] \in Objects
      BY DEF TypeOK
    <3> QED
      BY <3>1, StoredObjects
  <2> QED
    BY <1>13, <2>1, <1>10, FaultTyped DEF Delete
<1>14. ASSUME NEW r \in Resources, ServerChange(r) PROVE TypeOK'
  <2>1. faults' \in 0..MaxFaults
    BY <1>14, FaultTyped DEF ServerChange, FaultKinds
  <2> QED
    BY <1>14, <2>1 DEF TypeOK, ServerChange, Drop
<1>15. CASE ConnectionDegrades
  <2>1. faults' \in 0..MaxFaults
    BY <1>15, FaultTyped DEF ConnectionDegrades, FaultKinds
  <2> QED
    BY <1>15, <2>1 DEF TypeOK, ConnectionDegrades, server
<1>16. CASE ConnectionRecovers
  BY <1>16 DEF TypeOK, ConnectionRecovers, server, history, Connections
<1>17. CASE Restart
  <2>1. faults' \in 0..MaxFaults
    BY <1>17, FaultTyped DEF Restart, FaultKinds
  <2> QED
    BY <1>17, <2>1 DEF TypeOK, Restart, Calls, server, history
<1> QED
  BY <1>0, <1>1, <1>2, <1>3, <1>4, <1>5, <1>6, <1>7, <1>8, <1>9, <1>11, <1>12,
     <1>13, <1>14, <1>15, <1>16, <1>17
  DEF Next, Reconcile, Environment

-----------------------------------------------------------------------------
\* A write leaves every other resource alone, and its own as it was or stored.
LEMMA WriteEffect ==
    ASSUME TypeOK, NEW r \in Resources, NEW o, WriteOk(r, o) \/ WriteErr(r, o)
    PROVE  /\ \A s \in Resources \ {r} : cr'[s] = cr[s]
           /\ cr'[r] = cr[r] \/ (cr'[r] = o /\ current[r])
BY DEF TypeOK, WriteOk, WriteErr, Store

\* What a pass knows of its resource is kept by every step.
LEMMA WorkStep ==
    ASSUME TypeOK, WorkInv, [Next]_vars PROVE WorkInv'
<1>0. CASE UNCHANGED vars
  BY <1>0 DEF WorkInv, Guarded, vars
<1>1. ASSUME NEW r \in Resources, Begin(r) PROVE WorkInv'
  <2>1. CASE cr[r].exists
    <3>1. FirstCall(r) \in {"get", "create", "update", "ready"} => Guarded(r)
      BY <2>1 DEF FirstCall, OnDeletion, AfterGate, Guarded
    <3>2. FirstCall(r) \in {"delete", "unfinalize", "drop"} <=> cr[r].deleting
      BY DEF FirstCall, OnDeletion, AfterGate
    <3> QED
      BY <1>1, <2>1, <3>1, <3>2 DEF Begin, WorkInv, Guarded, TypeOK
  <2>2. CASE ~cr[r].exists
    BY <1>1, <2>2 DEF Begin, WorkInv, Guarded
  <2> QED
    BY <2>1, <2>2
<1>2. ASSUME NEW r \in Resources, NEW o, WriteOk(r, o) \/ WriteErr(r, o),
             NEW requeue \in BOOLEAN, Finish(r, requeue)
      PROVE  WorkInv'
  BY <1>2, WriteEffect DEF Finish, WorkInv, Guarded, TypeOK
<1>3. ASSUME NEW r \in Resources, ensureFinalizer(r) PROVE WorkInv'
  BY <1>3, <1>2 DEF ensureFinalizer
<1>4. ASSUME NEW r \in Resources, WriteReadyStatus(r) PROVE WorkInv'
  BY <1>4, <1>2 DEF WriteReadyStatus
<1>5. ASSUME NEW r \in Resources, WriteNotReadyStatus(r) PROVE WorkInv'
  BY <1>5, <1>2 DEF WriteNotReadyStatus, requeueAfterNotReady
<1>6. ASSUME NEW r \in Resources, removeFinalizer(r) PROVE WorkInv'
  BY <1>6, <1>2 DEF removeFinalizer
<1>7. ASSUME NEW r \in Resources, loadRemote(r) PROVE WorkInv'
  BY <1>7 DEF loadRemote, GoTo, WorkInv, Guarded, TypeOK
<1>8. ASSUME NEW r \in Resources, createRemote(r) PROVE WorkInv'
  BY <1>8 DEF createRemote, OnParentMissing, GoTo, WorkInv, Guarded, TypeOK
<1>9. ASSUME NEW r \in Resources, updateRemote(r) PROVE WorkInv'
  BY <1>9 DEF updateRemote, GoTo, WorkInv, Guarded, TypeOK
<1>10. ASSUME NEW r \in Resources, finalize(r) PROVE WorkInv'
  BY <1>10
  DEF finalize, OnRefusedDelete, NotFoundIsDone, GoTo, Finish, WorkInv, Guarded,
      TypeOK
<1>11. ASSUME NEW r \in Resources, NEW o, UserWrites(r, o),
              cr[r].exists => (cr[r].finalizer => o.finalizer /\ o.exists)
                              /\ (cr[r].deleting => o.deleting),
              ~cr[r].exists => o.exists
       PROVE  WorkInv'
  <2>1. ~cr[r].exists => ~cr[r].deleting /\ ~cr[r].finalizer
    BY DEF TypeOK, Objects
  <2> QED
    BY <1>11, <2>1 DEF UserWrites, Store, WorkInv, Guarded, TypeOK
<1>12. ASSUME NEW r \in Resources, Apply(r) PROVE WorkInv'
  BY <1>12, <1>11 DEF Apply, NoObject
<1>13. ASSUME NEW r \in Resources, EditSpec(r) PROVE WorkInv'
  BY <1>13, <1>11 DEF EditSpec
<1>14. ASSUME NEW r \in Resources, Delete(r) PROVE WorkInv'
  <2>1. cr[r] \in Objects
    BY DEF TypeOK
  <2> QED
    BY <1>14, <1>11, <2>1 DEF Delete, Objects
<1>15. ASSUME NEW r \in Resources, ServerChange(r) PROVE WorkInv'
  BY <1>15 DEF ServerChange, WorkInv, Guarded
<1>16. CASE ConnectionDegrades \/ ConnectionRecovers
  BY <1>16 DEF ConnectionDegrades, ConnectionRecovers, WorkInv, Guarded
<1>17. CASE Restart
  BY <1>17 DEF Restart, WorkInv
<1> QED
  BY <1>0, <1>1, <1>3, <1>4, <1>5, <1>6, <1>7, <1>8, <1>9, <1>10, <1>12, <1>13,
     <1>14, <1>15, <1>16, <1>17
  DEF Next, Reconcile, Environment

-----------------------------------------------------------------------------
\* Creating inside a parent keeps the tree.
LEMMA PostKeepsTree ==
    ASSUME TreeInv, TypeOK, NEW r \in Resources, ParentThere(r),
           remote' = remote \cup {r}
    PROVE  TreeInv'
<1>1. Above[r] \subseteq remote
  BY HierarchyAssumption DEF ParentThere, TreeInv, TypeOK
<1> QED
  BY <1>1 DEF TreeInv

\* Deleting what contains nothing keeps the tree.
LEMMA DropKeepsTree ==
    ASSUME TreeInv, TypeOK, NEW r \in Resources, Empty(r), remote' = remote \ {r}
    PROVE  TreeInv'
<1> SUFFICES ASSUME NEW s \in remote, s # r, r \in Above[s] PROVE FALSE
  BY DEF TreeInv
<1>1. PICK t \in {s} \cup Above[s] : Parent[t] = r
  BY HierarchyAssumption DEF TypeOK
<1>2. t \in remote
  BY <1>1 DEF TreeInv
<1> QED
  BY <1>1, <1>2 DEF Empty

\* How a step changes what is on the server: not at all, or by one object
\* that has a parent there or contains nothing.
LEMMA ServerStep ==
    ASSUME TypeOK, [Next]_vars
    PROVE  \/ remote' = remote
           \/ \E r \in Resources : ParentThere(r) /\ remote' = remote \cup {r}
           \/ \E r \in Resources : Empty(r) /\ remote' = remote \ {r}
<1>1. CASE UNCHANGED vars
  BY <1>1 DEF vars, server
<1>2. ASSUME NEW r \in Resources, createRemote(r)
      PROVE  remote' = remote \/ (ParentThere(r) /\ remote' = remote \cup {r})
  BY <1>2 DEF createRemote, Post, server
<1>3. ASSUME NEW r \in Resources, finalize(r)
      PROVE  remote' = remote \/ (Empty(r) /\ remote' = remote \ {r})
  BY <1>3 DEF finalize, Drop, server
<1>4. ASSUME NEW r \in Resources, ServerChange(r)
      PROVE  \/ ParentThere(r) /\ remote' = remote \cup {r}
             \/ Empty(r) /\ remote' = remote \ {r}
  BY <1>4 DEF ServerChange, Drop
<1>5. ASSUME NEW r \in Resources,
             \/ Begin(r) \/ ensureFinalizer(r) \/ loadRemote(r) \/ updateRemote(r)
             \/ WriteReadyStatus(r) \/ WriteNotReadyStatus(r)
             \/ removeFinalizer(r) \/ Apply(r) \/ EditSpec(r) \/ Delete(r)
      PROVE  remote' = remote
  BY <1>5
  DEF Begin, ensureFinalizer, loadRemote, updateRemote, WriteReadyStatus,
      WriteNotReadyStatus, removeFinalizer, Apply, EditSpec, Delete, UserWrites,
      server
<1>6. CASE ConnectionDegrades \/ ConnectionRecovers \/ Restart
  BY <1>6 DEF ConnectionDegrades, ConnectionRecovers, Restart, server
<1> QED
  BY <1>1, <1>2, <1>3, <1>4, <1>5, <1>6 DEF Next, Reconcile, Environment

\* The server keeps a tree.
LEMMA TreeStep ==
    ASSUME TypeOK, TreeInv, [Next]_vars PROVE TreeInv'
BY ServerStep, PostKeepsTree, DropKeepsTree DEF TreeInv

-----------------------------------------------------------------------------
\* A connection that was never reachable has let nothing through.
LEMMA ConnStep ==
    ASSUME TypeOK, ConnInv, [Next]_vars PROVE ConnInv'
<1>0. CASE UNCHANGED vars
  BY <1>0 DEF ConnInv, vars, server, history
<1>1. ASSUME NEW r \in Resources, Begin(r) PROVE ConnInv'
  <2>1. conn = "unreachable" => FirstCall(r) \in {"notReady", "drop"}
    BY DEF FirstCall, OnDeletion, Resolves
  <2> QED
    BY <1>1, <2>1 DEF Begin, ConnInv, TypeOK, server, history
<1>2. ASSUME NEW r \in Resources, Reconcile(r) PROVE ConnInv'
  <2>1. conn' = conn /\ lost' = lost /\ tampered' = tampered
    BY <1>2
    DEF Reconcile, ensureFinalizer, loadRemote, createRemote, updateRemote,
        WriteReadyStatus, WriteNotReadyStatus, finalize, removeFinalizer, history
  <2>2. CASE call[r] \in {"notReady", "drop"}
    BY <1>2, <2>1, <2>2
    DEF Reconcile, ensureFinalizer, loadRemote, createRemote, updateRemote,
        WriteReadyStatus, WriteNotReadyStatus, finalize, removeFinalizer, Finish,
        ConnInv, TypeOK, server
  <2>3. CASE call[r] \notin {"notReady", "drop"}
    <3>1. call[r] # "idle"
      BY <1>2
      DEF Reconcile, ensureFinalizer, loadRemote, createRemote, updateRemote,
          WriteReadyStatus, WriteNotReadyStatus, finalize, removeFinalizer
    <3> QED
      BY <2>1, <2>3, <3>1 DEF ConnInv
  <2> QED
    BY <2>2, <2>3
<1>3. ASSUME NEW r \in Resources, Apply(r) \/ EditSpec(r) \/ Delete(r)
      PROVE  ConnInv'
  BY <1>3 DEF Apply, EditSpec, Delete, UserWrites, ConnInv, server, history
<1>4. ASSUME NEW r \in Resources, ServerChange(r) PROVE ConnInv'
  BY <1>4 DEF ServerChange, ConnInv
<1>5. CASE ConnectionDegrades
  BY <1>5 DEF ConnectionDegrades, ConnInv
<1>6. CASE ConnectionRecovers
  BY <1>6 DEF ConnectionRecovers, ConnInv
<1>7. CASE Restart
  BY <1>7 DEF Restart, ConnInv, server, history
<1> QED
  BY <1>0, <1>1, <1>2, <1>3, <1>4, <1>5, <1>6, <1>7 DEF Next, Environment

-----------------------------------------------------------------------------
\* A deletion that finds its references missing has nothing on the server: the
\* missing resource would have been guarded.
LEMMA DropsNothing ==
    ASSUME TypeOK, TreeInv, ConnInv, GuardInv, ~lost, ~tampered,
           NEW r \in Resources, ~Resolves(r)
    PROVE  r \notin remote
<1>1. CASE conn = "unreachable"
  BY <1>1 DEF ConnInv
<1>2. ASSUME NEW a \in Above[r], ~cr[a].exists PROVE r \notin remote
  BY <1>2 DEF GuardInv, Guarded, TreeInv
<1> QED
  BY <1>1, <1>2 DEF Resolves

\* History is not forgotten.
LEMMA HistoryStep ==
    ASSUME [Next]_vars PROVE (lost => lost') /\ (tampered => tampered')
<1>0. CASE UNCHANGED vars
  BY <1>0 DEF vars, history
<1>1. ASSUME NEW r \in Resources, Begin(r) \/ Reconcile(r) PROVE UNCHANGED history
  BY <1>1
  DEF Begin, Reconcile, ensureFinalizer, loadRemote, createRemote, updateRemote,
      WriteReadyStatus, WriteNotReadyStatus, finalize, removeFinalizer, history
<1>2. ASSUME NEW r \in Resources, Apply(r) \/ EditSpec(r) \/ Delete(r)
      PROVE  UNCHANGED history
  BY <1>2 DEF Apply, EditSpec, Delete, UserWrites
<1>3. ASSUME NEW r \in Resources, ServerChange(r) PROVE tampered' /\ lost' = lost
  BY <1>3 DEF ServerChange
<1>4. CASE ConnectionDegrades
  BY <1>4 DEF ConnectionDegrades
<1>5. CASE ConnectionRecovers \/ Restart
  BY <1>5 DEF ConnectionRecovers, Restart, history
<1> QED
  BY <1>0, <1>1, <1>2, <1>3, <1>4, <1>5 DEF Next, Environment, history

\* The finalizers guard what is on the server, in every step.
LEMMA GuardStep ==
    ASSUME TypeOK, WorkInv, TreeInv, ConnInv, GuardInv, [Next]_vars
    PROVE  GuardInv'
<1> SUFFICES ASSUME ~lost', ~tampered' PROVE GuardInv'
  BY DEF GuardInv
<1>a. ~lost /\ ~tampered
  BY HistoryStep
<1>b. /\ \A s \in remote : Guarded(s)
      /\ \A s \in Resources : call[s] \in {"unfinalize", "drop"} => s \notin remote
  BY <1>a DEF GuardInv
<1>0. CASE UNCHANGED vars
  BY <1>0, <1>b DEF GuardInv, Guarded, vars, server
<1>1. ASSUME NEW r \in Resources, Begin(r) PROVE GuardInv'
  <2>1. FirstCall(r) \in {"unfinalize", "drop"} => ~Resolves(r)
    BY DEF FirstCall, OnDeletion, AfterGate
  <2>2. FirstCall(r) \in {"unfinalize", "drop"} => r \notin remote
    BY <1>a, <2>1, DropsNothing
  <2> QED
    BY <1>1, <1>b, <2>2 DEF Begin, GuardInv, Guarded, TypeOK, server
<1>2. ASSUME NEW r \in Resources, NEW o, WriteOk(r, o) \/ WriteErr(r, o),
             NEW requeue \in BOOLEAN, Finish(r, requeue), UNCHANGED server,
             r \notin remote \/ (current[r] => o.exists /\ o.finalizer)
      PROVE  GuardInv'
  BY <1>2, <1>b, WriteEffect DEF Finish, GuardInv, Guarded, TypeOK, server
<1>3. ASSUME NEW r \in Resources, ensureFinalizer(r) PROVE GuardInv'
  <2> DEFINE o == [ cr[r] EXCEPT !.finalizer = TRUE ]
  <2>1. current[r] => o.exists /\ o.finalizer
    BY <1>3 DEF ensureFinalizer, WorkInv, TypeOK, Objects
  <2> QED
    BY <1>3, <2>1, <1>2 DEF ensureFinalizer
<1>4. ASSUME NEW r \in Resources, WriteReadyStatus(r) PROVE GuardInv'
  <2> DEFINE o == [ cr[r] EXCEPT !.ready = TRUE ]
  <2>1. o.exists /\ o.finalizer
    BY <1>4 DEF WriteReadyStatus, WorkInv, Guarded, TypeOK, Objects
  <2> QED
    BY <1>4, <2>1, <1>2 DEF WriteReadyStatus
<1>5. ASSUME NEW r \in Resources, WriteNotReadyStatus(r) PROVE GuardInv'
  <2> DEFINE o == [ cr[r] EXCEPT !.ready = FALSE ]
  <2>1. r \notin remote \/ (o.exists /\ o.finalizer)
    BY <1>b DEF Guarded, TypeOK, Objects
  <2> QED
    BY <1>5, <2>1, <1>2 DEF WriteNotReadyStatus, requeueAfterNotReady
<1>6. ASSUME NEW r \in Resources, removeFinalizer(r) PROVE GuardInv'
  <2>1. r \notin remote
    BY <1>6, <1>b DEF removeFinalizer
  <2> QED
    BY <1>6, <2>1, <1>2 DEF removeFinalizer
<1>7. ASSUME NEW r \in Resources, loadRemote(r) PROVE GuardInv'
  BY <1>7, <1>b DEF loadRemote, GoTo, GuardInv, Guarded, TypeOK, server
<1>8. ASSUME NEW r \in Resources, createRemote(r) PROVE GuardInv'
  <2>1. Guarded(r)
    BY <1>8 DEF createRemote, WorkInv
  <2> QED
    BY <1>8, <1>b, <2>1
    DEF createRemote, Post, OnParentMissing, GoTo, GuardInv, Guarded, TypeOK, server
<1>9. ASSUME NEW r \in Resources, updateRemote(r) PROVE GuardInv'
  BY <1>9, <1>b DEF updateRemote, GoTo, GuardInv, Guarded, TypeOK, server
<1>10. ASSUME NEW r \in Resources, finalize(r) PROVE GuardInv'
  BY <1>10, <1>b
  DEF finalize, Drop, OnRefusedDelete, NotFoundIsDone, GoTo, Finish, GuardInv,
      Guarded, TypeOK, server
<1>11. ASSUME NEW r \in Resources, NEW o, UserWrites(r, o),
              Guarded(r) => o.exists /\ o.finalizer
       PROVE  GuardInv'
  BY <1>11, <1>b DEF UserWrites, Store, GuardInv, Guarded, TypeOK, server
<1>12. ASSUME NEW r \in Resources, Apply(r) \/ EditSpec(r) PROVE GuardInv'
  BY <1>12, <1>11 DEF Apply, EditSpec, Guarded
<1>13. ASSUME NEW r \in Resources, Delete(r) PROVE GuardInv'
  <2>1. cr[r] \in Objects
    BY DEF TypeOK
  <2> QED
    BY <1>13, <1>11, <2>1 DEF Delete, Guarded, Objects
<1>14. ASSUME NEW r \in Resources, ServerChange(r) PROVE GuardInv'
  BY <1>14 DEF ServerChange
<1>15. CASE ConnectionDegrades \/ ConnectionRecovers
  BY <1>15, <1>b
  DEF ConnectionDegrades, ConnectionRecovers, GuardInv, Guarded, server
<1>16. CASE Restart
  BY <1>16, <1>b DEF Restart, GuardInv, Guarded, server
<1> QED
  BY <1>0, <1>1, <1>3, <1>4, <1>5, <1>6, <1>7, <1>8, <1>9, <1>10, <1>12, <1>13,
     <1>14, <1>15, <1>16
  DEF Next, Reconcile, Environment

-----------------------------------------------------------------------------
\* What is Ready, or about to be, is on the server, in every step.
LEMMA PresentStep ==
    ASSUME TypeOK, WorkInv, PresentInv, [Next]_vars PROVE PresentInv'
<1> SUFFICES ASSUME ~tampered' PROVE PresentInv'
  BY DEF PresentInv
<1>a. ~tampered
  BY HistoryStep
<1>b. \A s \in Resources :
         /\ call[s] = "ready" /\ ~cr[s].deleting => s \in remote
         /\ cr[s].ready /\ ~cr[s].deleting => s \in remote
  BY <1>a DEF PresentInv
<1>0. CASE UNCHANGED vars
  BY <1>0, <1>b DEF PresentInv, vars, server
<1>1. ASSUME NEW r \in Resources, Begin(r) PROVE PresentInv'
  <2>1. FirstCall(r) # "ready"
    BY DEF FirstCall, OnDeletion, AfterGate
  <2> QED
    BY <1>1, <1>b, <2>1 DEF Begin, PresentInv, TypeOK, server
<1>2. ASSUME NEW r \in Resources, NEW o, WriteOk(r, o) \/ WriteErr(r, o),
             NEW requeue \in BOOLEAN, Finish(r, requeue), UNCHANGED server,
             o.ready /\ ~o.deleting => r \in remote
      PROVE  PresentInv'
  BY <1>2, <1>b, WriteEffect DEF Finish, PresentInv, TypeOK, server
<1>3. ASSUME NEW r \in Resources, ensureFinalizer(r) PROVE PresentInv'
  <2> DEFINE o == [ cr[r] EXCEPT !.finalizer = TRUE ]
  <2>1. o.ready /\ ~o.deleting => r \in remote
    BY <1>b DEF TypeOK, Objects
  <2> QED
    BY <1>3, <2>1, <1>2 DEF ensureFinalizer
<1>4. ASSUME NEW r \in Resources, WriteReadyStatus(r) PROVE PresentInv'
  <2> DEFINE o == [ cr[r] EXCEPT !.ready = TRUE ]
  <2>1. o.ready /\ ~o.deleting => r \in remote
    BY <1>4, <1>b DEF WriteReadyStatus, TypeOK, Objects
  <2> QED
    BY <1>4, <2>1, <1>2 DEF WriteReadyStatus
<1>5. ASSUME NEW r \in Resources, WriteNotReadyStatus(r) PROVE PresentInv'
  <2> DEFINE o == [ cr[r] EXCEPT !.ready = FALSE ]
  <2>1. ~o.ready
    BY DEF TypeOK, Objects
  <2> QED
    BY <1>5, <2>1, <1>2 DEF WriteNotReadyStatus, requeueAfterNotReady
<1>6. ASSUME NEW r \in Resources, removeFinalizer(r) PROVE PresentInv'
  <2>1. ~NoObject.ready
    BY DEF NoObject
  <2> QED
    BY <1>6, <2>1, <1>2 DEF removeFinalizer
<1>7. ASSUME NEW r \in Resources, loadRemote(r) PROVE PresentInv'
  BY <1>7, <1>b DEF loadRemote, GoTo, PresentInv, TypeOK, server
<1>8. ASSUME NEW r \in Resources, createRemote(r) PROVE PresentInv'
  BY <1>8, <1>b
  DEF createRemote, Post, OnParentMissing, GoTo, PresentInv, TypeOK, server
<1>9. ASSUME NEW r \in Resources, updateRemote(r) PROVE PresentInv'
  BY <1>9, <1>b DEF updateRemote, GoTo, PresentInv, TypeOK, server
<1>10. ASSUME NEW r \in Resources, finalize(r) PROVE PresentInv'
  <2>1. cr[r].deleting
    BY <1>10 DEF finalize, WorkInv
  <2> QED
    BY <1>10, <1>b, <2>1
    DEF finalize, Drop, OnRefusedDelete, NotFoundIsDone, GoTo, Finish, PresentInv,
        TypeOK, server
<1>11. ASSUME NEW r \in Resources, NEW o, UserWrites(r, o),
              o.ready => o = cr[r] \/ o.deleting,
              call[r] = "ready" => o = cr[r] \/ o.deleting
       PROVE  PresentInv'
  BY <1>11, <1>b DEF UserWrites, Store, PresentInv, TypeOK, server
<1>12. ASSUME NEW r \in Resources, Apply(r) PROVE PresentInv'
  BY <1>12, <1>11 DEF Apply, NoObject, WorkInv, Guarded
<1>13. ASSUME NEW r \in Resources, EditSpec(r) PROVE PresentInv'
  BY <1>13, <1>11 DEF EditSpec
<1>14. ASSUME NEW r \in Resources, Delete(r) PROVE PresentInv'
  <2>1. cr[r] \in Objects
    BY DEF TypeOK
  <2> DEFINE o == IF cr[r].finalizer
                  THEN [ cr[r] EXCEPT !.deleting = TRUE ] ELSE NoObject
  <2>2. UserWrites(r, o)
    BY <1>14 DEF Delete
  <2>3. CASE cr[r].finalizer
    <3>1. o.deleting
      BY <2>1, <2>3 DEF Objects
    <3> QED
      BY <2>2, <3>1, <1>11
  <2>4. CASE ~cr[r].finalizer
    <3>1. ~o.ready /\ call[r] # "ready"
      BY <2>4 DEF WorkInv, Guarded, NoObject
    <3> QED
      BY <2>2, <3>1, <1>11
  <2> QED
    BY <2>3, <2>4
<1>15. ASSUME NEW r \in Resources, ServerChange(r) PROVE PresentInv'
  BY <1>15 DEF ServerChange
<1>16. CASE ConnectionDegrades \/ ConnectionRecovers
  BY <1>16, <1>b DEF ConnectionDegrades, ConnectionRecovers, PresentInv, server
<1>17. CASE Restart
  BY <1>17, <1>b DEF Restart, PresentInv, server
<1> QED
  BY <1>0, <1>1, <1>3, <1>4, <1>5, <1>6, <1>7, <1>8, <1>9, <1>10, <1>12, <1>13,
     <1>14, <1>15, <1>16, <1>17
  DEF Next, Reconcile, Environment

-----------------------------------------------------------------------------
\* Nothing applied, nothing created: the initial states.
LEMMA InitInv == Init => IInv
<1> SUFFICES ASSUME Init PROVE IInv
  OBVIOUS
<1>1. TypeOK
  <2>1. NoObject \in Objects
    BY DEF Objects, NoObject
  <2>2. 0 \in 0..MaxFaults
    BY HierarchyAssumption
  <2> QED
    BY <2>1, <2>2 DEF Init, TypeOK, Calls
<1> QED
  BY <1>1 DEF Init, IInv, WorkInv, TreeInv, ConnInv, GuardInv, PresentInv, NoObject

\* The inductive invariant holds in every reachable state.
LEMMA Invariance == Spec => []IInv
<1>1. IInv /\ [Next]_vars => IInv'
  BY TypeStep, WorkStep, TreeStep, ConnStep, GuardStep, PresentStep DEF IInv
<1> QED
  BY InitInv, <1>1, PTL DEF Spec

-----------------------------------------------------------------------------
\* A step that leaves a resource and its object alone is a stutter of it.
LEMMA ResourceStutter ==
    ASSUME NEW s \in Resources, cr'[s] = cr[s], s \in remote' <=> s \in remote,
           lost' = lost, tampered' = tampered
    PROVE  UNCHANGED Resource(s)!resource
BY DEF Resource!resource, Stage

\* A write of one resource is a stutter of it, or stores what Reconcile had
\* computed, and always a stutter of the others.
LEMMA ResourceWrite ==
    ASSUME TypeOK, NEW r \in Resources, NEW o, WriteOk(r, o) \/ WriteErr(r, o),
           UNCHANGED <<server, history>>,
           NEW s \in Resources,
           current[r] /\ cr'[r] = o => [Resource(r)!Next]_(Resource(r)!resource)
    PROVE  [Resource(s)!Next]_(Resource(s)!resource)
<1>1. CASE s # r \/ cr'[r] = cr[r]
  BY <1>1, WriteEffect, ResourceStutter DEF server, history
<1>2. CASE s = r /\ cr'[r] = o /\ current[r]
  BY <1>2
<1> QED
  BY <1>1, <1>2, WriteEffect

\* Initially a resource is absent.
LEMMA ResourceInit ==
    ASSUME Init, NEW r \in Resources PROVE Resource(r)!Init
<1>1. ~cr[r].exists /\ ~cr[r].ready /\ r \notin remote /\ ~lost /\ ~tampered
  BY DEF Init, NoObject
<1> QED
  BY <1>1 DEF Resource!Init, Stage

\* Every step is, for each resource, one of PolarisResource's or a stutter.
LEMMA ResourceStep ==
    ASSUME IInv, [Next]_vars, NEW s \in Resources
    PROVE  [Resource(s)!Next]_(Resource(s)!resource)
<1> USE DEF IInv
<1>0. CASE UNCHANGED vars
  BY <1>0, ResourceStutter DEF vars, server, history
<1>1. ASSUME NEW r \in Resources, Begin(r) \/ loadRemote(r) \/ updateRemote(r)
      PROVE  UNCHANGED Resource(s)!resource
  BY <1>1, ResourceStutter DEF Begin, loadRemote, updateRemote, server, history
<1>2. ASSUME NEW r \in Resources, ensureFinalizer(r)
      PROVE  [Resource(s)!Next]_(Resource(s)!resource)
  <2> DEFINE o == [ cr[r] EXCEPT !.finalizer = TRUE ]
  <2>1. WriteOk(r, o) \/ WriteErr(r, o)
    BY <1>2 DEF ensureFinalizer
  <2>2. UNCHANGED <<server, history>>
    BY <1>2 DEF ensureFinalizer
  <2>3. ASSUME current[r], cr'[r] = o
        PROVE  [Resource(r)!Next]_(Resource(r)!resource)
    <3>1. cr[r].exists /\ ~cr[r].deleting
      BY <1>2, <2>3 DEF WorkInv, ensureFinalizer
    <3>2. cr[r] \in Objects
      BY DEF TypeOK
    <3>3. /\ cr'[r].exists /\ cr'[r].finalizer /\ ~cr'[r].deleting
          /\ cr'[r].ready = cr[r].ready
      BY <2>3, <3>1, <3>2 DEF Objects
    <3> QED
      BY <2>2, <3>1, <3>3
      DEF Resource!Next, Resource!Guard, Resource!resource, Stage, server, history
  <2> HIDE DEF o
  <2> QED
    BY <2>1, <2>2, <2>3, ResourceWrite
<1>3. ASSUME NEW r \in Resources, WriteReadyStatus(r)
      PROVE  [Resource(s)!Next]_(Resource(s)!resource)
  <2> DEFINE o == [ cr[r] EXCEPT !.ready = TRUE ]
  <2>1. WriteOk(r, o) \/ WriteErr(r, o)
    BY <1>3 DEF WriteReadyStatus
  <2>2. UNCHANGED <<server, history>>
    BY <1>3 DEF WriteReadyStatus
  <2>3. ASSUME current[r], cr'[r] = o
        PROVE  [Resource(r)!Next]_(Resource(r)!resource)
    <3>1. cr[r].exists /\ cr[r].finalizer /\ ~cr[r].deleting
      BY <1>3, <2>3 DEF WorkInv, Guarded, WriteReadyStatus
    <3>2. cr[r] \in Objects
      BY DEF TypeOK
    <3>3. /\ cr'[r].exists /\ cr'[r].finalizer /\ ~cr'[r].deleting
          /\ cr'[r].ready = TRUE /\ cr[r].ready \in BOOLEAN
      BY <2>3, <3>1, <3>2 DEF Objects
    <3>4. r \in remote \/ tampered
      BY <1>3, <3>1 DEF PresentInv, WriteReadyStatus
    <3> QED
      BY <2>2, <3>1, <3>3, <3>4
      DEF Resource!Next, Resource!Report, Resource!resource, Stage, server, history
  <2> HIDE DEF o
  <2> QED
    BY <2>1, <2>2, <2>3, ResourceWrite
<1>4. ASSUME NEW r \in Resources, WriteNotReadyStatus(r)
      PROVE  [Resource(s)!Next]_(Resource(s)!resource)
  <2> DEFINE o == [ cr[r] EXCEPT !.ready = FALSE ]
  <2>1. WriteOk(r, o) \/ WriteErr(r, o)
    BY <1>4 DEF WriteNotReadyStatus
  <2>2. UNCHANGED <<server, history>>
    BY <1>4 DEF WriteNotReadyStatus
  <2>3. ASSUME current[r], cr'[r] = o
        PROVE  [Resource(r)!Next]_(Resource(r)!resource)
    <3>1. ~cr[r].deleting
      BY <1>4, <2>3 DEF WorkInv, WriteNotReadyStatus
    <3>2. cr[r] \in Objects
      BY DEF TypeOK
    <3>3. /\ cr'[r].exists = cr[r].exists /\ cr'[r].finalizer = cr[r].finalizer
          /\ cr'[r].deleting = cr[r].deleting /\ cr'[r].ready = FALSE
          /\ cr[r].ready \in BOOLEAN
          /\ cr[r].ready => cr[r].finalizer /\ cr[r].exists
      BY <2>3, <3>2 DEF Objects
    <3> QED
      BY <2>2, <3>1, <3>3
      DEF Resource!Next, Resource!Report, Resource!resource, Stage, server, history
  <2> HIDE DEF o
  <2> QED
    BY <2>1, <2>2, <2>3, ResourceWrite
<1>5. ASSUME NEW r \in Resources, removeFinalizer(r)
      PROVE  [Resource(s)!Next]_(Resource(s)!resource)
  <2>1. WriteOk(r, NoObject) \/ WriteErr(r, NoObject)
    BY <1>5 DEF removeFinalizer
  <2>2. UNCHANGED <<server, history>>
    BY <1>5 DEF removeFinalizer
  <2>3. ASSUME cr'[r] = NoObject
        PROVE  [Resource(r)!Next]_(Resource(r)!resource)
    <3>1. cr[r].deleting /\ cr[r].finalizer /\ cr[r].exists
      BY <1>5 DEF WorkInv, removeFinalizer, TypeOK, Objects
    <3>2. ~cr'[r].exists /\ ~cr'[r].ready
      BY <2>3 DEF NoObject
    <3>3. r \notin remote \/ lost \/ tampered
      BY <1>5 DEF GuardInv, removeFinalizer
    <3>4. cr'[r].ready = FALSE
      BY <2>3 DEF NoObject
    <3> QED
      BY <2>2, <3>1, <3>2, <3>3, <3>4
      DEF Resource!Next, Resource!Release, Resource!resource, Stage, server, history
  <2> QED
    BY <2>1, <2>2, <2>3, ResourceWrite
<1>6. ASSUME NEW r \in Resources, createRemote(r)
      PROVE  [Resource(s)!Next]_(Resource(s)!resource)
  <2>1. UNCHANGED cr /\ UNCHANGED history
    BY <1>6 DEF createRemote
  <2>2. CASE s # r \/ UNCHANGED server
    BY <1>6, <2>1, <2>2, ResourceStutter DEF createRemote, Post, server, history
  <2>3. CASE s = r /\ Post(r)
    <3>1. cr[r].exists /\ cr[r].finalizer
      BY <1>6 DEF createRemote, WorkInv, Guarded
    <3> QED
      BY <2>1, <2>3, <3>1
      DEF Post, Resource!Next, Resource!Create, Resource!resource, Stage, history
  <2> QED
    BY <1>6, <2>2, <2>3 DEF createRemote
<1>7. ASSUME NEW r \in Resources, finalize(r)
      PROVE  [Resource(s)!Next]_(Resource(s)!resource)
  <2>1. UNCHANGED cr /\ UNCHANGED history
    BY <1>7 DEF finalize
  <2>2. CASE s # r \/ UNCHANGED server
    BY <1>7, <2>1, <2>2, ResourceStutter DEF finalize, Drop, server, history
  <2>3. CASE s = r /\ Drop(r)
    <3>1. cr[r].exists /\ cr[r].finalizer /\ cr[r].deleting
      BY <1>7 DEF finalize, WorkInv, TypeOK, Objects
    <3> QED
      BY <2>1, <2>3, <3>1
      DEF Drop, Resource!Next, Resource!Remove, Resource!resource, Stage, history
  <2> QED
    BY <1>7, <2>2, <2>3 DEF finalize
<1>8. ASSUME NEW r \in Resources, Apply(r) \/ EditSpec(r) \/ Delete(r)
      PROVE  [Resource(s)!Next]_(Resource(s)!resource)
  <2>1. UNCHANGED server /\ UNCHANGED history
    BY <1>8 DEF Apply, EditSpec, Delete, UserWrites
  <2>2. CASE s # r
    BY <1>8, <2>1, <2>2, ResourceStutter
    DEF Apply, EditSpec, Delete, UserWrites, Store, TypeOK, server, history
  <2>3. cr[r] \in Objects /\ cr[r].ready \in BOOLEAN
    BY DEF TypeOK, Objects
  <2>4. CASE s = r /\ Apply(r)
    <3>1. ~cr[r].exists /\ ~cr[r].ready /\ cr'[r] = [ NoObject EXCEPT !.exists = TRUE ]
      BY <2>3, <2>4 DEF Apply, UserWrites, Store, TypeOK, Objects
    <3>2. cr'[r].exists /\ ~cr'[r].finalizer /\ cr'[r].ready = FALSE
      BY <3>1 DEF NoObject
    <3> QED
      BY <2>1, <2>3, <2>4, <3>1, <3>2
      DEF Resource!Next, Resource!Apply, Resource!resource, Stage, server, history
  <2>5. CASE s = r /\ EditSpec(r)
    <3>1. cr'[r] = cr[r]
      BY <2>5 DEF EditSpec, UserWrites, Store, TypeOK
    <3> QED
      BY <2>1, <2>5, <3>1, ResourceStutter DEF server, history
  <2>6. CASE s = r /\ Delete(r)
    <3>1. cr[r].exists /\ ~cr[r].deleting
      BY <2>6 DEF Delete
    <3>2. CASE cr[r].finalizer
      <4>1. cr'[r] = [ cr[r] EXCEPT !.deleting = TRUE ]
        BY <2>6, <3>2 DEF Delete, UserWrites, Store, TypeOK
      <4>2. /\ cr'[r].exists /\ cr'[r].finalizer /\ cr'[r].deleting
            /\ cr'[r].ready = cr[r].ready
        BY <2>3, <3>1, <3>2, <4>1 DEF Objects
      <4> QED
        BY <2>1, <2>6, <3>1, <3>2, <4>2
        DEF Resource!Next, Resource!Delete, Resource!resource, Stage, server, history
    <3>3. CASE ~cr[r].finalizer
      <4>1. cr'[r] = NoObject
        BY <2>6, <3>3 DEF Delete, UserWrites, Store, TypeOK
      <4>2. ~cr'[r].exists /\ cr'[r].ready = FALSE /\ cr[r].ready = FALSE
        BY <2>3, <3>3, <4>1 DEF NoObject, Objects
      <4> QED
        BY <2>1, <2>6, <3>1, <3>3, <4>2
        DEF Resource!Next, Resource!Delete, Resource!resource, Stage, server, history
    <3> QED
      BY <3>2, <3>3
  <2> QED
    BY <1>8, <2>2, <2>4, <2>5, <2>6
<1>9. ASSUME NEW r \in Resources, ServerChange(r)
      PROVE  [Resource(s)!Next]_(Resource(s)!resource)
  BY <1>9
  DEF ServerChange, Resource!Next, Resource!Interfere, Resource!resource, Stage
<1>10. CASE ConnectionDegrades
  <2>1. UNCHANGED <<cr, server, tampered>>
    BY <1>10 DEF ConnectionDegrades
  <2>2. lost \in BOOLEAN /\ lost' \in BOOLEAN /\ (lost => lost')
    BY <1>10 DEF ConnectionDegrades, TypeOK
  <2>3. CASE lost' = lost
    BY <2>1, <2>3, ResourceStutter DEF server
  <2>4. CASE lost'
    BY <2>1, <2>4
    DEF server, Resource!Next, Resource!Interfere, Resource!resource, Stage
  <2> QED
    BY <2>2, <2>3, <2>4
<1>11. CASE ConnectionRecovers \/ Restart
  BY <1>11, ResourceStutter DEF ConnectionRecovers, Restart, server, history
<1> QED
  BY <1>0, <1>1, <1>2, <1>3, <1>4, <1>5, <1>6, <1>7, <1>8, <1>9, <1>10, <1>11
  DEF Next, Reconcile, Environment

\* Every reachable state is typed, for every tree of resources.
THEOREM TypeCorrect == Spec => []TypeOK
<1>1. IInv => TypeOK
  BY DEF IInv
<1> QED
  BY Invariance, <1>1, PTL

\* What is on the server keeps its resource, and those above it through which
\* its deletion finds the server.
THEOREM BottomUp == Spec => []DeletedBottomUp
<1>1. IInv => DeletedBottomUp
  BY DEF IInv, DeletedBottomUp, GuardInv, TreeInv
<1> QED
  BY Invariance, <1>1, PTL

\* What is Ready is on the server with everything it lies in.
THEOREM ReadyIsPresent == Spec => []ReadyMeansPresent
<1>1. IInv => ReadyMeansPresent
  BY DEF IInv, ReadyMeansPresent, PresentInv, TreeInv
<1> QED
  BY Invariance, <1>1, PTL

\* For every tree, each resource is one that PolarisResource describes: the
\* reconcilers implement the abstract life of a resource.
THEOREM Implements == Spec => ImplementsResource
<1>1. Init => \A r \in Resources : Resource(r)!Init
  BY ResourceInit
<1>2. IInv /\ [Next]_vars
        => [\A r \in Resources : [Resource(r)!Next]_(Resource(r)!resource)]_vars
  BY ResourceStep
<1> QED
  BY Invariance, <1>1, <1>2, PTL DEF Spec, ImplementsResource

\* The same as an implementation of the abstract specification itself.
THEOREM ImplementsSpec == ASSUME NEW r \in Resources PROVE Spec => Resource(r)!Spec
<1>1. Init => Resource(r)!Init
  BY ResourceInit
<1>2. IInv /\ [Next]_vars => [Resource(r)!Next]_(Resource(r)!resource)
  BY ResourceStep
<1> QED
  BY Invariance, <1>1, <1>2, PTL DEF Spec, Resource!Spec

-----------------------------------------------------------------------------
(* Nobody is forgotten, and nobody waits in a circle.                      *)

\* A pass that ends without a requeue ends because nothing is left to do; all
\* others, and every event, put the request back.
LEMMA RememberStep ==
    ASSUME TypeOK, WorkInv, NeverForgotten, [Next]_vars PROVE NeverForgotten'
<1>0. CASE UNCHANGED vars
  BY <1>0 DEF NeverForgotten, Awake, vars
<1>1. ASSUME NEW r \in Resources, Begin(r) PROVE NeverForgotten'
  <2>1. FirstCall(r) # "idle"
    BY DEF FirstCall, OnDeletion, AfterGate
  <2> QED
    BY <1>1, <2>1 DEF Begin, NeverForgotten, Awake, TypeOK
<1>2. ASSUME NEW r \in Resources, NEW o, WriteOk(r, o) \/ WriteErr(r, o),
             NEW requeue \in BOOLEAN, Finish(r, requeue),
             requeue \/ ~cr'[r].exists \/ (cr'[r].ready /\ ~cr'[r].deleting)
      PROVE  NeverForgotten'
  BY <1>2, WriteEffect DEF Finish, NeverForgotten, Awake, TypeOK
<1>3. ASSUME NEW r \in Resources, ensureFinalizer(r) PROVE NeverForgotten'
  BY <1>3, <1>2 DEF ensureFinalizer
<1>4. ASSUME NEW r \in Resources, WriteReadyStatus(r) PROVE NeverForgotten'
  <2> DEFINE o == [ cr[r] EXCEPT !.ready = TRUE ]
  <2>1. o.ready /\ o.deleting = cr[r].deleting
    BY DEF TypeOK, Objects
  <2>2. current[r] => ~cr[r].deleting
    BY <1>4 DEF WriteReadyStatus, WorkInv
  <2>3. WriteOk(r, o) => cr'[r] = o /\ current[r]
    BY DEF WriteOk, Store, TypeOK
  <2>4. \/ WriteOk(r, o) /\ Finish(r, FALSE)
        \/ WriteErr(r, o) /\ Finish(r, TRUE)
    BY <1>4 DEF WriteReadyStatus
  <2> HIDE DEF o
  <2> QED
    BY <1>2, <2>1, <2>2, <2>3, <2>4
<1>5. ASSUME NEW r \in Resources, WriteNotReadyStatus(r) PROVE NeverForgotten'
  BY <1>5, <1>2 DEF WriteNotReadyStatus, requeueAfterNotReady
<1>6. ASSUME NEW r \in Resources, removeFinalizer(r) PROVE NeverForgotten'
  <2>1. WriteOk(r, NoObject) => ~cr'[r].exists
    BY DEF WriteOk, Store, TypeOK, NoObject
  <2>2. \/ WriteOk(r, NoObject) /\ Finish(r, FALSE)
        \/ WriteErr(r, NoObject) /\ Finish(r, TRUE)
    BY <1>6 DEF removeFinalizer
  <2> QED
    BY <1>2, <2>1, <2>2
\* A call in the middle of a pass leads to another, or puts the request back.
<1>7. ASSUME NEW r \in Resources, cr' = cr,
             \/ \E c \in Calls \ {"idle"} : GoTo(r, c)
             \/ Finish(r, TRUE)
      PROVE  NeverForgotten'
  BY <1>7 DEF GoTo, Finish, NeverForgotten, Awake, TypeOK
<1>8. ASSUME NEW r \in Resources,
             loadRemote(r) \/ createRemote(r) \/ updateRemote(r) \/ finalize(r)
      PROVE  NeverForgotten'
  <2>1. cr' = cr
    BY <1>8 DEF loadRemote, createRemote, updateRemote, finalize
  <2>2. \/ \E c \in Calls \ {"idle"} : GoTo(r, c)
        \/ Finish(r, TRUE)
    BY <1>8
    DEF loadRemote, createRemote, updateRemote, finalize, OnParentMissing,
        OnRefusedDelete, NotFoundIsDone, Calls
  <2> QED
    BY <1>7, <2>1, <2>2
<1>9. ASSUME NEW r \in Resources, NEW o, UserWrites(r, o) PROVE NeverForgotten'
  BY <1>9 DEF UserWrites, Store, NeverForgotten, Awake, TypeOK
<1>10. ASSUME NEW r \in Resources, Apply(r) \/ EditSpec(r) \/ Delete(r)
       PROVE  NeverForgotten'
  BY <1>10, <1>9 DEF Apply, EditSpec, Delete
<1>11. ASSUME NEW r \in Resources, ServerChange(r) PROVE NeverForgotten'
  BY <1>11 DEF ServerChange, NeverForgotten, Awake
<1>12. CASE ConnectionDegrades \/ ConnectionRecovers
  BY <1>12 DEF ConnectionDegrades, ConnectionRecovers, NeverForgotten, Awake
<1>13. CASE Restart
  BY <1>13 DEF Restart, NeverForgotten, Awake
<1> QED
  BY <1>0, <1>1, <1>3, <1>4, <1>5, <1>6, <1>8, <1>10, <1>11, <1>12, <1>13
  DEF Next, Reconcile, Environment

\* Nobody is forgotten, in any reachable state.
LEMMA RememberInvariance == Spec => [](IInv /\ NeverForgotten)
<1>1. Init => NeverForgotten
  BY DEF Init, NeverForgotten, NoObject
<1>2. IInv /\ NeverForgotten /\ [Next]_vars => NeverForgotten'
  BY RememberStep DEF IInv
<1> QED
  BY <1>1, <1>2, Invariance, PTL DEF Spec

\* The requeues of the reconcilers and the events of the API server between them
\* leave no resource with work to do without a pass to do it.
THEOREM Remembered == Spec => []NeverForgotten
BY RememberInvariance, PTL

\* Of any resources one is outermost: it is in none of the others.
LEMMA Outermost ==
    ASSUME NEW X, X \subseteq Resources, X # {}
    PROVE  \E r \in X : \A s \in X : s \notin Above[r]
<1> DEFINE T == { Above[r] : r \in X }
           R == StrictSubsetOrdering(Resources)
<1>1. IsWellFoundedOn(R, SUBSET Resources)
  <2>1. FiniteSubsetsOf(Resources) = SUBSET Resources
    BY HierarchyAssumption, FS_FiniteSubsetsOfFinite
  <2> QED
    BY <2>1, FS_StrictSubsetOrderingWellFounded
<1>2. T \subseteq SUBSET Resources /\ T # {}
  BY HierarchyAssumption
<1> HIDE DEF R
<1>3. PICK A \in T : \A B \in T : <<B, A>> \notin R
  BY <1>1, <1>2, WFMin
<1>4. PICK r \in X : A = Above[r]
  BY <1>3
<1>5. ASSUME NEW s \in X, s \in Above[r] PROVE FALSE
  <2>1. Above[s] \subseteq Above[r] /\ s \notin Above[s]
    BY <1>5, HierarchyAssumption
  <2>2. <<Above[s], Above[r]>> \in R
    BY <1>2, <1>5, <2>1 DEF R, StrictSubsetOrdering
  <2> QED
    BY <1>3, <1>4, <2>2
<1> QED
  BY <1>4, <1>5

\* And one is innermost: it has none of the others in it.
LEMMA Innermost ==
    ASSUME NEW X, X \subseteq Resources, X # {}
    PROVE  \E r \in X : \A s \in X : r \notin Above[s]
<1> DEFINE Outside(r) == Resources \ Above[r]
           T == { Outside(r) : r \in X }
           R == StrictSubsetOrdering(Resources)
<1>1. IsWellFoundedOn(R, SUBSET Resources)
  <2>1. FiniteSubsetsOf(Resources) = SUBSET Resources
    BY HierarchyAssumption, FS_FiniteSubsetsOfFinite
  <2> QED
    BY <2>1, FS_StrictSubsetOrderingWellFounded
<1>2. T \subseteq SUBSET Resources /\ T # {}
  OBVIOUS
<1> HIDE DEF R
<1>3. PICK A \in T : \A B \in T : <<B, A>> \notin R
  BY <1>1, <1>2, WFMin
<1>4. PICK r \in X : A = Outside(r)
  BY <1>3
<1>5. ASSUME NEW s \in X, r \in Above[s] PROVE FALSE
  <2>1. Above[r] \subseteq Above[s] /\ r \notin Above[r] /\ Above[s] \subseteq Resources
    BY <1>5, HierarchyAssumption
  <2>2. <<Outside(s), Outside(r)>> \in R
    BY <1>4, <1>5, <2>1 DEF R, StrictSubsetOrdering
  <2> QED
    BY <1>3, <1>4, <2>2
<1> QED
  BY <1>4, <1>5

\* What is directly above a resource is among what is above it, and so is what
\* it waits for.
LEMMA GateIsAbove ==
    ASSUME NEW r \in Resources
    PROVE  /\ Parent[r] # Connection => Parent[r] \in Above[r]
           /\ Kind[r] \notin TopKinds => Gate(r) \in Above[r]
<1>1. Parent[r] # Connection => Parent[r] \in Above[r]
  BY HierarchyAssumption
<1>2. CASE Kind[r] = "namespace"
  <2>1. \E c \in Above[r] : Kind[c] = "catalog"
    BY <1>2, HierarchyAssumption
  <2> QED
    BY <1>1, <1>2, <2>1 DEF Gate
<1>3. CASE Kind[r] # "namespace"
  BY <1>1, <1>3, HierarchyAssumption DEF Gate
<1> QED
  BY <1>2, <1>3, <1>1

\* However the tree is shaped, nothing in it waits for something that waits for
\* it: the outermost of what is not Ready can go on.
THEOREM BuildUp == Spec => []BuildUpNeverStuck
<1>1. ASSUME IInv, NeverForgotten,
             AllApplied, conn = "ready", ~tampered, ~AllReady
      PROVE  \E r \in Resources :
                /\ ~cr[r].ready
                /\ Awake(r)
                /\ FirstCall(r) \in {"finalizer", "get"}
                /\ ParentThere(r)
  <2> DEFINE X == { r \in Resources : ~cr[r].ready }
  <2>1. X # {}
    BY <1>1 DEF AllReady
  <2>2. PICK r \in X : \A s \in X : s \notin Above[r]
    BY <2>1, Outermost
  <2>3. Awake(r)
    BY <1>1 DEF NeverForgotten, AllApplied
  <2>4. \A a \in Above[r] : cr[a].exists /\ ~cr[a].deleting /\ cr[a].ready
    BY <1>1, <2>2, HierarchyAssumption DEF AllApplied
  <2>5. Resolves(r)
    BY <1>1, <2>4 DEF Resolves
  <2>6. ParentReady(r)
    BY <1>1, <2>4, GateIsAbove DEF ParentReady
  <2>7. FirstCall(r) \in {"finalizer", "get"}
    BY <1>1, <2>5, <2>6 DEF FirstCall, AfterGate, AllApplied
  <2>8. ParentThere(r)
    BY <1>1, <2>4, GateIsAbove, HierarchyAssumption DEF ParentThere, IInv, PresentInv
  <2> QED
    BY <2>3, <2>7, <2>8
<1>2. IInv /\ NeverForgotten => BuildUpNeverStuck
  BY <1>1 DEF BuildUpNeverStuck
<1> QED
  BY RememberInvariance, <1>2, PTL

\* Whatever the order in which users delete, the innermost of what is left can
\* go: the server lets go of its object, or its finalizer is dropped.
THEOREM Teardown == Spec => []TeardownNeverStuck
<1>1. ASSUME IInv, NeverForgotten, AllDoomed, ~AllGone, ~lost, ~tampered
      PROVE  \E r \in Resources :
                /\ cr[r].exists
                /\ Awake(r)
                /\ \/ FirstCall(r) = "drop"
                   \/ FirstCall(r) = "delete" /\ Empty(r)
  <2> DEFINE X == { r \in Resources : cr[r].exists }
  <2>1. X # {}
    BY <1>1 DEF AllGone
  <2>2. PICK r \in X : \A s \in X : r \notin Above[s]
    BY <2>1, Innermost
  <2>3. cr[r].deleting /\ Awake(r)
    BY <1>1 DEF AllDoomed, NeverForgotten
  <2>4. FirstCall(r) \in {"delete", "drop"}
    BY <2>3 DEF FirstCall, OnDeletion
  <2>5. ASSUME NEW s \in remote, Parent[s] = r PROVE FALSE
    <3>1. s \in Resources /\ cr[s].exists
      BY <1>1 DEF IInv, TypeOK, GuardInv, Guarded
    <3>2. r \in Above[s]
      BY <2>5, <3>1, GateIsAbove, HierarchyAssumption
    <3> QED
      BY <2>2, <3>1, <3>2
  <2> QED
    BY <2>3, <2>4, <2>5 DEF Empty
<1>2. IInv /\ NeverForgotten => TeardownNeverStuck
  BY <1>1 DEF TeardownNeverStuck
<1> QED
  BY RememberInvariance, <1>2, PTL
=============================================================================
