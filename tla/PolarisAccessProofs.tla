------------------------- MODULE PolarisAccessProofs -------------------------
(***************************************************************************)
(* For any bindings and grants, and any entities that do what              *)
(* PolarisResource says: the types, that no access outlives its binding,   *)
(* that Ready means the access was given, that no binding is forgotten,    *)
(* and that bindings do in turn what PolarisResource says.                 *)
(***************************************************************************)
EXTENDS PolarisAccessProperties, TLAPS

\* What a pass knows of its binding: the finalizer cannot go while the pass
\* may still give access, and a deleting binding is not edited.
WorkInv ==
    \A b \in Bindings :
        /\ call[b] \in {"assign", "ready"} => Guarded(b)
        /\ call[b] \in {"assign", "ready"} /\ ~edited => aim[b] = cr[b].spec
        /\ call[b] \in {"revoke", "unfinalize", "drop"}
              => cr[b].deleting /\ aim[b] = cr[b].spec
        /\ call[b] # "idle" /\ current[b] => cr[b].exists
        /\ call[b] # "idle" => aim[b] \in Accesses
        /\ cr[b].exists => cr[b].spec \in Specs[b]

\* While the connection was never reachable, no access was given.
ReachInv ==
    ~reachable /\ ~lost /\ ~tampered =>
        access = {} /\ \A b \in Bindings : call[b] # "assign"

\* The server has no access to what it does not know.
KnownInv == \A a \in access : Known(a)

\* If the server knows e, then e's resource has had the finalizer since.  Once
\* true of an entity it stays so.
Held(e) == ent[e].there => ent[e].stage \in {"guarded", "doomed"}

EntInv ==
    \A e \in Entities :
        /\ ent[e].ready => ent[e].stage \in {"guarded", "doomed"}
        /\ ~lost /\ ~tampered /\ e \notin Before => Held(e)

\* An access is given only to what is held: an awaited end was Ready, and no
\* other was there before.
EndsInv ==
    ~lost /\ ~tampered =>
        /\ \A a \in access : \A e \in a : Held(e)
        /\ \A b \in Bindings : call[b] = "assign" => \A e \in aim[b] : Held(e)

\* AccessIsBacked, by a binding that is not about to go.
BackInv ==
    ~lost /\ ~tampered /\ ~edited =>
        \A a \in access : \E b \in Bindings :
            Guarded(b) /\ cr[b].spec = a /\ call[b] \notin {"unfinalize", "drop"}

\* ReadyMeansAccess, and what a pass that is about to write Ready knows.
GivenInv ==
    ~edited /\ ~taken =>
        \A b \in Bindings :
            call[b] = "ready" \/ (cr[b].ready /\ ~cr[b].deleting)
                => cr[b].spec \in access

\* What holds whatever the server had before, and the inductive invariant.
BaseInv == TypeOK /\ WorkInv /\ KnownInv /\ EntInv /\ ReachInv /\ GivenInv

IInv == BaseInv /\ EndsInv /\ BackInv

-----------------------------------------------------------------------------
\* The specs that a user may choose from are accesses, and an access ties
\* something together.
LEMMA SpecsAreAccesses ==
    /\ \A b \in Bindings : Specs[b] \subseteq Accesses
    /\ \A a \in Accesses : a \subseteq Entities /\ a # NoAccess
BY AccessAssumption DEF Accesses, NoAccess

\* What a user, a status write or a finalizer write may store is an Object.
LEMMA StoredObjects ==
    ASSUME NEW o \in Objects
    PROVE  /\ NoObject \in Objects
           /\ \A a \in Accesses : Unguarded(a) \in Objects
           /\ \A a \in Accesses : o.exists => [ o EXCEPT !.spec = a ] \in Objects
           /\ o.exists => [ o EXCEPT !.finalizer = TRUE ] \in Objects
           /\ o.finalizer => [ o EXCEPT !.ready = TRUE ] \in Objects
           /\ [ o EXCEPT !.ready = FALSE ] \in Objects
           /\ o.finalizer => [ o EXCEPT !.deleting = TRUE ] \in Objects
BY SpecsAreAccesses DEF Objects, NoObject, Unguarded

\* A write, accepted or not, changes the binding it is for, if it is current,
\* and keeps the bound on faults.
LEMMA Write ==
    ASSUME TypeOK, NEW b \in Bindings, NEW o, WriteOk(b, o) \/ WriteErr(b, o)
    PROVE  /\ \/ UNCHANGED cr
              \/ current[b] /\ cr' = [ cr EXCEPT ![b] = o ]
           /\ faults' \in 0..MaxFaults
BY AccessAssumption
   DEF TypeOK, WriteOk, WriteErr, NoFault, Fault, Store

\* A fault or none keeps the bound on faults.
LEMMA FaultTyped ==
    ASSUME TypeOK, NoFault \/ \E kind \in FaultKinds : Fault(kind)
    PROVE  faults' \in 0..MaxFaults
BY AccessAssumption DEF TypeOK, NoFault, Fault

\* Where a pass goes from here: b's own control, and no other's.
LEMMA Control ==
    ASSUME TypeOK, NEW b \in Bindings,
           \/ \E c \in Calls : GoTo(b, c)
           \/ \E requeue \in BOOLEAN : Finish(b, requeue)
    PROVE  /\ queued' \subseteq Bindings
           /\ call' \in [Bindings -> Calls]
           /\ aim' \in [Bindings -> Accesses \cup {NoAccess}]
           /\ current' \in [Bindings -> BOOLEAN]
           /\ \A c \in Bindings \ {b} :
                 call'[c] = call[c] /\ aim'[c] = aim[c] /\ current'[c] = current[c]
BY DEF TypeOK, GoTo, Finish, Calls

\* A pass starts at a call.
LEMMA FirstCallTyped ==
    ASSUME NEW b \in Bindings, NEW perhaps \in BOOLEAN
    PROVE  FirstCall(b, perhaps) \in Calls
BY DEF FirstCall, AfterGate, Calls

-----------------------------------------------------------------------------
\* Each action in terms of what the invariants read: which of b's call, aim
\* and object it changes.  Begin reads the binding.
LEMMA BeginDoes ==
    ASSUME TypeOK, NEW b \in Bindings, Begin(b)
    PROVE  /\ UNCHANGED <<ent, cr, reachable, access, faults, history>>
           /\ queued' \subseteq Bindings
           /\ call' \in [Bindings -> Calls]
           /\ aim' \in [Bindings -> Accesses \cup {NoAccess}]
           /\ current' \in [Bindings -> BOOLEAN]
           /\ \A c \in Bindings \ {b} :
                 call'[c] = call[c] /\ aim'[c] = aim[c] /\ current'[c] = current[c]
           /\ \/ UNCHANGED <<call, aim, current>>
              \/ /\ cr[b].exists
                 /\ \E perhaps \in BOOLEAN : call'[b] = FirstCall(b, perhaps)
                 /\ aim'[b] = cr[b].spec
<1>1. CASE cr[b].exists
  <2>1. cr[b].spec \in Accesses \cup {NoAccess}
    BY DEF TypeOK, Objects
  <2>2. PICK perhaps \in BOOLEAN : call' = [ call EXCEPT ![b] = FirstCall(b, perhaps) ]
    BY <1>1 DEF Begin
  <2>3. call' \in [Bindings -> Calls] /\ call'[b] = FirstCall(b, perhaps)
    BY <2>2, FirstCallTyped DEF TypeOK
  <2> QED
    BY <1>1, <2>1, <2>2, <2>3 DEF Begin, TypeOK
<1>2. CASE ~cr[b].exists
  BY <1>2 DEF Begin, TypeOK
<1> QED
  BY <1>1, <1>2
\* A call that writes the binding, and ends the pass.
Written(b) ==
    IF call[b] = "finalizer" THEN [ cr[b] EXCEPT !.finalizer = TRUE ]
    ELSE IF call[b] = "ready" THEN [ cr[b] EXCEPT !.ready = TRUE ]
    ELSE IF call[b] = "notReady" THEN [ cr[b] EXCEPT !.ready = FALSE ]
    ELSE NoObject

Writes(b) ==
    /\ call[b] \in {"finalizer", "ready", "notReady", "unfinalize", "drop"}
    /\ call'[b] = "idle"
    /\ \/ UNCHANGED cr
       \/ current[b] /\ cr' = [ cr EXCEPT ![b] = Written(b) ]
    /\ UNCHANGED <<access, taken>>

\* A call that gives the access, or fails to.
Assigns(b) ==
    /\ call[b] = "assign" /\ UNCHANGED <<aim, current, cr, taken>>
    /\ \/ /\ access' = access \cup {aim[b]} /\ Known(aim[b])
          /\ call'[b] \in {"ready", "notReady"}
       \/ UNCHANGED access /\ call'[b] = "notReady"

\* A call that takes the access away, or fails to.
Revokes(b) ==
    /\ call[b] = "revoke" /\ UNCHANGED cr
    /\ \/ call'[b] = "idle"
       \/ call'[b] = "unfinalize" /\ UNCHANGED <<aim, current>>
          /\ aim[b] \notin access'
    /\ \/ access' = access \ {aim[b]}
          /\ taken' = (taken \/ \E c \in Bindings \ {b} :
                                   cr[c].spec \in access \cap {aim[b]})
       \/ UNCHANGED <<access, taken>>

\* A call of a pass is one of the three, and concerns b alone.
LEMMA ReconcileDoes ==
    ASSUME TypeOK, NEW b \in Bindings, Reconcile(b)
    PROVE  /\ UNCHANGED <<ent, reachable, lost, tampered, edited>>
           /\ queued' \subseteq Bindings /\ faults' \in 0..MaxFaults
           /\ call' \in [Bindings -> Calls]
           /\ aim' \in [Bindings -> Accesses \cup {NoAccess}]
           /\ current' \in [Bindings -> BOOLEAN]
           /\ \A c \in Bindings \ {b} :
                 call'[c] = call[c] /\ aim'[c] = aim[c] /\ current'[c] = current[c]
           /\ Writes(b) \/ Assigns(b) \/ Revokes(b)
<1> DEFINE o == Written(b)
<1>1. ASSUME ensureFinalizer(b) \/ WriteReadyStatus(b) \/ WriteNotReadyStatus(b)
                \/ removeFinalizer(b)
      PROVE  Writes(b) /\ (\E requeue \in BOOLEAN : Finish(b, requeue))
             /\ faults' \in 0..MaxFaults
             /\ UNCHANGED <<ent, reachable, lost, tampered, edited>>
  <2>1. WriteOk(b, o) \/ WriteErr(b, o)
    BY <1>1 DEF ensureFinalizer, WriteReadyStatus, WriteNotReadyStatus,
                removeFinalizer, Written
  <2>2. call[b] \in {"finalizer", "ready", "notReady", "unfinalize", "drop"}
    BY <1>1 DEF ensureFinalizer, WriteReadyStatus, WriteNotReadyStatus,
                removeFinalizer
  <2>3. \E requeue \in BOOLEAN : Finish(b, requeue)
    BY <1>1 DEF ensureFinalizer, WriteReadyStatus, WriteNotReadyStatus,
                removeFinalizer, requeueAfterNotReady
  <2>4. UNCHANGED <<ent, reachable, access, history>>
    BY <1>1 DEF ensureFinalizer, WriteReadyStatus, WriteNotReadyStatus,
                removeFinalizer
  <2>5. call'[b] = "idle"
    BY <2>3 DEF Finish, TypeOK
  <2> HIDE DEF o
  <2>6. /\ UNCHANGED cr \/ (current[b] /\ cr' = [ cr EXCEPT ![b] = o ])
        /\ faults' \in 0..MaxFaults
    BY <2>1, Write
  <2> QED
    BY <2>2, <2>3, <2>4, <2>5, <2>6 DEF Writes, history, o
<1>2. ASSUME assign(b)
      PROVE  Assigns(b) /\ (\E c \in Calls : GoTo(b, c))
             /\ faults' \in 0..MaxFaults
             /\ UNCHANGED <<ent, reachable, lost, tampered, edited>>
  <2>1. faults' \in 0..MaxFaults
    BY <1>2, FaultTyped DEF assign, FaultKinds
  <2>2. \E c \in Calls : GoTo(b, c)
    BY <1>2 DEF assign, Calls, OnEndMissing
  <2>3. UNCHANGED <<aim, current>>
    BY <2>2 DEF GoTo
  <2>4. \/ access' = access \cup {aim[b]} /\ Known(aim[b])
           /\ call'[b] \in {"ready", "notReady"}
        \/ UNCHANGED access /\ call'[b] = "notReady"
    BY <1>2 DEF assign, GoTo, OnEndMissing, TypeOK
  <2> QED
    BY <1>2, <2>1, <2>2, <2>3, <2>4 DEF Assigns, assign, history
<1>3. ASSUME finalize(b)
      PROVE  /\ Revokes(b)
             /\ (\E c \in Calls : GoTo(b, c)) \/ (\E q \in BOOLEAN : Finish(b, q))
             /\ faults' \in 0..MaxFaults
             /\ UNCHANGED <<ent, reachable, lost, tampered, edited>>
  <2>1. faults' \in 0..MaxFaults
    BY <1>3, FaultTyped DEF finalize, FaultKinds
  <2>2. (\E c \in Calls : GoTo(b, c)) \/ (\E q \in BOOLEAN : Finish(b, q))
    BY <1>3 DEF finalize, Calls, OnRevokeFailed, NotFoundIsDone
  <2>3. \/ call'[b] = "idle"
        \/ call'[b] = "unfinalize" /\ UNCHANGED <<aim, current>>
           /\ aim[b] \notin access'
    BY <1>3 DEF finalize, OnRevokeFailed, NotFoundIsDone, GoTo, Finish, TypeOK,
                Revoke
  <2>4. \/ access' = access \ {aim[b]}
           /\ taken' = (taken \/ \E c \in Bindings \ {b} :
                                    cr[c].spec \in access \cap {aim[b]})
        \/ UNCHANGED <<access, taken>>
    BY <1>3 DEF finalize, Revoke
  <2> QED
    BY <1>3, <2>1, <2>2, <2>3, <2>4 DEF Revokes, finalize
<1> HIDE DEF o
<1> QED
  BY <1>1, <1>2, <1>3, Control DEF Reconcile
\* What a pass writes is an Object.
LEMMA WrittenTyped ==
    ASSUME TypeOK, WorkInv, NEW b \in Bindings, Writes(b)
    PROVE  cr' \in [Bindings -> Objects]
<1>1. CASE UNCHANGED cr
  BY <1>1 DEF TypeOK
<1>2. CASE current[b] /\ cr' = [ cr EXCEPT ![b] = Written(b) ]
  <2>1. cr[b] \in Objects /\ cr[b].exists
    BY <1>2 DEF TypeOK, WorkInv, Writes
  <2>2. call[b] = "ready" => cr[b].finalizer
    BY DEF WorkInv, Guarded
  <2>3. Written(b) \in Objects
    BY <2>1, <2>2, StoredObjects DEF Written
  <2> QED
    BY <1>2, <2>3 DEF TypeOK
<1> QED
  BY <1>1, <1>2 DEF Writes

\* What a user does to b: it is applied, edited, or deleted.
Applied(b) ==
    /\ ~cr[b].exists /\ ~cr'[b].finalizer /\ ~cr'[b].ready
    /\ cr'[b].spec \in Specs[b]

Edited(b) ==
    /\ cr[b].exists /\ ~cr[b].deleting /\ edited'
    /\ \E a \in Specs[b] : cr'[b] = [ cr[b] EXCEPT !.spec = a ]

Deleted(b) ==
    /\ cr[b].exists /\ ~cr[b].deleting
    /\ cr'[b] = IF cr[b].finalizer
                THEN [ cr[b] EXCEPT !.deleting = TRUE ] ELSE NoObject

LEMMA UserDoes ==
    ASSUME TypeOK, NEW b \in Bindings, Apply(b) \/ EditSpec(b) \/ Delete(b)
    PROVE  /\ UNCHANGED <<ent, call, aim, reachable, access, lost, tampered, taken>>
           /\ queued' \subseteq Bindings /\ faults' \in 0..MaxFaults
           /\ current' \in [Bindings -> BOOLEAN] /\ ~current'[b]
           /\ \A c \in Bindings \ {b} : current'[c] = current[c]
           /\ cr' \in [Bindings -> Objects]
           /\ \A c \in Bindings \ {b} : cr'[c] = cr[c]
           /\ edited' \in BOOLEAN /\ (edited => edited')
           /\ Applied(b) \/ Edited(b) \/ Deleted(b)
<1>1. faults' \in 0..MaxFaults
  BY FaultTyped DEF Apply, EditSpec, Delete, FaultKinds
<1>2. edited' \in BOOLEAN /\ (edited => edited')
  BY DEF Apply, EditSpec, Delete, TypeOK
<1>3. PICK o : UserWrites(b, o) /\
         \/ ~cr[b].exists /\ \E a \in Specs[b] : o = Unguarded(a)
         \/ /\ cr[b].exists /\ ~cr[b].deleting /\ edited'
            /\ \E a \in Specs[b] : o = [ cr[b] EXCEPT !.spec = a ]
         \/ /\ cr[b].exists /\ ~cr[b].deleting
            /\ o = IF cr[b].finalizer
                   THEN [ cr[b] EXCEPT !.deleting = TRUE ] ELSE NoObject
  <2>1. CASE Apply(b)
    BY <2>1, Zenon DEF Apply
  <2>2. CASE EditSpec(b)
    BY <2>2 DEF EditSpec
  <2>3. CASE Delete(b)
    BY <2>3, Zenon DEF Delete
  <2> QED
    BY <2>1, <2>2, <2>3
<1>4. o \in Objects
  <2>1. cr[b] \in Objects
    BY DEF TypeOK
  <2> QED
    BY <1>3, <2>1, StoredObjects, SpecsAreAccesses
<1>5. cr' = [ cr EXCEPT ![b] = o ]
  BY <1>3 DEF UserWrites, Store
<1>6. cr' \in [Bindings -> Objects] /\ cr'[b] = o
      /\ \A c \in Bindings \ {b} : cr'[c] = cr[c]
  BY <1>4, <1>5 DEF TypeOK
<1>7. Applied(b) \/ Edited(b) \/ Deleted(b)
  <2>1. CASE ~cr[b].exists /\ \E a \in Specs[b] : o = Unguarded(a)
    BY <1>6, <2>1 DEF Applied, Unguarded
  <2>2. CASE /\ cr[b].exists /\ ~cr[b].deleting /\ edited'
             /\ \E a \in Specs[b] : o = [ cr[b] EXCEPT !.spec = a ]
    BY <1>6, <2>2, SpecsAreAccesses DEF Edited
  <2>3. CASE /\ cr[b].exists /\ ~cr[b].deleting
             /\ o = IF cr[b].finalizer
                    THEN [ cr[b] EXCEPT !.deleting = TRUE ] ELSE NoObject
    BY <1>6, <2>3 DEF Deleted
  <2> QED
    BY <1>3, <2>1, <2>2, <2>3
<1> QED
  BY <1>1, <1>2, <1>3, <1>6, <1>7 DEF UserWrites, TypeOK

\* A step of PolarisResource in terms of what the invariants read.
LEMMA EntityDoes ==
    ASSUME TypeOK, EntInv, NEW e \in Entities, EntityStep(e)
    PROVE  /\ UNCHANGED <<operator, reachable, faults, lost, tampered, edited>>
           /\ ent' \in [Entities -> EntityStates]
           /\ \A f \in Entities \ {e} : ent'[f] = ent[f]
           /\ ent'[e].ready => ent'[e].stage \in {"guarded", "doomed"}
           /\ ~lost /\ ~tampered /\ Held(e) => Held(e)'
           /\ access' = { a \in access : Known(a)' }
           /\ taken' = (taken \/ access' # access)
<1>1. PICK n \in EntityStates : ent' = [ ent EXCEPT ![e] = n ]
  BY DEF EntityStep
<1>2. ent' \in [Entities -> EntityStates] /\ ent'[e] = n
      /\ \A f \in Entities \ {e} : ent'[f] = ent[f]
  BY <1>1 DEF TypeOK
<1>3. ent[e].ready => ent[e].stage \in {"guarded", "doomed"}
  BY DEF EntInv
<1>4. /\ ent'[e].ready => ent'[e].stage \in {"guarded", "doomed"}
      /\ ~lost /\ ~tampered /\ Held(e) => Held(e)'
  <2>1. UNCHANGED <<lost, tampered>>
    BY DEF EntityStep
  <2>2. CASE Entity(e)!Apply
    BY <1>3, <2>1, <2>2 DEF Entity!Apply, Held
  <2>3. CASE Entity(e)!Guard
    BY <1>3, <2>1, <2>3 DEF Entity!Guard, Held
  <2>4. CASE Entity(e)!Create
    BY <1>3, <2>1, <2>4 DEF Entity!Create, Held
  <2>5. CASE Entity(e)!Report
    BY <1>3, <2>1, <2>5 DEF Entity!Report, Held
  <2>6. CASE Entity(e)!Delete
    BY <1>3, <2>1, <2>6 DEF Entity!Delete, Held
  <2>7. CASE Entity(e)!Remove
    BY <1>3, <2>1, <2>7 DEF Entity!Remove, Held
  <2>8. CASE Entity(e)!Release
    BY <1>3, <2>1, <2>8 DEF Entity!Release, Held
  <2> QED
    BY <2>2, <2>3, <2>4, <2>5, <2>6, <2>7, <2>8 DEF EntityStep
<1> QED
  BY <1>2, <1>4 DEF EntityStep, AccessFollows, Known

\* Whatever somebody else does on the server, he has done it, and an access
\* that he takes away is a taken one.
LEMMA ServerDoes ==
    ASSUME TypeOK, KnownInv, ServerChange
    PROVE  /\ UNCHANGED <<operator, reachable, lost, edited>>
           /\ tampered' /\ faults' \in 0..MaxFaults
           /\ ent' \in [Entities -> EntityStates]
           /\ \A e \in Entities : /\ ent'[e].stage = ent[e].stage
                                  /\ ent'[e].ready = ent[e].ready
           /\ access' \subseteq Accesses /\ KnownInv'
           /\ taken' \in BOOLEAN /\ (taken => taken')
           /\ ~taken' => access \subseteq access'
<1>1. /\ UNCHANGED <<operator, reachable, lost, edited>>
      /\ tampered' /\ faults' \in 0..MaxFaults
  BY FaultTyped DEF ServerChange, FaultKinds, operator
<1>2. CASE \E a \in Accesses \ access : Known(a) /\ access' = access \cup {a}
              /\ UNCHANGED <<ent, taken>>
  BY <1>1, <1>2 DEF TypeOK, KnownInv, Known
<1>3. CASE \E a \in access : access' = access \ {a} /\ taken' = TRUE /\ UNCHANGED ent
  BY <1>1, <1>3 DEF TypeOK, KnownInv, Known
<1>4. CASE \E e \in Entities : ent' = [ ent EXCEPT ![e].there = ~@ ] /\ AccessFollows
  <2>1. PICK e \in Entities : ent' = [ ent EXCEPT ![e].there = ~@ ]
    BY <1>4
  <2>2. ent' \in [Entities -> EntityStates]
    BY <2>1 DEF TypeOK, EntityStates
  <2>3. \A f \in Entities : ent'[f].stage = ent[f].stage /\ ent'[f].ready = ent[f].ready
    BY <2>1 DEF TypeOK, EntityStates
  <2>4. access' = { a \in access : \A f \in a : ent'[f].there }
        /\ taken' = (taken \/ access' # access)
    BY <1>4 DEF AccessFollows
  <2>5. KnownInv' /\ access' \subseteq Accesses
    BY <2>4 DEF KnownInv, Known, TypeOK
  <2>6. taken' \in BOOLEAN /\ (taken => taken') /\ (~taken' => access \subseteq access')
    BY <2>4 DEF TypeOK
  <2> QED
    BY <1>1, <2>2, <2>3, <2>5, <2>6
<1> QED
  BY <1>1, <1>2, <1>3, <1>4 DEF ServerChange

-----------------------------------------------------------------------------
\* The types: every step, given what a pass knows of its binding.
LEMMA TypeStep ==
    ASSUME BaseInv, [Next]_vars
    PROVE  TypeOK'
<1> USE DEF BaseInv
<1>1. ASSUME NEW b \in Bindings, Begin(b) PROVE TypeOK'
  BY <1>1, BeginDoes DEF TypeOK, history
<1>2. ASSUME NEW b \in Bindings, Reconcile(b) PROVE TypeOK'
  <2>1. cr' \in [Bindings -> Objects]
    BY <1>2, ReconcileDoes, WrittenTyped DEF TypeOK, Assigns, Revokes
  <2>2. access' \subseteq Accesses /\ taken' \in BOOLEAN
    <3>1. CASE Writes(b)
      BY <3>1 DEF TypeOK, Writes
    <3>2. CASE Assigns(b)
      <4>1. aim[b] \in Accesses
        BY <3>2 DEF Assigns, WorkInv
      <4> QED
        BY <4>1, <3>2 DEF TypeOK, Assigns
    <3>3. CASE Revokes(b)
      BY <3>3 DEF TypeOK, Revokes
    <3> QED
      BY <1>2, <3>1, <3>2, <3>3, ReconcileDoes
  <2> QED
    BY <1>2, <2>1, <2>2, ReconcileDoes DEF TypeOK
<1>3. ASSUME NEW e \in Entities, EntityStep(e) PROVE TypeOK'
  BY <1>3, EntityDoes DEF TypeOK, operator
<1>4. ASSUME NEW b \in Bindings, Apply(b) \/ EditSpec(b) \/ Delete(b) PROVE TypeOK'
  BY <1>4, UserDoes DEF TypeOK
<1>5. ASSUME ConnectionGoes PROVE TypeOK'
  BY <1>5, FaultTyped DEF TypeOK, ConnectionGoes, operator, FaultKinds
<1>6. ASSUME ConnectionComes PROVE TypeOK'
  BY <1>6 DEF TypeOK, ConnectionComes, operator, history
<1>7. ASSUME ServerChange PROVE TypeOK'
  BY <1>7, ServerDoes DEF TypeOK, operator
<1>8. ASSUME Restart PROVE TypeOK'
  BY <1>8, FaultTyped DEF TypeOK, Restart, FaultKinds, history, Calls
<1>9. ASSUME UNCHANGED vars PROVE TypeOK'
  BY <1>9 DEF TypeOK, vars, operator, history
<1> QED
  BY <1>1, <1>2, <1>3, <1>4, <1>5, <1>6, <1>7, <1>8, <1>9 DEF Next, Environment
\* What a pass knows of its binding stays true until the pass uses it.
LEMMA WorkStep ==
    ASSUME BaseInv, [Next]_vars
    PROVE  WorkInv'
<1> DEFINE W(b) ==
      /\ call[b] \in {"assign", "ready"} => Guarded(b)
      /\ call[b] \in {"assign", "ready"} /\ ~edited => aim[b] = cr[b].spec
      /\ call[b] \in {"revoke", "unfinalize", "drop"}
            => cr[b].deleting /\ aim[b] = cr[b].spec
      /\ call[b] # "idle" /\ current[b] => cr[b].exists
      /\ call[b] # "idle" => aim[b] \in Accesses
      /\ cr[b].exists => cr[b].spec \in Specs[b]
<1>a. \A b \in Bindings : W(b)
  BY DEF BaseInv, WorkInv
<1>b. TypeOK /\ KnownInv /\ EntInv
  BY DEF BaseInv
<1>c. SUFFICES ASSUME NEW c \in Bindings PROVE W(c)'
  BY DEF WorkInv
<1>d. W(c) /\ cr[c] \in Objects /\ call[c] \in Calls
  BY <1>a, <1>b DEF TypeOK
<1>1. ASSUME NEW b \in Bindings, Begin(b) PROVE W(c)'
  <2>1. UNCHANGED <<cr, edited>>
    BY <1>1, <1>b, BeginDoes DEF history
  <2>2. CASE call'[c] = call[c] /\ aim'[c] = aim[c] /\ current'[c] = current[c]
    BY <2>1, <2>2, <1>d DEF Guarded
  <2>3. CASE /\ cr[c].exists /\ aim'[c] = cr[c].spec
             /\ \E perhaps \in BOOLEAN : call'[c] = FirstCall(c, perhaps)
    BY <2>1, <2>3, <1>d DEF FirstCall, AfterGate, Guarded, Objects
  <2> QED
    BY <1>1, <1>b, <2>2, <2>3, BeginDoes
<1>2. ASSUME NEW b \in Bindings, Reconcile(b) PROVE W(c)'
  <2>1. UNCHANGED edited
    BY <1>2, <1>b, ReconcileDoes
  <2>2. CASE c # b
    <3>1. call'[c] = call[c] /\ aim'[c] = aim[c] /\ current'[c] = current[c]
      BY <1>2, <1>b, <2>2, ReconcileDoes
    <3>2. cr'[c] = cr[c]
      BY <1>2, <1>b, <2>2, ReconcileDoes DEF TypeOK, Writes, Assigns, Revokes
    <3> QED
      BY <1>d, <2>1, <3>1, <3>2 DEF Guarded
  <2>3. CASE c = b
    <3>a. cr'[c] = cr[c] \/ cr'[c] = Written(c)
      BY <1>2, <1>b, <2>3, ReconcileDoes DEF TypeOK, Writes, Assigns, Revokes
    <3>b. cr'[c].exists => cr'[c].spec \in Specs[c]
      BY <3>a, <1>d DEF Written, Objects, NoObject
    <3>1. CASE call'[c] = "idle"
      BY <3>1, <3>b
    <3>2. CASE Assigns(c)
      BY <3>2, <1>d, <2>1 DEF Assigns, Guarded
    <3>3. CASE Revokes(c)
      BY <3>1, <3>3, <1>d, <2>1 DEF Revokes, Guarded
    <3> QED
      BY <1>2, <1>b, <2>3, <3>1, <3>2, <3>3, ReconcileDoes DEF Writes
  <2> QED
    BY <2>2, <2>3
<1>3. ASSUME NEW e \in Entities, EntityStep(e) PROVE W(c)'
  BY <1>3, <1>b, <1>d, EntityDoes DEF operator, Guarded
<1>4. ASSUME NEW b \in Bindings, Apply(b) \/ EditSpec(b) \/ Delete(b) PROVE W(c)'
  <2>1. UNCHANGED <<call, aim>> /\ (edited => edited')
    BY <1>4, <1>b, UserDoes
  <2>2. CASE c # b
    BY <1>4, <1>b, <1>d, <2>1, <2>2, UserDoes DEF Guarded
  <2>3. CASE c = b
    <3>1. ~current'[c] /\ (Applied(c) \/ Edited(c) \/ Deleted(c))
      BY <1>4, <1>b, <2>3, UserDoes
    <3>2. CASE Applied(c)
      BY <3>1, <3>2, <2>1, <1>d DEF Applied, Guarded, Objects
    <3>3. CASE Edited(c)
      BY <3>1, <3>3, <2>1, <1>d DEF Edited, Guarded, Objects
    <3>4. CASE Deleted(c)
      BY <3>1, <3>4, <2>1, <1>d DEF Deleted, Guarded, Objects, NoObject
    <3> QED
      BY <3>1, <3>2, <3>3, <3>4
  <2> QED
    BY <2>2, <2>3
<1>5. CASE ConnectionGoes \/ ConnectionComes \/ ServerChange \/ UNCHANGED vars
  BY <1>5, <1>d
  DEF ConnectionGoes, ConnectionComes, ServerChange, vars, operator, history, Guarded
<1>6. CASE Restart
  BY <1>6, <1>d DEF Restart
<1> QED
  BY <1>1, <1>2, <1>3, <1>4, <1>5, <1>6 DEF Next, Environment
\* An access comes when the server knows its ends and goes with any of them.
LEMMA KnownStep ==
    ASSUME BaseInv, [Next]_vars
    PROVE  KnownInv'
<1> USE DEF BaseInv
<1>1. ASSUME NEW b \in Bindings, Begin(b) PROVE KnownInv'
  BY <1>1, BeginDoes DEF KnownInv, Known
<1>2. ASSUME NEW b \in Bindings, Reconcile(b) PROVE KnownInv'
  BY <1>2, ReconcileDoes DEF KnownInv, Known, Writes, Assigns, Revokes
<1>3. ASSUME NEW e \in Entities, EntityStep(e) PROVE KnownInv'
  BY <1>3, EntityDoes DEF KnownInv
<1>4. ASSUME NEW b \in Bindings, Apply(b) \/ EditSpec(b) \/ Delete(b) PROVE KnownInv'
  BY <1>4, UserDoes DEF KnownInv, Known
<1>5. CASE ConnectionGoes \/ ConnectionComes \/ Restart \/ UNCHANGED vars
  BY <1>5 DEF ConnectionGoes, ConnectionComes, Restart, vars, KnownInv, Known
<1>6. CASE ServerChange
  BY <1>6, ServerDoes
<1> QED
  BY <1>1, <1>2, <1>3, <1>4, <1>5, <1>6 DEF Next, Environment

\* Nothing the operator, the user or the connection does is an entity's step.
LEMMA EntStep ==
    ASSUME BaseInv, [Next]_vars
    PROVE  EntInv'
<1> USE DEF BaseInv
<1>1. CASE UNCHANGED <<ent, lost, tampered>>
  BY <1>1 DEF EntInv, Held
<1>2. ASSUME NEW b \in Bindings, Begin(b) \/ Reconcile(b) PROVE EntInv'
  BY <1>1, <1>2, BeginDoes, ReconcileDoes DEF history
<1>3. ASSUME NEW e \in Entities, EntityStep(e) PROVE EntInv'
  <2>1. /\ \A f \in Entities \ {e} : ent'[f] = ent[f]
        /\ ent'[e].ready => ent'[e].stage \in {"guarded", "doomed"}
        /\ ~lost /\ ~tampered /\ Held(e) => Held(e)'
        /\ UNCHANGED <<lost, tampered>>
    BY <1>3, EntityDoes
  <2>2. ASSUME NEW f \in Entities
        PROVE  /\ ent'[f].ready => ent'[f].stage \in {"guarded", "doomed"}
               /\ ~lost /\ ~tampered /\ f \notin Before => Held(f)'
    BY <2>1 DEF EntInv, Held
  <2> QED
    BY <2>1, <2>2 DEF EntInv
<1>4. ASSUME NEW b \in Bindings, Apply(b) \/ EditSpec(b) \/ Delete(b) PROVE EntInv'
  BY <1>1, <1>4, UserDoes
<1>5. CASE ConnectionGoes
  BY <1>5 DEF ConnectionGoes, EntInv
<1>6. CASE ConnectionComes \/ Restart \/ UNCHANGED vars
  BY <1>1, <1>6 DEF ConnectionComes, Restart, vars, history
<1>7. CASE ServerChange
  BY <1>7, ServerDoes DEF EntInv
<1> QED
  BY <1>2, <1>3, <1>4, <1>5, <1>6, <1>7 DEF Next, Environment

\* Without a connection no pass gets as far as giving an access.
LEMMA ReachStep ==
    ASSUME BaseInv, [Next]_vars
    PROVE  ReachInv'
<1> USE DEF BaseInv
<1>1. ASSUME NEW b \in Bindings, Begin(b) PROVE ReachInv'
  <2>1. UNCHANGED <<reachable, access, lost, tampered>>
    BY <1>1, BeginDoes DEF history
  <2>2. ASSUME NEW c \in Bindings, call'[c] = "assign"
        PROVE  call[c] = "assign" \/ reachable
    BY <1>1, <2>2, BeginDoes DEF FirstCall, Resolves
  <2> QED
    BY <2>1, <2>2 DEF ReachInv
<1>2. ASSUME NEW b \in Bindings, Reconcile(b) PROVE ReachInv'
  <2>1. UNCHANGED <<reachable, lost, tampered>>
    BY <1>2, ReconcileDoes
  <2>2. \A c \in Bindings : call'[c] = "assign" => call[c] = "assign"
    BY <1>2, ReconcileDoes DEF Writes, Assigns, Revokes
  <2>3. call[b] = "assign" \/ access' \subseteq access
    BY <1>2, ReconcileDoes DEF Writes, Assigns, Revokes
  <2> QED
    BY <2>1, <2>2, <2>3 DEF ReachInv
<1>3. ASSUME NEW e \in Entities, EntityStep(e) PROVE ReachInv'
  BY <1>3, EntityDoes DEF ReachInv, operator
<1>4. ASSUME NEW b \in Bindings, Apply(b) \/ EditSpec(b) \/ Delete(b) PROVE ReachInv'
  BY <1>4, UserDoes DEF ReachInv
<1>5. CASE ConnectionGoes \/ ConnectionComes
  BY <1>5 DEF ConnectionGoes, ConnectionComes, ReachInv
<1>6. CASE UNCHANGED vars
  BY <1>6 DEF vars, operator, history, ReachInv
<1>7. CASE ServerChange
  BY <1>7, ServerDoes DEF ReachInv
<1>8. CASE Restart
  BY <1>8 DEF Restart, ReachInv, history
<1> QED
  BY <1>1, <1>2, <1>3, <1>4, <1>5, <1>6, <1>7, <1>8 DEF Next, Environment

\* What has happened has happened.
LEMMA HistoryGrows ==
    ASSUME BaseInv, [Next]_vars
    PROVE  /\ lost => lost'
           /\ tampered => tampered'
           /\ edited => edited'
           /\ taken => taken'
<1> DEFINE Grows == /\ lost => lost'
                    /\ tampered => tampered'
                    /\ edited => edited'
                    /\ taken => taken'
<1>a. TypeOK /\ EntInv /\ KnownInv
  BY DEF BaseInv
<1>1. ASSUME NEW b \in Bindings, Begin(b) \/ Reconcile(b) PROVE Grows
  BY <1>1, <1>a, BeginDoes, ReconcileDoes
  DEF history, Writes, Assigns, Revokes, TypeOK
<1>2. ASSUME NEW e \in Entities, EntityStep(e) PROVE Grows
  BY <1>2, <1>a, EntityDoes
<1>3. ASSUME NEW b \in Bindings, Apply(b) \/ EditSpec(b) \/ Delete(b) PROVE Grows
  BY <1>3, <1>a, UserDoes
<1>4. CASE ServerChange
  BY <1>4, <1>a, ServerDoes
<1>5. CASE ConnectionGoes \/ ConnectionComes \/ Restart \/ UNCHANGED vars
  BY <1>5 DEF ConnectionGoes, ConnectionComes, Restart, vars, history
<1> QED
  BY <1>1, <1>2, <1>3, <1>4, <1>5 DEF Next, Environment

\* The PUT comes before the status write, and what takes an access away later
\* is a deletion: b's own, or one that taken records.
LEMMA GivenStep ==
    ASSUME BaseInv, [Next]_vars
    PROVE  GivenInv'
<1> DEFINE G(b) == call[b] = "ready" \/ (cr[b].ready /\ ~cr[b].deleting)
                       => cr[b].spec \in access
<1>a. BaseInv /\ TypeOK /\ EntInv /\ KnownInv
  BY DEF BaseInv
<1>b. /\ edited => edited'
      /\ taken => taken'
  BY <1>a, HistoryGrows
<1>c. SUFFICES ASSUME ~edited, ~taken, ~edited', ~taken', NEW c \in Bindings
               PROVE  G(c)'
  BY <1>b DEF GivenInv
<1>d. G(c) /\ cr[c] \in Objects /\ call[c] \in Calls
  BY <1>c, <1>a DEF BaseInv, GivenInv, TypeOK
<1>e. /\ call[c] = "ready" => cr[c].exists /\ cr[c].finalizer
      /\ call[c] = "assign" => aim[c] = cr[c].spec
      /\ call[c] = "revoke" => cr[c].deleting
  BY <1>c DEF BaseInv, WorkInv, Guarded
<1>1. ASSUME NEW b \in Bindings, Begin(b) PROVE G(c)'
  <2>1. UNCHANGED <<cr, access>>
    BY <1>1, <1>a, BeginDoes
  <2>2. call'[c] = "ready" => call[c] = "ready"
    BY <1>1, <1>a, BeginDoes DEF FirstCall, AfterGate
  <2> QED
    BY <2>1, <2>2, <1>d
<1>2. ASSUME NEW b \in Bindings, Reconcile(b) PROVE G(c)'
  <2>1. CASE c # b
    <3>1. call'[c] = call[c] /\ cr'[c] = cr[c]
      BY <1>2, <1>a, <2>1, ReconcileDoes DEF TypeOK, Writes, Assigns, Revokes
    <3>2. ASSUME cr[c].spec \in access PROVE cr[c].spec \in access'
      <4>1. CASE Writes(b) \/ Assigns(b) \/ UNCHANGED access
        BY <3>2, <4>1 DEF Writes, Assigns
      <4>2. CASE access' = access \ {aim[b]}
                 /\ taken' = (taken \/ \E d \in Bindings \ {b} :
                                  cr[d].spec \in access \cap {aim[b]})
        <5>1. ~ \E d \in Bindings \ {b} : cr[d].spec \in access \cap {aim[b]}
          BY <4>2, <1>c, Zenon
        <5> QED
          BY <3>2, <4>2, <5>1, <2>1
      <4> QED
        BY <1>2, <1>a, <4>1, <4>2, ReconcileDoes DEF Revokes
    <3> QED
      BY <3>1, <3>2, <1>d
  <2>2. CASE c = b
    <3>1. CASE Writes(c)
      <4>1. access' = access /\ call'[c] = "idle"
        BY <3>1 DEF Writes
      <4>2. CASE UNCHANGED cr
        BY <4>1, <4>2, <1>d
      <4>3. CASE cr' = [ cr EXCEPT ![c] = Written(c) ]
        <5>1. cr'[c] = Written(c)
          BY <4>3, <1>a DEF TypeOK
        <5> QED
          BY <5>1, <4>1, <1>d, <3>1 DEF Written, Writes, NoObject, Objects
      <4> QED
        BY <3>1, <4>2, <4>3 DEF Writes
    <3>2. CASE Assigns(c)
      BY <3>2, <1>d, <1>e DEF Assigns
    <3>3. CASE Revokes(c)
      BY <3>3, <1>d, <1>e DEF Revokes
    <3> QED
      BY <1>2, <1>a, <2>2, <3>1, <3>2, <3>3, ReconcileDoes
  <2> QED
    BY <2>1, <2>2
<1>3. ASSUME NEW e \in Entities, EntityStep(e) PROVE G(c)'
  <2>1. UNCHANGED <<cr, call>> /\ access' = access
    BY <1>3, <1>a, <1>c, EntityDoes DEF operator
  <2> QED
    BY <2>1, <1>d
<1>4. ASSUME NEW b \in Bindings, Apply(b) \/ EditSpec(b) \/ Delete(b) PROVE G(c)'
  <2>1. UNCHANGED <<call, access>>
    BY <1>4, <1>a, UserDoes
  <2>2. CASE c # b
    BY <1>4, <1>a, <1>d, <2>1, <2>2, UserDoes
  <2>3. CASE c = b
    <3>1. Applied(c) \/ Deleted(c)
      BY <1>4, <1>a, <1>c, <2>3, UserDoes DEF Edited
    <3> QED
      BY <3>1, <2>1, <1>d, <1>e DEF Applied, Deleted, Objects, NoObject
  <2> QED
    BY <2>2, <2>3
<1>5. CASE ConnectionGoes \/ ConnectionComes \/ Restart \/ UNCHANGED vars
  BY <1>5, <1>d DEF ConnectionGoes, ConnectionComes, Restart, vars, operator
<1>6. CASE ServerChange
  <2>1. UNCHANGED <<cr, call>> /\ access \subseteq access'
    BY <1>6, <1>a, <1>c, ServerDoes DEF operator
  <2> QED
    BY <2>1, <1>d
<1> QED
  BY <1>1, <1>2, <1>3, <1>4, <1>5, <1>6 DEF Next, Environment
-----------------------------------------------------------------------------
(* What holds where the server had no target of a grant before.            *)

\* An access is given to ends that are held, and they stay so.
LEMMA EndsStep ==
    ASSUME TargetsAreOurs, BaseInv, EndsInv, [Next]_vars
    PROVE  EndsInv'
<1> DEFINE AccessHeld  == \A a \in access : \A e \in a : Held(e)
           PassHeld(b) == call[b] = "assign" => \A e \in aim[b] : Held(e)
<1>a. BaseInv /\ TypeOK /\ EntInv /\ KnownInv /\ WorkInv
  BY DEF BaseInv
<1>h. ~lost' /\ ~tampered' => ~lost /\ ~tampered
  BY <1>a, HistoryGrows
<1>b. SUFFICES ASSUME ~lost, ~tampered, ~lost', ~tampered', NEW c \in Bindings
               PROVE  AccessHeld' /\ PassHeld(c)'
  <2>1. Bindings = {} => access' = {}
    BY TypeStep DEF TypeOK, Accesses
  <2> QED
    BY <1>h, <2>1 DEF EndsInv
<1>c. AccessHeld /\ \A b \in Bindings : PassHeld(b)
  BY <1>b DEF EndsInv
<1>1. ASSUME NEW b \in Bindings, Begin(b) PROVE AccessHeld' /\ PassHeld(c)'
  <2>1. UNCHANGED <<ent, access>>
    BY <1>1, <1>a, BeginDoes
  <2>2. CASE call'[c] = call[c] /\ aim'[c] = aim[c]
    BY <1>c, <2>1, <2>2 DEF Held
  <2>3. ASSUME cr[c].exists, aim'[c] = cr[c].spec, call'[c] = "assign",
               \E perhaps \in BOOLEAN : call'[c] = FirstCall(c, perhaps)
        PROVE  \A e \in aim'[c] : Held(e)
    <3>1. ASSUME NEW e \in cr[c].spec PROVE Held(e)
      <4>1. e \in Entities /\ cr[c].spec \in Specs[c]
        BY <2>3, <1>a, <3>1, SpecsAreAccesses DEF WorkInv
      <4>2. CASE e \in Awaited(c)
        <5>1. ent[e].ready
          BY <2>3, <4>2 DEF FirstCall, AfterGate, ParentsReady
        <5> QED
          BY <5>1, <4>1, <1>a DEF EntInv, Held
      <4>3. CASE e \notin Awaited(c)
        <5>1. e \notin Before
          BY <3>1, <4>1, <4>3 DEF Awaited, TargetsAreOurs
        <5> QED
          BY <5>1, <4>1, <1>a, <1>b DEF EntInv
      <4> QED
        BY <4>2, <4>3
    <3> QED
      BY <2>3, <3>1
  <2> QED
    BY <1>1, <1>a, <1>c, <2>1, <2>2, <2>3, BeginDoes DEF Held
<1>2. ASSUME NEW b \in Bindings, Reconcile(b) PROVE AccessHeld' /\ PassHeld(c)'
  <2>1. UNCHANGED ent
    BY <1>2, <1>a, ReconcileDoes
  <2>2. call'[c] = "assign" => call[c] = "assign" /\ aim'[c] = aim[c]
    BY <1>2, <1>a, ReconcileDoes DEF Writes, Assigns, Revokes
  <2>3. \/ access' \subseteq access
        \/ call[b] = "assign" /\ access' = access \cup {aim[b]}
    BY <1>2, <1>a, ReconcileDoes DEF Writes, Assigns, Revokes
  <2> QED
    BY <1>c, <2>1, <2>2, <2>3 DEF Held
<1>3. ASSUME NEW e \in Entities, EntityStep(e) PROVE AccessHeld' /\ PassHeld(c)'
  <2>1. UNCHANGED <<call, aim>> /\ access' \subseteq access
    BY <1>3, <1>a, EntityDoes DEF operator
  <2>2. \A f \in Entities : Held(f) => Held(f)'
    BY <1>3, <1>a, <1>b, EntityDoes DEF Held
  <2>3. \A a \in Accesses : a \subseteq Entities
    BY SpecsAreAccesses
  <2>4. access \subseteq Accesses /\ (call[c] = "assign" => aim[c] \in Accesses)
    BY <1>a DEF TypeOK, WorkInv
  <2> QED
    BY <1>c, <2>1, <2>2, <2>3, <2>4
<1>4. ASSUME NEW b \in Bindings, Apply(b) \/ EditSpec(b) \/ Delete(b)
      PROVE  AccessHeld' /\ PassHeld(c)'
  BY <1>4, <1>a, <1>c, UserDoes DEF Held
<1>5. CASE ConnectionComes \/ UNCHANGED vars
  BY <1>5, <1>c DEF ConnectionComes, vars, operator, Held
<1>6. CASE ConnectionGoes
  BY <1>6, <1>b DEF ConnectionGoes
<1>7. CASE ServerChange
  BY <1>7, <1>b DEF ServerChange
<1>8. CASE Restart
  BY <1>8, <1>c DEF Restart, Held
<1> QED
  BY <1>1, <1>2, <1>3, <1>4, <1>5, <1>6, <1>7, <1>8 DEF Next, Environment

\* A deletion does not skip the revocation of an access that exists: its ends
\* are known and held, so every reference resolves.
LEMMA GivenResolves ==
    ASSUME BaseInv, EndsInv, ~lost, ~tampered, NEW b \in Bindings,
           cr[b].spec \in access, NEW perhaps \in BOOLEAN
    PROVE  Resolves(b, perhaps)
<1>1. \A e \in cr[b].spec : ent[e].there /\ Held(e)
  BY DEF BaseInv, KnownInv, Known, EndsInv
<1>2. reachable
  BY DEF BaseInv, ReachInv, TypeOK
<1> QED
  BY <1>1, <1>2 DEF Resolves, AboveResolves, Held

\* A binding goes last, after its access.
LEMMA BackStep ==
    ASSUME TargetsAreOurs, BaseInv, EndsInv, BackInv, [Next]_vars
    PROVE  BackInv'
<1> DEFINE Backs(b, a) == /\ Guarded(b) /\ cr[b].spec = a
                          /\ call[b] \notin {"unfinalize", "drop"}
<1>a. BaseInv /\ TypeOK /\ EntInv /\ KnownInv /\ WorkInv
  BY DEF BaseInv
<1>b. SUFFICES ASSUME ~lost, ~tampered, ~edited, ~lost', ~tampered', ~edited',
                      NEW a \in access'
               PROVE  \E d \in Bindings : Backs(d, a)'
  BY <1>a, HistoryGrows DEF BackInv
<1>c. ASSUME a \in access PROVE \E d \in Bindings : Backs(d, a)
  BY <1>b, <1>c DEF BackInv
<1>1. ASSUME NEW b \in Bindings, Begin(b) PROVE \E d \in Bindings : Backs(d, a)'
  <2>1. UNCHANGED <<cr, access>>
    BY <1>1, <1>a, BeginDoes
  <2>2. PICK d \in Bindings : Backs(d, a)
    BY <1>c, <2>1
  <2>3. \A perhaps \in BOOLEAN : Resolves(d, perhaps)
    BY <1>b, <2>1, <2>2, GivenResolves
  <2>4. call'[d] \notin {"unfinalize", "drop"}
    BY <1>1, <1>a, <2>2, <2>3, BeginDoes DEF FirstCall, AfterGate
  <2> QED
    BY <2>1, <2>2, <2>4 DEF Guarded
<1>2. ASSUME NEW b \in Bindings, Reconcile(b)
      PROVE  \E d \in Bindings : Backs(d, a)'
  <2>1. \A d \in Bindings \ {b} : call'[d] = call[d] /\ cr'[d] = cr[d]
    BY <1>2, <1>a, ReconcileDoes DEF TypeOK, Writes, Assigns, Revokes
  <2>2. CASE a \in access
    <3>1. PICK d \in Bindings : Backs(d, a)
      BY <1>c, <2>2
    <3>2. CASE d # b
      BY <2>1, <3>1, <3>2 DEF Guarded
    <3>3. CASE d = b /\ Writes(b)
      <4>1. cr'[b] = cr[b] \/ cr'[b] = Written(b)
        BY <1>a, <3>3 DEF Writes, TypeOK
      <4>2. cr'[b].exists /\ cr'[b].finalizer /\ cr'[b].spec = a
        BY <4>1, <3>1, <3>3, <1>a DEF Written, Writes, Guarded, TypeOK, Objects
      <4> QED
        BY <3>3, <4>2 DEF Writes, Guarded
    <3>4. CASE d = b /\ Assigns(b)
      BY <3>1, <3>4 DEF Assigns, Guarded
    <3>5. CASE d = b /\ Revokes(b)
      <4>1. call'[b] # "unfinalize"
        BY <1>a, <1>b, <3>1, <3>5 DEF Revokes, WorkInv
      <4> QED
        BY <3>1, <3>5, <4>1 DEF Revokes, Guarded
    <3> QED
      BY <1>2, <1>a, <3>2, <3>3, <3>4, <3>5, ReconcileDoes
  <2>3. CASE a \notin access
    <3>1. Assigns(b) /\ a = aim[b] /\ call'[b] \in {"ready", "notReady"}
      BY <1>2, <1>a, <1>b, <2>3, ReconcileDoes DEF Writes, Assigns, Revokes
    <3>2. Guarded(b) /\ aim[b] = cr[b].spec
      BY <3>1, <1>a, <1>b DEF Assigns, WorkInv
    <3> QED
      BY <3>1, <3>2 DEF Assigns, Guarded
  <2> QED
    BY <2>2, <2>3
<1>3. ASSUME NEW e \in Entities, EntityStep(e)
      PROVE  \E d \in Bindings : Backs(d, a)'
  <2>1. UNCHANGED <<cr, call>> /\ a \in access
    BY <1>3, <1>a, <1>b, EntityDoes DEF operator
  <2> QED
    BY <2>1, <1>c DEF Guarded
<1>4. ASSUME NEW b \in Bindings, Apply(b) \/ EditSpec(b) \/ Delete(b)
      PROVE  \E d \in Bindings : Backs(d, a)'
  <2>1. UNCHANGED <<call, access>> /\ \A d \in Bindings \ {b} : cr'[d] = cr[d]
    BY <1>4, <1>a, UserDoes
  <2>2. PICK d \in Bindings : Backs(d, a)
    BY <1>c, <2>1
  <2>3. CASE d # b
    BY <2>1, <2>2, <2>3 DEF Guarded
  <2>4. CASE d = b
    <3>1. Deleted(b)
      BY <1>4, <1>a, <1>b, <2>2, <2>4, UserDoes DEF Applied, Edited, Guarded
    <3>2. Guarded(b)' /\ cr'[b].spec = a
      BY <3>1, <2>2, <2>4, <1>a DEF Deleted, Guarded, TypeOK, Objects
    <3> QED
      BY <3>2, <2>1, <2>2, <2>4
  <2> QED
    BY <2>3, <2>4
<1>5. CASE ConnectionComes \/ ConnectionGoes \/ UNCHANGED vars
  BY <1>5, <1>b, <1>c DEF ConnectionComes, ConnectionGoes, vars, operator, Guarded
<1>6. CASE ServerChange
  BY <1>6, <1>b DEF ServerChange
<1>7. CASE Restart
  BY <1>7, <1>b, <1>c DEF Restart, Guarded
<1> QED
  BY <1>1, <1>2, <1>3, <1>4, <1>5, <1>6, <1>7 DEF Next, Environment
-----------------------------------------------------------------------------
\* At first no binding is applied and nothing is given.
LEMMA InitHolds ==
    ASSUME Init
    PROVE  IInv
<1>1. NoObject \in Objects
  BY SpecsAreAccesses DEF Objects, NoObject
<1>2. TypeOK
  <2>1. cr = [ b \in Bindings |-> NoObject ] /\ cr \in [Bindings -> Objects]
    BY <1>1 DEF Init
  <2>2. faults = 0 /\ 0 \in 0..MaxFaults
    BY AccessAssumption DEF Init
  <2>3. ent \in [Entities -> EntityStates]
    BY Zenon DEF Init
  <2>4. call \in [Bindings -> Calls] /\ aim \in [Bindings -> Accesses \cup {NoAccess}]
        /\ current \in [Bindings -> BOOLEAN]
    BY DEF Init, Calls
  <2>5. queued \subseteq Bindings /\ access \subseteq Accesses
        /\ reachable \in BOOLEAN /\ lost \in BOOLEAN /\ tampered \in BOOLEAN
        /\ edited \in BOOLEAN /\ taken \in BOOLEAN
    BY DEF Init
  <2> QED
    BY <2>1, <2>2, <2>3, <2>4, <2>5 DEF TypeOK
<1>3. WorkInv /\ KnownInv /\ ReachInv /\ GivenInv /\ EndsInv /\ BackInv
  BY DEF Init, WorkInv, KnownInv, ReachInv, GivenInv, EndsInv, BackInv, NoObject
<1>4. EntInv
  <2>1. \A e \in Entities : ~ent[e].ready /\ (ent[e].there => e \in Before)
    BY DEF Init, Entity!Init
  <2> QED
    BY <2>1 DEF EntInv, Held
<1> QED
  BY <1>2, <1>3, <1>4 DEF IInv, BaseInv

THEOREM BaseHolds == Spec => []BaseInv
<1>1. Init => BaseInv
  BY InitHolds DEF IInv
<1>2. BaseInv /\ [Next]_vars => BaseInv'
  <2>1. BaseInv /\ [Next]_vars => TypeOK' /\ WorkInv' /\ KnownInv'
    BY TypeStep, WorkStep, KnownStep
  <2>2. BaseInv /\ [Next]_vars => EntInv' /\ ReachInv' /\ GivenInv'
    BY EntStep, ReachStep, GivenStep
  <2> QED
    BY <2>1, <2>2 DEF BaseInv
<1> QED
  BY <1>1, <1>2, PTL DEF Spec

\* Every variable keeps its type, and no binding is Ready without the
\* finalizer that ensureFinalizer puts on it.
THEOREM TypeCorrect == Spec => []TypeOK
<1>1. BaseInv => TypeOK
  BY DEF BaseInv
<1> QED
  BY <1>1, BaseHolds, PTL

\* The reconcilers write Ready after the PUT and withdraw the access only in a
\* deletion: Ready bindings have been given what they name.
THEOREM ReadyIsAccess == Spec => []ReadyMeansAccess
<1>1. BaseInv => ReadyMeansAccess
  BY DEF BaseInv, GivenInv, ReadyMeansAccess
<1> QED
  BY <1>1, BaseHolds, PTL

\* The inductive invariant of AccessIsBacked, one step on.
LEMMA BackedStep ==
    ASSUME TargetsAreOurs, IInv, [Next]_vars
    PROVE  IInv'
<1>1. BaseInv'
  <2>1. TypeOK' /\ WorkInv' /\ KnownInv'
    BY TypeStep, WorkStep, KnownStep DEF IInv
  <2>2. EntInv' /\ ReachInv' /\ GivenInv'
    BY EntStep, ReachStep, GivenStep DEF IInv
  <2> QED
    BY <2>1, <2>2 DEF BaseInv
<1>2. EndsInv' /\ BackInv'
  BY EndsStep, BackStep DEF IInv
<1> QED
  BY <1>1, <1>2 DEF IInv

\* finalize comes before removeFinalizer, and is only skipped when an end is
\* gone: no access is left without its binding, whatever is deleted first.
THEOREM Backed ==
    ASSUME TargetsAreOurs
    PROVE  Spec => []AccessIsBacked
<1>1. Init => IInv
  BY InitHolds
<1>2. IInv /\ [Next]_vars => IInv'
  BY BackedStep
<1>3. IInv => AccessIsBacked
  BY DEF IInv, BackInv, AccessIsBacked
<1> QED
  BY <1>1, <1>2, <1>3, PTL DEF Spec
-----------------------------------------------------------------------------
(* Nobody is forgotten.                                                    *)

\* A pass whose copy of a deleting binding is the newest has read the deletion,
\* and is on the way of one: its status write cannot hide the deletion.
WakeInv ==
    /\ NeverForgotten
    /\ \A b \in Bindings :
          current[b] /\ cr[b].deleting
              => call[b] \in {"idle", "revoke", "unfinalize", "drop"}

\* The requeues of the binding and grant reconcilers leave no binding with work
\* to do without a pass to do it.
LEMMA WakeStep ==
    ASSUME TypeOK, WakeInv, [Next]_vars PROVE WakeInv'
<1> USE DEF WakeInv, NeverForgotten
<1>0. CASE UNCHANGED vars
  BY <1>0 DEF vars, operator
<1>1. ASSUME NEW b \in Bindings, Begin(b) PROVE WakeInv'
  <2>1. ASSUME NEW perhaps \in BOOLEAN
        PROVE  /\ FirstCall(b, perhaps) # "idle"
               /\ cr[b].deleting => FirstCall(b, perhaps) \in {"revoke", "drop"}
    BY DEF FirstCall, AfterGate
  <2> QED
    BY <1>1, <2>1 DEF Begin, TypeOK
\* A write ends the pass, and the next is queued if there is more to do.
<1>2. ASSUME NEW b \in Bindings, NEW o, WriteOk(b, o) \/ WriteErr(b, o),
             NEW requeue \in BOOLEAN, Finish(b, requeue),
             requeue \/ ~cr'[b].exists \/ (cr'[b].ready /\ ~cr'[b].deleting)
      PROVE  WakeInv'
  BY <1>2, Write DEF Finish, TypeOK
<1>3. ASSUME NEW b \in Bindings, ensureFinalizer(b) PROVE WakeInv'
  BY <1>3, <1>2 DEF ensureFinalizer
<1>4. ASSUME NEW b \in Bindings, WriteReadyStatus(b) PROVE WakeInv'
  <2> DEFINE o == [ cr[b] EXCEPT !.ready = TRUE ]
  <2>1. o.ready /\ o.deleting = cr[b].deleting
    BY DEF TypeOK, Objects
  <2>2. current[b] => ~cr[b].deleting
    BY <1>4 DEF WriteReadyStatus
  <2>3. WriteOk(b, o) => cr'[b] = o /\ current[b]
    BY DEF WriteOk, Store, TypeOK
  <2>4. \/ WriteOk(b, o) /\ Finish(b, FALSE)
        \/ WriteErr(b, o) /\ Finish(b, TRUE)
    BY <1>4 DEF WriteReadyStatus
  <2> HIDE DEF o
  <2> QED
    BY <1>2, <2>1, <2>2, <2>3, <2>4
<1>5. ASSUME NEW b \in Bindings, WriteNotReadyStatus(b) PROVE WakeInv'
  BY <1>5, <1>2 DEF WriteNotReadyStatus, requeueAfterNotReady
<1>6. ASSUME NEW b \in Bindings, removeFinalizer(b) PROVE WakeInv'
  <2>1. WriteOk(b, NoObject) => ~cr'[b].exists
    BY DEF WriteOk, Store, TypeOK, NoObject
  <2>2. \/ WriteOk(b, NoObject) /\ Finish(b, FALSE)
        \/ WriteErr(b, NoObject) /\ Finish(b, TRUE)
    BY <1>6 DEF removeFinalizer
  <2> QED
    BY <1>2, <2>1, <2>2
\* A call in the middle of a pass leads to another, or puts the request back.
<1>7. ASSUME NEW b \in Bindings, cr' = cr,
             \/ call[b] = "assign" /\ \E c \in {"ready", "notReady"} : GoTo(b, c)
             \/ GoTo(b, "unfinalize")
             \/ Finish(b, TRUE)
      PROVE  WakeInv'
  BY <1>7 DEF GoTo, Finish, TypeOK
<1>8. ASSUME NEW b \in Bindings, assign(b) \/ finalize(b) PROVE WakeInv'
  <2>1. cr' = cr
    BY <1>8 DEF assign, finalize
  <2>2. \/ call[b] = "assign" /\ \E c \in {"ready", "notReady"} : GoTo(b, c)
        \/ GoTo(b, "unfinalize")
        \/ Finish(b, TRUE)
    BY <1>8 DEF assign, finalize, OnEndMissing, OnRevokeFailed, NotFoundIsDone
  <2> QED
    BY <1>7, <2>1, <2>2
<1>9. ASSUME NEW b \in Bindings, NEW o, UserWrites(b, o) PROVE WakeInv'
  BY <1>9 DEF UserWrites, Store, TypeOK
<1>10. ASSUME NEW b \in Bindings, Apply(b) \/ EditSpec(b) \/ Delete(b)
       PROVE  WakeInv'
  BY <1>10, <1>9 DEF Apply, EditSpec, Delete
<1>11. ASSUME UNCHANGED operator PROVE WakeInv'
  BY <1>11 DEF operator
<1>12. ASSUME NEW e \in Entities, EntityStep(e) PROVE WakeInv'
  BY <1>12, <1>11 DEF EntityStep
<1>13. CASE ConnectionGoes \/ ConnectionComes \/ ServerChange
  BY <1>13, <1>11 DEF ConnectionGoes, ConnectionComes, ServerChange
<1>14. CASE Restart
  BY <1>14 DEF Restart
<1> QED
  BY <1>0, <1>1, <1>3, <1>4, <1>5, <1>6, <1>8, <1>10, <1>12, <1>13, <1>14
  DEF Next, Reconcile, Environment

\* No event of a role or a principal wakes a binding: its own requeues do, in
\* every state, so that none waits for ever.
THEOREM Remembered == Spec => []NeverForgotten
<1>1. Init => WakeInv
  BY DEF Init, WakeInv, NeverForgotten, NoObject
<1>2. BaseInv /\ WakeInv /\ [Next]_vars => WakeInv'
  BY WakeStep DEF BaseInv
<1>3. WakeInv => NeverForgotten
  BY DEF WakeInv
<1> QED
  BY <1>1, <1>2, <1>3, BaseHolds, PTL DEF Spec

-----------------------------------------------------------------------------
(* What PolarisResource promises, of bindings and grants.                  *)

\* A pass works on an access that the spec may name, be it edited meanwhile.
AimInv == \A b \in Bindings : call[b] # "idle" => aim[b] \in Specs[b]

LEMMA AimStep ==
    ASSUME BaseInv, AimInv, [Next]_vars PROVE AimInv'
<1> USE DEF AimInv
<1>a. TypeOK /\ WorkInv /\ KnownInv /\ EntInv
  BY DEF BaseInv
<1>0. CASE UNCHANGED vars
  BY <1>0 DEF vars, operator
<1>1. ASSUME NEW b \in Bindings, Begin(b) PROVE AimInv'
  BY <1>1, <1>a, BeginDoes DEF WorkInv
<1>2. ASSUME NEW b \in Bindings, Reconcile(b) PROVE AimInv'
  BY <1>2, <1>a, ReconcileDoes DEF Writes, Assigns, Revokes
<1>3. ASSUME NEW e \in Entities, EntityStep(e) PROVE AimInv'
  BY <1>3 DEF EntityStep, operator
<1>4. ASSUME NEW b \in Bindings, Apply(b) \/ EditSpec(b) \/ Delete(b)
      PROVE  AimInv'
  BY <1>4, <1>a, UserDoes
<1>5. CASE ConnectionGoes \/ ConnectionComes \/ ServerChange
  BY <1>5 DEF ConnectionGoes, ConnectionComes, ServerChange, operator
<1>6. CASE Restart
  BY <1>6 DEF Restart
<1> QED
  BY <1>0, <1>1, <1>2, <1>3, <1>4, <1>5, <1>6 DEF Next, Environment

\* Somebody took the access of a binding out of the operator's hands.
Outside == lost \/ tampered \/ edited \/ taken

Given(b) == Specs[b] \cap access # {}

\* A step that leaves the binding as it is may only give its access, or take it
\* away, from outside.
LEMMA BesideIt ==
    ASSUME NEW b \in Bindings, UNCHANGED <<Stage(b), cr[b].ready>>,
           TypeOK, TypeOK', Outside => Outside',
           Given(b)' = Given(b) \/ Outside'
    PROVE  [Resource(b)!Next]_(Resource(b)!resource)
<1> USE DEF Outside, Given, Resource!resource
<1>1. CASE Outside'
  BY <1>1 DEF Resource!Next, Resource!Interfere
<1>2. CASE ~Outside'
  BY <1>2 DEF TypeOK
<1> QED
  BY <1>1, <1>2

\* removeFinalizer runs when the access is gone: who backs an access of the
\* binding's own is the binding, and not in a pass that is about to let it go.
LEMMA OwnAccess ==
    ASSUME Unshared, IInv, NEW b \in Bindings, ~Outside,
           call[b] \in {"unfinalize", "drop"}
    PROVE  ~Given(b)
<1>1. SUFFICES ASSUME NEW a \in Specs[b], a \in access
               PROVE  FALSE
  BY DEF Given
<1>2. PICK d \in Bindings :
          Guarded(d) /\ cr[d].spec = a /\ call[d] \notin {"unfinalize", "drop"}
  BY <1>1 DEF IInv, BackInv, Outside
<1>3. a \in Specs[d]
  BY <1>2 DEF IInv, BaseInv, WorkInv, Guarded
<1> QED
  BY <1>1, <1>2, <1>3 DEF Unshared

\* The writes of a pass put the finalizer on, report, and take it off.
LEMMA WriteImplements ==
    ASSUME Unshared, IInv, WakeInv, TypeOK', NEW b \in Bindings, Writes(b),
           UNCHANGED <<lost, tampered, edited>>
    PROVE  [Resource(b)!Next]_(Resource(b)!resource)
<1>a. /\ TypeOK /\ WorkInv /\ GivenInv
      /\ UNCHANGED <<Outside, Given(b)>>
  BY DEF IInv, BaseInv, Writes, Outside, Given
<1>b. cr[b] \in Objects
  BY <1>a DEF TypeOK
<1>1. CASE UNCHANGED cr
  BY <1>1, <1>a, BesideIt DEF Stage
<1>2. CASE current[b] /\ cr'[b] = Written(b)
  <2>1. cr[b].exists /\ (call[b] \in {"finalizer", "ready", "notReady"}
                          => ~cr[b].deleting)
    BY <1>2, <1>a DEF WorkInv, WakeInv, Writes
  <2>2. CASE call[b] = "finalizer"
    <3>1. cr'[b] = [ cr[b] EXCEPT !.finalizer = TRUE ]
      BY <1>2, <2>2 DEF Written
    <3>2. /\ cr'[b].finalizer
          /\ UNCHANGED <<cr[b].exists, cr[b].deleting, cr[b].ready>>
      BY <1>b, <3>1 DEF Objects
    <3>3. Stage(b)' = "guarded" /\ Stage(b) \in {"applied", "guarded"}
      BY <2>1, <2>2, <3>2 DEF Stage
    <3>4. CASE Stage(b) = "applied"
      BY <1>a, <3>2, <3>3, <3>4
      DEF Resource!Next, Resource!Guard, Outside, Given
    <3>5. CASE Stage(b) = "guarded"
      BY <1>a, <3>2, <3>3, <3>5, BesideIt
    <3> QED
      BY <3>3, <3>4, <3>5
  <2>3. CASE call[b] \in {"ready", "notReady"}
    <3>1. cr'[b] = [ cr[b] EXCEPT !.ready = (call[b] = "ready") ]
      BY <1>2, <2>3 DEF Written
    <3>2. /\ cr'[b].ready = (call[b] = "ready")
          /\ UNCHANGED <<cr[b].exists, cr[b].deleting, cr[b].finalizer>>
      BY <1>b, <3>1 DEF Objects
    <3>3. UNCHANGED Stage(b)
      BY <3>2 DEF Stage
    <3>4. CASE cr'[b].ready = cr[b].ready
      BY <1>a, <3>3, <3>4, BesideIt
    <3>5. CASE cr'[b].ready # cr[b].ready
      <4>1. cr[b].finalizer
        BY <1>a, <1>b, <2>3, <3>2, <3>5 DEF WorkInv, Guarded, Objects
      <4>2. Stage(b) = "guarded"
        BY <2>1, <2>3, <4>1 DEF Stage
      <4>3. cr'[b].ready = ~cr[b].ready
        BY <1>b, <3>2, <3>5 DEF Objects
      <4>4. cr'[b].ready => Given(b) \/ Outside
        BY <1>a, <2>1, <3>2 DEF GivenInv, WorkInv, Given, Outside
      <4> QED
        BY <1>a, <3>3, <4>2, <4>3, <4>4
        DEF Resource!Next, Resource!Report, Outside, Given
    <3> QED
      BY <3>4, <3>5
  <2>4. CASE call[b] \in {"unfinalize", "drop"}
    <3>1. cr'[b] = NoObject
      BY <1>2, <2>4 DEF Written
    <3>2. Stage(b) = "doomed"
      BY <1>a, <1>b, <2>1, <2>4 DEF WorkInv, Objects, Stage
    <3>3. Stage(b)' = "absent" /\ cr'[b].ready = FALSE
      BY <3>1 DEF NoObject, Stage
    <3>4. ~Given(b) \/ Outside
      BY <2>4, OwnAccess
    <3> QED
      BY <1>a, <3>2, <3>3, <3>4
      DEF Resource!Next, Resource!Release, Outside, Given
  <2> QED
    BY <2>2, <2>3, <2>4 DEF Writes
<1> QED
  BY <1>1, <1>2, <1>a DEF Writes, TypeOK

\* The PUT of a pass creates, its DELETE removes.
LEMMA CallImplements ==
    ASSUME Unshared, IInv, AimInv, TypeOK', NEW b \in Bindings,
           Assigns(b) \/ Revokes(b), UNCHANGED <<lost, tampered, edited>>
    PROVE  [Resource(b)!Next]_(Resource(b)!resource)
<1>a. /\ TypeOK /\ WorkInv /\ aim[b] \in Specs[b]
      /\ cr[b] \in Objects
      /\ UNCHANGED <<cr, Stage(b)>>
  BY DEF IInv, BaseInv, Assigns, Revokes, AimInv, Stage, TypeOK
<1>1. UNCHANGED Outside
  <2>1. CASE Assigns(b)
    BY <2>1 DEF Assigns, Outside
  <2>2. CASE Revokes(b)
    <3>1. ASSUME NEW c \in Bindings \ {b}
          PROVE  cr[c].spec \notin access \cap {aim[b]}
      <4>1. SUFFICES ASSUME cr[c].spec = aim[b] PROVE FALSE
        OBVIOUS
      <4>2. cr[c].exists
        BY <1>a, <4>1, SpecsAreAccesses DEF TypeOK, Objects
      <4>3. cr[c].spec \in Specs[c]
        BY <1>a, <4>2 DEF WorkInv
      <4> QED
        BY <1>a, <4>1, <4>3 DEF Unshared
    <3> QED
      BY <2>2, <3>1, <1>a DEF Revokes, Outside, TypeOK
  <2> QED
    BY <2>1, <2>2
<1>2. CASE UNCHANGED Given(b)
  BY <1>1, <1>2, <1>a, BesideIt
<1>3. CASE Assigns(b) /\ ~Given(b) /\ Given(b)'
  <2>1. Stage(b) \in {"guarded", "doomed"}
    BY <1>3, <1>a DEF Assigns, WorkInv, Guarded, Stage
  <2> QED
    BY <1>1, <1>3, <1>a, <2>1
    DEF Resource!Next, Resource!Create, Outside, Given
<1>4. CASE Revokes(b) /\ Given(b) /\ ~Given(b)'
  <2>1. Stage(b) = "doomed"
    BY <1>4, <1>a DEF Revokes, WorkInv, Objects, Stage
  <2> QED
    BY <1>1, <1>4, <1>a, <2>1
    DEF Resource!Next, Resource!Remove, Outside, Given
<1>5. /\ Assigns(b) => (Given(b) => Given(b)')
      /\ Revokes(b) => (Given(b)' => Given(b))
      /\ Given(b) \in BOOLEAN /\ Given(b)' \in BOOLEAN
  BY DEF Assigns, Revokes, Given
<1> QED
  BY <1>2, <1>3, <1>4, <1>5

\* The user applies the binding, and deletes it.
LEMMA UserImplements ==
    ASSUME IInv, TypeOK', NEW b \in Bindings,
           Apply(b) \/ EditSpec(b) \/ Delete(b)
    PROVE  [Resource(b)!Next]_(Resource(b)!resource)
<1>a. /\ TypeOK /\ cr[b] \in Objects /\ cr'[b] \in Objects
      /\ UNCHANGED <<access, lost, tampered, taken>>
      /\ edited => edited'
      /\ Applied(b) \/ Edited(b) \/ Deleted(b)
  BY UserDoes DEF IInv, BaseInv, TypeOK
<1>b. UNCHANGED Given(b) /\ (Outside => Outside')
  BY <1>a DEF Given, Outside
<1>1. CASE Edited(b)
  <2>1. UNCHANGED <<Stage(b), cr[b].ready>>
    BY <1>1, <1>a DEF Edited, Objects, Stage
  <2> QED
    BY <1>a, <1>b, <2>1, BesideIt
<1>2. CASE Applied(b) /\ UNCHANGED edited
  <2>1. cr'[b].exists
    BY <1>2, <1>a, SpecsAreAccesses DEF Applied, Objects
  <2>2. Stage(b) = "absent" /\ Stage(b)' = "applied"
        /\ ~cr[b].ready /\ ~cr'[b].ready
    BY <1>2, <1>a, <2>1 DEF Applied, Objects, Stage
  <2> QED
    BY <1>2, <1>a, <1>b, <2>2 DEF Resource!Next, Resource!Apply, Given, Objects
<1>3. CASE Deleted(b) /\ UNCHANGED edited
  <2>1. CASE cr[b].finalizer
    <3>1. Stage(b) = "guarded" /\ Stage(b)' = "doomed" /\ UNCHANGED cr[b].ready
      BY <1>3, <1>a, <2>1 DEF Deleted, Objects, Stage
    <3> QED
      BY <1>3, <1>a, <1>b, <3>1 DEF Resource!Next, Resource!Delete, Given
  <2>2. CASE ~cr[b].finalizer
    <3>1. /\ Stage(b) = "applied" /\ Stage(b)' = "absent"
          /\ cr[b].ready = FALSE /\ cr'[b].ready = FALSE
      BY <1>3, <1>a, <2>2 DEF Deleted, Objects, NoObject, Stage
    <3> QED
      BY <1>3, <1>a, <1>b, <3>1 DEF Resource!Next, Resource!Delete, Given
  <2> QED
    BY <2>1, <2>2
<1>4. \/ Edited(b)
      \/ Applied(b) /\ UNCHANGED edited
      \/ Deleted(b) /\ UNCHANGED edited
  <2>1. CASE Apply(b)
    BY <2>1, <1>a DEF Apply, Edited, Applied, Deleted
  <2>2. CASE Delete(b)
    BY <2>2, <1>a DEF Delete, Edited, Applied, Deleted
  <2>3. CASE EditSpec(b)
    <3>1. PICK a \in Specs[b] : UserWrites(b, [ cr[b] EXCEPT !.spec = a ])
      BY <2>3 DEF EditSpec
    <3>2. cr'[b] = [ cr[b] EXCEPT !.spec = a ]
      BY <1>a, <3>1 DEF UserWrites, Store, TypeOK
    <3> QED
      BY <2>3, <3>2 DEF EditSpec, Edited
  <2> QED
    BY <2>1, <2>2, <2>3
<1> QED
  BY <1>1, <1>2, <1>3, <1>4

\* A binding is touched by nobody but its own passes and its user, and its
\* access by no other pass.
LEMMA ResourceStep ==
    ASSUME Unshared, IInv, AimInv, WakeInv, TypeOK', [Next]_vars,
           NEW b \in Bindings
    PROVE  [Resource(b)!Next]_(Resource(b)!resource)
<1>a. TypeOK /\ WorkInv /\ KnownInv /\ EntInv /\ (Outside => Outside')
  BY HistoryGrows DEF IInv, BaseInv, Outside
<1>b. ASSUME cr'[b] = cr[b], Given(b)' = Given(b) \/ Outside'
      PROVE  [Resource(b)!Next]_(Resource(b)!resource)
  BY <1>a, <1>b, BesideIt DEF Stage
<1>0. CASE UNCHANGED vars
  BY <1>0, <1>b DEF vars, operator, Given
<1>1. ASSUME NEW c \in Bindings, Begin(c)
      PROVE  [Resource(b)!Next]_(Resource(b)!resource)
  BY <1>1, <1>b DEF Begin, Given
<1>2. ASSUME Reconcile(b)
      PROVE  [Resource(b)!Next]_(Resource(b)!resource)
  BY <1>2, <1>a, ReconcileDoes, WriteImplements, CallImplements
<1>3. ASSUME NEW c \in Bindings \ {b}, Reconcile(c)
      PROVE  [Resource(b)!Next]_(Resource(b)!resource)
  <2>1. Writes(c) \/ Assigns(c) \/ Revokes(c)
    BY <1>3, <1>a, ReconcileDoes
  <2>2. cr'[b] = cr[b]
    BY <2>1, <1>a DEF Writes, Assigns, Revokes, TypeOK
  <2>3. access' \cap Specs[b] = access \cap Specs[b]
    <3>1. CASE Writes(c)
      BY <3>1 DEF Writes
    <3>2. CASE Assigns(c) \/ Revokes(c)
      <4>1. aim[c] \notin Specs[b]
        BY <3>2 DEF Assigns, Revokes, AimInv, Unshared
      <4> QED
        BY <3>2, <4>1 DEF Assigns, Revokes
    <3> QED
      BY <2>1, <3>1, <3>2
  <2> QED
    BY <1>b, <2>2, <2>3 DEF Given
<1>4. ASSUME NEW e \in Entities, EntityStep(e)
      PROVE  [Resource(b)!Next]_(Resource(b)!resource)
  <2>1. cr' = cr /\ taken' = (taken \/ access' # access)
    BY <1>4, <1>a, EntityDoes DEF operator
  <2>2. Given(b)' = Given(b) \/ Outside'
    BY <2>1 DEF Given, Outside
  <2> QED
    BY <1>b, <2>1, <2>2
<1>5. ASSUME Apply(b) \/ EditSpec(b) \/ Delete(b)
      PROVE  [Resource(b)!Next]_(Resource(b)!resource)
  BY <1>5, UserImplements
<1>6. ASSUME NEW c \in Bindings \ {b}, Apply(c) \/ EditSpec(c) \/ Delete(c)
      PROVE  [Resource(b)!Next]_(Resource(b)!resource)
  BY <1>6, <1>a, <1>b, UserDoes DEF Given
<1>7. CASE ConnectionGoes \/ ConnectionComes \/ Restart
  BY <1>7, <1>b DEF ConnectionGoes, ConnectionComes, Restart, operator, Given
<1>8. CASE ServerChange
  BY <1>8, <1>b DEF ServerChange, operator, Outside
<1> QED
  BY <1>0, <1>1, <1>2, <1>3, <1>4, <1>5, <1>6, <1>7, <1>8
  DEF Next, Environment

\* What a binding waits for in its ends, whoever waits for the binding has in it:
\* the PUT comes after the finalizer, the DELETE before it goes.
THEOREM Implements ==
    ASSUME TargetsAreOurs, Unshared
    PROVE  Spec => ImplementsResource
<1> DEFINE Inv  == IInv /\ AimInv /\ WakeInv
           Step == \A b \in Bindings :
                      [Resource(b)!Next]_(Resource(b)!resource)
<1>1. Init => \A b \in Bindings : Resource(b)!Init
  BY DEF Init, Resource!Init, Stage, NoObject
<1>2. Init => Inv
  <2>1. Init => AimInv /\ WakeInv
    BY DEF Init, AimInv, WakeInv, NeverForgotten, NoObject
  <2> QED
    BY <2>1, InitHolds
<1>3. Inv /\ [Next]_vars => Inv'
  <2>1. Inv /\ [Next]_vars => IInv'
    BY TargetsAreOurs, BackedStep
  <2>2. Inv /\ [Next]_vars => AimInv' /\ WakeInv'
    BY AimStep, WakeStep DEF IInv, BaseInv
  <2> QED
    BY <2>1, <2>2
<1>4. Inv /\ [Next]_vars => [Step]_vars
  <2>1. IInv /\ [Next]_vars => TypeOK'
    BY TypeStep DEF IInv
  <2> QED
    BY Unshared, <2>1, ResourceStep
<1> HIDE DEF Inv, Step
<1>5. Spec => [][Step]_vars
  BY <1>2, <1>3, <1>4, PTL DEF Spec
<1> QED
  BY <1>1, <1>5, PTL DEF Spec, ImplementsResource, Step
=============================================================================
