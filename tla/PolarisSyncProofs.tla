--------------------------- MODULE PolarisSyncProofs ---------------------------
(***************************************************************************)
(* For any cases, depth and bounds: a walk up parentRef resolves the path  *)
(* or there is none, and a resource that is Ready is in sync with its      *)
(* object.                                                                 *)
(***************************************************************************)
EXTENDS PolarisSyncProperties, PolarisDriftProofs, TLAPS

\* What an object must be for Ready to be deserved.
Settled(s) == exists /\ (kind \in CreateOnly \/ InSync(kind, s, object))

\* The path so far is the lower end of a chain.
PathIsChain ==
    pc = "walk" =>
        /\ Len(walk.path) \in 1..MaxDepth + 1
        /\ walk.path[1] = walk.cur
        /\ walk.path[Len(walk.path)] = case.leaf
        /\ \A i \in 1..Len(walk.path) - 1 :
                case.parent[walk.path[i + 1]] = walk.path[i]
        /\ \A i \in 1..Len(walk.path) :
                case.catalog[walk.path[i]] = case.catalog[case.leaf]

\* Whatever is the chain of the leaf ends with the path so far.
EndsWithPath(p) ==
    LET above == Len(p) - Len(walk.path)
    IN  above >= 0 /\ \A i \in 1..Len(walk.path) : p[above + i] = walk.path[i]

ChainsAgree == pc = "walk" => \A p \in Paths : IsChain(p) => EndsWithPath(p)

\* What a pass read is still so, unless somebody else changed it.
Read ==
    /\ pc = "create" /\ fresh => ~exists
    /\ pc = "update" /\ fresh => exists /\ current = object
    /\ pc = "update" => Drifts(kind, mine.spec, current)
    /\ pc = "ready" /\ fresh => Settled(mine.spec)

\* Generations name specs, and Ready is of no later one than a pass works on.
InOrder ==
    /\ mine.gen <= cr.gen
    /\ mine.gen = cr.gen => mine.spec = cr.spec
    /\ cr.readyGen <= cr.gen
    /\ pc # "idle" => cr.readyGen <= mine.gen

SyncInv ==
    /\ TypeOK /\ PathIsChain /\ ChainsAgree /\ Read /\ InOrder
    /\ ReadyMeansSynced

-----------------------------------------------------------------------------
(* What no step changes, and what it means for the invariant.              *)

\* The case names a kind, its references, and specs and contents of that kind.
LEMMA CaseIsTyped ==
    ASSUME TypeOK
    PROVE  /\ kind \in Kinds
           /\ case.parent \in [Namespaces -> Namespaces \cup {NoParent}]
           /\ case.catalog \in [Namespaces -> Catalogs]
           /\ case.leaf \in Namespaces
           /\ \A s \in case.specs : IsSpec(kind, s)
           /\ \A o \in case.contents : IsObject(kind, o)
  BY SyncAssumption DEF TypeOK, kind

\* A walk that stands still, or is over, keeps its invariants.
LEMMA WalkFrame ==
    ASSUME PathIsChain, ChainsAgree, case' = case,
           pc' = "walk" => pc = "walk" /\ walk' = walk
    PROVE  PathIsChain' /\ ChainsAgree'
<1>1. PathIsChain'
  BY DEF PathIsChain
<1>2. ChainsAgree'
  <2>1. SUFFICES ASSUME pc' = "walk", NEW p \in Paths, IsChain(p)'
                 PROVE  EndsWithPath(p)'
    BY DEF ChainsAgree
  <2>2. pc = "walk" /\ walk' = walk
    BY <2>1
  <2>3. IsChain(p)
    BY <2>1 DEF IsChain
  <2>4. EndsWithPath(p)
    BY <2>2, <2>3 DEF ChainsAgree
  <2>5. QED
    BY <2>2, <2>4 DEF EndsWithPath
<1>3. QED
  BY <1>1, <1>2

\* Faults stay within their bound.
LEMMA FaultsAreCounted ==
    ASSUME TypeOK, NoFault \/ \E f \in FaultKinds : Fault(f)
    PROVE  faults' \in 0..MaxFaults
<1>1. CASE NoFault
  BY <1>1 DEF NoFault, TypeOK
<1>2. CASE \E f \in FaultKinds : Fault(f)
  BY <1>2, SyncAssumption DEF Fault, TypeOK
<1>3. QED
  BY <1>1, <1>2

\* Only the calls after the read know what was read.
LEMMA ReadFrame ==
    ASSUME pc' \in { "idle", "walk", "get", "notReady" }
    PROVE  Read'
  BY DEF Read

\* Ready stays deserved if nobody touches the resource or the object.
LEMMA ReadyFrame ==
    ASSUME ReadyMeansSynced, UNCHANGED <<case, cr, exists, object>>,
           sound' => sound
    PROVE  ReadyMeansSynced'
  BY DEF ReadyMeansSynced, ReadyNow, kind

-----------------------------------------------------------------------------
(* The walk.                                                               *)

\* A pass begins: it has read nothing yet but the resource and its namespace.
LEMMA BeginKeeps ==
    ASSUME SyncInv, Begin
    PROVE  SyncInv'
<1> USE DEF SyncInv
<1>1. /\ pc' \in { "walk", "get", "notReady" }
      /\ pc' = "walk" => walk' = [ cur |-> case.leaf, path |-> << case.leaf >> ]
      /\ walk' = walk \/ walk' = [ cur |-> case.leaf, path |-> << case.leaf >> ]
  BY DEF Begin
<1>2. case.leaf \in Namespaces
  BY CaseIsTyped
<1>3. TypeOK'
  <2>1. mine'.spec = cr.spec /\ mine'.gen = cr.gen /\ cr.gen \in Generations
    BY SyncAssumption DEF Begin, TypeOK, Generations
  <2>2. /\ walk'.cur \in Namespaces \cup {NoParent}
        /\ walk'.path \in Seq(Namespaces) /\ Len(walk'.path) <= MaxDepth + 1
    <3>1. CASE walk' = walk
      BY <3>1 DEF TypeOK
    <3>2. CASE walk' = [ cur |-> case.leaf, path |-> << case.leaf >> ]
      <4>1. << case.leaf >> \in Seq(Namespaces) /\ Len(<< case.leaf >>) = 1
        BY <1>2
      <4>2. QED
        BY <1>2, <3>2, <4>1, SyncAssumption
    <3>3. QED
      BY <1>1, <3>1, <3>2
  <2>3. UNCHANGED <<case, cr, present, there, exists, object, faults, fresh,
                    sound, tampered>> /\ queued' = FALSE
    BY DEF Begin, server
  <2>4. /\ mine'.spec \in case'.specs /\ mine'.gen \in Generations
        /\ fresh' \in BOOLEAN /\ sound' \in BOOLEAN /\ tampered' \in BOOLEAN
    BY <2>1, <2>3 DEF TypeOK
  <2>5. /\ case' \in Cases /\ cr'.spec \in case'.specs /\ cr'.gen \in 1..MaxGen
        /\ cr'.ready \in BOOLEAN /\ cr'.readyGen \in Generations
        /\ present' \subseteq Namespaces \cup Catalogs
        /\ exists' => IsObject(kind', object')
        /\ there' \in BOOLEAN /\ exists' \in BOOLEAN
        /\ faults' \in 0..MaxFaults
    BY <2>3 DEF TypeOK, kind
  <2>6. /\ pc' # "update" /\ queued' \in BOOLEAN
        /\ pc' \in { "idle", "walk", "get", "create", "update", "ready",
                     "notReady" }
    BY <1>1, <2>3
  <2>7. QED
    BY <2>2, <2>4, <2>5, <2>6, Zenon DEF TypeOK
<1>4. PathIsChain'
  <2>1. CASE pc' = "walk"
    <3>1. case' = case /\ walk'.cur = case.leaf /\ walk'.path = << case.leaf >>
      BY <1>1, <2>1 DEF Begin
    <3>2. MaxDepth \in Nat
      BY SyncAssumption
    <3> HIDE DEF SyncInv
    <3>3. /\ Len(walk'.path) = 1 /\ walk'.path[1] = case.leaf
          /\ 1..1 - 1 = {} /\ 1 \in 1..MaxDepth + 1
          /\ \A i \in 1..1 : i = 1
      BY <3>1, <3>2
    <3> QED
      BY <3>1, <3>3 DEF PathIsChain
  <2>2. CASE pc' # "walk"
    BY <2>2 DEF PathIsChain
  <2> QED
    BY <2>1, <2>2
<1>5. ChainsAgree'
  <2>1. ASSUME pc' = "walk", NEW p \in Paths, IsChain(p)' PROVE EndsWithPath(p)'
    <3>1. Len(p) \in 1..MaxDepth + 1 /\ p[Len(p)] = case.leaf
      BY <2>1 DEF IsChain, Begin
    <3>2. walk'.path = << case.leaf >>
      BY <1>1, <2>1
    <3>3. QED
      BY <3>1, <3>2, SyncAssumption DEF EndsWithPath
  <2>2. QED
    BY <2>1 DEF ChainsAgree
<1>6. Read'
  BY <1>1, ReadFrame
<1>7. InOrder'
  <2>1. cr.gen \in Nat /\ cr.readyGen \in Nat
    BY SyncAssumption DEF TypeOK, Generations
  <2>2. QED
    BY <2>1 DEF InOrder, Begin
<1>8. ReadyMeansSynced'
  BY ReadyFrame DEF Begin, server
<1>9. QED
  BY <1>3, <1>4, <1>5, <1>6, <1>7, <1>8

\* A chain of the leaf goes on above the path where the path does, and by the
\* same parent.
LEMMA ChainGoesOn ==
    ASSUME SyncInv, pc = "walk", parentRef # NoParent,
           NEW p \in Paths, IsChain(p)
    PROVE  LET above == Len(p) - Len(walk.path)
           IN  /\ above \in 1..MaxDepth /\ above < Len(p)
               /\ p[above] = parentRef
<1> DEFINE above == Len(p) - Len(walk.path)
<1>1. /\ Len(p) \in 1..MaxDepth + 1
      /\ case.parent[p[1]] = NoParent
      /\ \A i \in 1..Len(p) - 1 : case.parent[p[i + 1]] = p[i]
  BY DEF IsChain
<1>2. Len(walk.path) \in 1..MaxDepth + 1 /\ walk.path[1] = walk.cur
  BY DEF SyncInv, PathIsChain
<1>3. above >= 0 /\ \A i \in 1..Len(walk.path) : p[above + i] = walk.path[i]
  BY DEF SyncInv, ChainsAgree, EndsWithPath
<1>4. above + 1 = 1 \/ above >= 1
  BY <1>1, <1>2, <1>3, SyncAssumption
<1>5. p[above + 1] = walk.cur
  <2>1. 1 \in 1..Len(walk.path)
    BY <1>2, SyncAssumption
  <2>2. QED
    BY <1>2, <1>3, <2>1
<1>6. above + 1 # 1
  BY <1>1, <1>5 DEF parentRef
<1>7. above \in 1..Len(p) - 1 /\ above \in 1..MaxDepth /\ above < Len(p)
  BY <1>1, <1>2, <1>4, <1>6, SyncAssumption
<1>8. p[above] = parentRef
  BY <1>1, <1>5, <1>7 DEF parentRef
<1>9. QED
  BY <1>7, <1>8

\* One more namespace at the head of the path.
LEMMA StepUpKeeps ==
    ASSUME SyncInv, StepUp
    PROVE  SyncInv'
<1> DEFINE n == Len(walk.path)
<1>1. /\ TypeOK /\ PathIsChain /\ ChainsAgree /\ Read /\ InOrder
      /\ ReadyMeansSynced
  BY DEF SyncInv
<1>2. /\ pc = "walk" /\ pc' = "walk" /\ parentRef # NoParent /\ ~TooDeep
      /\ SameCatalog(parentRef) /\ case' = case
      /\ walk' = [ cur |-> parentRef, path |-> << parentRef >> \o walk.path ]
  BY DEF StepUp
<1>3. n \in 1..MaxDepth /\ walk.path \in Seq(Namespaces)
  <2>1. n \in 1..MaxDepth + 1 /\ ~(n - 1 >= MaxDepth)
    BY <1>1, <1>2 DEF PathIsChain, TooDeep, Depth
  <2>2. QED
    BY <1>1, <2>1, SyncAssumption DEF TypeOK
<1>4. walk.cur \in Namespaces /\ parentRef \in Namespaces
  <2>1. walk.path[1] \in Namespaces
    BY <1>3, SyncAssumption
  <2>2. walk.cur \in Namespaces
    BY <1>1, <1>2, <2>1 DEF PathIsChain
  <2>3. QED
    BY <1>1, <1>2, <2>2, CaseIsTyped DEF parentRef
<1>5. /\ walk'.cur = parentRef /\ walk'.path \in Seq(Namespaces)
      /\ Len(walk'.path) = n + 1 /\ walk'.path[1] = parentRef
      /\ \A i \in 2..n + 1 : walk'.path[i] = walk.path[i - 1]
  BY <1>2, <1>3, <1>4, SyncAssumption
<1>6. TypeOK'
  <2>1. Len(walk'.path) <= MaxDepth + 1
    BY <1>3, <1>5, SyncAssumption
  <2>2. QED
    BY <1>1, <1>4, <1>5, <2>1 DEF StepUp, TypeOK, server, kind
<1>7. PathIsChain'
  <2>1. Len(walk'.path) \in 1..MaxDepth + 1
    BY <1>3, <1>5, SyncAssumption
  <2>2. walk'.path[n + 1] = case.leaf
    BY <1>1, <1>2, <1>3, <1>5, SyncAssumption DEF PathIsChain
  <2>3. ASSUME NEW i \in 1..n PROVE case.parent[walk'.path[i + 1]] = walk'.path[i]
    <3>1. walk'.path[i + 1] = walk.path[i]
      BY <1>3, <1>5, <2>3, SyncAssumption
    <3>2. CASE i = 1
      BY <1>1, <1>2, <1>5, <3>1, <3>2 DEF PathIsChain, parentRef
    <3>3. CASE i # 1
      <4>1. i - 1 \in 1..n - 1 /\ i \in 2..n + 1 /\ (i - 1) + 1 = i
        BY <1>3, <2>3, <3>3, SyncAssumption
      <4>2. case.parent[walk.path[(i - 1) + 1]] = walk.path[i - 1]
        BY <1>1, <1>2, <4>1 DEF PathIsChain
      <4>3. QED
        BY <1>5, <3>1, <4>1, <4>2
    <3>4. QED
      BY <3>2, <3>3
  <2>4. ASSUME NEW i \in 1..n + 1
        PROVE  case.catalog[walk'.path[i]] = case.catalog[case.leaf]
    <3>1. CASE i = 1
      BY <1>2, <1>5, <3>1 DEF SameCatalog
    <3>2. CASE i # 1
      <4>1. i - 1 \in 1..n /\ walk'.path[i] = walk.path[i - 1]
        BY <1>3, <1>5, <2>4, <3>2, SyncAssumption
      <4>2. QED
        BY <1>1, <1>2, <4>1 DEF PathIsChain
    <3>3. QED
      BY <3>1, <3>2
  <2>5. (n + 1) - 1 = n
    BY <1>3, SyncAssumption
  <2>6. QED
    BY <1>2, <1>5, <2>1, <2>2, <2>3, <2>4, <2>5 DEF PathIsChain
<1>8. ChainsAgree'
  <2>1. ASSUME NEW p \in Paths, IsChain(p)' PROVE EndsWithPath(p)'
    <3>1. IsChain(p)
      BY <1>2, <2>1 DEF IsChain
    <3>2. /\ Len(p) - n \in 1..MaxDepth /\ p[Len(p) - n] = parentRef
          /\ Len(p) \in 1..MaxDepth + 1
      BY <1>2, <3>1, ChainGoesOn DEF IsChain
    <3>3. \A i \in 1..n : p[Len(p) - n + i] = walk.path[i]
      BY <1>1, <1>2, <3>1 DEF ChainsAgree, EndsWithPath
    <3>4. Len(p) - (n + 1) >= 0
      BY <1>3, <3>2, SyncAssumption
    <3>5. ASSUME NEW i \in 1..n + 1 PROVE p[Len(p) - (n + 1) + i] = walk'.path[i]
      <4>1. CASE i = 1
        BY <1>3, <1>5, <3>2, <4>1, SyncAssumption
      <4>2. CASE i # 1
        <5>1. /\ i - 1 \in 1..n /\ i \in 2..n + 1
              /\ Len(p) - (n + 1) + i = Len(p) - n + (i - 1)
          BY <1>3, <3>2, <3>5, <4>2, SyncAssumption
        <5>2. QED
          BY <1>5, <3>3, <5>1
      <4>3. QED
        BY <4>1, <4>2
    <3>6. QED
      BY <1>5, <3>4, <3>5 DEF EndsWithPath
  <2>2. QED
    BY <2>1 DEF ChainsAgree
<1>9. Read'
  BY <1>2, ReadFrame
<1>10. InOrder'
  BY <1>1, <1>2 DEF InOrder, StepUp
<1>11. ReadyMeansSynced'
  BY <1>1, ReadyFrame DEF StepUp, server
<1>12. QED
  BY <1>6, <1>7, <1>8, <1>9, <1>10, <1>11 DEF SyncInv

\* A walk that ends, either way.
LEMMA WalkEndKeeps ==
    ASSUME SyncInv, RefuseStep \/ EndWalk
    PROVE  SyncInv'
<1> USE DEF SyncInv
<1>1. /\ pc' \in { "get", "notReady" } /\ pc # "idle"
      /\ UNCHANGED <<case, cr, queued, mine, walk, current, present, server,
                     faults, fresh, sound, tampered>>
  BY DEF RefuseStep, EndWalk, GoTo
<1>2. TypeOK'
  BY <1>1 DEF TypeOK, server, kind
<1>3. PathIsChain' /\ ChainsAgree'
  BY <1>1, WalkFrame
<1>4. Read'
  BY <1>1, ReadFrame
<1>5. InOrder'
  BY <1>1 DEF InOrder
<1>6. ReadyMeansSynced'
  BY <1>1, ReadyFrame DEF server
<1>7. QED
  BY <1>2, <1>3, <1>4, <1>5, <1>6

-----------------------------------------------------------------------------
(* The calls.                                                              *)

\* What becomes of a read that tells nothing.
LEMMA UntypedIs ==
    ASSUME kind \in Kinds, OnUntyped
    PROVE  \/ /\ kind = "namespace"
              /\ current' = [ properties |-> EmptyMap ]
              /\ GoTo(IF namespaceDrifts(mine.spec, [ properties |-> EmptyMap ])
                      THEN "update" ELSE "ready")
              /\ UNCHANGED walk
           \/ GoTo("ready") /\ UNCHANGED <<current, walk>>
           \/ Finish(TRUE)
<1>1. CASE kind = "namespace"
  BY <1>1 DEF OnUntyped
<1>2. CASE kind \in CreateOnly \cup {"policy"}
  BY <1>2 DEF OnUntyped, CreateOnly
<1>3. CASE kind \notin CreateOnly \cup {"policy", "namespace"}
  BY <1>3 DEF OnUntyped
<1>4. QED
  BY <1>1, <1>2, <1>3

\* What a read leads to.
LEMMA LoadLeadsTo ==
    ASSUME SyncInv, loadRemote
    PROVE  /\ faults' \in 0..MaxFaults /\ fresh' \in BOOLEAN
           /\ queued' \in BOOLEAN
           /\ walk' = walk \/ walk' = NoWalk
           /\ \/ pc' \in { "idle", "notReady" }
              \/ pc' = "create" /\ ~exists
              \/ /\ pc' = "update" /\ Drifts(kind, mine.spec, current')
                 /\ IsObject(kind, current')
                 /\ fresh' => exists /\ current' = object
              \/ /\ pc' = "ready"
                 /\ fresh' => exists /\ ~Drifts(kind, mine.spec, object)
<1>1. TypeOK
  BY DEF SyncInv
<1>2. faults' \in 0..MaxFaults
  <2>1. NoFault \/ \E f \in FaultKinds : Fault(f)
    BY DEF loadRemote, FaultKinds
  <2>2. QED
    BY <1>1, <2>1, FaultsAreCounted
<1>3. kind \in Kinds
  BY <1>1, CaseIsTyped
<1>4. CASE ~exists /\ GoTo("create") /\ UNCHANGED walk /\ fresh' = TRUE
  BY <1>1, <1>2, <1>4 DEF GoTo, TypeOK
<1>5. CASE /\ exists /\ current' = object /\ UNCHANGED walk /\ fresh' = TRUE
           /\ GoTo(IF Drifts(kind, mine.spec, object) THEN "update" ELSE "ready")
  <2>1. IsObject(kind, object)
    BY <1>1, <1>5 DEF TypeOK
  <2>2. QED
    BY <1>1, <1>2, <1>5, <2>1 DEF GoTo, TypeOK
<1>6. CASE OnUntyped /\ fresh' = FALSE
  <2> DEFINE nothing == [ properties |-> EmptyMap ]
  <2>1. CASE /\ kind = "namespace" /\ current' = nothing /\ UNCHANGED walk
             /\ GoTo(IF namespaceDrifts(mine.spec, nothing)
                     THEN "update" ELSE "ready")
    <3>1. Drifts(kind, mine.spec, nothing) <=> namespaceDrifts(mine.spec, nothing)
      BY <2>1 DEF Drifts, Roles, CreateOnly
    <3>2. EmptyMap \in Maps
      <4>1. {} \in SUBSET PropertyKeys /\ EmptyMap \in [{} -> Strings]
        BY DEF EmptyMap
      <4>2. QED
        BY <4>1, FunctionIsMap
    <3>3. nothing.properties = EmptyMap
      OBVIOUS
    <3> HIDE DEF nothing
    <3>4. IsObject(kind, nothing)
      BY <2>1, <3>2, <3>3 DEF IsObject
    <3>5. QED
      BY <1>1, <1>2, <1>6, <2>1, <3>1, <3>4 DEF GoTo, TypeOK
  <2>2. CASE GoTo("ready") /\ UNCHANGED <<current, walk>>
    BY <1>1, <1>2, <1>6, <2>2 DEF GoTo, TypeOK
  <2>3. CASE Finish(TRUE)
    BY <1>1, <1>2, <1>6, <2>3 DEF Finish, TypeOK
  <2>4. QED
    BY <1>3, <1>6, <2>1, <2>2, <2>3, UntypedIs
<1>7. CASE GoTo("notReady") /\ UNCHANGED <<walk, fresh>>
  BY <1>1, <1>2, <1>7 DEF GoTo, TypeOK
<1>8. QED
  BY <1>4, <1>5, <1>6, <1>7 DEF loadRemote

\* What was read is so, until somebody else changes it.
LEMMA LoadKeeps ==
    ASSUME SyncInv, loadRemote
    PROVE  SyncInv'
<1>1. /\ TypeOK /\ PathIsChain /\ ChainsAgree /\ InOrder /\ ReadyMeansSynced
  BY DEF SyncInv
<1>2. pc = "get" /\ UNCHANGED <<case, cr, mine, present, server,
                                sound, tampered>>
  BY DEF loadRemote
<1>3. pc' \in { "idle", "notReady", "create", "update", "ready" }
  BY LoadLeadsTo
<1>4. TypeOK'
  <2>1. /\ walk'.cur \in Namespaces \cup {NoParent}
        /\ walk'.path \in Seq(Namespaces) /\ Len(walk'.path) <= MaxDepth + 1
    <3>1. NoWalk.cur = NoParent /\ NoWalk.path = <<>>
      BY DEF NoWalk
    <3>2. <<>> \in Seq(Namespaces) /\ Len(<<>>) <= MaxDepth + 1
      BY SyncAssumption
    <3>3. CASE walk' = walk
      BY <1>1, <3>3 DEF TypeOK
    <3>4. CASE walk' = NoWalk
      BY <3>1, <3>2, <3>4
    <3>5. QED
      BY <3>3, <3>4, LoadLeadsTo
  <2>2. pc' = "update" => IsObject(kind, current')
    BY LoadLeadsTo
  <2>3. /\ faults' \in 0..MaxFaults /\ fresh' \in BOOLEAN
        /\ queued' \in BOOLEAN
    BY LoadLeadsTo
  <2>4. QED
    BY <1>1, <1>2, <1>3, <2>1, <2>2, <2>3 DEF TypeOK, server, kind
<1>5. PathIsChain' /\ ChainsAgree'
  BY <1>1, <1>2, <1>3, WalkFrame
<1>6. Read'
  <2>1. kind \in Kinds /\ IsSpec(kind, mine.spec)
    BY <1>1, CaseIsTyped DEF TypeOK
  <2>2. pc' = "create" /\ fresh' => ~exists
    BY LoadLeadsTo
  <2>3. /\ pc' = "update" => Drifts(kind, mine.spec, current')
        /\ pc' = "update" /\ fresh' => exists /\ current' = object
    BY LoadLeadsTo
  <2>4. ASSUME pc' = "ready", fresh' PROVE Settled(mine.spec)
    <3>1. exists /\ ~Drifts(kind, mine.spec, object)
      BY <2>4, LoadLeadsTo
    <3>2. IsObject(kind, object)
      BY <1>1, <3>1 DEF TypeOK
    <3>3. QED
      BY <2>1, <3>1, <3>2, DriftIsNotInSync DEF Settled
  <2>5. QED
    BY <1>2, <2>2, <2>3, <2>4 DEF Read, Settled, server, kind
<1>7. InOrder'
  BY <1>1, <1>2 DEF InOrder
<1>8. ReadyMeansSynced'
  BY <1>1, <1>2, ReadyFrame DEF server
<1>9. QED
  BY <1>4, <1>5, <1>6, <1>7, <1>8 DEF SyncInv

\* What a POST leads to.
LEMMA CreateKeeps ==
    ASSUME SyncInv, createRemote
    PROVE  SyncInv'
<1>1. /\ TypeOK /\ PathIsChain /\ ChainsAgree /\ Read /\ InOrder
      /\ ReadyMeansSynced
  BY DEF SyncInv
<1>2. /\ pc = "create" /\ pc' \in { "ready", "notReady" } /\ queued' = queued
      /\ UNCHANGED <<case, cr, mine, walk, current, present,
                     fresh, sound, tampered>>
  BY DEF createRemote, GoTo, OnParentMissing
<1>3. faults' \in 0..MaxFaults
  <2>1. NoFault \/ \E f \in FaultKinds : Fault(f)
    BY DEF createRemote, FaultKinds
  <2>2. QED
    BY <1>1, <2>1, FaultsAreCounted
<1>4. kind \in Kinds /\ IsSpec(kind, mine.spec)
  BY <1>1, CaseIsTyped DEF TypeOK
<1>5. \/ Post
      \/ UNCHANGED server /\ (pc' = "ready" => exists)
  BY DEF createRemote, GoTo, OnParentMissing
<1>6. CASE Post
  <2>1. /\ IsObject(kind, Created(kind, mine.spec))
        /\ kind \in CreateOnly \/ InSync(kind, mine.spec, Created(kind, mine.spec))
    BY <1>4, CreatedIsFull, FullIsInSync
  <2>2. /\ ~exists /\ exists' = TRUE /\ there' = there
        /\ object' = Created(kind, mine.spec)
    BY <1>6 DEF Post
  <2>3. TypeOK'
    BY <1>1, <1>2, <1>3, <2>1, <2>2 DEF TypeOK, kind
  <2>4. Read'
    BY <1>2, <2>1, <2>2 DEF Read, Settled, kind
  <2>5. ReadyMeansSynced'
    BY <1>1, <1>2, <2>2 DEF ReadyMeansSynced, ReadyNow
  <2>6. PathIsChain' /\ ChainsAgree'
    BY <1>1, <1>2, WalkFrame
  <2>7. InOrder'
    BY <1>1, <1>2 DEF InOrder
  <2>8. QED
    BY <2>3, <2>4, <2>5, <2>6, <2>7 DEF SyncInv
<1>7. CASE UNCHANGED server /\ (pc' = "ready" => exists)
  <2>1. TypeOK'
    BY <1>1, <1>2, <1>3, <1>7 DEF TypeOK, kind, server
  <2>2. Read'
    BY <1>1, <1>2, <1>7 DEF Read
  <2>3. ReadyMeansSynced'
    BY <1>1, <1>2, <1>7, ReadyFrame DEF server
  <2>4. PathIsChain' /\ ChainsAgree'
    BY <1>1, <1>2, WalkFrame
  <2>5. InOrder'
    BY <1>1, <1>2 DEF InOrder
  <2>6. QED
    BY <2>1, <2>2, <2>3, <2>4, <2>5 DEF SyncInv
<1>8. QED
  BY <1>5, <1>6, <1>7

\* Whatever an update was computed from, it leaves an object.
LEMMA UpdatedIsObject ==
    ASSUME NEW k \in Kinds \ CreateOnly, NEW s, IsSpec(k, s),
           NEW o, IsObject(k, o), NEW c, IsObject(k, c)
    PROVE  IsObject(k, Updated(k, s, c, o))
<1>1. CASE k # "namespace"
  BY <1>1, UpdatedIsFull
<1>2. CASE k = "namespace"
  <2> DEFINE d == diffProperties(c.properties, s.properties)
             p == Overlay(Without(o.properties, d.removals), d.updates)
             u == [ properties |-> p ]
  <2>1. Updated(k, s, c, o) = u
    BY <1>2 DEF Updated, Patched, Roles
  <2>2. /\ s.properties \in Map /\ o.properties \in Map /\ c.properties \in Map
    BY <1>2 DEF IsSpec, IsObject, CreateOnly, Map
  <2>3. d.updates \in Map /\ Without(o.properties, d.removals) \in Map
    BY <2>2, DiffFinds, WithoutKeeps DEF Map
  <2>4. u.properties \in Map
    BY <2>3, OverlayJoins DEF Map
  <2> HIDE DEF u
  <2>5. IsObject(k, u)
    BY <1>2, <2>4 DEF IsObject, Map
  <2>6. QED
    BY <2>1, <2>5
<1>3. QED
  BY <1>1, <1>2

\* What a pass updates is of a kind that is compared.
LEMMA UpdatesNeedComparison ==
    ASSUME SyncInv, pc = "update"
    PROVE  /\ kind \in Kinds \ CreateOnly
           /\ IsSpec(kind, mine.spec) /\ IsObject(kind, current)
<1>1. kind \in Kinds /\ IsSpec(kind, mine.spec)
  BY CaseIsTyped DEF SyncInv, TypeOK
<1>2. IsObject(kind, current) /\ Drifts(kind, mine.spec, current)
  BY DEF SyncInv, TypeOK, Read
<1>3. ASSUME kind \in CreateOnly PROVE FALSE
  BY <1>2, <1>3 DEF Drifts, CreateOnly, Roles
<1>4. QED
  BY <1>1, <1>2, <1>3

\* What a PUT or a patch leads to.
LEMMA UpdateKeeps ==
    ASSUME SyncInv, updateRemote
    PROVE  SyncInv'
<1>1. /\ TypeOK /\ PathIsChain /\ ChainsAgree /\ Read /\ InOrder
      /\ ReadyMeansSynced
  BY DEF SyncInv
<1>2. /\ pc = "update" /\ pc' \in { "ready", "notReady" } /\ queued' = queued
      /\ UNCHANGED <<case, cr, mine, walk, current, present,
                     fresh, sound, tampered>>
  BY DEF updateRemote, GoTo
<1>3. faults' \in 0..MaxFaults
  <2>1. NoFault \/ \E f \in FaultKinds : Fault(f)
    BY DEF updateRemote, FaultKinds
  <2>2. QED
    BY <1>1, <2>1, FaultsAreCounted
<1>4. /\ kind \in Kinds \ CreateOnly
      /\ IsSpec(kind, mine.spec) /\ IsObject(kind, current)
  BY <1>2, UpdatesNeedComparison
<1>5. Put \/ (UNCHANGED server /\ pc' = "notReady")
  BY DEF updateRemote, GoTo
<1>6. PathIsChain' /\ ChainsAgree'
  BY <1>1, <1>2, WalkFrame
<1>7. InOrder'
  BY <1>1, <1>2 DEF InOrder
<1>8. CASE Put
  <2> DEFINE u == Updated(kind, mine.spec, current, object)
  <2>1. exists /\ exists' = exists /\ there' = there /\ object' = u
    BY <1>8 DEF Put, Refused
  <2>2. IsObject(kind, object)
    BY <1>1, <2>1 DEF TypeOK
  <2>3. IsObject(kind, u)
    BY <1>4, <2>2, UpdatedIsObject
  <2>4. kind # "namespace" \/ current = object \/ InSync(kind, mine.spec, object)
          => InSync(kind, mine.spec, u)
    BY <1>4, <2>2, UpdatedIsFull, FullIsInSync
  <2> HIDE DEF u
  <2>5. TypeOK'
    BY <1>1, <1>2, <1>3, <2>1, <2>3 DEF TypeOK, kind
  <2>6. Read'
    <3>1. fresh => current = object
      BY <1>1, <1>2 DEF Read
    <3>2. fresh => InSync(kind, mine.spec, u)
      BY <2>4, <3>1
    <3>3. QED
      BY <1>2, <2>1, <3>2 DEF Read, Settled, kind
  <2>7. ReadyMeansSynced'
    <3>1. SUFFICES ASSUME ReadyNow PROVE InSync(kind, cr.spec, u)
      BY <1>2, <2>1 DEF ReadyMeansSynced, ReadyNow, kind
    <3>2. mine.spec = cr.spec
      <4>1. cr.readyGen = cr.gen /\ cr.readyGen <= mine.gen /\ mine.gen <= cr.gen
        BY <1>1, <1>2, <3>1 DEF InOrder, ReadyNow
      <4>2. cr.gen \in Nat /\ mine.gen \in Nat
        BY <1>1, SyncAssumption DEF TypeOK, Generations
      <4>3. mine.gen = cr.gen
        BY <4>1, <4>2
      <4>4. QED
        BY <1>1, <4>3 DEF InOrder
    <3>3. InSync(kind, mine.spec, object)
      BY <1>1, <1>4, <3>1, <3>2 DEF ReadyMeansSynced
    <3>4. QED
      BY <2>4, <3>2, <3>3
  <2>8. QED
    BY <1>6, <1>7, <2>5, <2>6, <2>7 DEF SyncInv
<1>9. CASE UNCHANGED server /\ pc' = "notReady"
  <2>1. TypeOK'
    BY <1>1, <1>2, <1>3, <1>9 DEF TypeOK, kind, server
  <2>2. Read'
    BY <1>9, ReadFrame
  <2>3. ReadyMeansSynced'
    BY <1>1, <1>2, <1>9, ReadyFrame DEF server
  <2>4. QED
    BY <1>6, <1>7, <2>1, <2>2, <2>3 DEF SyncInv
<1>10. QED
  BY <1>5, <1>8, <1>9

-----------------------------------------------------------------------------
(* The status writes.                                                      *)

\* A write of the status takes effect, or leaves the resource as it is.
LEMMA WriteDoes ==
    ASSUME TypeOK, NEW o, WriteOk(o) \/ WriteErr(o)
    PROVE  /\ faults' \in 0..MaxFaults
           /\ (Newest /\ cr' = o) \/ cr' = cr
<1>1. NoFault \/ \E f \in FaultKinds : Fault(f)
  BY DEF WriteOk, WriteErr, FaultKinds
<1>2. (Newest /\ cr' = o) \/ cr' = cr
  BY DEF WriteOk, WriteErr
<1>3. QED
  BY <1>1, <1>2, FaultsAreCounted

\* Ready is written for the generation and the spec that the pass worked on.
LEMMA WriteKeeps ==
    ASSUME SyncInv, WriteReadyStatus \/ WriteNotReadyStatus
    PROVE  SyncInv'
<1> DEFINE o(r) == [ spec |-> cr.spec, gen |-> cr.gen,
                     ready |-> r, readyGen |-> mine.gen ]
<1>1. /\ TypeOK /\ PathIsChain /\ ChainsAgree /\ Read /\ InOrder
      /\ ReadyMeansSynced
  BY DEF SyncInv
<1>2. /\ pc \in { "ready", "notReady" } /\ pc' = "idle"
      /\ queued' \in BOOLEAN /\ walk' = NoWalk
      /\ UNCHANGED <<case, mine, present, server, fresh>>
  BY <1>1 DEF WriteReadyStatus, WriteNotReadyStatus, Finish, TypeOK,
              requeueAfterNotReady
<1>3. PICK r \in BOOLEAN : WriteOk(o(r)) \/ WriteErr(o(r))
  BY DEF WriteReadyStatus, WriteNotReadyStatus
<1>4. faults' \in 0..MaxFaults /\ ((Newest /\ cr' = o(r)) \/ cr' = cr)
  BY <1>1, <1>3, WriteDoes
<1>5. /\ cr'.spec = cr.spec /\ cr'.gen = cr.gen
      /\ cr'.ready \in BOOLEAN
      /\ cr'.readyGen = cr.readyGen \/ (Newest /\ cr'.readyGen = mine.gen)
  BY <1>1, <1>4 DEF TypeOK
<1>6. TypeOK'
  <2>1. cr'.readyGen \in Generations
    BY <1>1, <1>5 DEF TypeOK
  <2>2. /\ walk'.cur \in Namespaces \cup {NoParent}
        /\ walk'.path \in Seq(Namespaces) /\ Len(walk'.path) <= MaxDepth + 1
    BY <1>2, SyncAssumption DEF NoWalk
  <2>3. sound' \in BOOLEAN /\ tampered' \in BOOLEAN
    BY <1>1 DEF WriteReadyStatus, WriteNotReadyStatus, TypeOK
  <2>4. QED
    BY <1>1, <1>2, <1>4, <1>5, <2>1, <2>2, <2>3 DEF TypeOK, server, kind
<1>7. PathIsChain' /\ ChainsAgree'
  BY <1>1, <1>2, WalkFrame
<1>8. Read'
  BY <1>2, ReadFrame
<1>9. InOrder'
  BY <1>1, <1>2, <1>5 DEF InOrder
<1>10. ReadyMeansSynced'
  <2>1. CASE WriteReadyStatus
    <3>1. /\ sound' = IF cr' = o(TRUE) THEN fresh ELSE sound
          /\ pc = "ready"
          /\ (Newest /\ cr' = o(TRUE)) \/ cr' = cr
      BY <1>1, <2>1, WriteDoes DEF WriteReadyStatus
    <3>2. CASE cr' = o(TRUE)
      <4>1. SUFFICES ASSUME ReadyNow' PROVE Settled(cr.spec)
        BY <1>2, <1>5 DEF ReadyMeansSynced, Settled, kind, server
      <4>2. cr'.readyGen = cr'.gen /\ fresh
        BY <3>1, <3>2, <4>1 DEF ReadyNow
      <4>3. cr'.readyGen = mine.gen /\ cr'.gen = cr.gen
        BY <3>2
      <4>4. mine.gen = cr.gen
        BY <4>2, <4>3
      <4>5. Settled(mine.spec)
        BY <1>1, <3>1, <4>2 DEF Read
      <4>6. mine.spec = cr.spec
        BY <1>1, <4>4 DEF InOrder
      <4>7. QED
        BY <4>5, <4>6
    <3>3. CASE cr' # o(TRUE)
      BY <1>1, <1>2, <3>1, <3>3, ReadyFrame DEF server
    <3>4. QED
      BY <3>2, <3>3
  <2>2. CASE WriteNotReadyStatus
    <3>1. /\ sound' = sound
          /\ (Newest /\ cr' = o(FALSE)) \/ cr' = cr
      BY <1>1, <2>2, WriteDoes DEF WriteNotReadyStatus
    <3>2. CASE cr' = o(FALSE)
      <4>1. cr'.ready = FALSE
        BY <3>2
      <4>2. QED
        BY <4>1 DEF ReadyMeansSynced, ReadyNow
    <3>3. CASE cr' = cr
      BY <1>1, <1>2, <3>1, <3>3, ReadyFrame DEF server
    <3>4. QED
      BY <3>1, <3>2, <3>3
  <2>3. QED
    BY <2>1, <2>2
<1>11. QED
  BY <1>6, <1>7, <1>8, <1>9, <1>10 DEF SyncInv

-----------------------------------------------------------------------------
(* The rest of the system.                                                 *)

\* An edit of the spec makes what Ready says a thing of the past.
LEMMA EditKeeps ==
    ASSUME SyncInv, NEW s \in case.specs, EditSpec(s)
    PROVE  SyncInv'
<1> USE DEF SyncInv
<1>1. /\ cr'.spec = s /\ cr'.gen = cr.gen + 1
      /\ cr'.ready = cr.ready /\ cr'.readyGen = cr.readyGen
      /\ cr.gen < MaxGen /\ queued' = TRUE
      /\ UNCHANGED <<case, pc, mine, walk, current, present, server, faults,
                     fresh, sound, tampered>>
  BY DEF EditSpec
<1>2. /\ cr.gen \in 1..MaxGen /\ mine.gen \in Nat /\ cr.readyGen \in Nat
      /\ cr.gen + 1 \in 1..MaxGen
  BY <1>1, SyncAssumption DEF TypeOK, Generations
<1>3. TypeOK'
  BY <1>1, <1>2 DEF TypeOK, server, kind
<1>4. PathIsChain' /\ ChainsAgree'
  BY <1>1, WalkFrame
<1>5. Read'
  BY <1>1 DEF Read, Settled, server, kind
<1>6. mine.gen < cr'.gen /\ cr'.readyGen < cr'.gen
  BY <1>1, <1>2 DEF InOrder
<1>7. InOrder'
  BY <1>1, <1>2, <1>6 DEF InOrder
<1>8. ReadyMeansSynced'
  BY <1>1, <1>2, <1>6 DEF ReadyMeansSynced, ReadyNow
<1>9. QED
  BY <1>3, <1>4, <1>5, <1>7, <1>8

\* Somebody else changes the object: what was read of it counts no more.
LEMMA ServerChangeKeeps ==
    ASSUME SyncInv, ServerChange
    PROVE  SyncInv'
<1> USE DEF SyncInv
<1>1. /\ fresh' = FALSE /\ sound' = FALSE /\ tampered' = TRUE
      /\ faults' \in 0..MaxFaults
      /\ exists' \in BOOLEAN
      /\ UNCHANGED <<case, cr, queued, pc, mine, walk, current, present, there>>
  <2>1. Fault("server")
    BY DEF ServerChange
  <2>2. faults' \in 0..MaxFaults
    BY <2>1, FaultsAreCounted DEF FaultKinds
  <2>3. QED
    BY <2>2 DEF ServerChange
<1>2. exists' => IsObject(kind, object')
  BY CaseIsTyped DEF ServerChange
<1>3. TypeOK'
  BY <1>1, <1>2 DEF TypeOK, kind
<1>4. PathIsChain' /\ ChainsAgree'
  BY <1>1, WalkFrame
<1>5. Read'
  BY <1>1 DEF Read, kind
<1>6. InOrder'
  BY <1>1 DEF InOrder
<1>7. ReadyMeansSynced'
  BY <1>1 DEF ReadyMeansSynced, ReadyNow
<1>8. QED
  BY <1>3, <1>4, <1>5, <1>6, <1>7

\* What comes and goes around the resource and its object.
LEMMA SurroundingsKeep ==
    ASSUME SyncInv,
           \/ ParentVanishes \/ ParentAppears
           \/ \E n \in Namespaces \cup Catalogs :
                    ReferenceVanishes(n) \/ ReferenceAppears(n)
    PROVE  SyncInv'
<1> USE DEF SyncInv
<1>1. /\ faults' \in 0..MaxFaults /\ there' \in BOOLEAN
      /\ present' \subseteq Namespaces \cup Catalogs
      /\ UNCHANGED <<case, cr, queued, pc, mine, walk, current, exists, object,
                     fresh, sound, tampered>>
  <2>1. CASE ParentVanishes
    <3>1. faults' \in 0..MaxFaults
      BY <2>1, FaultsAreCounted DEF ParentVanishes, FaultKinds
    <3>2. QED
      BY <2>1, <3>1 DEF ParentVanishes, TypeOK
  <2>2. CASE ParentAppears
    BY <2>2 DEF ParentAppears, TypeOK
  <2>3. ASSUME NEW n \in Namespaces \cup Catalogs, ReferenceVanishes(n)
        PROVE  faults' \in 0..MaxFaults
    BY <2>3, FaultsAreCounted DEF ReferenceVanishes, FaultKinds
  <2>4. CASE \E n \in Namespaces \cup Catalogs : ReferenceVanishes(n)
    BY <2>3, <2>4 DEF ReferenceVanishes, TypeOK, server
  <2>5. CASE \E n \in Namespaces \cup Catalogs : ReferenceAppears(n)
    BY <2>5 DEF ReferenceAppears, TypeOK, server
  <2>6. QED
    BY <2>1, <2>2, <2>4, <2>5
<1>2. TypeOK'
  BY <1>1 DEF TypeOK, kind
<1>3. PathIsChain' /\ ChainsAgree'
  BY <1>1, WalkFrame
<1>4. Read'
  BY <1>1 DEF Read, Settled, kind
<1>5. InOrder'
  BY <1>1 DEF InOrder
<1>6. ReadyMeansSynced'
  BY <1>1, ReadyFrame
<1>7. QED
  BY <1>2, <1>3, <1>4, <1>5, <1>6

\* The pass under way is forgotten.
LEMMA RestartKeeps ==
    ASSUME SyncInv, Restart
    PROVE  SyncInv'
<1> USE DEF SyncInv
<1>1. /\ faults' \in 0..MaxFaults /\ pc' = "idle" /\ queued' = TRUE
      /\ walk' = NoWalk
      /\ UNCHANGED <<case, cr, mine, present, server, fresh, sound, tampered>>
  <2>1. faults' \in 0..MaxFaults
    BY FaultsAreCounted DEF Restart, FaultKinds
  <2>2. QED
    BY <2>1 DEF Restart
<1>2. TypeOK'
  <2>1. /\ walk'.cur \in Namespaces \cup {NoParent}
        /\ walk'.path \in Seq(Namespaces) /\ Len(walk'.path) <= MaxDepth + 1
    BY <1>1, SyncAssumption DEF NoWalk
  <2>2. QED
    BY <1>1, <2>1 DEF TypeOK, server, kind
<1>3. PathIsChain' /\ ChainsAgree'
  BY <1>1, WalkFrame
<1>4. Read'
  BY <1>1, ReadFrame
<1>5. InOrder'
  BY <1>1 DEF InOrder
<1>6. ReadyMeansSynced'
  BY <1>1, ReadyFrame DEF server
<1>7. QED
  BY <1>2, <1>3, <1>4, <1>5, <1>6

\* A step that changes nothing.
LEMMA StutterKeeps ==
    ASSUME SyncInv, UNCHANGED vars
    PROVE  SyncInv'
<1> USE DEF SyncInv
<1>1. UNCHANGED <<case, cr, queued, pc, mine, walk, current, present, there,
                  exists, object, faults, fresh, sound, tampered>>
  BY DEF vars, server
<1>2. TypeOK'
  BY <1>1 DEF TypeOK, kind
<1>3. PathIsChain' /\ ChainsAgree'
  BY <1>1, WalkFrame
<1>4. Read'
  BY <1>1 DEF Read, Settled, kind
<1>5. InOrder'
  BY <1>1 DEF InOrder
<1>6. ReadyMeansSynced'
  BY <1>1, ReadyFrame
<1>7. QED
  BY <1>2, <1>3, <1>4, <1>5, <1>6

\* At first nothing was read, and Ready is not set.
LEMMA InitEstablishes ==
    ASSUME Init
    PROVE  SyncInv
<1>1. PICK s \in case.specs :
            cr = [ spec |-> s, gen |-> 1, ready |-> FALSE, readyGen |-> 0 ]
  BY DEF Init
<1>2. /\ cr.spec \in case.specs /\ cr.gen = 1 /\ cr.ready = FALSE
      /\ cr.readyGen = 0 /\ mine.spec = cr.spec /\ mine.gen = 0
      /\ pc = "idle"
  BY <1>1 DEF Init
<1>3. \A o \in case.contents : IsObject(kind, o)
  BY SyncAssumption DEF Init, kind
<1>4. TypeOK
  <2>1. exists \in BOOLEAN /\ (exists => IsObject(kind, object))
    BY <1>3 DEF Init
  <2>2. cr.gen \in 1..MaxGen /\ 0 \in Generations /\ faults \in 0..MaxFaults
    BY <1>2, SyncAssumption DEF Init, Generations
  <2>3. /\ walk.cur \in Namespaces \cup {NoParent}
        /\ walk.path \in Seq(Namespaces) /\ Len(walk.path) <= MaxDepth + 1
    BY SyncAssumption DEF Init, NoWalk
  <2>4. QED
    BY <1>2, <2>1, <2>2, <2>3 DEF Init, TypeOK
<1>5. PathIsChain /\ ChainsAgree /\ Read
  BY <1>2 DEF PathIsChain, ChainsAgree, Read
<1>6. InOrder
  BY <1>2 DEF InOrder
<1>7. ReadyMeansSynced
  BY <1>2 DEF ReadyMeansSynced, ReadyNow
<1>8. QED
  BY <1>4, <1>5, <1>6, <1>7 DEF SyncInv

\* No step breaks the invariant.
LEMMA StepKeeps ==
    ASSUME SyncInv, [Next]_vars
    PROVE  SyncInv'
<1>1. CASE Begin
  BY <1>1, BeginKeeps
<1>2. CASE Reconcile
  BY <1>2, StepUpKeeps, WalkEndKeeps, LoadKeeps, CreateKeeps, UpdateKeeps,
     WriteKeeps DEF Reconcile
<1>3. CASE Environment
  BY <1>3, EditKeeps, ServerChangeKeeps, SurroundingsKeep, RestartKeeps
     DEF Environment
<1>4. CASE UNCHANGED vars
  BY <1>4, StutterKeeps
<1>5. QED
  BY <1>1, <1>2, <1>3, <1>4 DEF Next

\* The invariant holds of every behaviour.
LEMMA Invariant == Spec => []SyncInv
<1>1. Init => SyncInv
  BY InitEstablishes
<1>2. SyncInv /\ [Next]_vars => SyncInv'
  BY StepKeeps
<1>3. QED
  BY <1>1, <1>2, PTL DEF Spec

-----------------------------------------------------------------------------
(* The theorems.                                                           *)

\* Every variable keeps its type: the walk up parentRef stays within maxDepth,
\* and a pass updates only what it has read.
THEOREM TypeCorrect == Spec => []TypeOK
<1>1. SyncInv => TypeOK
  BY DEF SyncInv
<1>2. QED
  BY <1>1, Invariant, PTL

\* Ready for the stored generation means that the object is what the spec says,
\* as long as nobody else has touched it since it was read.
THEOREM Deserved == Spec => []ReadyMeansSynced
<1>1. SyncInv => ReadyMeansSynced
  BY DEF SyncInv
<1>2. QED
  BY <1>1, Invariant, PTL

\* What a pass found in sync it does not update: no reconcile hot-loop.
THEOREM NoHotLoop == Spec => []UpdatesOnlyDrift
<1>1. ASSUME SyncInv PROVE UpdatesOnlyDrift
  <2>1. SUFFICES ASSUME pc = "update", ~NeverSettles(mine.spec)
                 PROVE  ~InSync(kind, mine.spec, current)
    BY DEF UpdatesOnlyDrift
  <2>2. /\ kind \in Kinds \ CreateOnly
        /\ IsSpec(kind, mine.spec) /\ IsObject(kind, current)
    BY <1>1, <2>1, UpdatesNeedComparison
  <2>3. Drifts(kind, mine.spec, current)
    BY <1>1, <2>1 DEF SyncInv, Read
  <2>4. ~Reserves(kind, mine.spec)
    BY <2>1 DEF Reserves, NeverSettles
  <2>5. QED
    BY <2>2, <2>3, <2>4, DriftIsNotInSync
<1>2. QED
  BY <1>1, Invariant, PTL

\* resolveNamespacePath ends with the chain of the leaf, or there is none.
THEOREM Resolved == Spec => ResolveIsRight
<1>1. ASSUME SyncInv, Next, pc = "walk", pc' = "get" PROVE IsChain(walk.path)
  <2>1. EndWalk
    <3>1. ~Begin
      BY <1>1 DEF Begin
    <3>2. ~Environment
      BY <1>1 DEF Environment, EditSpec, ServerChange, ParentVanishes,
                  ParentAppears, ReferenceVanishes, ReferenceAppears, Restart
    <3>3. QED
      BY <1>1, <3>1, <3>2
         DEF Next, Reconcile, StepUp, RefuseStep, GoTo, loadRemote, createRemote,
             updateRemote, WriteReadyStatus, WriteNotReadyStatus
  <2>2. case.parent[walk.cur] = NoParent
    BY <2>1 DEF EndWalk, parentRef
  <2>3. PathIsChain
    BY <1>1 DEF SyncInv
  <2>4. QED
    BY <1>1, <2>2, <2>3 DEF PathIsChain, IsChain
<1>2. ASSUME SyncInv, Next, pc = "walk", pc' = "notReady",
             NEW p \in Paths, IsChain(p), Exists(p)
      PROVE  FALSE
  <2>1. RefuseStep \/ EndWalk
    <3>1. ~Begin
      BY <1>2 DEF Begin
    <3>2. ~Environment
      BY <1>2 DEF Environment, EditSpec, ServerChange, ParentVanishes,
                  ParentAppears, ReferenceVanishes, ReferenceAppears, Restart
    <3>3. QED
      BY <1>2, <3>1, <3>2
         DEF Next, Reconcile, StepUp, loadRemote, createRemote,
             updateRemote, WriteReadyStatus, WriteNotReadyStatus
  <2>2. CASE EndWalk
    BY <1>2, <2>2 DEF EndWalk, GoTo, Exists
  <2>3. CASE RefuseStep
    <3> DEFINE above == Len(p) - Len(walk.path)
    <3>1. /\ parentRef # NoParent
          /\ TooDeep \/ parentRef \notin present \/ ~SameCatalog(parentRef)
      BY <2>3 DEF RefuseStep
    <3>2. above \in 1..MaxDepth /\ above < Len(p) /\ p[above] = parentRef
      BY <1>2, <3>1, ChainGoesOn
    <3>3. Len(p) \in 1..MaxDepth + 1 /\ Len(walk.path) \in 1..MaxDepth + 1
      BY <1>2 DEF IsChain, SyncInv, PathIsChain
    <3>4. above \in 1..Len(p) - 1 /\ above \in 1..Len(p)
      BY <3>2, <3>3, SyncAssumption
    <3>5. ~TooDeep
      BY <3>2, <3>3, SyncAssumption DEF TooDeep, Depth
    <3>6. p[above] \in present
      BY <1>2, <3>4 DEF Exists
    <3>7. SameCatalog(p[above])
      BY <1>2, <3>4 DEF IsChain, SameCatalog
    <3>8. QED
      BY <3>1, <3>2, <3>5, <3>6, <3>7
  <2>4. QED
    BY <2>1, <2>2, <2>3
<1>3. SyncInv /\ [Next]_vars =>
        [pc = "walk" =>
            /\ pc' = "get" => IsChain(walk.path)
            /\ pc' = "notReady" => ~\E p \in Paths : IsChain(p) /\ Exists(p)]_vars
  BY <1>1, <1>2
<1>4. QED
  BY <1>3, Invariant, PTL DEF Spec, ResolveIsRight

\* An update replaces what it was computed from; a patch touches nothing else.
THEOREM OthersSpared == Spec => MindsOthers
<1> DEFINE Minds ==
        pc = "update" /\ object' # object /\ ~UNCHANGED pc =>
        IF kind = "namespace"
        THEN \A k \in Keys(object.properties) \cup Keys(object'.properties) :
                Entry(current.properties, k) = Entry(mine.spec.properties, k)
                  => Entry(object'.properties, k) = Entry(object.properties, k)
        ELSE object = current
<1>1. ASSUME SyncInv, Next PROVE Minds
  <2>1. SUFFICES ASSUME pc = "update", object' # object, ~UNCHANGED pc
                 PROVE  IF kind = "namespace"
                        THEN \A k : Entry(current.properties, k)
                                        = Entry(mine.spec.properties, k)
                                => Entry(object'.properties, k)
                                        = Entry(object.properties, k)
                        ELSE object = current
    OBVIOUS
  <2>2. updateRemote
    <3>1. ~Begin
      BY <2>1 DEF Begin
    <3>2. ~Environment
      BY <2>1 DEF Environment, EditSpec, ServerChange, ParentVanishes,
                  ParentAppears, ReferenceVanishes, ReferenceAppears, Restart,
                  server
    <3>3. QED
      BY <1>1, <2>1, <3>1, <3>2
         DEF Next, Reconcile, StepUp, RefuseStep, EndWalk, loadRemote,
             createRemote, WriteReadyStatus, WriteNotReadyStatus
  <2>3. Put
    BY <2>1, <2>2 DEF updateRemote, server
  <2>4. /\ kind \in Kinds \ CreateOnly
        /\ IsSpec(kind, mine.spec) /\ IsObject(kind, current)
    BY <1>1, <2>1, UpdatesNeedComparison
  <2>5. exists /\ IsObject(kind, object)
    BY <1>1, <2>3 DEF Put, Refused, SyncInv, TypeOK
  <2>6. CASE kind = "namespace"
    <3>1. /\ mine.spec.properties \in Map /\ object.properties \in Map
          /\ current.properties \in Map
      BY <2>4, <2>5, <2>6 DEF IsSpec, IsObject, CreateOnly, Map
    <3>2. object' = Patched(object, diffProperties(current.properties,
                                                   mine.spec.properties))
      BY <2>3, <2>6 DEF Put, Updated, Roles
    <3>3. ASSUME NEW k,
                 Entry(current.properties, k) = Entry(mine.spec.properties, k)
          PROVE  Entry(object'.properties, k) = Entry(object.properties, k)
      BY <3>1, <3>2, <3>3, PatchSpares DEF Patched
    <3>4. QED
      BY <2>6, <3>3
  <2>7. CASE kind # "namespace"
    BY <1>1, <2>1, <2>3, <2>7 DEF Put, Refused, Versioned, SyncInv, Read
  <2>8. QED
    BY <2>6, <2>7
<1>2. SyncInv /\ [Next]_vars => [Minds]_vars
  BY <1>1
<1>3. QED
  BY <1>2, Invariant, PTL DEF Spec, MindsOthers

\* What a POST makes is all of the spec, in the fields that no pass reads back
\* too.
THEOREM FullFidelity == Spec => CreatedInFull
<1> DEFINE Full == pc = "create" /\ ~exists /\ exists' /\ ~UNCHANGED pc =>
                        InFull(kind, mine.spec, object')
<1>1. ASSUME SyncInv, Next PROVE Full
  <2>1. SUFFICES ASSUME pc = "create", ~exists, exists', ~UNCHANGED pc
                 PROVE  InFull(kind, mine.spec, object')
    OBVIOUS
  <2>2. createRemote
    <3>1. ~Begin
      BY <2>1 DEF Begin
    <3>2. ~Environment
      BY <2>1 DEF Environment, EditSpec, ServerChange, ParentVanishes,
                  ParentAppears, ReferenceVanishes, ReferenceAppears, Restart,
                  server
    <3>3. QED
      BY <1>1, <2>1, <3>1, <3>2
         DEF Next, Reconcile, StepUp, RefuseStep, EndWalk, loadRemote,
             updateRemote, WriteReadyStatus, WriteNotReadyStatus
  <2>3. Post
    BY <2>1, <2>2 DEF createRemote, server
  <2>4. kind \in Kinds /\ IsSpec(kind, mine.spec)
    BY <1>1, CaseIsTyped DEF SyncInv, TypeOK
  <2>5. QED
    BY <2>3, <2>4, CreatedIsFull DEF Post
<1>2. SyncInv /\ [Next]_vars => [Full]_vars
  BY <1>1
<1>3. QED
  BY <1>2, Invariant, PTL DEF Spec, CreatedInFull
-----------------------------------------------------------------------------
(* Passes end, and are not the last while there is work.                   *)

\* A walk has at most MaxDepth + 1 namespaces on its path.
LEMMA WalkIsBounded ==
    ASSUME SyncInv, pc = "walk"
    PROVE  Len(walk.path) \in 1..MaxDepth + 1
BY DEF SyncInv, PathIsChain

\* A parentRef followed is one call less to make: the path grows, and the walk
\* stops before it grows past MaxDepth + 1.
LEMMA StepUpEnds ==
    ASSUME SyncInv, StepUp
    PROVE  CallsLeft' \in Nat /\ CallsLeft' < CallsLeft
<1>1. pc = "walk" /\ pc' = "walk"
  BY DEF StepUp
<1>2. Len(walk.path) \in 1..MaxDepth + 1
  BY <1>1, WalkIsBounded
<1>3. Len(walk'.path) = Len(walk.path) + 1
  <2>1. /\ walk' = [ cur |-> parentRef, path |-> << parentRef >> \o walk.path ]
        /\ parentRef # NoParent
    BY DEF StepUp
  <2>2. walk.path \in Seq(Namespaces) /\ walk.cur \in Namespaces \cup {NoParent}
    BY DEF SyncInv, TypeOK
  <2>3. parentRef \in Namespaces
    <3>1. walk.cur \in Namespaces
      BY <1>1, <1>2, <2>2, SyncAssumption DEF SyncInv, PathIsChain
    <3> QED
      BY <2>1, <3>1, CaseIsTyped DEF parentRef, SyncInv, TypeOK
  <2> QED
    BY <2>1, <2>2, <2>3
<1>4. Len(walk.path) <= MaxDepth
  BY <1>1, <1>2, SyncAssumption DEF StepUp, TooDeep, Depth
<1>5. MaxDepth \in Nat
  BY SyncAssumption
<1> QED
  BY <1>1, <1>2, <1>3, <1>4, <1>5 DEF CallsLeft

\* The walk's last call, and every call of the pass after it.
LEMMA CallEnds ==
    ASSUME SyncInv, Reconcile, ~StepUp
    PROVE  CallsLeft' \in Nat /\ CallsLeft' < CallsLeft
<1>1. CASE RefuseStep \/ EndWalk
  <2>1. pc = "walk" /\ pc' \in { "get", "notReady" }
    BY <1>1 DEF RefuseStep, EndWalk, GoTo
  <2>2. Len(walk.path) \in 1..MaxDepth + 1
    BY <2>1, WalkIsBounded
  <2>3. MaxDepth \in Nat
    BY SyncAssumption
  <2> QED
    BY <2>1, <2>2, <2>3 DEF CallsLeft
<1>2. CASE loadRemote
  <2>1. pc = "get"
    BY <1>2 DEF loadRemote
  <2>2. pc' \in { "idle", "notReady", "create", "update", "ready" }
    BY <1>2, LoadLeadsTo
  <2> QED
    BY <2>1, <2>2 DEF CallsLeft
<1>3. CASE createRemote \/ updateRemote
  <2>1. pc \in { "create", "update" } /\ pc' \in { "ready", "notReady" }
    BY <1>3 DEF createRemote, updateRemote, GoTo, OnParentMissing
  <2> QED
    BY <2>1 DEF CallsLeft
<1>4. CASE WriteReadyStatus \/ WriteNotReadyStatus
  <2>1. pc \in { "ready", "notReady" } /\ pc' = "idle"
    BY <1>4 DEF WriteReadyStatus, WriteNotReadyStatus, Finish
  <2> QED
    BY <2>1 DEF CallsLeft
<1> QED
  BY <1>1, <1>2, <1>3, <1>4 DEF Reconcile

\* However the parentRefs are tied and whatever is created and deleted under
\* the walk, a pass makes no more than MaxDepth + 5 calls.
THEOREM Ends == Spec => PassEnds
<1>1. ASSUME SyncInv, [Next]_vars
      PROVE  [Reconcile => CallsLeft' \in Nat /\ CallsLeft' < CallsLeft]_vars
  BY <1>1, StepUpEnds, CallEnds
<1> QED
  BY <1>1, Invariant, PTL DEF Spec, PassEnds

\* A pass ends with Ready for the generation it read, which is the stored one if
\* its status write is accepted, or with a requeue.
LEMMA RememberStep ==
    ASSUME SyncInv, NeverForgotten, [Next]_vars
    PROVE  NeverForgotten'
<1> USE DEF NeverForgotten
<1>1. CASE Begin
  BY <1>1 DEF Begin
<1>2. CASE StepUp \/ RefuseStep \/ EndWalk
  BY <1>2 DEF StepUp, RefuseStep, EndWalk, GoTo
<1>3. CASE loadRemote
  <2>1. pc' # "idle" \/ queued'
    BY <1>3, Zenon DEF loadRemote, OnUntyped, GoTo, Finish
  <2> QED
    BY <2>1
<1>4. CASE createRemote \/ updateRemote
  BY <1>4 DEF createRemote, updateRemote, GoTo, OnParentMissing
<1>5. CASE WriteReadyStatus
  <2> DEFINE o == [ spec |-> cr.spec, gen |-> cr.gen,
                    ready |-> TRUE, readyGen |-> mine.gen ]
  <2>1. CASE WriteOk(o)
    <3>1. cr' = o /\ mine.gen = cr.gen
      BY <2>1 DEF WriteOk, Newest
    <3> QED
      BY <3>1
  <2>2. CASE WriteErr(o) /\ Finish(TRUE)
    BY <2>2 DEF Finish
  <2> QED
    BY <1>5, <2>1, <2>2 DEF WriteReadyStatus
<1>6. CASE WriteNotReadyStatus
  BY <1>6 DEF WriteNotReadyStatus, Finish, requeueAfterNotReady
<1>7. CASE Environment
  BY <1>7 DEF Environment, EditSpec, ServerChange, ParentVanishes,
              ParentAppears, ReferenceVanishes, ReferenceAppears, Restart
<1>8. CASE UNCHANGED vars
  BY <1>8 DEF vars
<1> QED
  BY <1>1, <1>2, <1>3, <1>4, <1>5, <1>6, <1>7, <1>8 DEF Next, Reconcile

\* No reference and no object on the server wakes a resource that waits for it:
\* the reconcilers' own requeues do.
THEOREM Remembered == Spec => []NeverForgotten
<1>1. Init => NeverForgotten
  BY DEF Init, NeverForgotten
<1>2. SyncInv /\ NeverForgotten /\ [Next]_vars => NeverForgotten'
  BY RememberStep
<1> QED
  BY <1>1, <1>2, Invariant, PTL DEF Spec

-----------------------------------------------------------------------------
(* The resource and its object, of which the rest is the detail.           *)

\* What a pass is about to update, or to call Ready, is there, unless somebody
\* else took it away.
Placed == pc \in {"update", "ready"} => exists \/ tampered

\* A GET that finds the object and a POST that makes it, or meets it, are the
\* ways to an update or to Ready; only somebody else deletes the object.
LEMMA PlacedStep ==
    ASSUME SyncInv, Placed, [Next]_vars
    PROVE  Placed'
<1> USE DEF Placed, GoTo
<1>1. CASE Begin \/ StepUp \/ RefuseStep \/ EndWalk
  BY <1>1 DEF Begin, StepUp, RefuseStep, EndWalk, server
<1>2. CASE loadRemote
  BY <1>2, Zenon DEF loadRemote, OnUntyped, Finish, server
<1>3. CASE createRemote \/ updateRemote
  BY <1>3 DEF createRemote, updateRemote, Post, Put, Refused, OnParentMissing,
              server
<1>4. CASE WriteReadyStatus \/ WriteNotReadyStatus
  BY <1>4 DEF WriteReadyStatus, WriteNotReadyStatus, Finish
<1>5. CASE Environment
  BY <1>5 DEF Environment, EditSpec, ServerChange, ParentVanishes,
              ParentAppears, ReferenceVanishes, ReferenceAppears, Restart,
              server
<1>6. CASE UNCHANGED vars
  BY <1>6 DEF vars, server
<1> QED
  BY <1>1, <1>2, <1>3, <1>4, <1>5, <1>6 DEF Next, Reconcile

\* The status writes report, a POST creates, and somebody else interferes; all
\* other steps leave the resource as the abstract specification sees it.
LEMMA ResourceStep ==
    ASSUME SyncInv, Placed, [Next]_vars
    PROVE  [Resource!Next]_(Resource!resource)
<1> DEFINE same == UNCHANGED <<cr.ready, exists, tampered>>
<1> USE DEF Resource!resource
<1>1. CASE Begin \/ StepUp \/ RefuseStep \/ EndWalk
  <2>1. same
    BY <1>1 DEF Begin, StepUp, RefuseStep, EndWalk, server
  <2> QED
    BY <2>1
<1>2. CASE loadRemote
  <2>1. same
    BY <1>2 DEF loadRemote, server
  <2> QED
    BY <2>1
<1>3. CASE createRemote
  <2>1. UNCHANGED <<cr.ready, tampered>> /\ (Post \/ UNCHANGED exists)
    BY <1>3 DEF createRemote, server
  <2>2. CASE UNCHANGED exists
    BY <2>1, <2>2
  <2>3. CASE Post
    <3>1. Resource!Create
      BY <2>1, <2>3 DEF Resource!Create, Post
    <3> QED
      BY <3>1 DEF Resource!Next
  <2> QED
    BY <2>1, <2>2, <2>3
<1>4. CASE updateRemote
  <2>1. same
    BY <1>4 DEF updateRemote, Put, server
  <2> QED
    BY <2>1
<1>5. CASE WriteReadyStatus \/ WriteNotReadyStatus
  <2>1. /\ UNCHANGED <<exists, tampered>>
        /\ WriteReadyStatus => exists \/ tampered
    BY <1>5 DEF WriteReadyStatus, WriteNotReadyStatus, Placed, server
  <2>2. /\ cr.ready \in BOOLEAN
        /\ \/ cr' = cr
           \/ WriteReadyStatus /\ cr'.ready = TRUE
           \/ WriteNotReadyStatus /\ cr'.ready = FALSE
    <3> DEFINE o(r) == [ spec |-> cr.spec, gen |-> cr.gen,
                         ready |-> r, readyGen |-> mine.gen ]
    <3>1. cr.ready \in BOOLEAN
      BY DEF SyncInv, TypeOK
    <3>2. \/ WriteReadyStatus /\ (cr' = cr \/ cr' = o(TRUE))
          \/ WriteNotReadyStatus /\ (cr' = cr \/ cr' = o(FALSE))
      BY <1>5 DEF WriteReadyStatus, WriteNotReadyStatus, WriteOk, WriteErr
    <3> QED
      BY <3>1, <3>2
  <2>3. CASE cr'.ready = cr.ready
    BY <2>1, <2>3
  <2>4. CASE cr'.ready # cr.ready
    <3>1. cr'.ready = ~cr.ready /\ (cr'.ready => exists \/ tampered)
      BY <2>1, <2>2, <2>4
    <3>2. Resource!Report
      BY <2>1, <3>1 DEF Resource!Report
    <3> QED
      BY <3>2 DEF Resource!Next
  <2> QED
    BY <2>3, <2>4
<1>6. CASE ServerChange
  <2>1. tampered' = TRUE /\ exists' \in BOOLEAN /\ cr' = cr
    BY <1>6 DEF ServerChange
  <2>2. Resource!Interfere
    BY <2>1 DEF Resource!Interfere
  <2> QED
    BY <2>2 DEF Resource!Next
<1>7. CASE Environment /\ ~ServerChange
  <2>1. same
    BY <1>7 DEF Environment, EditSpec, ParentVanishes, ParentAppears,
                ReferenceVanishes, ReferenceAppears, Restart, server
  <2> QED
    BY <2>1
<1>8. CASE UNCHANGED vars
  BY <1>8 DEF vars, server
<1> QED
  BY <1>1, <1>2, <1>3, <1>4, <1>5, <1>6, <1>7, <1>8 DEF Next, Reconcile

\* Whatever walk, comparison, conflict, lost answer or answer without JSON a pass
\* goes through, Ready is claimed of an object that the server has, and none but
\* somebody else takes it away.
THEOREM Implements == Spec => ImplementsResource
<1>1. Init => Placed
  BY DEF Init, Placed
<1>2. SyncInv /\ Placed /\ [Next]_vars => Placed'
  BY PlacedStep
<1>3. SyncInv /\ Placed /\ [Next]_vars => [Resource!Next]_(Resource!resource)
  BY ResourceStep
<1> QED
  BY <1>1, <1>2, <1>3, Invariant, PTL DEF Spec, ImplementsResource
=============================================================================
