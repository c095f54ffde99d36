-------------------------- MODULE PolarisDriftProofs --------------------------
(***************************************************************************)
(* For any keys, values and contents: the comparisons tell whether an      *)
(* object is what its spec says, and the request bodies make it so.        *)
(***************************************************************************)
EXTENDS PolarisDrift, FiniteSetTheorems, TLAPS

\* A map of a spec or of an object: nil, or not.
Map == Maps \cup {Nil}

-----------------------------------------------------------------------------
(* Maps.                                                                   *)

\* What is written as a function on some keys is a map, and not nil.
LEMMA FunctionIsMap ==
    ASSUME NEW ks \in SUBSET PropertyKeys, NEW m \in [ks -> Strings]
    PROVE  m \in Maps /\ m # Nil /\ Keys(m) = ks
<1>1. m \in Maps
  BY DEF Maps
<1>2. QED
  BY <1>1, DriftAssumption DEF Keys

\* A map has finitely many keys, of those that there are, and strings.
LEMMA MapTyped ==
    ASSUME NEW m \in Map
    PROVE  /\ Keys(m) \subseteq PropertyKeys /\ IsFiniteSet(Keys(m))
           /\ \A k \in Keys(m) : m[k] \in Strings
<1>1. CASE m = Nil
  BY <1>1, FS_EmptySet DEF Keys
<1>2. CASE m # Nil
  <2>1. PICK ks \in SUBSET PropertyKeys : m \in [ks -> Strings]
    BY <1>2 DEF Map, Maps
  <2>2. Keys(m) = ks
    BY <2>1, FunctionIsMap
  <2>3. IsFiniteSet(ks)
    BY <2>1, FS_Subset, DriftAssumption
  <2>4. QED
    BY <2>1, <2>2, <2>3
<1>3. QED
  BY <1>1, <1>2

\* A map without some keys keeps the others.
LEMMA WithoutKeeps ==
    ASSUME NEW m \in Map, NEW ks
    PROVE  /\ Without(m, ks) \in Maps
           /\ Keys(Without(m, ks)) = Keys(m) \ ks
           /\ \A k \in Keys(m) \ ks : Without(m, ks)[k] = m[k]
<1>1. Without(m, ks) \in [Keys(m) \ ks -> Strings]
  BY MapTyped DEF Without
<1>2. Keys(m) \ ks \in SUBSET PropertyKeys
  BY MapTyped
<1>3. \A k \in Keys(m) \ ks : Without(m, ks)[k] = m[k]
  BY DEF Without
<1>4. QED
  BY <1>1, <1>2, <1>3, FunctionIsMap

\* An overlay has the entries of both, and the second map's where both have one.
LEMMA OverlayJoins ==
    ASSUME NEW m \in Map, NEW n \in Map
    PROVE  /\ Overlay(m, n) \in Maps
           /\ Keys(Overlay(m, n)) = Keys(m) \cup Keys(n)
           /\ \A k \in Keys(n) : Overlay(m, n)[k] = n[k]
           /\ \A k \in Keys(m) \ Keys(n) : Overlay(m, n)[k] = m[k]
<1>1. Overlay(m, n) \in [Keys(m) \cup Keys(n) -> Strings]
  BY MapTyped DEF Overlay
<1>2. Keys(m) \cup Keys(n) \in SUBSET PropertyKeys
  BY MapTyped
<1>3. /\ \A k \in Keys(n) : Overlay(m, n)[k] = n[k]
      /\ \A k \in Keys(m) \ Keys(n) : Overlay(m, n)[k] = m[k]
  BY DEF Overlay
<1>4. QED
  BY <1>1, <1>2, <1>3, FunctionIsMap

\* JSON's omission of an empty map loses nothing, and nor does copyStringMap.
LEMMA SameAfterJSON ==
    ASSUME NEW m \in Map
    PROVE  /\ OmitEmpty(m) \in Map /\ SameEntries(OmitEmpty(m), m)
           /\ copyStringMap(m) \in Map /\ SameEntries(copyStringMap(m), m)
<1>1. EmptyMap \in Maps /\ Keys(EmptyMap) = {}
  <2>1. EmptyMap \in [{} -> Strings]
    BY DEF EmptyMap
  <2>2. QED
    BY <2>1, FunctionIsMap
<1>2. Keys(Nil) = {}
  BY DEF Keys
<1>3. OmitEmpty(m) \in Map /\ SameEntries(OmitEmpty(m), m)
  BY <1>2 DEF OmitEmpty, SameEntries, Map
<1>4. copyStringMap(m) \in Map /\ SameEntries(copyStringMap(m), m)
  BY <1>1, <1>2 DEF copyStringMap, SameEntries, Map
<1>5. QED
  BY <1>3, <1>4

-----------------------------------------------------------------------------
(* Comparisons.                                                            *)

\* equalProperties, which counts keys and looks each of one map up in the other,
\* is equality of entries, whether a map is nil or empty.
THEOREM EqualPropertiesIsSame ==
    ASSUME NEW a \in Map, NEW b \in Map
    PROVE  equalProperties(a, b) <=> SameEntries(a, b)
<1>1. ASSUME equalProperties(a, b) PROVE SameEntries(a, b)
  <2>1. Keys(a) \subseteq Keys(b) /\ Cardinality(Keys(a)) = Cardinality(Keys(b))
    BY <1>1 DEF equalProperties
  <2>2. Keys(a) = Keys(b)
    BY <2>1, MapTyped, FS_Subset
  <2>3. QED
    BY <1>1, <2>2 DEF equalProperties, SameEntries
<1>2. ASSUME SameEntries(a, b) PROVE equalProperties(a, b)
  BY <1>2 DEF equalProperties, SameEntries
<1>3. QED
  BY <1>1, <1>2

\* The elements of a list number its length at most, and exactly if it has no
\* duplicates.
LEMMA ElementsCounted ==
    ASSUME NEW s, DuplicateFree(s)
    PROVE  IsFiniteSet(Elements(s)) /\ Cardinality(Elements(s)) = Len(s)
<1>1. s \in Seq(Strings) /\ Len(s) \in Nat /\ DOMAIN s = 1..Len(s)
  BY DEF DuplicateFree
<1>2. s \in Bijection(1..Len(s), Elements(s))
  <2>1. s \in [1..Len(s) -> Elements(s)]
    BY <1>1 DEF Elements
  <2>2. \A i, j \in 1..Len(s) : s[i] = s[j] => i = j
    BY <1>1 DEF DuplicateFree
  <2>3. \A e \in Elements(s) : \E i \in 1..Len(s) : s[i] = e
    BY <1>1 DEF Elements
  <2>4. QED
    BY <2>1, <2>2, <2>3 DEF Bijection, Injection, Surjection, IsInjective
<1>3. ExistsBijection(1..Len(s), Elements(s))
  BY <1>2 DEF ExistsBijection
<1>4. QED
  BY <1>1, <1>3, FS_NatBijection, FS_CountingElements

\* equalStringSet, which compares lengths and looks for each string of one list
\* in the other, is equality of sets for lists without duplicates.
THEOREM EqualStringSetIsSame ==
    ASSUME NEW a, NEW b, DuplicateFree(a), DuplicateFree(b)
    PROVE  equalStringSet(a, b) <=> Elements(a) = Elements(b)
<1>1. /\ IsFiniteSet(Elements(a)) /\ Cardinality(Elements(a)) = Len(a)
      /\ IsFiniteSet(Elements(b)) /\ Cardinality(Elements(b)) = Len(b)
  BY ElementsCounted
<1>2. ASSUME equalStringSet(a, b) PROVE Elements(a) = Elements(b)
  <2>1. Elements(b) \subseteq Elements(a)
    BY <1>2 DEF equalStringSet, Elements
  <2>2. Cardinality(Elements(b)) = Cardinality(Elements(a))
    BY <1>1, <1>2 DEF equalStringSet
  <2>3. QED
    BY <1>1, <2>1, <2>2, FS_Subset
<1>3. ASSUME Elements(a) = Elements(b) PROVE equalStringSet(a, b)
  <2>1. Len(a) = Len(b)
    BY <1>1, <1>3
  <2>2. \A i \in DOMAIN b : b[i] \in Elements(b)
    BY DEF Elements
  <2>3. QED
    BY <1>3, <2>1, <2>2 DEF equalStringSet
<1>4. QED
  BY <1>2, <1>3

\* What diffProperties finds: the desired entries that the observed map has not
\* got, and the keys that only it has.
LEMMA DiffFinds ==
    ASSUME NEW observed \in Map, NEW desired \in Map
    PROVE  LET d == diffProperties(observed, desired)
           IN  /\ d.updates \in Map
               /\ Keys(d.updates) = { k \in Keys(desired) :
                        k \notin Keys(observed) \/ observed[k] # desired[k] }
               /\ \A k \in Keys(d.updates) : d.updates[k] = desired[k]
               /\ d.removals = Keys(observed) \ Keys(desired)
<1> DEFINE changed == { k \in Keys(desired) :
                          k \notin Keys(observed) \/ observed[k] # desired[k] }
           m == [ k \in changed |-> desired[k] ]
<1>1. m \in Maps /\ Keys(m) = changed
  <2>1. changed \in SUBSET PropertyKeys /\ m \in [changed -> Strings]
    BY MapTyped
  <2>2. QED
    BY <2>1, FunctionIsMap
<1>2. \A k \in changed : m[k] = desired[k]
  OBVIOUS
<1>3. /\ diffProperties(observed, desired).updates = OmitEmpty(m)
      /\ diffProperties(observed, desired).removals
            = Keys(observed) \ Keys(desired)
  BY DEF diffProperties
<1> HIDE DEF m, changed
<1>4. OmitEmpty(m) \in Map /\ SameEntries(OmitEmpty(m), m)
  BY <1>1, SameAfterJSON DEF Map
<1>5. /\ Keys(OmitEmpty(m)) = changed
      /\ \A k \in changed : OmitEmpty(m)[k] = desired[k]
  BY <1>1, <1>2, <1>4 DEF SameEntries
<1>6. QED
  BY <1>3, <1>4, <1>5 DEF changed

\* A namespace that does not drift has the desired entries, and vice versa.
LEMMA NoDiffIsSame ==
    ASSUME NEW o \in Map, NEW s \in Map
    PROVE  LET d == diffProperties(o, s)
           IN  (Keys(d.updates) = {} /\ d.removals = {}) <=> SameEntries(o, s)
<1> DEFINE d == diffProperties(o, s)
<1>1. /\ Keys(d.updates) = { k \in Keys(s) : k \notin Keys(o) \/ o[k] # s[k] }
      /\ d.removals = Keys(o) \ Keys(s)
  BY DiffFinds
<1> HIDE DEF d
<1>2. ASSUME Keys(d.updates) = {}, d.removals = {} PROVE SameEntries(o, s)
  BY <1>1, <1>2 DEF SameEntries
<1>3. ASSUME SameEntries(o, s) PROVE Keys(d.updates) = {} /\ d.removals = {}
  BY <1>1, <1>3 DEF SameEntries
<1>4. QED
  BY <1>2, <1>3 DEF d

\* A patch gives a namespace the desired entries if it is computed from what the
\* namespace has, or if the namespace has them already.
LEMMA PatchRepairs ==
    ASSUME NEW o \in Map, NEW s \in Map, NEW c \in Map,
           c = o \/ SameEntries(o, s)
    PROVE  LET d == diffProperties(c, s)
               p == Overlay(Without(o, d.removals), d.updates)
           IN  p \in Maps /\ SameEntries(p, s)
<1> DEFINE d == diffProperties(c, s)
           w == Without(o, d.removals)
           p == Overlay(w, d.updates)
<1>1. /\ d.updates \in Map
      /\ Keys(d.updates) = { k \in Keys(s) : k \notin Keys(c) \/ c[k] # s[k] }
      /\ \A k \in Keys(d.updates) : d.updates[k] = s[k]
      /\ d.removals = Keys(c) \ Keys(s)
  BY DiffFinds
<1> HIDE DEF d
<1>2. /\ w \in Map /\ Keys(w) = Keys(o) \ d.removals
      /\ \A k \in Keys(w) : w[k] = o[k]
  BY WithoutKeeps DEF Map
<1> HIDE DEF w
<1>3. /\ p \in Maps /\ Keys(p) = Keys(w) \cup Keys(d.updates)
      /\ \A k \in Keys(d.updates) : p[k] = d.updates[k]
      /\ \A k \in Keys(w) \ Keys(d.updates) : p[k] = w[k]
  BY <1>1, <1>2, OverlayJoins
<1> HIDE DEF p
<1>4. Keys(p) = Keys(s)
  BY <1>1, <1>2, <1>3 DEF SameEntries
<1>5. ASSUME NEW k \in Keys(s) PROVE p[k] = s[k]
  <2>1. CASE k \in Keys(d.updates)
    BY <1>1, <1>3, <2>1
  <2>2. CASE k \notin Keys(d.updates)
    <3>1. k \in Keys(w) /\ p[k] = o[k]
      BY <1>2, <1>3, <1>4, <1>5, <2>2
    <3>2. k \in Keys(c) /\ c[k] = s[k]
      BY <1>1, <1>5, <2>2
    <3>3. QED
      BY <1>5, <3>1, <3>2 DEF SameEntries
  <2>3. QED
    BY <2>1, <2>2
<1>6. QED
  BY <1>3, <1>4, <1>5 DEF SameEntries, p, w, d

\* A patch leaves alone, in whatever it is applied to, the keys in which what it
\* was computed from agrees with the spec.
LEMMA PatchSpares ==
    ASSUME NEW o \in Map, NEW s \in Map, NEW c \in Map, NEW k,
           Entry(c, k) = Entry(s, k)
    PROVE  LET d == diffProperties(c, s)
               p == Overlay(Without(o, d.removals), d.updates)
           IN  Entry(p, k) = Entry(o, k)
<1> DEFINE d == diffProperties(c, s)
           w == Without(o, d.removals)
           p == Overlay(w, d.updates)
<1>1. /\ d.updates \in Map
      /\ Keys(d.updates) = { j \in Keys(s) : j \notin Keys(c) \/ c[j] # s[j] }
      /\ d.removals = Keys(c) \ Keys(s)
  BY DiffFinds
<1> HIDE DEF d
<1>2. /\ w \in Map /\ Keys(w) = Keys(o) \ d.removals
      /\ \A j \in Keys(w) : w[j] = o[j]
  BY WithoutKeeps DEF Map
<1> HIDE DEF w
<1>3. /\ Keys(p) = Keys(w) \cup Keys(d.updates)
      /\ \A j \in Keys(w) \ Keys(d.updates) : p[j] = w[j]
  BY <1>1, <1>2, OverlayJoins
<1> HIDE DEF p
<1>4. (\A j \in Keys(s) : s[j] # Nil) /\ (\A j \in Keys(c) : c[j] # Nil)
  BY MapTyped, DriftAssumption
<1>5. k \notin Keys(d.updates) /\ k \notin d.removals
  BY <1>1, <1>4 DEF Entry
<1>6. QED
  BY <1>2, <1>3, <1>5 DEF Entry, p, w, d

-----------------------------------------------------------------------------
(* By kind.                                                                *)

\* The body of a catalog has the location under its key, and the spec's other
\* properties.
LEMMA CatalogBody ==
    ASSUME NEW spec, IsSpec("catalog", spec)
    PROVE  LET m == catalogProperties(spec)
           IN  /\ m \in Maps
               /\ DefaultBaseLocation(m) = spec.location
               /\ SameEntries(Without(m, {Reserved}),
                              Without(spec.properties, {Reserved}))
<1> DEFINE w == Without(spec.properties, {Reserved})
           l == [ k \in {Reserved} |-> spec.location ]
           m == catalogProperties(spec)
<1>1. spec.properties \in Map /\ spec.location \in Strings
  BY DEF IsSpec, Map
<1>2. w \in Map /\ Keys(w) = Keys(spec.properties) \ {Reserved}
  BY <1>1, WithoutKeeps DEF Map
<1>3. l \in Map /\ Keys(l) = {Reserved} /\ l[Reserved] = spec.location
  <2>1. {Reserved} \in SUBSET PropertyKeys /\ l \in [{Reserved} -> Strings]
    BY <1>1, DriftAssumption
  <2>2. QED
    BY <2>1, FunctionIsMap DEF Map
<1>4. m = Overlay(w, l)
  BY DEF catalogProperties
<1> HIDE DEF m, w, l
<1>5. /\ m \in Maps /\ Keys(m) = Keys(w) \cup {Reserved}
      /\ m[Reserved] = spec.location
      /\ \A k \in Keys(w) : m[k] = w[k]
  BY <1>2, <1>3, <1>4, OverlayJoins
<1>6. SameEntries(Without(m, {Reserved}), w)
  <2>1. /\ Keys(Without(m, {Reserved})) = Keys(m) \ {Reserved}
        /\ \A k \in Keys(m) \ {Reserved} : Without(m, {Reserved})[k] = m[k]
    BY <1>5, WithoutKeeps DEF Map
  <2>2. QED
    BY <1>2, <1>5, <2>1 DEF SameEntries
<1>7. DefaultBaseLocation(m) = spec.location
  BY <1>5 DEF DefaultBaseLocation
<1>8. QED
  BY <1>5, <1>6, <1>7 DEF m, w

\* The properties of a table's body are the spec's, and its write format.
LEMMA TableBody ==
    ASSUME NEW spec, IsSpec("table", spec)
    PROVE  LET m == tableProperties(spec)
           IN  /\ \A k \in Keys(spec.properties) \ {WriteFormatKey} :
                    Entry(m, k) = spec.properties[k]
               /\ spec.writeFormat # Nil =>
                    Entry(m, WriteFormatKey) = spec.writeFormat
<1> DEFINE f == IF spec.writeFormat = Nil
                THEN EmptyMap
                ELSE [ k \in {WriteFormatKey} |-> spec.writeFormat ]
           n == Overlay(spec.properties, f)
           m == tableProperties(spec)
<1>1. spec.properties \in Map /\ spec.writeFormat \in Strings \cup {Nil}
  BY DEF IsSpec, Map
<1>2. /\ f \in Map /\ Keys(f) \subseteq {WriteFormatKey}
      /\ spec.writeFormat # Nil =>
            /\ Keys(f) = {WriteFormatKey}
            /\ f[WriteFormatKey] = spec.writeFormat
  <2>1. CASE spec.writeFormat = Nil
    <3>1. {} \in SUBSET PropertyKeys /\ EmptyMap \in [{} -> Strings]
      BY DEF EmptyMap
    <3>2. EmptyMap \in Maps /\ Keys(EmptyMap) = {}
      BY <3>1, FunctionIsMap
    <3>3. QED
      BY <2>1, <3>2 DEF Map
  <2>2. CASE spec.writeFormat # Nil
    <3>1. /\ {WriteFormatKey} \in SUBSET PropertyKeys
          /\ f \in [{WriteFormatKey} -> Strings]
      BY <1>1, <2>2, DriftAssumption
    <3>2. QED
      BY <2>2, <3>1, FunctionIsMap DEF Map
  <2>3. QED
    BY <2>1, <2>2
<1> HIDE DEF f
<1>3. /\ n \in Map /\ Keys(n) = Keys(spec.properties) \cup Keys(f)
      /\ \A k \in Keys(f) : n[k] = f[k]
      /\ \A k \in Keys(spec.properties) \ Keys(f) : n[k] = spec.properties[k]
  BY <1>1, <1>2, OverlayJoins DEF Map
<1> HIDE DEF n
<1>4. m = OmitEmpty(n)
  BY DEF tableProperties, n, f
<1> HIDE DEF m
<1>5. SameEntries(m, n)
  BY <1>3, <1>4, SameAfterJSON
<1>6. /\ \A k \in Keys(spec.properties) \ {WriteFormatKey} :
            Entry(m, k) = spec.properties[k]
      /\ spec.writeFormat # Nil => Entry(m, WriteFormatKey) = spec.writeFormat
  BY <1>2, <1>3, <1>5 DEF SameEntries, Entry
<1>7. QED
  BY <1>6 DEF m

\* A schema's body has all of the schema.
LEMMA SchemaBody ==
    ASSUME NEW s
    PROVE  SchemaInFull(s, buildIcebergSchema(s))
BY DEF SchemaInFull, buildIcebergSchema, ListOf

\* "Initial create is full-fidelity": what a POST makes, of whatever kind, is all
\* that the spec says, in the fields that are read back and in those that are
\* not: identifier fields, partitions, SQL, a cloud's own storage fields.
THEOREM CreatedIsFull ==
    ASSUME NEW kind \in Kinds, NEW spec, IsSpec(kind, spec)
    PROVE  /\ IsObject(kind, Created(kind, spec))
           /\ InFull(kind, spec, Created(kind, spec))
<1>1. CASE kind = "catalog"
  <2> DEFINE o == Created(kind, spec)
  <2>1. /\ o.properties = catalogProperties(spec)
        /\ o.storage = buildStorageBody(spec.storage)
    BY <1>1 DEF Created, buildCatalogBody, Roles
  <2>2. /\ o.storage.type = spec.storage.type
        /\ o.storage.locations = spec.storage.locations
        /\ spec.storage.type \in Clouds =>
              o.storage.block = spec.storage.blocks[spec.storage.type]
    BY <2>1 DEF buildStorageBody
  <2>3. /\ o.properties \in Maps
        /\ DefaultBaseLocation(o.properties) = spec.location
        /\ SameEntries(Without(o.properties, {Reserved}),
                       Without(spec.properties, {Reserved}))
    BY <1>1, <2>1, CatalogBody
  <2> HIDE DEF o
  <2>4. IsObject(kind, o)
    BY <1>1, <2>2, <2>3 DEF IsSpec, IsObject, Roles, CreateOnly
  <2>5. InSync(kind, spec, o)
    BY <1>1, <2>2, <2>3 DEF InSync, Roles
  <2>6. \A t \in Clouds :
           spec.storage.type = t => o.storage.block = spec.storage.blocks[t]
    BY <2>2
  <2>7. InFull(kind, spec, o)
    BY <1>1, <2>5, <2>6 DEF InFull, Roles
  <2>8. QED
    BY <2>4, <2>7 DEF o
<1>2. CASE kind \in Roles \cup {"namespace"}
  <2>1. /\ Created(kind, spec) = [ properties |-> OmitEmpty(spec.properties) ]
        /\ spec.properties \in Map
    BY <1>2 DEF Created, createRoleBody, createNamespaceBody, Roles, IsSpec, Map
  <2>2. /\ OmitEmpty(spec.properties) \in Map
        /\ SameEntries(OmitEmpty(spec.properties), spec.properties)
    BY <2>1, SameAfterJSON
  <2> DEFINE o == [ properties |-> OmitEmpty(spec.properties) ]
  <2>3. o.properties = OmitEmpty(spec.properties)
    OBVIOUS
  <2> HIDE DEF o
  <2>4. IsObject(kind, o)
    BY <1>2, <2>2, <2>3 DEF IsObject, Map, Roles
  <2>5. InFull(kind, spec, o)
    BY <1>2, <2>2, <2>3 DEF InFull, InSync, Roles
  <2>6. QED
    BY <2>1, <2>4, <2>5 DEF o
<1>3. CASE kind = "policy"
  <2> DEFINE o == policyBody(spec)
  <2>1. Created(kind, spec) = o
    BY <1>3 DEF Created, Roles
  <2>2. o.content = spec.content /\ TextOf(o.description) = spec.description
    BY <1>3 DEF policyBody, TextOf, IsSpec
  <2> HIDE DEF o
  <2>3. IsObject(kind, o)
    BY <1>3 DEF IsObject
  <2>4. InFull(kind, spec, o)
    BY <1>3, <2>2 DEF InFull, InSync, Roles
  <2>5. QED
    BY <2>1, <2>3, <2>4
<1>4. CASE kind = "table"
  <2>1. Created(kind, spec)
          = [ schema     |-> buildIcebergSchema(spec.schema),
              partition  |-> spec.partition,
              properties |-> tableProperties(spec) ]
    BY <1>4 DEF Created, buildTableBody, Roles
  <2>2. QED
    BY <1>4, <2>1, SchemaBody, TableBody
       DEF IsObject, InFull, TablePropertiesInFull, Roles, CreateOnly
<1>5. CASE kind = "view"
  <2>1. Created(kind, spec)
          = [ schema     |-> buildIcebergSchema(spec.schema),
              sql        |-> spec.sql,
              dialect    |-> spec.dialect,
              properties |-> copyStringMap(spec.properties) ]
    BY <1>5 DEF Created, buildViewBody, Roles
  <2>2. spec.properties \in Map
    BY <1>5 DEF IsSpec, Map
  <2>3. QED
    BY <1>5, <2>1, <2>2, SchemaBody, SameAfterJSON
       DEF IsObject, InFull, Roles, CreateOnly
<1>6. QED
  BY <1>1, <1>2, <1>3, <1>4, <1>5 DEF Kinds, CreateOnly

\* What is full is in sync, for the kinds that are compared at all.
LEMMA FullIsInSync ==
    ASSUME NEW kind \in Kinds \ CreateOnly, NEW spec, NEW o, InFull(kind, spec, o)
    PROVE  InSync(kind, spec, o)
BY DEF InFull, Kinds, Roles, CreateOnly

\* The reserved key in a catalog's properties: the body drops it, and the
\* comparison misses it for ever.
Reserves(kind, spec) == kind = "catalog" /\ Reserved \in Keys(spec.properties)

\* What Polaris reports of a catalog, as UnmarshalJSON splits it.
LEMMA AdditionalAreOthers ==
    ASSUME NEW m \in Map
    PROVE  /\ AdditionalProperties(m) \in Map
           /\ SameEntries(AdditionalProperties(m), Without(m, {Reserved}))
           /\ Reserved \notin Keys(AdditionalProperties(m))
<1>1. /\ Without(m, {Reserved}) \in Map
      /\ Keys(Without(m, {Reserved})) = Keys(m) \ {Reserved}
  BY WithoutKeeps DEF Map
<1>2. QED
  BY <1>1, SameAfterJSON DEF AdditionalProperties, SameEntries

\* The four comparisons of a catalog, put together.
LEMMA CatalogDrift ==
    ASSUME NEW kind, kind = "catalog",
           NEW spec, IsSpec(kind, spec), NEW o, IsObject(kind, o)
    PROVE  ~catalogDriftsFrom(spec, o) <=>
             /\ InSync(kind, spec, o)
             /\ Reserved \notin Keys(spec.properties)
<1> DEFINE add == AdditionalProperties(o.properties)
           wo  == Without(o.properties, {Reserved})
           ws  == Without(spec.properties, {Reserved})
<1>1. /\ spec.properties \in Map /\ o.properties \in Map
      /\ DuplicateFree(spec.storage.locations)
      /\ DuplicateFree(o.storage.locations)
  BY DEF IsSpec, IsObject, CreateOnly, Map
<1>2. add \in Map /\ SameEntries(add, wo) /\ Reserved \notin Keys(add)
  BY <1>1, AdditionalAreOthers
<1>3. /\ Keys(ws) = Keys(spec.properties) \ {Reserved}
      /\ \A k \in Keys(ws) : ws[k] = spec.properties[k]
  BY <1>1, WithoutKeeps
<1>4. ~catalogDriftsFrom(spec, o) <=>
        /\ DefaultBaseLocation(o.properties) = spec.location
        /\ SameEntries(add, spec.properties)
        /\ o.storage.type = spec.storage.type
        /\ Elements(o.storage.locations) = Elements(spec.storage.locations)
  <2>1. equalProperties(add, spec.properties)
          <=> SameEntries(add, spec.properties)
    BY <1>1, <1>2, EqualPropertiesIsSame
  <2>2. equalStringSet(o.storage.locations, spec.storage.locations)
          <=> Elements(o.storage.locations) = Elements(spec.storage.locations)
    BY <1>1, EqualStringSetIsSame
  <2>3. QED
    BY <2>1, <2>2 DEF catalogDriftsFrom
<1>5. InSync(kind, spec, o) <=>
        /\ DefaultBaseLocation(o.properties) = spec.location
        /\ SameEntries(wo, ws)
        /\ o.storage.type = spec.storage.type
        /\ Elements(o.storage.locations) = Elements(spec.storage.locations)
  BY DEF InSync, Roles
<1> HIDE DEF add, wo, ws
<1>6. SameEntries(add, spec.properties)
        <=> SameEntries(wo, ws) /\ Reserved \notin Keys(spec.properties)
  BY <1>2, <1>3 DEF SameEntries
<1>7. QED
  BY <1>4, <1>5, <1>6

\* The operator leaves an object alone exactly if it is what the spec says; only
\* a catalog with a property of the reserved name never is, for it.
THEOREM DriftIsNotInSync ==
    ASSUME NEW kind \in Kinds \ CreateOnly,
           NEW spec, IsSpec(kind, spec), NEW o, IsObject(kind, o)
    PROVE  ~Drifts(kind, spec, o) <=>
             InSync(kind, spec, o) /\ ~Reserves(kind, spec)
<1>1. CASE kind = "catalog"
  BY <1>1, CatalogDrift DEF Drifts, Reserves, Roles, CreateOnly
<1>2. CASE kind \in Roles \cup {"namespace"}
  <2>1. spec.properties \in Map /\ o.properties \in Map
    BY <1>2 DEF IsSpec, IsObject, Roles, CreateOnly, Map
  <2>2. InSync(kind, spec, o) <=> SameEntries(o.properties, spec.properties)
    BY <1>2 DEF InSync, Roles
  <2>3. ~Drifts(kind, spec, o) <=> SameEntries(o.properties, spec.properties)
    <3>1. CASE kind \in Roles
      <4>1. Drifts(kind, spec, o) <=> roleDriftsFrom(spec, o)
        BY <3>1 DEF Drifts, Roles, CreateOnly
      <4>2. QED
        BY <2>1, <4>1, EqualPropertiesIsSame DEF roleDriftsFrom
    <3>2. CASE kind = "namespace"
      <4>1. Drifts(kind, spec, o) <=> namespaceDrifts(spec, o)
        BY <3>2 DEF Drifts, Roles, CreateOnly
      <4>2. QED
        BY <2>1, <4>1, NoDiffIsSame DEF namespaceDrifts
    <3>3. QED
      BY <1>2, <3>1, <3>2
  <2>4. ~Reserves(kind, spec)
    BY <1>2 DEF Reserves, Roles
  <2>5. QED
    BY <2>2, <2>3, <2>4
<1>3. CASE kind = "policy"
  <2>1. Drifts(kind, spec, o) <=> policyDrifts(spec, o)
    BY <1>3 DEF Drifts, Roles, CreateOnly
  <2>2. InSync(kind, spec, o) <=> /\ o.content = spec.content
                                  /\ TextOf(o.description) = spec.description
    BY <1>3 DEF InSync, Roles
  <2>3. ~Reserves(kind, spec)
    BY <1>3 DEF Reserves
  <2>4. QED
    BY <2>1, <2>2, <2>3 DEF policyDrifts
<1>4. QED
  BY <1>1, <1>2, <1>3 DEF Kinds, CreateOnly

\* One update makes an object what the spec says.  The body of a PUT says it all,
\* a catalog's storage fields included; a patch does so if it was computed from
\* what the namespace has, or if the namespace needed none.
THEOREM UpdatedIsFull ==
    ASSUME NEW kind \in Kinds \ CreateOnly, NEW spec, IsSpec(kind, spec),
           NEW o, IsObject(kind, o), NEW current, IsObject(kind, current),
           kind = "namespace" => current = o \/ InSync(kind, spec, o)
    PROVE  LET u == Updated(kind, spec, current, o)
           IN  IsObject(kind, u) /\ InFull(kind, spec, u)
<1>1. CASE kind \in {"catalog", "policy"}
  <2>1. Updated(kind, spec, current, o) = Created(kind, spec)
    BY <1>1 DEF Updated, Created, PolicyReplaced, Roles
  <2>2. QED
    BY <2>1, CreatedIsFull
<1>2. CASE kind \in Roles
  <2> DEFINE u == [ properties |-> copyStringMap(spec.properties) ]
  <2>1. Updated(kind, spec, current, o) = u
    BY <1>2 DEF Updated, updateRoleBody, Roles
  <2>2. spec.properties \in Map
    BY <1>2 DEF IsSpec, Roles, Map
  <2>3. /\ u.properties = copyStringMap(spec.properties)
        /\ copyStringMap(spec.properties) \in Map
        /\ SameEntries(copyStringMap(spec.properties), spec.properties)
    BY <2>2, SameAfterJSON
  <2> HIDE DEF u
  <2>4. IsObject(kind, u)
    BY <1>2, <2>3 DEF IsObject, Map, Roles
  <2>5. InFull(kind, spec, u)
    BY <1>2, <2>3 DEF InFull, InSync, Roles
  <2>6. QED
    BY <2>1, <2>4, <2>5
<1>3. CASE kind = "namespace"
  <2> DEFINE d == diffProperties(current.properties, spec.properties)
             p == Overlay(Without(o.properties, d.removals), d.updates)
             u == [ properties |-> p ]
  <2>1. Updated(kind, spec, current, o) = u
    BY <1>3 DEF Updated, Patched, Roles
  <2>2. /\ spec.properties \in Map /\ o.properties \in Map
        /\ current.properties \in Map
    BY <1>3 DEF IsSpec, IsObject, CreateOnly, Map
  <2>3. \/ current.properties = o.properties
        \/ SameEntries(o.properties, spec.properties)
    BY <1>3 DEF InSync, Roles
  <2>4. u.properties = p /\ p \in Maps /\ SameEntries(p, spec.properties)
    BY <2>2, <2>3, PatchRepairs
  <2> HIDE DEF u, p
  <2>5. IsObject(kind, u)
    BY <1>3, <2>4 DEF IsObject
  <2>6. InFull(kind, spec, u)
    BY <1>3, <2>4 DEF InFull, InSync, Roles
  <2>7. QED
    BY <2>1, <2>5, <2>6
<1>4. QED
  BY <1>1, <1>2, <1>3 DEF Kinds, CreateOnly
=============================================================================
