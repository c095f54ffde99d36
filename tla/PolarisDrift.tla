---------------------------- MODULE PolarisDrift ----------------------------
(***************************************************************************)
(* What the operator compares and what it sends, for the resources whose   *)
(* contents it keeps in step: catalogs, principal roles, catalog roles,    *)
(* namespaces and policies; and what it sends for tables and views, which  *)
(* it creates and then leaves as they are.                                 *)
(*                                                                         *)
(* A Go map is a function on its keys, or Nil; JSON has no nil map, but a  *)
(* field may be left out.  A spec and the server's object are records:     *)
(*                                                                         *)
(*   catalog     spec  location, properties, storage                       *)
(*               server  properties (the location under its Reserved key), *)
(*               storage                                                   *)
(*   roles, namespace   properties                                         *)
(*   policy      content, description                                      *)
(*   table       schema, partition, properties; spec: writeFormat          *)
(*   view        schema, sql, dialect, properties                          *)
(*                                                                         *)
(* where storage is a type, the allowed locations in a sequence, and a     *)
(* cloud's own fields: of each cloud in a spec's blocks, of the type's     *)
(* cloud in the server's block, one value each, Nil if not there.  A       *)
(* schema has fields and identifier fields, in sequences, and a partition  *)
(* spec is a sequence of its fields.  Names and types never change and are *)
(* left out.                                                               *)
(***************************************************************************)
EXTENDS Integers, Sequences, FiniteSets

CONSTANTS
    Nil,           \* no map, no string, no block
    Reserved,      \* the key "default-base-location"
    PropertyKeys,  \* keys of properties
    Strings        \* what they map to, and other strings

\* Polaris knows the write format as a property.
WriteFormatKey == "write.format.default"

\* Go maps that are not nil.
Maps == UNION { [ks -> Strings] : ks \in SUBSET PropertyKeys }

ASSUME DriftAssumption ==
    /\ IsFiniteSet(PropertyKeys)
    /\ {Reserved, WriteFormatKey} \subseteq PropertyKeys
    /\ Nil \notin Strings
    /\ Nil \notin Maps

EmptyMap == [ k \in {} |-> Nil ]

Keys(m) == IF m = Nil THEN {} ELSE DOMAIN m

\* A map without some of its keys.
Without(m, ks) == [ k \in Keys(m) \ ks |-> m[k] ]

\* The entries of n over those of m.
Overlay(m, n) ==
    [ k \in Keys(m) \cup Keys(n) |-> IF k \in Keys(n) THEN n[k] ELSE m[k] ]

\* JSON leaves an empty map out (omitempty, or "if len(props) > 0").
OmitEmpty(m) == IF Keys(m) = {} THEN Nil ELSE m

SameEntries(a, b) ==
    /\ Keys(a) = Keys(b)
    /\ \A k \in Keys(a) : a[k] = b[k]

Elements(s) == { s[i] : i \in DOMAIN s }

\* A list that the API server keeps as a set (+listType=set).
DuplicateFree(s) ==
    /\ s \in Seq(Strings)
    /\ \A i, j \in DOMAIN s : s[i] = s[j] => i = j

Entry(m, k) == IF k \in Keys(m) THEN m[k] ELSE Nil

-----------------------------------------------------------------------------
(* Comparisons.                                                            *)

\* reflect.DeepEqual, which the comment warns of.
equalProperties_DeepEqual(a, b) == a = b
equalProperties(a, b) ==
    /\ Cardinality(Keys(a)) = Cardinality(Keys(b))
    /\ \A k \in Keys(a) : k \in Keys(b) /\ b[k] = a[k]

equalStringSet(a, b) ==
    /\ Len(a) = Len(b)
    /\ \A i \in DOMAIN b : b[i] \in Elements(a)

\* The updates and the removals of diffProperties; updates is Nil if empty.
diffProperties_NoRemovals(observed, desired) ==
    LET changed == { k \in Keys(desired) :
                        k \notin Keys(observed) \/ observed[k] # desired[k] }
    IN  [ updates  |-> OmitEmpty([ k \in changed |-> desired[k] ]),
          removals |-> {} ]
diffProperties(observed, desired) ==
    LET changed == { k \in Keys(desired) :
                        k \notin Keys(observed) \/ observed[k] # desired[k] }
    IN  [ updates  |-> OmitEmpty([ k \in changed |-> desired[k] ]),
          removals |-> Keys(observed) \ Keys(desired) ]

\* UnmarshalJSON of Catalog_Properties: the location has a field of its own,
\* the other properties are a map that stays nil if there are none.
DefaultBaseLocation(properties) ==
    IF Reserved \in Keys(properties) THEN properties[Reserved] ELSE Nil
AdditionalProperties(properties) == OmitEmpty(Without(properties, {Reserved}))

\* driftsFrom of the catalog reconciler: storage.block is not read back.
catalogDriftsFrom(spec, current) ==
    \/ DefaultBaseLocation(current.properties) # spec.location
    \/ ~equalProperties(AdditionalProperties(current.properties), spec.properties)
    \/ current.storage.type # spec.storage.type
    \/ ~equalStringSet(current.storage.locations, spec.storage.locations)

\* driftsFrom of both role reconcilers.
roleDriftsFrom(spec, current) ==
    ~equalProperties(current.properties, spec.properties)

namespaceDrifts(spec, current) ==
    LET d == diffProperties(current.properties, spec.properties)
    IN  Keys(d.updates) # {} \/ d.removals # {}

\* A Go string from a field that may be left out.
TextOf(t) == IF t = Nil THEN "" ELSE t

policyDrifts(spec, current) ==
    \/ current.content # spec.content
    \/ TextOf(current.description) # spec.description

-----------------------------------------------------------------------------
(* Request bodies.                                                         *)

\* The block of the spec's storageType must be there; FILE has none.
Clouds       == { "S3", "AZURE", "GCS" }
StorageTypes == Clouds \cup { "FILE" }

buildStorageBodyFails(storage) ==
    \/ storage.type \notin StorageTypes
    \/ storage.type \in Clouds /\ storage.blocks[storage.type] = Nil

buildStorageBody(storage) ==
    [ type      |-> storage.type,
      locations |-> storage.locations,
      block     |-> IF storage.type \in Clouds
                    THEN storage.blocks[storage.type] ELSE Nil ]

\* In a catalog's body the location takes the place of a property of its name.
catalogProperties(spec) ==
    Overlay(Without(spec.properties, {Reserved}),
            [ k \in {Reserved} |-> spec.location ])

buildCatalogBody(spec) ==
    [ properties |-> catalogProperties(spec),
      storage    |-> buildStorageBody(spec.storage) ]

copyStringMap(m) == IF m = Nil THEN EmptyMap ELSE m

createRoleBody(spec)      == [ properties |-> OmitEmpty(spec.properties) ]
updateRoleBody(spec)      == [ properties |-> copyStringMap(spec.properties) ]
createNamespaceBody(spec) == [ properties |-> OmitEmpty(spec.properties) ]

\* An empty description is left out, of a POST and of a PUT.
policyBody(spec) ==
    [ content     |-> spec.content,
      description |-> IF spec.description = "" THEN Nil ELSE spec.description ]

\* The fields in their order; the list of identifier fields only if it has any.
buildIcebergSchema_FieldsOnly(s) ==
    [ fields |-> s.fields, identifiers |-> Nil ]
buildIcebergSchema(s) ==
    [ fields |-> s.fields,
      identifiers |-> IF s.identifiers = <<>> THEN Nil ELSE s.identifiers ]

tableProperties(spec) ==
    LET format == IF spec.writeFormat = Nil
                  THEN EmptyMap
                  ELSE [ k \in {WriteFormatKey} |-> spec.writeFormat ]
    IN  OmitEmpty(Overlay(spec.properties, format))

buildTableBody(spec) ==
    [ schema     |-> buildIcebergSchema(spec.schema),
      partition  |-> spec.partition,
      properties |-> tableProperties(spec) ]

buildViewBody(spec) ==
    [ schema     |-> buildIcebergSchema(spec.schema),
      sql        |-> spec.sql,
      dialect    |-> spec.dialect,
      properties |-> copyStringMap(spec.properties) ]

\* The server's side of a policy's PUT.  That it clears a description which the
\* body leaves out is an assumption: no document of the API in the repository
\* says so, and policyDrifts would find such a policy drifting for ever if not.
PolicyReplaced(body) == body

\* The server's side of a namespace's patch.
Patched(object, d) ==
    [ properties |-> Overlay(Without(object.properties, d.removals), d.updates) ]

-----------------------------------------------------------------------------
(* By kind.                                                                *)

Roles == { "principalRole", "catalogRole" }

\* Created and deleted, never compared or updated.
CreateOnly == { "table", "view" }

Kinds == Roles \cup CreateOnly \cup { "catalog", "namespace", "policy" }

Drifts(kind, spec, current) ==
    CASE kind = "catalog"   -> catalogDriftsFrom(spec, current)
      [] kind \in Roles     -> roleDriftsFrom(spec, current)
      [] kind = "namespace" -> namespaceDrifts(spec, current)
      [] kind = "policy"    -> policyDrifts(spec, current)
      [] kind \in CreateOnly -> FALSE

\* The body builders that can fail.
Builds(kind, spec) == kind = "catalog" => ~buildStorageBodyFails(spec.storage)

\* The object that a POST makes.
Created(kind, spec) ==
    CASE kind = "catalog"   -> buildCatalogBody(spec)
      [] kind \in Roles     -> createRoleBody(spec)
      [] kind = "namespace" -> createNamespaceBody(spec)
      [] kind = "policy"    -> policyBody(spec)
      [] kind = "table"     -> buildTableBody(spec)
      [] kind = "view"      -> buildViewBody(spec)

\* What an update that was computed from current makes of object.
Updated(kind, spec, current, object) ==
    CASE kind = "catalog"   -> buildCatalogBody(spec)
      [] kind \in Roles     -> updateRoleBody(spec)
      [] kind = "namespace" ->
            Patched(object, diffProperties(current.properties, spec.properties))
      [] kind = "policy"    -> PolicyReplaced(policyBody(spec))

\* What a comparison needs to know of a spec, and of an object.
IsSpec(kind, s) ==
    /\ kind # "policy" => s.properties \in Maps \cup {Nil}
    /\ kind = "catalog" => /\ s.location \in Strings
                           /\ DuplicateFree(s.storage.locations)
    /\ kind = "policy" => s.description # Nil
    /\ kind = "table" => s.writeFormat \in Strings \cup {Nil}

IsObject(kind, o) ==
    /\ kind \notin CreateOnly \cup {"policy"} =>
            o.properties \in Maps \cup {Nil}
    /\ kind = "catalog" => DuplicateFree(o.storage.locations)

-----------------------------------------------------------------------------
(* What the comparisons and the bodies are for.                            *)

\* The object is what the spec says in every field that the operator reads back.
InSync(kind, spec, o) ==
    CASE kind = "catalog" ->
            /\ DefaultBaseLocation(o.properties) = spec.location
            /\ SameEntries(Without(o.properties, {Reserved}),
                           Without(spec.properties, {Reserved}))
            /\ o.storage.type = spec.storage.type
            /\ Elements(o.storage.locations) = Elements(spec.storage.locations)
      [] kind \in Roles \cup {"namespace"} ->
            SameEntries(o.properties, spec.properties)
      [] kind = "policy" ->
            /\ o.content = spec.content
            /\ TextOf(o.description) = spec.description

\* A list that JSON leaves out if it is empty.
ListOf(l) == IF l = Nil THEN <<>> ELSE l

SchemaInFull(s, o) ==
    o.fields = s.fields /\ ListOf(o.identifiers) = ListOf(s.identifiers)

\* Polaris adds properties of its own to a table.
TablePropertiesInFull(spec, o) ==
    /\ \A k \in Keys(spec.properties) \ {WriteFormatKey} :
            Entry(o.properties, k) = spec.properties[k]
    /\ spec.writeFormat # Nil =>
            Entry(o.properties, WriteFormatKey) = spec.writeFormat

\* The object is what the spec says in every field, those included that are
\* written and never read back: a cloud's own storage fields, tables and views.
InFull(kind, spec, o) ==
    CASE kind = "catalog" ->
            /\ InSync(kind, spec, o)
            /\ \A t \in Clouds :
                  spec.storage.type = t => o.storage.block = spec.storage.blocks[t]
      [] kind \in Roles \cup {"namespace", "policy"} ->
            InSync(kind, spec, o)
      [] kind = "table" ->
            /\ SchemaInFull(spec.schema, o.schema)
            /\ o.partition = spec.partition
            /\ TablePropertiesInFull(spec, o)
      [] kind = "view" ->
            /\ SchemaInFull(spec.schema, o.schema)
            /\ o.sql = spec.sql /\ o.dialect = spec.dialect
            /\ SameEntries(o.properties, spec.properties)
=============================================================================
