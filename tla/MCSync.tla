------------------------------- MODULE MCSync -------------------------------
(***************************************************************************)
(* Specs, contents and namespaces for TLC: for each kind the contents that *)
(* its comparison could get wrong, and for the walk the shapes of a chain. *)
(***************************************************************************)
EXTENDS PolarisSyncProperties, TLC

CONSTANTS n1, n2, n3, n4, sales, lake

FourNamespaces == { n1, n2, n3, n4 }
TwoCatalogs    == { sales, lake }

AllKeys    == { "a", "b", Reserved, WriteFormatKey }
AllStrings == { "x", "y", "z", "root", "l", "m", "orc", "parquet" }

Chain(a, b, c, d) == n1 :> a @@ n2 :> b @@ n3 :> c @@ n4 :> d

OneCatalog  == Chain(sales, sales, sales, sales)
ThirdInLake == Chain(sales, sales, lake, sales)

Tree(l, parent, catalog) == [ leaf |-> l, parent |-> parent, catalog |-> catalog ]

\* A chain longer than allowed and one that is not, a cycle, and a chain that
\* crosses catalogs.
Trees ==
    { Tree(n1, Chain(n2, n3, n4, NoParent), OneCatalog),
      Tree(n2, Chain(n2, n3, n4, NoParent), OneCatalog),
      Tree(n1, Chain(n2, n1, NoParent, NoParent), OneCatalog),
      Tree(n1, Chain(n2, n3, NoParent, NoParent), ThirdInLake) }

Flat == Tree(n1, Chain(NoParent, NoParent, NoParent, NoParent), OneCatalog)

Props(p)  == [ properties |-> p ]
Plain     == { Props(Nil), Props("a" :> "x"), Props("a" :> "y" @@ "b" :> "x") }
OnServer  == { Props(EmptyMap), Props("b" :> "y") }

NoBlocks   == [ c \in Clouds |-> Nil ]
Disk(l)    == [ type |-> "FILE", locations |-> l, blocks |-> NoBlocks ]
OnDisk(l)  == [ type |-> "FILE", locations |-> l, block |-> Nil ]
Bucket(bs) == [ type |-> "S3", locations |-> << "l" >>, blocks |-> bs ]
CatalogSpec(l, p, s) == [ location |-> l, properties |-> p, storage |-> s ]

\* One whose body does not build, and one that has two clouds' blocks.
CatalogSpecs ==
    { CatalogSpec("root", Nil, Disk(<< "l", "m" >>)),
      CatalogSpec("root", Reserved :> "z" @@ "a" :> "x", Disk(<< "m" >>)),
      CatalogSpec("root", "a" :> "x", Bucket(NoBlocks)),
      CatalogSpec("root", "a" :> "x",
        Bucket([ NoBlocks EXCEPT !["S3"] = "arn", !["GCS"] = "account" ])) }
CatalogsOnServer ==
    { [ properties |-> Reserved :> "root", storage |-> OnDisk(<< "m", "l" >>) ],
      [ properties |-> Reserved :> "root" @@ "a" :> "x",
        storage |-> OnDisk(<< "m", "l" >>) ] }

Policy(c, d) == [ content |-> c, description |-> d ]
PolicySpecs  == { Policy("v", ""), Policy("v", "text") }
Policies     == { Policy(Nil, Nil), Policy("w", "text") }

Columns == [ fields |-> << "id", "day" >>, identifiers |-> << 1 >> ]

Table(s, f, p) ==
    [ schema |-> s, partition |-> Nil, writeFormat |-> f, properties |-> p ]
TableSpecs ==
    { Table(Columns, "orc", Nil), Table(Columns, "parquet", "a" :> "x") }
Tables ==
    { [ schema |-> [ fields |-> << "id" >>, identifiers |-> Nil ],
        partition |-> Nil, properties |-> Nil ] }

View(q, p) ==
    [ schema |-> Columns, sql |-> q, dialect |-> "spark", properties |-> p ]
ViewSpecs == { View("v", Nil), View("w", "a" :> "x") }
Views == { [ schema |-> Columns, sql |-> "u", dialect |-> "trino",
             properties |-> EmptyMap ] }

Case(k, tree, specs, contents) ==
    [ kind |-> k, parent |-> tree.parent, leaf |-> tree.leaf,
      catalog |-> tree.catalog, specs |-> specs, contents |-> contents ]

AllCases ==
    { Case("catalog", Flat, CatalogSpecs, CatalogsOnServer),
      Case("principalRole", Flat, Plain, OnServer),
      Case("catalogRole", Flat, Plain, OnServer),
      Case("namespace", Flat, Plain, OnServer),
      Case("policy", Flat, PolicySpecs, Policies),
      Case("table", Flat, TableSpecs, Tables),
      Case("view", Flat, ViewSpecs, Views) }
    \cup { Case("namespace", t, { Props(Nil) }, { Props(EmptyMap) }) : t \in Trees }
    \cup { Case("policy", t, { Policy("v", "") }, { Policy("w", Nil) })
            : t \in Trees }
=============================================================================
