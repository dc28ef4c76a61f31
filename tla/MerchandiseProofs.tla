--------------------------- MODULE MerchandiseProofs ---------------------------
(***************************************************************************)
(* What the catalog promises, for any number of requests, transactions,    *)
(* products, variants, values and shelves.                                 *)
(*                                                                         *)
(* Creation: a transaction writes rows of its own, which say who wrote     *)
(* them, and commits them together; what it files its product under is     *)
(* either committed or its own.  Requests that agree on the order of their *)
(* values never wait in a circle: of those that wait, the one that waits   *)
(* for the last value waits for somebody who is past it.                   *)
(*                                                                         *)
(* Archive safety, after it: the argument is the one lifecycleService.ts   *)
(* gives.  A posting keeps the two catalog rows it asked about locked FOR  *)
(* SHARE to its end, an archive keeps them locked FOR UPDATE while it      *)
(* looks at the shelves, and one row is never locked both ways.            *)
(***************************************************************************)
EXTENDS LifecycleProperties, CatalogProperties, FiniteSetTheorems, SequenceTheorems,
        WellFoundedInduction, TLAPS

(* A nonempty set of numbers has a smallest one.                           *)
LEMMA SmallestNumber ==
  ASSUME NEW T \in SUBSET Nat, T # {}
  PROVE  \E n \in T : \A m \in T : n <= m
  <1> DEFINE R == OpToRel(<, Nat)
  <1>1. IsWellFoundedOn(R, Nat)
    BY NatLessThanWellFounded
  <1>2. \A m, n \in Nat : m < n => <<m, n>> \in R
    BY DEF OpToRel
  <1> HIDE DEF R
  <1>3. PICK n \in T : \A m \in T : <<m, n>> \notin R
    BY <1>1, WFMin
  <1>4. \A m \in T : n <= m
    <2> SUFFICES ASSUME NEW m \in T PROVE n <= m
      OBVIOUS
    <2>1. m \in Nat /\ n \in Nat /\ ~(m < n)
      BY <1>2, <1>3
    <2>. QED  BY <2>1
  <1>. QED  BY <1>3, <1>4

------------------------------------------------------------------------------
(* Creation.                                                               *)

(* What the rows are made of.                                              *)
Listed    == UNION {Range(r.classifications) : r \in Requests}
Described == UNION {Range(r.variants) : r \in Requests}

BrandRow == [key : {Identity[s] : s \in Spellings}, name : Spellings, by : Entries]
ValueRow == [key : {<<c.dimension, Identity[c.value]>> : c \in Listed},
             name : {c.value : c \in Listed}, by : Entries]
VariantRow == [sku : Skus, attributes : {normalizeAttributes(v) : v \in Described},
               barcodes : {ToSet(v.barcodes) : v \in Described}]
Product == [id : Entries, brand : BrandRow \cup {None}, classifications : Seq(ValueRow),
            variants : Seq(VariantRow)]

Statements == {"prepare", "names", "brand", "readBrand", "dimensions", "value", "readValue",
               "product", "sku", "variant", "commit", "done"}
Chapters == {"products", "classifications", "variants", "attributes", "barcodes", "done"}

CatalogTypeOK ==
  /\ request \in [Entries -> Requests]
  /\ at \in [Entries -> Statements]
  /\ index \in [Entries -> Nat] /\ attempt \in [Entries -> Nat]
  /\ sku \in [Entries -> Skus \cup {None}]
  /\ resolved \in [Entries -> [brand : BrandRow \cup {None}, values : Seq(ValueRow)]]
  /\ own \in [Entries -> [brand : SUBSET BrandRow, values : SUBSET ValueRow,
                          product : SUBSET Product]]
  /\ brands \subseteq BrandRow /\ values \subseteq ValueRow /\ products \subseteq Product
  /\ answer \in [Entries -> {None, "created", "invalid", "conflict", "internal"}]
  /\ listing \in [at : Chapters, products : SUBSET Entries, classifications : SUBSET Entries,
                  variants : SUBSET Entries, attributes : SUBSET Entries, barcodes : SUBSET Entries]

(* What a transaction has resolved, as far as it has got.                  *)
Before     == {"prepare", "names", "brand", "readBrand"}
Resolving    == {"value", "readValue"}
Writing    == {"sku", "variant"}

BrandResolved(t) ==
  IF request[t].brand = None THEN resolved[t].brand = None
  ELSE resolved[t].brand \in brands \cup own[t].brand /\ resolved[t].brand.key = brandKey(t)

Asked(t) == Len(request[t].classifications)

ValuesResolved(t) ==
  /\ Len(resolved[t].values) <= Asked(t)
  /\ \A i \in 1..Len(resolved[t].values) :
       /\ resolved[t].values[i] \in values \cup own[t].values
       /\ resolved[t].values[i].key = Named(t, i)

Resolves(t) ==
  /\ at[t] \in Before => resolved[t] = Unresolved
  /\ at[t] \in {"brand", "readBrand"} => request[t].brand # None
  /\ at[t] \in Before \cup {"dimensions"} => index[t] = 1 /\ resolved[t].values = <<>>
  /\ at[t] \notin Before \cup {"done"} => BrandResolved(t) /\ ValuesResolved(t)
  /\ at[t] \in Resolving => /\ index[t] \in 1..Asked(t)
                          /\ Len(resolved[t].values) = index[t] - 1
  /\ at[t] \in Writing \cup {"product", "commit"} => Len(resolved[t].values) = Asked(t)

(* What it has written: rows of its own, and values it has come to.        *)
OwnRows(t) ==
  /\ at[t] \in {"prepare", "names", "brand", "done"} => own[t] = NoRows
  /\ \A row \in own[t].brand \cup own[t].values : row.by = t
  /\ at[t] = "value" => \A v \in own[t].values : \E i \in 1..(index[t] - 1) : v.key = Named(t, i)
  /\ at[t] = "readValue" => \A v \in own[t].values : \E i \in 1..index[t] : v.key = Named(t, i)
  /\ at[t] \in {"readBrand", "dimensions"} => own[t].values = {}
  /\ at[t] \notin Writing \cup {"commit"} => own[t].product = {}

WrittenAs(t, p, n) ==
  /\ p.id = t /\ p.brand = resolved[t].brand /\ p.classifications = resolved[t].values
  /\ Len(p.variants) = n
  /\ \A i \in 1..n :
       /\ p.variants[i].attributes = normalizeAttributes(request[t].variants[i])
       /\ p.variants[i].barcodes = ToSet(request[t].variants[i].barcodes)

Writes(t) ==
  /\ at[t] = "product" => index[t] = 1
  /\ at[t] \in Writing => /\ index[t] \in 1..Len(request[t].variants)
                          /\ \E p \in own[t].product : own[t].product = {p} /\ WrittenAs(t, p, index[t] - 1)
  /\ at[t] = "variant" => sku[t] \in Skus
  /\ at[t] = "commit" =>
       \E p \in own[t].product : own[t].product = {p} /\ WrittenAs(t, p, Len(request[t].variants))

Proceeds(t) == /\ at[t] \notin {"prepare", "done"} => Prepared(request[t])
               /\ Resolves(t) /\ OwnRows(t) /\ Writes(t)

(* What is committed.                                                      *)
AsAsked == \A p \in products : BrandAsAsked(p) /\ ClassifiedAsAsked(p) /\ VariantsAsAsked(p)
OnceEach == /\ \A p, q \in products : p.id = q.id => p = q
            /\ \A p \in products : at[p.id] = "done"
RowsBelong == \A row \in brands \cup values : row.by \in Ids

Drawn == products \cup UNION {own[t].product : t \in Entries}
SkusDiffer ==
  \A p, q \in Drawn : \A i \in DOMAIN p.variants, j \in DOMAIN q.variants :
    p.variants[i].sku = q.variants[j].sku => p.id = q.id /\ i = j

(* What the reader has.                                                    *)
ReadSoFar ==
  /\ listing.at # "products" => listing.products \subseteq Ids
  /\ listing.at \notin {"products", "classifications"} => listing.classifications = listing.products
  /\ listing.at \in {"attributes", "barcodes", "done"} => listing.variants = listing.products
  /\ listing.at \in {"barcodes", "done"} => listing.attributes = listing.products
  /\ listing.at = "done" => listing.barcodes = listing.products

CatalogInv == /\ CatalogTypeOK /\ (\A t \in Entries : Proceeds(t))
              /\ AsAsked /\ OnceEach /\ RowsBelong /\ SkusDiffer /\ ReadSoFar
------------------------------------------------------------------------------
LEMMA RequestShape ==
  ASSUME CatalogTypeOK, NEW t \in Entries
  PROVE  /\ request[t] \in Requests
         /\ request[t].brand \in Spellings \cup {None}
         /\ request[t].classifications \in Seq(Listed)
         /\ request[t].variants \in Seq(Described)
  <1>1. request[t] \in Requests
    BY DEF CatalogTypeOK
  <1> DEFINE cs == request[t].classifications
             vs == request[t].variants
  <1>2. cs \in Seq(Range(cs)) /\ vs \in Seq(Range(vs)) /\ request[t].brand \in Spellings \cup {None}
    BY <1>1, CatalogAssumption
  <1>3. Range(cs) \subseteq Listed /\ Range(vs) \subseteq Described
    BY <1>1 DEF Listed, Described
  <1> HIDE DEF cs, vs
  <1>4. cs \in Seq(Listed) /\ vs \in Seq(Described)
    BY <1>2, <1>3, SeqMonotonic
  <1>. QED  BY <1>1, <1>2, <1>4 DEF cs, vs

(* A transaction nobody touches is where it was, and what is committed     *)
(* only grows.                                                             *)
LEMMA StaysPut ==
  ASSUME NEW u \in Entries, Proceeds(u), request' = request,
         at'[u] = at[u], index'[u] = index[u], sku'[u] = sku[u],
         resolved'[u] = resolved[u], own'[u] = own[u],
         brands \subseteq brands', values \subseteq values'
  PROVE  Proceeds(u)'
  <1>1. \A i : Named(u, i)' = Named(u, i)
    BY DEF Named
  <1>2. BrandResolved(u) => BrandResolved(u)'
    BY DEF BrandResolved, brandKey
  <1>3. ValuesResolved(u) => ValuesResolved(u)'
    BY <1>1 DEF ValuesResolved, Asked
  <1>4. Resolves(u)'
    BY <1>2, <1>3 DEF Proceeds, Resolves, Asked
  <1>5. OwnRows(u)'
    BY <1>1 DEF Proceeds, OwnRows
  <1>6. Writes(u)'
    BY DEF Proceeds, Writes, WrittenAs
  <1>. QED  BY <1>4, <1>5, <1>6 DEF Proceeds

(* A statement of one transaction that commits nothing.                    *)
LEMMA WritesOn ==
  ASSUME CatalogInv, NEW t \in Entries, at[t] # "done", CatalogTypeOK',
         UNCHANGED <<request, rows, listing>>,
         \A u \in Entries \ {t} : /\ at'[u] = at[u] /\ index'[u] = index[u] /\ sku'[u] = sku[u]
                                  /\ resolved'[u] = resolved[u] /\ own'[u] = own[u],
         SkusDiffer', Proceeds(t)'
  PROVE  CatalogInv'
  <1>1. request' = request /\ brands' = brands /\ values' = values /\ products' = products
        /\ listing' = listing /\ Ids' = Ids
    BY DEF rows, Ids
  <1>2. ASSUME NEW u \in Entries PROVE Proceeds(u)'
    <2>1. CASE u = t
      BY <2>1
    <2>2. CASE u # t
      BY <1>1, <2>2, StaysPut DEF CatalogInv
    <2>. QED  BY <2>1, <2>2
  <1>3. AsAsked'
    BY <1>1 DEF CatalogInv, AsAsked, BrandAsAsked, ClassifiedAsAsked, VariantsAsAsked, brandKey
  <1>4. OnceEach'
    BY <1>1 DEF CatalogInv, OnceEach, CatalogTypeOK, Product
  <1>5. RowsBelong' /\ ReadSoFar'
    BY <1>1 DEF CatalogInv, RowsBelong, ReadSoFar
  <1>. QED  BY <1>2, <1>3, <1>4, <1>5 DEF CatalogInv

(* One that writes no variant either.                                      *)
LEMMA MovesOn ==
  ASSUME CatalogInv, NEW t \in Entries, at[t] # "done", CatalogTypeOK',
         UNCHANGED <<request, rows, listing>>,
         \A u \in Entries \ {t} : /\ at'[u] = at[u] /\ index'[u] = index[u] /\ sku'[u] = sku[u]
                                  /\ resolved'[u] = resolved[u] /\ own'[u] = own[u],
         \A p \in own'[t].product : p \in own[t].product \/ p.variants = <<>>,
         Proceeds(t)'
  PROVE  CatalogInv'
  <1>1. \A p \in Drawn' : p \in Drawn \/ p.variants = <<>>
    BY DEF Drawn, rows
  <1>2. SkusDiffer'
    BY <1>1 DEF CatalogInv, SkusDiffer
  <1>. QED  BY <1>2, WritesOn

LEMMA CatalogInitInv == CatalogInit => CatalogInv
  <1> SUFFICES ASSUME CatalogInit PROVE CatalogInv
    OBVIOUS
  <1>1. CatalogTypeOK
    BY CatalogAssumption DEF CatalogInit, CatalogTypeOK, Statements, Chapters, Unresolved, NoRows,
                             NotListed
  <1>2. ASSUME NEW t \in Entries PROVE Proceeds(t)
    BY DEF CatalogInit, Proceeds, Resolves, OwnRows, Writes, Before, Resolving, Writing,
           Unresolved, NoRows
  <1>3. products = {} /\ brands = {} /\ values = {} /\ Drawn = {}
    BY DEF CatalogInit, Drawn, NoRows
  <1>4. ReadSoFar
    BY DEF CatalogInit, ReadSoFar, NotListed
  <1>. QED  BY <1>1, <1>2, <1>3, <1>4 DEF CatalogInv, AsAsked, OnceEach, RowsBelong, SkusDiffer

(* A transaction that is rolled back.                                      *)
LEMMA RollsBackInv ==
  ASSUME CatalogInv, NEW t \in Entries, at[t] # "done",
         NEW a \in {"invalid", "conflict", "internal"}, RollsBack(t, a)
  PROVE  CatalogInv'
  <1>1. /\ CatalogTypeOK
        /\ at' = [at EXCEPT ![t] = "done"] /\ own' = [own EXCEPT ![t] = NoRows]
        /\ answer' = [answer EXCEPT ![t] = a]
        /\ UNCHANGED <<request, index, attempt, sku, resolved, brands, values, products, listing>>
    BY DEF CatalogInv, RollsBack, Ends, rows
  <1>2. at'[t] = "done" /\ own'[t] = NoRows
    BY <1>1 DEF CatalogTypeOK
  <1>3. CatalogTypeOK'
    BY <1>1 DEF CatalogTypeOK, Statements, NoRows
  <1>4. Proceeds(t)'
    BY <1>2 DEF Proceeds, Resolves, OwnRows, Writes, Before, Resolving, Writing, NoRows
  <1>. QED  BY <1>1, <1>2, <1>3, <1>4, MovesOn DEF CatalogTypeOK, rows, NoRows

(* The statements up to the product.                                       *)
LEMMA PrepareInv ==
  ASSUME CatalogInv, NEW t \in Entries, Prepare(t)
  PROVE  CatalogInv'
  <1>1. CASE RollsBack(t, "invalid")
    BY <1>1, RollsBackInv DEF Prepare
  <1>2. CASE /\ Prepared(request[t]) /\ Goes(t, "names")
             /\ UNCHANGED <<index, attempt, sku, resolved, own, others>>
    <2>1. /\ CatalogTypeOK /\ Proceeds(t) /\ at[t] = "prepare"
          /\ at' = [at EXCEPT ![t] = "names"] /\ at'[t] = "names"
          /\ UNCHANGED <<request, index, attempt, sku, resolved, own, rows, listing, answer>>
      BY <1>2 DEF CatalogInv, Prepare, Goes, others, CatalogTypeOK
    <2>2. CatalogTypeOK'
      BY <2>1 DEF CatalogTypeOK, Statements, rows
    <2>3. Proceeds(t)'
      BY <1>2, <2>1 DEF Proceeds, Resolves, OwnRows, Writes, Before, Resolving, Writing, NoRows, rows
    <2>. QED  BY <2>1, <2>2, <2>3, MovesOn DEF CatalogTypeOK
  <1>. QED  BY <1>1, <1>2 DEF Prepare

LEMMA NamesInv ==
  ASSUME CatalogInv, NEW t \in Entries, assertAttributeNamesAreDefined(t)
  PROVE  CatalogInv'
  <1>1. CASE RollsBack(t, "invalid")
    BY <1>1, RollsBackInv DEF assertAttributeNamesAreDefined
  <1>2. CASE /\ Goes(t, IF request[t].brand = None THEN "dimensions" ELSE "brand")
             /\ UNCHANGED <<index, attempt, sku, resolved, own, others>>
    <2> DEFINE next == IF request[t].brand = None THEN "dimensions" ELSE "brand"
    <2>1. /\ CatalogTypeOK /\ Proceeds(t) /\ at[t] = "names"
          /\ at' = [at EXCEPT ![t] = next] /\ at'[t] = next
          /\ UNCHANGED <<request, index, attempt, sku, resolved, own, rows, listing, answer>>
      BY <1>2 DEF CatalogInv, assertAttributeNamesAreDefined, Goes, others, CatalogTypeOK
    <2>2. CatalogTypeOK'
      BY <2>1 DEF CatalogTypeOK, Statements, rows
    <2>3. Resolves(t)'
      <3>1. resolved[t] = Unresolved /\ index[t] = 1
        BY <2>1 DEF Proceeds, Resolves, Before
      <3>2. next = "dimensions" => BrandResolved(t)'
        BY <2>1, <3>1 DEF BrandResolved, Unresolved, rows
      <3>3. ValuesResolved(t)'
        <4>1. Len(request[t].classifications) \in Nat
          BY <2>1, RequestShape, LenProperties
        <4>2. Len(<<>>) = 0
          OBVIOUS
        <4>. QED  BY <2>1, <3>1, <4>1, <4>2 DEF ValuesResolved, Asked, Unresolved
      <3>. QED  BY <2>1, <3>1, <3>2, <3>3 DEF Resolves, Before, Resolving, Writing, Unresolved
    <2>4. OwnRows(t)' /\ Writes(t)' /\ Prepared(request'[t])
      BY <2>1 DEF Proceeds, OwnRows, Writes, Before, Resolving, Writing, NoRows
    <2>5. Proceeds(t)'
      BY <2>1, <2>3, <2>4 DEF Proceeds
    <2>. QED  BY <2>1, <2>2, <2>5, MovesOn DEF CatalogTypeOK
  <1>. QED  BY <1>1, <1>2 DEF assertAttributeNamesAreDefined

LEMMA InsertBrandInv ==
  ASSUME CatalogInv, NEW t \in Entries, InsertBrand(t)
  PROVE  CatalogInv'
  <1> DEFINE row == [key |-> brandKey(t), name |-> request[t].brand, by |-> t]
             mine == IF \E b \in brands : b.key = brandKey(t) THEN {} ELSE {row}
  <1>1. /\ CatalogTypeOK /\ Proceeds(t) /\ at[t] = "brand"
        /\ at' = [at EXCEPT ![t] = "readBrand"] /\ at'[t] = "readBrand"
        /\ UNCHANGED <<request, index, attempt, sku, resolved, rows, listing, answer>>
    BY DEF CatalogInv, InsertBrand, Goes, others, CatalogTypeOK
  <1>2. own[t] = NoRows /\ own[t].brand = {} /\ own[t].values = {} /\ own[t].product = {}
    BY <1>1 DEF Proceeds, OwnRows, NoRows
  <1>3. own' = [own EXCEPT ![t].brand = mine]
    <2>1. CASE \E b \in brands : b.key = brandKey(t)
      <3>1. own' = own
        BY <2>1 DEF InsertBrand
      <3>. QED  BY <1>1, <1>2, <2>1, <3>1 DEF CatalogTypeOK
    <2>2. CASE ~\E b \in brands : b.key = brandKey(t)
      BY <2>2 DEF InsertBrand
    <2>. QED  BY <2>1, <2>2
  <1>4. row \in BrandRow
    <2>1. request[t].brand \in Spellings
      BY <1>1, RequestShape DEF Proceeds, Resolves
    <2>. QED  BY <2>1 DEF BrandRow, brandKey
  <1>5. mine \in SUBSET BrandRow /\ \A b \in mine : b.by = t
    BY <1>4
  <1> HIDE DEF mine
  <1>6. CatalogTypeOK'
    <2>1. own' \in [Entries -> [brand : SUBSET BrandRow, values : SUBSET ValueRow,
                               product : SUBSET Product]]
      <3>1. own \in [Entries -> [brand : SUBSET BrandRow, values : SUBSET ValueRow,
                                product : SUBSET Product]]
        BY <1>1 DEF CatalogTypeOK
      <3>. QED  BY <1>3, <1>5, <3>1
    <2>2. at' \in [Entries -> Statements]
      BY <1>1 DEF CatalogTypeOK, Statements
    <2>. QED  BY <1>1, <2>1, <2>2 DEF CatalogTypeOK, rows
  <1>7. own'[t].brand = mine /\ own'[t].values = {} /\ own'[t].product = {}
    BY <1>1, <1>2, <1>3 DEF CatalogTypeOK
  <1>8. Proceeds(t)'
    BY <1>1, <1>5, <1>7 DEF Proceeds, Resolves, OwnRows, Writes, Before, Resolving, Writing
  <1>. QED  BY <1>1, <1>3, <1>6, <1>7, <1>8, MovesOn DEF CatalogTypeOK

LEMMA ReadBrandInv ==
  ASSUME CatalogInv, NEW t \in Entries, ReadBrand(t)
  PROVE  CatalogInv'
  <1>1. PICK b \in brands \cup own[t].brand :
          b.key = brandKey(t) /\ resolved' = [resolved EXCEPT ![t].brand = b]
    BY DEF ReadBrand
  <1>2. /\ CatalogTypeOK /\ Proceeds(t) /\ at[t] = "readBrand"
        /\ at' = [at EXCEPT ![t] = "dimensions"] /\ at'[t] = "dimensions"
        /\ UNCHANGED <<request, index, attempt, sku, own, rows, listing, answer>>
    BY DEF CatalogInv, ReadBrand, Goes, others, CatalogTypeOK
  <1>3. b \in BrandRow
    BY <1>2 DEF CatalogTypeOK
  <1>4. CatalogTypeOK'
    BY <1>1, <1>2, <1>3 DEF CatalogTypeOK, Statements, rows
  <1>5. resolved'[t].brand = b /\ resolved'[t].values = <<>> /\ request[t].brand # None /\ index[t] = 1
    BY <1>1, <1>2 DEF CatalogTypeOK, Proceeds, Resolves, Before, Unresolved
  <1>6. BrandResolved(t)'
    BY <1>1, <1>2, <1>5 DEF BrandResolved, brandKey, rows
  <1>7. ValuesResolved(t)'
    <2>1. Len(request[t].classifications) \in Nat
      BY <1>2, RequestShape, LenProperties
    <2>. QED  BY <1>2, <1>5, <2>1 DEF ValuesResolved, Asked
  <1>8. Resolves(t)'
    BY <1>2, <1>5, <1>6, <1>7 DEF Resolves, Before, Resolving, Writing
  <1>9. own[t].values = {}
    BY <1>2 DEF Proceeds, OwnRows
  <1>10. OwnRows(t)' /\ Writes(t)' /\ Prepared(request'[t])
    BY <1>2 DEF Proceeds, OwnRows, Writes, Before, Resolving, Writing
  <1>11. Proceeds(t)'
    BY <1>2, <1>8, <1>10 DEF Proceeds
  <1>. QED  BY <1>1, <1>2, <1>4, <1>11, MovesOn DEF CatalogTypeOK

LEMMA DimensionsInv ==
  ASSUME CatalogInv, NEW t \in Entries, CheckDimensions(t)
  PROVE  CatalogInv'
  <1>1. CASE RollsBack(t, "invalid")
    BY <1>1, RollsBackInv DEF CheckDimensions
  <1>2. CASE /\ Goes(t, IF classifications(t) = <<>> THEN "product" ELSE "value")
             /\ UNCHANGED <<index, attempt, sku, resolved, own, others>>
    <2> DEFINE next == IF classifications(t) = <<>> THEN "product" ELSE "value"
    <2>1. /\ CatalogTypeOK /\ Proceeds(t) /\ at[t] = "dimensions"
          /\ at' = [at EXCEPT ![t] = next] /\ at'[t] = next
          /\ UNCHANGED <<request, index, attempt, sku, resolved, own, rows, listing, answer>>
      BY <1>2 DEF CatalogInv, CheckDimensions, Goes, others, CatalogTypeOK
    <2>2. CatalogTypeOK'
      BY <2>1 DEF CatalogTypeOK, Statements, rows
    <2>3. /\ Asked(t) \in Nat /\ (classifications(t) = <<>> <=> Asked(t) = 0)
      BY <2>1, RequestShape, LenProperties, EmptySeq DEF Asked, classifications
    <2>4. index[t] = 1 /\ Len(resolved[t].values) = 0 /\ BrandResolved(t) /\ ValuesResolved(t)
      BY <2>1 DEF Proceeds, Resolves, Before
    <2>5. BrandResolved(t)' /\ ValuesResolved(t)'
      BY <2>1, <2>4 DEF BrandResolved, brandKey, ValuesResolved, Asked, Named, rows
    <2>6. Asked(t)' = Asked(t)
      BY <2>1 DEF Asked
    <2>7. Resolves(t)'
      BY <2>1, <2>3, <2>4, <2>5, <2>6 DEF Resolves, Before, Resolving, Writing
    <2>8. OwnRows(t)' /\ Writes(t)' /\ Prepared(request'[t])
      BY <2>1, <2>4 DEF Proceeds, OwnRows, Writes, Before, Resolving, Writing
    <2>9. Proceeds(t)'
      BY <2>1, <2>7, <2>8 DEF Proceeds
    <2>. QED  BY <2>1, <2>2, <2>9, MovesOn DEF CatalogTypeOK
  <1>. QED  BY <1>1, <1>2 DEF CheckDimensions

LEMMA InsertValueInv ==
  ASSUME CatalogInv, NEW t \in Entries, InsertValue(t)
  PROVE  CatalogInv'
  <1> DEFINE row == [key |-> valueKey(t), name |-> classifications(t)[index[t]].value, by |-> t]
             mine == IF \E v \in values : v.key = valueKey(t) THEN {} ELSE {row}
  <1>1. /\ CatalogTypeOK /\ Proceeds(t) /\ at[t] = "value"
        /\ at' = [at EXCEPT ![t] = "readValue"] /\ at'[t] = "readValue"
        /\ UNCHANGED <<request, index, attempt, sku, resolved, rows, listing, answer>>
    BY DEF CatalogInv, InsertValue, Goes, others, CatalogTypeOK
  <1>2. own' = [own EXCEPT ![t].values = @ \cup mine]
    <2>1. CASE \E v \in values : v.key = valueKey(t)
      <3>1. own' = own /\ mine = {}
        BY <2>1 DEF InsertValue
      <3>. QED  BY <1>1, <3>1 DEF CatalogTypeOK
    <2>2. CASE ~\E v \in values : v.key = valueKey(t)
      BY <2>2 DEF InsertValue
    <2>. QED  BY <2>1, <2>2
  <1>3. index[t] \in 1..Asked(t) /\ Asked(t) \in Nat
    BY <1>1, RequestShape, LenProperties DEF Proceeds, Resolves, Resolving, Asked
  <1>4. row \in ValueRow /\ row.key = Named(t, index[t])
    <2>1. classifications(t)[index[t]] \in Listed
      BY <1>1, <1>3, RequestShape, ElementOfSeq DEF classifications, Asked
    <2>. QED  BY <2>1 DEF ValueRow, valueKey, Named, classifications
  <1>5. mine \in SUBSET ValueRow /\ \A v \in mine : v.by = t /\ v.key = Named(t, index[t])
    BY <1>4
  <1> HIDE DEF mine
  <1>6. CatalogTypeOK'
    <2>1. own' \in [Entries -> [brand : SUBSET BrandRow, values : SUBSET ValueRow,
                               product : SUBSET Product]]
      <3> DEFINE kept == [own[t] EXCEPT !.values = @ \cup mine]
      <3>1. own[t] \in [brand : SUBSET BrandRow, values : SUBSET ValueRow, product : SUBSET Product]
        BY <1>1 DEF CatalogTypeOK
      <3>2. own[t].values \cup mine \in SUBSET ValueRow
        BY <1>5, <3>1
      <3>3. kept \in [brand : SUBSET BrandRow, values : SUBSET ValueRow, product : SUBSET Product]
        BY <3>1, <3>2
      <3>4. own' = [own EXCEPT ![t] = kept]
        BY <1>2
      <3> HIDE DEF kept
      <3>. QED  BY <1>1, <3>3, <3>4 DEF CatalogTypeOK
    <2>2. at' \in [Entries -> Statements]
      BY <1>1 DEF CatalogTypeOK, Statements
    <2>. QED  BY <1>1, <2>1, <2>2 DEF CatalogTypeOK, rows
  <1>7. own'[t].brand = own[t].brand /\ own'[t].values = own[t].values \cup mine
        /\ own'[t].product = own[t].product /\ own[t].product = {}
    BY <1>1, <1>2 DEF CatalogTypeOK, Proceeds, OwnRows, Writing
  <1>8. BrandResolved(t)' /\ ValuesResolved(t)'
    BY <1>1, <1>7 DEF Proceeds, Resolves, Before, BrandResolved, brandKey, ValuesResolved, Asked,
                      Named, rows
  <1>9. Asked(t)' = Asked(t) /\ \A i : Named(t, i)' = Named(t, i)
    BY <1>1 DEF Asked, Named
  <1>10. Resolves(t)'
    BY <1>1, <1>8, <1>9 DEF Proceeds, Resolves, Before, Resolving, Writing
  <1>11. OwnRows(t)'
    <2>1. ASSUME NEW v \in own'[t].values PROVE \E i \in 1..index[t] : v.key = Named(t, i)
      <3>1. CASE v \in mine
        BY <1>3, <1>5, <3>1
      <3>2. CASE v \in own[t].values
        <4>1. PICK i \in 1..(index[t] - 1) : v.key = Named(t, i)
          BY <1>1, <3>2 DEF Proceeds, OwnRows
        <4>. QED  BY <1>3, <4>1
      <3>. QED  BY <1>7, <3>1, <3>2
    <2>. QED  BY <1>1, <1>5, <1>7, <1>9, <2>1 DEF Proceeds, OwnRows, Writing
  <1>12. Writes(t)' /\ Prepared(request'[t])
    BY <1>1 DEF Proceeds, Writes, Writing
  <1>13. Proceeds(t)'
    BY <1>1, <1>10, <1>11, <1>12 DEF Proceeds
  <1>. QED  BY <1>1, <1>2, <1>6, <1>7, <1>13, MovesOn DEF CatalogTypeOK

LEMMA ReadValueInv ==
  ASSUME CatalogInv, NEW t \in Entries, ReadValue(t)
  PROVE  CatalogInv'
  <1> DEFINE last == index[t] = Len(classifications(t))
             next == IF last THEN "product" ELSE "value"
             then == IF last THEN 1 ELSE index[t] + 1
  <1>1. PICK v \in values \cup own[t].values :
          v.key = valueKey(t) /\ resolved' = [resolved EXCEPT ![t].values = Append(@, v)]
    BY DEF ReadValue
  <1>2. /\ CatalogTypeOK /\ Proceeds(t) /\ at[t] = "readValue"
        /\ at' = [at EXCEPT ![t] = next] /\ index' = [index EXCEPT ![t] = then]
        /\ at'[t] = next /\ index'[t] = then
        /\ UNCHANGED <<request, attempt, sku, own, rows, listing, answer>>
    BY DEF CatalogInv, ReadValue, Goes, others, CatalogTypeOK
  <1> DEFINE had == resolved[t].values
  <1>3. /\ index[t] \in 1..Asked(t) /\ Asked(t) \in Nat /\ Len(had) = index[t] - 1
        /\ Asked(t) = Len(classifications(t)) /\ BrandResolved(t) /\ ValuesResolved(t)
    BY <1>2, RequestShape, LenProperties
       DEF Proceeds, Resolves, Resolving, Before, Asked, classifications
  <1>4. v \in ValueRow /\ v.key = Named(t, index[t]) /\ had \in Seq(ValueRow)
    BY <1>1, <1>2 DEF CatalogTypeOK, valueKey, Named, classifications
  <1>5. /\ Append(had, v) \in Seq(ValueRow) /\ Len(Append(had, v)) = index[t]
        /\ \A i \in 1..(index[t] - 1) : Append(had, v)[i] = had[i]
        /\ Append(had, v)[index[t]] = v
    BY <1>3, <1>4, AppendProperties
  <1>6. resolved'[t].values = Append(had, v) /\ resolved'[t].brand = resolved[t].brand
    BY <1>1, <1>2 DEF CatalogTypeOK
  <1>7. CatalogTypeOK'
    <2>1. resolved' \in [Entries -> [brand : BrandRow \cup {None}, values : Seq(ValueRow)]]
      <3>1. resolved \in [Entries -> [brand : BrandRow \cup {None}, values : Seq(ValueRow)]]
        BY <1>2 DEF CatalogTypeOK
      <3>. QED  BY <1>1, <1>5, <3>1
    <2>2. then \in Nat
      BY <1>3
    <2>3. next \in Statements
      BY DEF Statements
    <2> HIDE DEF then, next, had
    <2>. QED  BY <1>2, <2>1, <2>2, <2>3 DEF CatalogTypeOK, rows
  <1>8. Asked(t)' = Asked(t) /\ \A i : Named(t, i)' = Named(t, i)
    BY <1>2 DEF Asked, Named
  <1>9. BrandResolved(t)'
    BY <1>2, <1>3, <1>6 DEF BrandResolved, brandKey, rows
  <1>10. ValuesResolved(t)'
    <2>1. ASSUME NEW i \in 1..index[t]
          PROVE  Append(had, v)[i] \in values \cup own[t].values /\ Append(had, v)[i].key = Named(t, i)
      <3>1. CASE i = index[t]
        BY <1>4, <1>5, <3>1
      <3>2. CASE i \in 1..(index[t] - 1)
        BY <1>3, <1>5, <3>2 DEF ValuesResolved
      <3>. QED  BY <1>3, <3>1, <3>2
    <2>. QED  BY <1>2, <1>3, <1>5, <1>6, <1>8, <2>1 DEF ValuesResolved, rows
  <1>11. Resolves(t)'
    BY <1>2, <1>3, <1>5, <1>6, <1>8, <1>9, <1>10 DEF Resolves, Before, Resolving, Writing
  <1>12. OwnRows(t)'
    <2>1. ASSUME ~last, NEW r \in own[t].values PROVE \E i \in 1..(then - 1) : r.key = Named(t, i)
      <3>1. then - 1 = index[t]
        BY <1>3, <2>1
      <3>. QED  BY <1>2, <2>1, <3>1 DEF Proceeds, OwnRows
    <2>. QED  BY <1>2, <1>8, <2>1 DEF Proceeds, OwnRows, Writing
  <1>13. Writes(t)' /\ Prepared(request'[t])
    BY <1>2 DEF Proceeds, Writes, Writing
  <1>14. Proceeds(t)'
    BY <1>2, <1>11, <1>12, <1>13 DEF Proceeds
  <1>15. own'[t].product = {}
    BY <1>2 DEF Proceeds, OwnRows, Writing
  <1>. QED  BY <1>1, <1>2, <1>7, <1>14, <1>15, MovesOn DEF CatalogTypeOK

------------------------------------------------------------------------------
(* The product and its variants.                                           *)
(* A product is put where there was none, or in place of the one there was. *)
LEMMA ProductHeld ==
  ASSUME CatalogTypeOK, NEW t \in Entries, NEW q \in Product,
         own' = [own EXCEPT ![t].product = {q}]
  PROVE  own' \in [Entries -> [brand : SUBSET BrandRow, values : SUBSET ValueRow,
                               product : SUBSET Product]]
  <1> DEFINE OwnRow == [brand : SUBSET BrandRow, values : SUBSET ValueRow, product : SUBSET Product]
             mine == [own[t] EXCEPT !.product = {q}]
  <1>1. own \in [Entries -> OwnRow]
    BY DEF CatalogTypeOK
  <1>2. mine \in OwnRow
    <2>1. own[t] \in OwnRow /\ {q} \in SUBSET Product
      BY <1>1
    <2>2. \A h \in OwnRow, s \in SUBSET Product : [h EXCEPT !.product = s] \in OwnRow
      OBVIOUS
    <2> HIDE DEF OwnRow
    <2>. QED  BY <2>1, <2>2
  <1>3. own' = [own EXCEPT ![t] = mine]
    OBVIOUS
  <1> HIDE DEF OwnRow, mine
  <1>4. own' \in [Entries -> OwnRow]
    BY <1>1, <1>2, <1>3
  <1>. QED  BY <1>4 DEF OwnRow

LEMMA InsertProductInv ==
  ASSUME CatalogInv, NEW t \in Entries, InsertProduct(t)
  PROVE  CatalogInv'
  <1> DEFINE row == [id |-> t, brand |-> resolved[t].brand,
                     classifications |-> resolved[t].values, variants |-> <<>>]
  <1>1. /\ CatalogTypeOK /\ Proceeds(t) /\ at[t] = "product"
        /\ at' = [at EXCEPT ![t] = "sku"] /\ at'[t] = "sku"
        /\ UNCHANGED <<request, index, attempt, sku, resolved, rows, listing, answer>>
    BY DEF CatalogInv, InsertProduct, Goes, others, CatalogTypeOK
  <1>2. row \in Product
    BY <1>1, EmptySeq DEF CatalogTypeOK, Product
  <1>3. PICK p \in Product :
          /\ own' = [own EXCEPT ![t].product = {p}]
          /\ p.id = t /\ p.brand = resolved[t].brand /\ p.classifications = resolved[t].values
          /\ p.variants = <<>>
    BY <1>2 DEF InsertProduct
  <1> HIDE DEF row
  <1>4. CatalogTypeOK'
    <2>1. own' \in [Entries -> [brand : SUBSET BrandRow, values : SUBSET ValueRow,
                               product : SUBSET Product]]
      BY <1>1, <1>3, ProductHeld
    <2>2. "sku" \in Statements
      BY DEF Statements
    <2>. QED  BY <1>1, <2>1, <2>2 DEF CatalogTypeOK, rows
  <1>5. own'[t].brand = own[t].brand /\ own'[t].values = own[t].values /\ own'[t].product = {p}
    BY <1>1, <1>3 DEF CatalogTypeOK
  <1>6. Resolves(t)'
    BY <1>1, <1>5 DEF Proceeds, Resolves, Before, Resolving, Writing, BrandResolved, brandKey,
                      ValuesResolved, Asked, Named, rows
  <1>7. OwnRows(t)'
    BY <1>1, <1>5 DEF Proceeds, OwnRows, Writing
  <1>8. Len(request[t].variants) \in Nat \ {0}
    <2>1. request[t].variants # <<>>
      BY <1>1 DEF Proceeds, Prepared, createProductRequestSchema
    <2>. QED  BY <1>1, <2>1, RequestShape, EmptySeq
  <1>9. index[t] = 1 /\ Len(p.variants) = 0
    BY <1>1, <1>3 DEF Proceeds, Writes
  <1>10. WrittenAs(t, p, index[t] - 1)'
    BY <1>1, <1>3, <1>9 DEF WrittenAs
  <1>11. Writes(t)'
    BY <1>1, <1>5, <1>8, <1>9, <1>10 DEF Writes, Writing
  <1>12. Proceeds(t)'
    BY <1>1, <1>6, <1>7, <1>11 DEF Proceeds
  <1>13. \A u \in Entries \ {t} : /\ at'[u] = at[u] /\ index'[u] = index[u] /\ sku'[u] = sku[u]
                                  /\ resolved'[u] = resolved[u] /\ own'[u] = own[u]
    BY <1>1, <1>3 DEF CatalogTypeOK
  <1>14. \A x \in own'[t].product : x.variants = <<>>
    BY <1>3, <1>5
  <1>. QED  BY <1>1, <1>4, <1>12, <1>13, <1>14, MovesOn

LEMMA GenerateSkuInv ==
  ASSUME CatalogInv, NEW t \in Entries, generateSku(t)
  PROVE  CatalogInv'
  <1>1. PICK s \in Skus : sku' = [sku EXCEPT ![t] = s]
    BY DEF generateSku
  <1>2. /\ CatalogTypeOK /\ Proceeds(t) /\ at[t] = "sku"
        /\ at' = [at EXCEPT ![t] = "variant"] /\ at'[t] = "variant"
        /\ UNCHANGED <<request, index, attempt, resolved, own, rows, listing, answer>>
    BY DEF CatalogInv, generateSku, Goes, others, CatalogTypeOK
  <1>3. CatalogTypeOK'
    BY <1>1, <1>2 DEF CatalogTypeOK, Statements, rows
  <1>4. Resolves(t)' /\ OwnRows(t)'
    BY <1>2 DEF Proceeds, Resolves, Before, Resolving, Writing, BrandResolved, brandKey,
                ValuesResolved, Asked, Named, OwnRows, rows
  <1>5. Writes(t)'
    <2>1. sku'[t] = s
      BY <1>1, <1>2 DEF CatalogTypeOK
    <2>2. Writes(t)
      BY <1>2 DEF Proceeds
    <2>3. \A p, n : WrittenAs(t, p, n)' <=> WrittenAs(t, p, n)
      BY <1>2 DEF WrittenAs
    <2>. QED  BY <1>2, <2>1, <2>2, <2>3 DEF Writes, Writing
  <1>6. Proceeds(t)'
    BY <1>2, <1>4, <1>5 DEF Proceeds
  <1>. QED  BY <1>1, <1>2, <1>3, <1>6, MovesOn DEF CatalogTypeOK

LEMMA VariantInsertedInv ==
  ASSUME CatalogInv, NEW t \in Entries, at[t] = "variant", skuHolders(t) = {}, ~skuTaken(t),
         VariantInserted(t)
  PROVE  CatalogInv'
  <1> DEFINE asked == request[t].variants
             last == index[t] = Len(asked)
             next == IF last THEN "commit" ELSE "sku"
             then == IF last THEN index[t] ELSE index[t] + 1
             new == [sku |-> sku[t], attributes |-> normalizeAttributes(asked[index[t]]),
                     barcodes |-> ToSet(asked[index[t]].barcodes)]
  <1>1. /\ CatalogTypeOK /\ Proceeds(t)
        /\ at' = [at EXCEPT ![t] = next] /\ index' = [index EXCEPT ![t] = then]
        /\ at'[t] = next /\ index'[t] = then
        /\ attempt' = [attempt EXCEPT ![t] = 1]
        /\ UNCHANGED <<request, sku, resolved, rows, listing, answer>>
    BY DEF CatalogInv, VariantInserted, Goes, others, CatalogTypeOK
  <1>2. PICK p \in own[t].product : own[t].product = {p} /\ WrittenAs(t, p, index[t] - 1)
    BY <1>1 DEF Proceeds, Writes, Writing
  <1>3. p \in Product /\ p.variants \in Seq(VariantRow) /\ p.id = t
    BY <1>1, <1>2 DEF CatalogTypeOK, Product, WrittenAs
  <1>4. /\ index[t] \in 1..Len(asked) /\ Len(asked) \in Nat /\ Len(p.variants) = index[t] - 1
        /\ DOMAIN p.variants = 1..(index[t] - 1)
    BY <1>1, <1>2, <1>3, RequestShape, LenProperties DEF Proceeds, Writes, Writing, WrittenAs
  <1>5. new \in VariantRow
    <2>1. asked[index[t]] \in Described
      BY <1>1, <1>4, RequestShape, ElementOfSeq
    <2>2. sku[t] \in Skus
      BY <1>1 DEF Proceeds, Writes
    <2>. QED  BY <2>1, <2>2 DEF VariantRow
  <1>6. PICK row \in VariantRow : row = new
    BY <1>5
  <1>7. PICK more \in Seq(VariantRow) : more = Append(p.variants, row)
    BY <1>3, <1>6, AppendProperties
  <1>8. /\ Len(more) = index[t] /\ DOMAIN more = 1..index[t]
        /\ \A i \in 1..(index[t] - 1) : more[i] = p.variants[i]
        /\ more[index[t]] = row
    BY <1>3, <1>4, <1>6, <1>7, AppendProperties, LenProperties
  <1>9. PICK q \in Product : q = [p EXCEPT !.variants = more]
    BY <1>3, <1>7 DEF Product
  <1>10. /\ q.id = t /\ q.brand = p.brand /\ q.classifications = p.classifications
         /\ q.variants = more
    BY <1>3, <1>9 DEF Product
  <1>11. own' = [own EXCEPT ![t].product = {q}]
    <2>1. own' = [own EXCEPT ![t].product = {[x EXCEPT !.variants = Append(@, row)] : x \in @}]
      BY <1>6 DEF VariantInserted
    <2>2. {[x EXCEPT !.variants = Append(@, row)] : x \in own[t].product} = {q}
      BY <1>2, <1>7, <1>9
    <2>. QED  BY <1>1, <2>1, <2>2 DEF CatalogTypeOK
  <1>12. own'[t].brand = own[t].brand /\ own'[t].values = own[t].values /\ own'[t].product = {q}
    BY <1>1, <1>11 DEF CatalogTypeOK
  <1>13. CatalogTypeOK'
    <2>1. own' \in [Entries -> [brand : SUBSET BrandRow, values : SUBSET ValueRow,
                                product : SUBSET Product]]
      BY <1>1, <1>11, ProductHeld
    <2>2. then \in Nat
      BY <1>4
    <2>3. next \in Statements
      BY DEF Statements
    <2> HIDE DEF then, next
    <2>. QED  BY <1>1, <2>1, <2>2, <2>3 DEF CatalogTypeOK, rows
  <1>14. Resolves(t)' /\ OwnRows(t)'
    <2>1. next \in {"sku", "commit"}
      OBVIOUS
    <2>2. Resolves(t) /\ OwnRows(t) /\ at'[t] = next
      BY <1>1 DEF Proceeds
    <2> HIDE DEF next
    <2>3. BrandResolved(t) /\ ValuesResolved(t) /\ Len(resolved[t].values) = Asked(t)
      BY <1>1, <2>2 DEF Resolves, Before, Writing
    <2>4. BrandResolved(t)' /\ ValuesResolved(t)' /\ Asked(t)' = Asked(t)
      BY <1>1, <1>12, <2>3 DEF BrandResolved, brandKey, ValuesResolved, Asked, Named, rows
    <2>5. Resolves(t)'
      BY <1>1, <2>1, <2>2, <2>3, <2>4 DEF Resolves, Before, Resolving, Writing
    <2>. QED  BY <1>1, <1>12, <2>1, <2>2, <2>5 DEF OwnRows, Writing
  <1>15. WrittenAs(t, q, index[t])
    <2>1. ASSUME NEW i \in 1..index[t]
          PROVE  /\ q.variants[i].attributes = normalizeAttributes(asked[i])
                 /\ q.variants[i].barcodes = ToSet(asked[i].barcodes)
      <3>1. CASE i = index[t]
        BY <1>6, <1>8, <1>10, <3>1
      <3>2. CASE i \in 1..(index[t] - 1)
        BY <1>2, <1>8, <1>10, <3>2 DEF WrittenAs
      <3>. QED  BY <1>4, <3>1, <3>2
    <2>. QED  BY <1>2, <1>8, <1>10, <2>1 DEF WrittenAs
  <1>16. Writes(t)'
    <2>1. \A n : n = index[t] => WrittenAs(t, q, n)'
      BY <1>1, <1>15 DEF WrittenAs
    <2>2. CASE last
      BY <1>1, <1>12, <2>1, <2>2 DEF Writes, Writing
    <2>3. CASE ~last
      <3>1. then \in 1..Len(asked) /\ then - 1 = index[t]
        BY <1>4, <2>3
      <3>2. WrittenAs(t, q, index[t] - 1)'
        BY <1>1, <2>1, <3>1
      <3>. QED  BY <1>1, <1>12, <2>3, <3>1, <3>2 DEF Writes, Writing
    <2>. QED  BY <2>2, <2>3
  <1>17. Proceeds(t)'
    BY <1>1, <1>14, <1>16 DEF Proceeds
  <1>18. \A y \in Drawn : \A j \in DOMAIN y.variants : y.variants[j].sku # sku[t]
    BY DEF Drawn, skuHolders, skuTaken, Bears
  <1>19. p \in Drawn
    BY DEF Drawn
  <1>20. Drawn' \subseteq Drawn \cup {q}
    BY <1>1, <1>11, <1>12 DEF Drawn, rows, CatalogTypeOK
  <1>21. /\ \A i \in 1..(index[t] - 1) : q.variants[i] = p.variants[i]
         /\ q.variants[index[t]].sku = sku[t] /\ DOMAIN q.variants = 1..index[t]
    BY <1>6, <1>8, <1>10
  <1>22. SkusDiffer'
    <2>1. ASSUME NEW y \in Drawn, NEW i \in DOMAIN q.variants, NEW j \in DOMAIN y.variants,
                 q.variants[i].sku = y.variants[j].sku
          PROVE  q.id = y.id /\ i = j
      <3>1. i # index[t]
        BY <1>18, <1>21, <2>1
      <3>2. i \in DOMAIN p.variants /\ q.variants[i] = p.variants[i]
        BY <1>4, <1>21, <2>1, <3>1
      <3>. QED  BY <1>3, <1>10, <1>19, <2>1, <3>2 DEF CatalogInv, SkusDiffer
    <2>2. ASSUME NEW i \in DOMAIN q.variants, NEW j \in DOMAIN q.variants,
                 q.variants[i].sku = q.variants[j].sku
          PROVE  i = j
      <3>1. CASE j = index[t]
        <4>1. i = index[t]
          <5>1. SUFFICES ASSUME i # index[t] PROVE FALSE
            OBVIOUS
          <5>2. i \in DOMAIN p.variants /\ q.variants[i] = p.variants[i]
            BY <1>4, <1>21, <2>2, <5>1
          <5>. QED  BY <1>18, <1>19, <1>21, <2>2, <3>1, <5>2
        <4>. QED  BY <3>1, <4>1
      <3>2. CASE j # index[t]
        <4>1. j \in DOMAIN p.variants /\ q.variants[j] = p.variants[j]
          BY <1>4, <1>21, <2>2, <3>2
        <4>. QED  BY <1>19, <2>1, <2>2, <4>1
      <3>. QED  BY <3>1, <3>2
    <2>3. \A x, y \in Drawn : \A i \in DOMAIN x.variants, j \in DOMAIN y.variants :
            x.variants[i].sku = y.variants[j].sku => x.id = y.id /\ i = j
      BY DEF CatalogInv, SkusDiffer
    <2>4. \A x, y \in Drawn \cup {q} : \A i \in DOMAIN x.variants, j \in DOMAIN y.variants :
            x.variants[i].sku = y.variants[j].sku => x.id = y.id /\ i = j
      BY <2>1, <2>2, <2>3
    <2>. QED  BY <1>20, <2>4 DEF SkusDiffer
  <1>. QED  BY <1>1, <1>11, <1>13, <1>17, <1>22, WritesOn DEF CatalogTypeOK

LEMMA SkuCollidesInv ==
  ASSUME CatalogInv, NEW t \in Entries, at[t] = "variant", SkuCollides(t)
  PROVE  CatalogInv'
  <1>1. CASE RollsBack(t, "conflict")
    BY <1>1, RollsBackInv
  <1>2. CASE /\ attempt' = [attempt EXCEPT ![t] = @ + 1] /\ Goes(t, "sku")
             /\ UNCHANGED <<index, sku, resolved, own, others>>
    <2>1. /\ CatalogTypeOK /\ Proceeds(t)
          /\ at' = [at EXCEPT ![t] = "sku"] /\ at'[t] = "sku"
          /\ UNCHANGED <<request, index, sku, resolved, own, rows, listing, answer>>
      BY <1>2 DEF CatalogInv, Goes, others, CatalogTypeOK
    <2>2. CatalogTypeOK'
      BY <1>2, <2>1 DEF CatalogTypeOK, Statements, rows
    <2>3. Proceeds(t)'
      BY <2>1 DEF Proceeds, Resolves, Before, Resolving, Writing, BrandResolved, brandKey,
                  ValuesResolved, Asked, Named, OwnRows, Writes, WrittenAs, rows
    <2>. QED  BY <2>1, <2>2, <2>3, MovesOn DEF CatalogTypeOK
  <1>. QED  BY <1>1, <1>2 DEF SkuCollides

(* What a transaction commits is what it was asked for.                    *)
LEMMA CommitsInv ==
  ASSUME CatalogInv, NEW t \in Entries, NEW a \in {"created", "internal"}, Commits(t), Ends(t, a),
         UNCHANGED <<request, index, attempt, sku, resolved, listing>>
  PROVE  CatalogInv'
  <1>1. /\ CatalogTypeOK /\ Proceeds(t) /\ at[t] = "commit"
        /\ at' = [at EXCEPT ![t] = "done"] /\ own' = [own EXCEPT ![t] = NoRows]
        /\ answer' = [answer EXCEPT ![t] = a] /\ at'[t] = "done" /\ own'[t] = NoRows
        /\ brands' = brands \cup own[t].brand /\ values' = values \cup own[t].values
        /\ products' = products \cup own[t].product
    BY DEF CatalogInv, Commits, Ends, CatalogTypeOK
  <1>2. PICK p \in own[t].product :
          own[t].product = {p} /\ WrittenAs(t, p, Len(request[t].variants))
    BY <1>1 DEF Proceeds, Writes
  <1>3. /\ p \in Product /\ p.id = t /\ p.brand = resolved[t].brand
        /\ p.classifications = resolved[t].values
    BY <1>1, <1>2 DEF CatalogTypeOK, WrittenAs
  <1>4. CatalogTypeOK'
    <2>1. own[t].brand \subseteq BrandRow /\ own[t].values \subseteq ValueRow
          /\ own[t].product \subseteq Product
      BY <1>1 DEF CatalogTypeOK
    <2>. QED  BY <1>1, <2>1 DEF CatalogTypeOK, Statements, NoRows
  <1>5. Ids' = Ids \cup {t}
    BY <1>1, <1>2, <1>3 DEF Ids
  <1>6. ASSUME NEW u \in Entries PROVE Proceeds(u)'
    <2>1. CASE u = t
      BY <1>1, <2>1 DEF Proceeds, Resolves, OwnRows, Writes, Before, Resolving, Writing, NoRows
    <2>2. CASE u # t
      BY <1>1, <2>2, StaysPut DEF CatalogInv, CatalogTypeOK
    <2>. QED  BY <2>1, <2>2
  <1>7. /\ BrandResolved(t) /\ ValuesResolved(t) /\ Len(resolved[t].values) = Asked(t)
    BY <1>1 DEF Proceeds, Resolves, Before
  <1>8. ASSUME NEW x \in products PROVE (BrandAsAsked(x) /\ ClassifiedAsAsked(x) /\ VariantsAsAsked(x))'
    BY <1>1 DEF CatalogInv, AsAsked, BrandAsAsked, ClassifiedAsAsked, VariantsAsAsked, brandKey
  <1>9. BrandAsAsked(p)'
    BY <1>1, <1>3, <1>7 DEF BrandAsAsked, BrandResolved, brandKey
  <1>10. ClassifiedAsAsked(p)'
    <2>1. DOMAIN resolved[t].values = 1..Asked(t) /\ DOMAIN request[t].classifications = 1..Asked(t)
      BY <1>1, <1>7, RequestShape, LenProperties DEF CatalogTypeOK, Asked
    <2>. QED  BY <1>1, <1>3, <1>7, <2>1 DEF ClassifiedAsAsked, ValuesResolved, Named
  <1>11. VariantsAsAsked(p)'
    <2> DEFINE n == Len(request[t].variants)
    <2>1. DOMAIN p.variants = 1..n /\ DOMAIN request[t].variants = 1..n
      BY <1>1, <1>2, <1>3, RequestShape, LenProperties DEF WrittenAs, Product
    <2>. QED  BY <1>2, <1>3, <2>1 DEF VariantsAsAsked, WrittenAs
  <1>12. AsAsked'
    BY <1>1, <1>2, <1>8, <1>9, <1>10, <1>11 DEF AsAsked
  <1>13. OnceEach'
    <2>1. \A x \in products : x.id # t /\ x.id \in Entries
      BY <1>1 DEF CatalogInv, OnceEach, CatalogTypeOK, Product
    <2>. QED  BY <1>1, <1>2, <1>3, <2>1 DEF CatalogInv, OnceEach, CatalogTypeOK
  <1>14. RowsBelong'
    BY <1>1, <1>5 DEF CatalogInv, RowsBelong, Proceeds, OwnRows
  <1>15. Drawn' \subseteq Drawn
    BY <1>1 DEF Drawn, CatalogTypeOK, NoRows
  <1>16. SkusDiffer'
    BY <1>15 DEF CatalogInv, SkusDiffer
  <1>17. ReadSoFar'
    BY <1>5 DEF CatalogInv, ReadSoFar
  <1>. QED  BY <1>4, <1>6, <1>12, <1>13, <1>14, <1>16, <1>17 DEF CatalogInv

(* The reader sees the products grow and never shrink.                     *)
LEMMA ListsInv ==
  ASSUME CatalogInv, Lists
  PROVE  CatalogInv'
  <1>1. /\ CatalogTypeOK /\ ReadSoFar /\ Ids \subseteq Entries
        /\ UNCHANGED <<request, at, index, attempt, sku, resolved, own, rows, answer, lost>>
    <2>1. CatalogTypeOK /\ ReadSoFar
      BY DEF CatalogInv
    <2>2. Ids \subseteq Entries
      BY <2>1 DEF CatalogTypeOK, Product, Ids
    <2>3. UNCHANGED <<request, at, index, attempt, sku, resolved, own, rows, answer, lost>>
      BY DEF Lists, ListProducts, ListClassifications, ListVariants, loadAttributes, loadBarcodes,
             Reads, progress
    <2>. QED  BY <2>1, <2>2, <2>3
  <1>2. Ids' = Ids
    BY <1>1 DEF Ids, rows
  <1>3. /\ listing' \in [at : Chapters, products : SUBSET Entries, classifications : SUBSET Entries,
                         variants : SUBSET Entries, attributes : SUBSET Entries,
                         barcodes : SUBSET Entries]
        /\ ReadSoFar'
    <2>1. CASE ListProducts
      BY <1>1, <1>2, <2>1 DEF ListProducts, Reads, CatalogTypeOK, Chapters, ReadSoFar
    <2>2. CASE ListClassifications
      BY <1>1, <1>2, <2>2 DEF ListClassifications, Reads, CatalogTypeOK, Chapters, ReadSoFar
    <2>3. CASE ListVariants
      BY <1>1, <1>2, <2>3 DEF ListVariants, Reads, CatalogTypeOK, Chapters, ReadSoFar
    <2>4. CASE loadAttributes
      BY <1>1, <1>2, <2>4 DEF loadAttributes, Reads, CatalogTypeOK, Chapters, ReadSoFar
    <2>5. CASE loadBarcodes
      BY <1>1, <1>2, <2>5 DEF loadBarcodes, Reads, CatalogTypeOK, Chapters, ReadSoFar
    <2>. QED  BY <2>1, <2>2, <2>3, <2>4, <2>5 DEF Lists
  <1>4. CatalogTypeOK'
    BY <1>1, <1>3 DEF CatalogTypeOK, rows
  <1>5. ASSUME NEW u \in Entries PROVE Proceeds(u)'
    BY <1>1, StaysPut DEF CatalogInv, rows
  <1>6. AsAsked' /\ OnceEach' /\ RowsBelong' /\ SkusDiffer'
    BY <1>1, <1>2 DEF CatalogInv, AsAsked, BrandAsAsked, ClassifiedAsAsked, VariantsAsAsked, brandKey,
                      OnceEach, RowsBelong, SkusDiffer, Drawn, rows
  <1>. QED  BY <1>3, <1>4, <1>5, <1>6 DEF CatalogInv

(* A transaction that waits is at a statement.                             *)
LEMMA OnlyTheLiveWait ==
  ASSUME NEW S \in Circles, NEW t \in S
  PROVE  at[t] # "done"
  BY DEF Circles, WaitsFor

LEMMA CatalogStepInv ==
  ASSUME CatalogInv, [CatalogNext]_catalogVars
  PROVE  CatalogInv'
  <1>1. CASE UNCHANGED catalogVars
    <2>1. CatalogTypeOK'
      BY <1>1 DEF catalogVars, CatalogInv, CatalogTypeOK
    <2>2. ASSUME NEW t \in Entries PROVE Proceeds(t)'
      BY <1>1, StaysPut DEF catalogVars, CatalogInv
    <2>3. AsAsked' /\ OnceEach' /\ RowsBelong'
      BY <1>1 DEF catalogVars, CatalogInv, AsAsked, BrandAsAsked, ClassifiedAsAsked,
                  VariantsAsAsked, brandKey, OnceEach, RowsBelong, Ids
    <2>4. SkusDiffer' /\ ReadSoFar'
      BY <1>1 DEF catalogVars, CatalogInv, SkusDiffer, Drawn, ReadSoFar, Ids
    <2>. QED  BY <2>1, <2>2, <2>3, <2>4 DEF CatalogInv
  <1>2. CASE Lists
    BY <1>2, ListsInv
  <1>3. ASSUME NEW t \in Entries, Steps(t) PROVE CatalogInv'
    <2>1. CASE Prepare(t)
      BY <2>1, PrepareInv
    <2>2. CASE assertAttributeNamesAreDefined(t)
      BY <2>2, NamesInv
    <2>3. CASE InsertBrand(t)
      BY <2>3, InsertBrandInv
    <2>4. CASE ReadBrand(t)
      BY <2>4, ReadBrandInv
    <2>5. CASE CheckDimensions(t)
      BY <2>5, DimensionsInv
    <2>6. CASE InsertValue(t)
      BY <2>6, InsertValueInv
    <2>7. CASE ReadValue(t)
      BY <2>7, ReadValueInv
    <2>8. CASE InsertProduct(t)
      BY <2>8, InsertProductInv
    <2>9. CASE generateSku(t)
      BY <2>9, GenerateSkuInv
    <2>10. CASE insertVariantWithUniqueSku(t)
      BY <2>10, VariantInsertedInv, SkuCollidesInv DEF insertVariantWithUniqueSku
    <2>11. CASE Commit(t)
      BY <2>11, CommitsInv DEF Commit
    <2>12. CASE ConnectionLost(t)
      BY <2>12, RollsBackInv, CommitsInv DEF ConnectionLost
    <2>13. CASE DeadlockDetected(t)
      BY <2>13, RollsBackInv, OnlyTheLiveWait DEF DeadlockDetected
    <2>. QED  BY <1>3, <2>1, <2>2, <2>3, <2>4, <2>5, <2>6, <2>7, <2>8, <2>9, <2>10, <2>11, <2>12,
                 <2>13 DEF Steps
  <1>. QED  BY <1>1, <1>2, <1>3 DEF CatalogNext

(* The inductive invariant.                                                *)
THEOREM CatalogInductive == CatalogSpec => []CatalogInv
  BY CatalogInitInv, CatalogStepInv, PTL DEF CatalogSpec

(* service.ts, createProduct: a product is there as it was asked for, with *)
(* its brand and its values, under SKUs of its own, and nothing is left of *)
(* a request that failed, for any number of requests at once.              *)
THEOREM ProductsAreCreatedWhole == CatalogSpec => []CreatedWhole
  <1>1. CatalogInv => CreatedWhole
    BY DEF CatalogInv, CreatedWhole, AsAsked, OnceEach, RowsBelong, SkusDiffer, Drawn
  <1>. QED  BY <1>1, CatalogInductive, PTL

(* catalogRepository.ts, loadProducts: five statements that each see       *)
(* another moment show no product in part.                                 *)
THEOREM ListingsAreWhole == CatalogSpec => []ListingIsWhole
  <1>1. CatalogInv => ListingIsWhole
    BY DEF CatalogInv, ReadSoFar, ListingIsWhole
  <1>. QED  BY <1>1, CatalogInductive, PTL

------------------------------------------------------------------------------
(* Who waits in a circle.                                                  *)
LEMMA FilingIsFinite ==
  ASSUME CatalogTypeOK
  PROVE  IsFiniteSet(Filing)
  <1> DEFINE named(t) == {Named(t, i) : i \in DOMAIN request[t].classifications}
             parts == {named(t) : t \in Entries}
  <1>1. ASSUME NEW t \in Entries PROVE IsFiniteSet(named(t))
    <2>1. IsFiniteSet(DOMAIN request[t].classifications)
      BY <1>1, RequestShape, LenProperties, FS_Interval
    <2> DEFINE name == [i \in DOMAIN request[t].classifications |-> Named(t, i)]
    <2>2. name \in Surjection(DOMAIN request[t].classifications, named(t))
      BY DEF Surjection
    <2>. QED  BY <2>1, <2>2, FS_Surjection
  <1>2. IsFiniteSet(parts)
    <2> DEFINE part == [t \in Entries |-> named(t)]
    <2>1. part \in Surjection(Entries, parts)
      BY DEF Surjection
    <2>. QED  BY <2>1, CatalogAssumption, FS_Surjection
  <1>3. \A T \in parts : IsFiniteSet(T)
    BY <1>1
  <1>4. IsFiniteSet(UNION parts)
    BY <1>2, <1>3, FS_UNION
  <1>. QED  BY <1>4 DEF Filing

(* In a circle nobody is at a brand, because a transaction that is holds   *)
(* nothing yet; and who is at a variant is held up by somebody at a later  *)
(* one of theirs.                                                          *)
LEMMA CircleShape ==
  ASSUME CatalogInv, NEW S \in Circles, NEW t \in S
  PROVE  /\ t \in Entries /\ at[t] \in {"value", "variant"}
         /\ Prepared(request[t])
         /\ at[t] = "value" => \E u \in S : u # t /\ \E v \in own[u].values : v.key = valueKey(t)
         /\ at[t] = "variant" => \E u \in S : /\ u # t /\ at[u] = "variant"
                                              /\ Len(request[u].variants) > 1
  <1>1. CatalogTypeOK /\ t \in Entries /\ Proceeds(t) /\ S \subseteq Entries
    BY DEF CatalogInv, Circles
  <1>2. PICK u \in S : u \in WaitsFor(t)
    BY DEF Circles
  <1>3. PICK w \in S : t \in WaitsFor(w)
    BY DEF Circles
  <1>4. own[t] # NoRows
    BY <1>3 DEF WaitsFor, brandHolders, valueHolders, skuHolders, NoRows
  <1>5. at[t] \in {"value", "variant"}
    BY <1>1, <1>2, <1>4 DEF WaitsFor, Proceeds, OwnRows
  <1>6. Prepared(request[t])
    BY <1>1, <1>5 DEF Proceeds
  <1>7. ASSUME at[t] = "value"
        PROVE  \E x \in S : x # t /\ \E v \in own[x].values : v.key = valueKey(t)
    BY <1>2, <1>7 DEF WaitsFor, valueHolders
  <1>8. ASSUME at[t] = "variant"
        PROVE  \E x \in S : x # t /\ at[x] = "variant" /\ Len(request[x].variants) > 1
    <2>1. PICK p \in own[u].product : Bears(p, sku[t])
      BY <1>2, <1>8 DEF WaitsFor, skuHolders
    <2>2. u # t /\ u \in Entries /\ Proceeds(u)
      BY <1>1, <1>2, <1>8 DEF WaitsFor, skuHolders, CatalogInv
    <2>3. at[u] = "variant"
      <3>1. at[u] \in {"sku", "variant", "commit"}
        BY <2>1, <2>2 DEF Proceeds, OwnRows, Writing
      <3>2. WaitsFor(u) # {}
        BY DEF Circles
      <3>. QED  BY <3>1, <3>2 DEF WaitsFor
    <2>4. Len(request[u].variants) > 1
      <3>1. /\ index[u] \in 1..Len(request[u].variants)
            /\ WrittenAs(u, p, index[u] - 1)
        BY <2>1, <2>2, <2>3 DEF Proceeds, Writes, Writing
      <3>2. p \in Product
        BY <1>1, <2>1, <2>2 DEF CatalogTypeOK
      <3>3. DOMAIN p.variants = 1..Len(p.variants) /\ Len(p.variants) = index[u] - 1
        BY <3>1, <3>2, LenProperties DEF Product, WrittenAs
      <3>4. PICK i \in DOMAIN p.variants : TRUE
        BY <2>1 DEF Bears
      <3>5. Len(request[u].variants) \in Nat
        BY <1>1, <2>2, RequestShape, LenProperties
      <3>. QED  BY <3>1, <3>3, <3>4, <3>5
    <2>. QED  BY <2>2, <2>3, <2>4
  <1>. QED  BY <1>1, <1>5, <1>6, <1>7, <1>8

Blameless ==
  /\ InOneOrder
  /\ ~\E t, u \in Entries : /\ t # u
                            /\ Len(request[t].variants) > 1 /\ Len(request[u].variants) > 1

(* Of those that wait for a value, look at the one that waits for the last *)
(* in the order: whoever holds it waits for a later one still.             *)
LEMMA NoCircles ==
  ASSUME CatalogInv, Blameless
  PROVE  Circles = {}
  <1> SUFFICES ASSUME NEW S \in Circles PROVE FALSE
    OBVIOUS
  <1>1. CatalogTypeOK /\ S \subseteq Entries /\ S # {}
    BY DEF CatalogInv, Circles
  <1>2. ASSUME NEW t \in S PROVE at[t] = "value"
    <2> SUFFICES ASSUME at[t] = "variant" PROVE FALSE
      BY CircleShape
    <2>1. PICK u \in S : u # t /\ at[u] = "variant" /\ Len(request[u].variants) > 1
      BY CircleShape
    <2>2. PICK w \in S : w # u /\ at[w] = "variant" /\ Len(request[w].variants) > 1
      BY <2>1, CircleShape
    <2>. QED  BY <1>1, <2>1, <2>2 DEF Blameless
  <1> DEFINE N == Cardinality(Filing)
  <1>3. N \in Nat
    BY <1>1, FilingIsFinite, FS_CardinalityType
  <1>4. PICK rank \in [Filing -> 1..N] :
          \A t \in Entries : Prepared(request[t]) =>
            \A i, j \in DOMAIN request[t].classifications :
              i < j => rank[Named(t, i)] < rank[Named(t, j)]
    BY DEF Blameless, InOneOrder
  <1> HIDE DEF N
  <1>5. ASSUME NEW t \in S
        PROVE  /\ index[t] \in DOMAIN request[t].classifications
               /\ DOMAIN request[t].classifications = 1..Asked(t) /\ Asked(t) \in Nat
               /\ Named(t, index[t]) \in Filing /\ rank[Named(t, index[t])] \in 1..N
    <2>1. DOMAIN request[t].classifications = 1..Asked(t) /\ Asked(t) \in Nat
      BY <1>1, RequestShape, LenProperties DEF Asked
    <2>2. index[t] \in 1..Asked(t)
      BY <1>1, <1>2 DEF CatalogInv, Proceeds, Resolves, Resolving
    <2>3. Named(t, index[t]) \in Filing
      BY <1>1, <2>1, <2>2 DEF Filing
    <2>. QED  BY <1>4, <2>1, <2>2, <2>3
  <1> DEFINE after(t) == N - rank[Named(t, index[t])]
             distances == {after(t) : t \in S}
  <1>6. PICK n \in distances : \A m \in distances : n <= m
    <2>1. distances \in SUBSET Nat /\ distances # {}
      BY <1>1, <1>3, <1>5
    <2> HIDE DEF distances
    <2>. QED  BY <2>1, SmallestNumber
  <1>7. PICK t \in S : n = after(t)
    BY <1>6
  <1>8. PICK u \in S : \E v \in own[u].values : v.key = valueKey(t)
    BY <1>2, CircleShape
  <1>9. PICK i \in 1..(index[u] - 1) : Named(u, i) = valueKey(t)
    BY <1>1, <1>2, <1>8 DEF CatalogInv, Proceeds, OwnRows
  <1>10. valueKey(t) = Named(t, index[t])
    BY DEF valueKey, Named, classifications
  <1>11. rank[Named(u, i)] < rank[Named(u, index[u])]
    <2>1. i \in DOMAIN request[u].classifications /\ i < index[u]
      BY <1>5, <1>9
    <2>2. Prepared(request[u])
      BY CircleShape
    <2>. QED  BY <1>1, <1>4, <1>5, <2>1, <2>2
  <1>12. after(u) < after(t)
    BY <1>3, <1>5, <1>9, <1>10, <1>11
  <1>13. n <= after(u)
    BY <1>6
  <1>. QED  BY <1>3, <1>5, <1>7, <1>12, <1>13

(* A fault the client is told of has a cause.                              *)
LEMMA CauseInit == CatalogInit => FailsForCause
  BY CatalogAssumption DEF CatalogInit, FailsForCause

LEMMA CauseStep ==
  ASSUME CatalogInv, FailsForCause, [CatalogNext]_catalogVars
  PROVE  FailsForCause'
  <1>1. request' = request
    BY DEF CatalogNext, Steps, Prepare, assertAttributeNamesAreDefined, InsertBrand, ReadBrand,
           CheckDimensions, InsertValue, ReadValue, InsertProduct, generateSku,
           insertVariantWithUniqueSku, VariantInserted, SkuCollides, Commit, ConnectionLost,
           DeadlockDetected, RollsBack, Lists, ListProducts, ListClassifications, ListVariants,
           loadAttributes, loadBarcodes, Reads, others, catalogVars
  <1>2. Blameless' = Blameless
    BY <1>1 DEF Blameless, InOneOrder, Filing, Named
  <1> SUFFICES ASSUME Blameless PROVE \A t \in Entries : answer'[t] = "internal" => t \in lost'
    BY <1>1, <1>2 DEF FailsForCause, Blameless, InOneOrder, Filing, Named
  <1>3. \A t \in Entries : answer[t] = "internal" => t \in lost
    BY DEF FailsForCause, Blameless
  <1>4. lost \subseteq lost'
    BY DEF CatalogNext, Steps, Prepare, assertAttributeNamesAreDefined, InsertBrand, ReadBrand,
           CheckDimensions, InsertValue, ReadValue, InsertProduct, generateSku,
           insertVariantWithUniqueSku, VariantInserted, SkuCollides, Commit, ConnectionLost,
           DeadlockDetected, RollsBack, Lists, ListProducts, ListClassifications, ListVariants,
           loadAttributes, loadBarcodes, Reads, others, catalogVars
  <1>5. ASSUME NEW t \in Entries, answer'[t] # answer[t], answer'[t] = "internal"
        PROVE  t \in lost'
    <2>1. answer \in [Entries -> {None, "created", "invalid", "conflict", "internal"}]
      BY DEF CatalogInv, CatalogTypeOK
    <2>2. ASSUME NEW u \in Entries, NEW a, a # "internal", answer' = [answer EXCEPT ![u] = a]
          PROVE  FALSE
      BY <1>5, <2>1, <2>2
    <2>3. ASSUME NEW u \in Entries, Steps(u) PROVE t \in lost'
      <3>1. CASE ConnectionLost(u)
        BY <1>5, <2>1, <3>1 DEF ConnectionLost, RollsBack, Ends
      <3>2. CASE DeadlockDetected(u)
        BY <3>2, NoCircles DEF DeadlockDetected
      <3>3. CASE Commit(u)
        BY <2>2, <3>3 DEF Commit, Ends
      <3>4. CASE RollsBack(u, "invalid") \/ RollsBack(u, "conflict")
        BY <2>2, <3>4 DEF RollsBack, Ends
      <3>5. CASE UNCHANGED answer
        BY <1>5, <3>5
      <3>. QED  BY <2>3, <3>1, <3>2, <3>3, <3>4, <3>5
                DEF Steps, Prepare, assertAttributeNamesAreDefined, InsertBrand, ReadBrand,
                    CheckDimensions, InsertValue, ReadValue, InsertProduct, generateSku,
                    insertVariantWithUniqueSku, VariantInserted, SkuCollides, others
    <2>4. ~UNCHANGED answer
      BY <1>5
    <2>. QED  BY <2>3, <2>4 DEF CatalogNext, Lists, ListProducts, ListClassifications, ListVariants,
                 loadAttributes, loadBarcodes, Reads, catalogVars
  <1>. QED  BY <1>3, <1>4, <1>5

(* service.ts 337-366: requests that name their values in one order, of    *)
(* which at most one draws several SKUs, never wait for each other in a    *)
(* circle, however many they are: what fails lost its connection.          *)
THEOREM FaultsHaveACause == CatalogSpec => []FailsForCause
  BY CatalogInductive, CauseInit, CauseStep, PTL DEF CatalogSpec

------------------------------------------------------------------------------
(* Archive safety.                                                         *)
USE VariantsAssumption

(* What each kind of command carries.                                      *)
LEMMA CommandShape ==
  ASSUME NEW c \in Command
  PROVE  /\ c.kind \in {"post", "product", "variant"}
         /\ c.kind = "post" => /\ c.shelf \in Shelves /\ c.delta \in Int
                               /\ c.need \in Need
         /\ c.kind = "product" => c.target \in Products /\ c.status \in Status
         /\ c.kind = "variant" => c.target \in Variants /\ c.status \in Status
  BY NumbersAssumption DEF Command, Posting, ProductChange, VariantChange

(* The variant an archive locks first.                                     *)
LEMMA SmallestVariant ==
  ASSUME NEW T \in SUBSET Variants, T # {}
  PROVE  \E v \in T : \A w \in T : v <= w
  <1>1. T \in SUBSET Nat
    OBVIOUS
  <1>. QED  BY <1>1, SmallestNumber

LEMMA NextVariantIsUnlocked ==
  ASSUME NEW t \in Txs, Unlocked(t) # {}
  PROVE  NextVariant(t) \in Unlocked(t)
  <1>1. Unlocked(t) \in SUBSET Variants
    BY DEF Unlocked, VariantsOf
  <1>. QED  BY <1>1, SmallestVariant DEF NextVariant

(* A transaction that waits for a lock waits for a lock of its own.        *)
LEMMA WantedIsLock ==
  ASSUME TypeOK, NEW t \in Waiting, StageOf(t)
  PROVE  Wanted(t) \in Lock /\ Wanted(t).tx = t
  <1>1. t \in Txs /\ command[t] \in Command
    BY DEF Waiting, StageOf
  <1>2. CASE pc[t] \in {"product", "variant", "shelf"}
    BY <1>1, <1>2, CommandShape
       DEF StageOf, Wanted, Lock, Merchandise, Rows, CatalogRows
  <1>3. CASE pc[t] = "target"
    BY <1>1, <1>3, CommandShape DEF StageOf, Wanted, Lock, Rows, CatalogRows
  <1>4. CASE pc[t] = "variants" /\ Unlocked(t) # {}
    <2>1. NextVariant(t) \in Variants
      BY <1>1, <1>4, NextVariantIsUnlocked DEF Unlocked, VariantsOf
    <2>. QED  BY <1>1, <1>4, <2>1 DEF Wanted, Lock, Rows, CatalogRows
  <1>. QED  BY <1>2, <1>3, <1>4 DEF Waiting

(* A granted lock is compatible with those already held.                   *)
LEMMA GrantKeepsCompatible ==
  ASSUME TypeOK, LocksCompatible, NEW t \in Waiting, StageOf(t),
         Granted(t), held' = held \cup {Wanted(t)}
  PROVE  LocksCompatible'
  <1>1. Wanted(t) \in Lock /\ Wanted(t).tx = t
    BY WantedIsLock
  <1>2. ASSUME NEW l \in held, l.row = Wanted(t).row, l.tx # t
        PROVE  l.mode = "SHARE" /\ Wanted(t).mode = "SHARE"
    <2>1. l.tx \in Txs \ {t} /\ l.tx \notin Blockers(t)
      BY <1>2 DEF TypeOK, Lock, Granted
    <2>2. l.mode \in {"SHARE", "UPDATE"} /\ Wanted(t).mode \in {"SHARE", "UPDATE"}
      BY <1>1, <1>2 DEF TypeOK, Lock
    <2>. QED  BY <1>2, <2>1, <2>2 DEF Blockers
  <1>. QED  BY <1>1, <1>2 DEF LocksCompatible
-----------------------------------------------------------------------------
(* A transaction that does nothing loses nothing while no table changes.   *)
LEMMA BystanderKeeps ==
  ASSUME NEW u \in Txs, StageOf(u), PostingKnows(u), ChangeKnows(u),
         pc'[u] = pc[u], command'[u] = command[u], seen'[u] = seen[u],
         \A l \in held : l.tx = u => l \in held',
         UNCHANGED <<lifecycle, stock>>
  PROVE  StageOf(u)' /\ PostingKnows(u)' /\ ChangeKnows(u)'
  <1>1. StageOf(u)'
    BY DEF StageOf
  <1>2. PostingKnows(u)'
    BY DEF PostingKnows, Shares, HasLocked, Merchandise, Effective, After
  <1>3. ChangeKnows(u)'
    BY DEF ChangeKnows, HasLocked, AtStake, HoldsStock
  <1>. QED  BY <1>1, <1>2, <1>3

(* A step of t that changes no table preserves the invariant if it does so *)
(* for t and for the locks of t.                                           *)
LEMMA QuietStep ==
  ASSUME IInv, NEW t \in Txs, TypeOK', UNCHANGED <<lifecycle, stock>>,
         \A u \in Txs \ {t} : /\ pc'[u] = pc[u]
                              /\ command'[u] = command[u] /\ seen'[u] = seen[u],
         \A l \in held : l.tx # t => l \in held',
         \A l \in held' : l.tx # t => l \in held,
         LocksCompatible',
         StageOf(t)', PostingKnows(t)', ChangeKnows(t)',
         \A l \in held' : l.tx = t => HolderOf(l)'
  PROVE  IInv'
  <1>1. ArchivedIsEmpty'
    BY DEF IInv, ArchivedIsEmpty, HoldsStock
  <1>2. ASSUME NEW u \in Txs
        PROVE  StageOf(u)' /\ PostingKnows(u)' /\ ChangeKnows(u)'
    <2>1. CASE u # t
      BY <2>1, BystanderKeeps DEF IInv
    <2>. QED  BY <2>1
  <1>3. ASSUME NEW l \in held', l.tx # t
        PROVE  HolderOf(l)'
    <2>1. l \in held /\ l.tx \in Txs \ {t} /\ HolderOf(l)
      BY <1>3 DEF IInv, TypeOK, Lock
    <2>. QED  BY <2>1 DEF HolderOf, Merchandise
  <1>. QED  BY <1>1, <1>2, <1>3 DEF IInv

(* The end of a transaction that changes no table.                         *)
LEMMA RollbackStep ==
  ASSUME IInv, NEW t \in Txs, Rollback(t)
  PROVE  IInv'
  <1>1. /\ pc' = [pc EXCEPT ![t] = "idle"]
        /\ command' = [command EXCEPT ![t] = Null]
        /\ seen' = [seen EXCEPT ![t] = Null]
        /\ held' = {l \in held : l.tx # t}
        /\ UNCHANGED <<lifecycle, stock>>
    BY DEF Rollback, End, Goto
  <1>2. TypeOK'
    BY <1>1 DEF IInv, TypeOK, Stage
  <1>3. pc'[t] = "idle"
    BY <1>1 DEF IInv, TypeOK
  <1>4. StageOf(t)' /\ PostingKnows(t)' /\ ChangeKnows(t)'
    BY <1>3 DEF StageOf, PostingKnows, ChangeKnows
  <1>5. LocksCompatible'
    BY <1>1 DEF IInv, LocksCompatible
  <1>6. \A u \in Txs \ {t} : /\ pc'[u] = pc[u]
                            /\ command'[u] = command[u] /\ seen'[u] = seen[u]
    BY <1>1 DEF IInv, TypeOK
  <1>. QED  BY <1>1, <1>2, <1>4, <1>5, <1>6, QuietStep

LEMMA BeginStep ==
  ASSUME IInv, NEW t \in Txs, Begin(t)
  PROVE  IInv'
  <1>1. PICK c \in Command :
          /\ pc[t] = "idle"
          /\ command' = [command EXCEPT ![t] = c]
          /\ pc' = [pc EXCEPT ![t] = IF c.kind = "post" THEN "product" ELSE "target"]
          /\ UNCHANGED <<seen, held, lifecycle, stock>>
    BY DEF Begin, Goto
  <1>2. TypeOK'
    BY <1>1 DEF IInv, TypeOK, Stage
  <1>3. /\ command'[t] = c
        /\ pc'[t] = IF c.kind = "post" THEN "product" ELSE "target"
    BY <1>1 DEF IInv, TypeOK
  <1>4. StageOf(t)' /\ PostingKnows(t)' /\ ChangeKnows(t)'
    BY <1>3 DEF StageOf, PostingKnows, ChangeKnows
  <1>5. LocksCompatible'
    BY <1>1 DEF IInv, LocksCompatible
  <1>6. \A u \in Txs \ {t} : /\ pc'[u] = pc[u]
                            /\ command'[u] = command[u] /\ seen'[u] = seen[u]
    BY <1>1 DEF IInv, TypeOK
  <1>7. \A l \in held : l.tx # t
    BY <1>1 DEF IInv, HolderOf
  <1>. QED  BY <1>1, <1>2, <1>4, <1>5, <1>6, <1>7, QuietStep

(* A lock granted to t, and the next stage.                                *)
LEMMA GrantStep ==
  ASSUME IInv, NEW t \in Waiting, Granted(t), Keep(t), UNCHANGED <<lifecycle, stock>>,
         UNCHANGED command, TypeOK',
         \A u \in Txs \ {t} : pc'[u] = pc[u] /\ seen'[u] = seen[u],
         StageOf(t)', PostingKnows(t)', ChangeKnows(t)',
         \A l \in held' : l.tx = t => HolderOf(l)'
  PROVE  IInv'
  <1>1. t \in Txs
    BY DEF Waiting
  <1>2. held' = held \cup {Wanted(t)} /\ Wanted(t).tx = t
    BY <1>1, WantedIsLock DEF IInv, Keep
  <1>3. LocksCompatible'
    BY <1>1, <1>2, GrantKeepsCompatible DEF IInv
  <1>. QED  BY <1>1, <1>2, <1>3, QuietStep

LEMMA LockProductStep ==
  ASSUME IInv, NEW t \in Txs, LockProduct(t)
  PROVE  IInv'
  <1> DEFINE p == ParentOf[Merchandise(t)]
  <1>1. /\ pc[t] = "product" /\ Granted(t) /\ Keep(t)
        /\ seen' = [seen EXCEPT ![t] = lifecycle[p]]
        /\ pc' = [pc EXCEPT ![t] = "variant"]
        /\ UNCHANGED <<command, lifecycle, stock>>
    BY DEF LockProduct, Goto
  <1>2. t \in Waiting /\ command[t] \in Command /\ command[t].kind = "post"
    BY <1>1 DEF Waiting, IInv, StageOf
  <1>3. Merchandise(t) \in Variants /\ p \in Products
    BY <1>2, CommandShape DEF Merchandise
  <1>4. Wanted(t) \in Lock /\ Wanted(t) = [tx |-> t, row |-> p, mode |-> "SHARE"]
    BY <1>1, <1>2, WantedIsLock DEF IInv, Wanted
  <1>5. held' = held \cup {[tx |-> t, row |-> p, mode |-> "SHARE"]}
    BY <1>1, <1>4 DEF Keep
  <1>6. TypeOK'
    BY <1>1, <1>3, <1>4, <1>5 DEF IInv, TypeOK, Stage, CatalogRows
  <1>7. pc'[t] = "variant" /\ seen'[t] = lifecycle[p]
    BY <1>1 DEF IInv, TypeOK
  <1>8. StageOf(t)' /\ PostingKnows(t)' /\ ChangeKnows(t)'
    BY <1>1, <1>2, <1>5, <1>7
       DEF StageOf, PostingKnows, ChangeKnows, Shares, Merchandise
  <1>9. ASSUME NEW l \in held', l.tx = t PROVE HolderOf(l)'
    <2>1. l \in held => HolderOf(l)
      BY DEF IInv
    <2>. QED
      BY <1>1, <1>2, <1>5, <1>7, <1>9, <2>1 DEF HolderOf, Merchandise
  <1>10. \A u \in Txs \ {t} : pc'[u] = pc[u] /\ seen'[u] = seen[u]
    BY <1>1 DEF IInv, TypeOK
  <1>. QED  BY <1>1, <1>2, <1>6, <1>8, <1>9, <1>10, GrantStep

LEMMA LockVariantStep ==
  ASSUME IInv, NEW t \in Txs, LockVariant(t)
  PROVE  IInv'
  <1> DEFINE v == Merchandise(t)
  <1>1. /\ pc[t] = "variant" /\ Granted(t) /\ Keep(t) /\ Permitted(t)
        /\ pc' = [pc EXCEPT ![t] = "shelf"]
        /\ UNCHANGED <<command, seen, lifecycle, stock>>
    BY DEF LockVariant, Goto
  <1>2. t \in Waiting /\ command[t] \in Command /\ command[t].kind = "post"
    BY <1>1 DEF Waiting, IInv, StageOf
  <1>3. Wanted(t) \in Lock /\ Wanted(t) = [tx |-> t, row |-> v, mode |-> "SHARE"]
    BY <1>1, <1>2, WantedIsLock DEF IInv, Wanted
  <1>4. held' = held \cup {[tx |-> t, row |-> v, mode |-> "SHARE"]}
    BY <1>1, <1>3 DEF Keep
  <1>5. TypeOK'
    BY <1>1, <1>3, <1>4 DEF IInv, TypeOK, Stage
  <1>6. pc'[t] = "shelf"
    BY <1>1 DEF IInv, TypeOK
  <1>7. StageOf(t)' /\ ChangeKnows(t)'
    BY <1>1, <1>2, <1>6 DEF StageOf, ChangeKnows
  <1>8. PostingKnows(t)'
    <2>1. Shares(t, ParentOf[v]) /\ seen[t] = lifecycle[ParentOf[v]]
      BY <1>1, <1>2 DEF IInv, PostingKnows
    <2>2. Permits(command[t].need, Effective(v))
      BY <1>1, <2>1 DEF Permitted, Effective
    <2>. QED
      BY <1>1, <1>4, <1>6, <2>1, <2>2
         DEF PostingKnows, Shares, Merchandise, Effective
  <1>9. ASSUME NEW l \in held', l.tx = t PROVE HolderOf(l)'
    <2>1. l \in held => HolderOf(l)
      BY DEF IInv
    <2>. QED
      BY <1>1, <1>2, <1>4, <1>6, <1>9, <2>1 DEF HolderOf, Merchandise
  <1>10. \A u \in Txs \ {t} : pc'[u] = pc[u] /\ seen'[u] = seen[u]
    BY <1>1 DEF IInv, TypeOK
  <1>. QED  BY <1>1, <1>2, <1>5, <1>7, <1>8, <1>9, <1>10, GrantStep

LEMMA LockShelfStep ==
  ASSUME IInv, NEW t \in Txs, LockShelf(t)
  PROVE  IInv'
  <1> DEFINE s == command[t].shelf
  <1>1. /\ pc[t] = "shelf" /\ Granted(t) /\ Keep(t) /\ After(t) \in 0..MaxQuantity
        /\ pc' = [pc EXCEPT ![t] = "commit"]
        /\ UNCHANGED <<command, seen, lifecycle, stock>>
    BY DEF LockShelf, Goto
  <1>2. t \in Waiting /\ command[t] \in Command /\ command[t].kind = "post"
    BY <1>1 DEF Waiting, IInv, StageOf
  <1>3. Wanted(t) \in Lock /\ Wanted(t) = [tx |-> t, row |-> s, mode |-> "UPDATE"]
    BY <1>1, <1>2, WantedIsLock DEF IInv, Wanted
  <1>4. held' = held \cup {[tx |-> t, row |-> s, mode |-> "UPDATE"]}
    BY <1>1, <1>3 DEF Keep
  <1>5. TypeOK'
    BY <1>1, <1>3, <1>4 DEF IInv, TypeOK, Stage
  <1>6. pc'[t] = "commit"
    BY <1>1 DEF IInv, TypeOK
  <1>7. StageOf(t)' /\ ChangeKnows(t)'
    BY <1>1, <1>2, <1>6 DEF StageOf, ChangeKnows
  <1>8. PostingKnows(t)'
    <2>1. PostingKnows(t)
      BY DEF IInv
    <2>. QED
      BY <1>1, <1>2, <1>4, <1>6, <2>1
         DEF PostingKnows, Shares, HasLocked, Merchandise, Effective, After
  <1>9. ASSUME NEW l \in held', l.tx = t PROVE HolderOf(l)'
    <2>1. l \in held => HolderOf(l)
      BY DEF IInv
    <2>. QED
      BY <1>1, <1>2, <1>4, <1>6, <1>9, <2>1 DEF HolderOf, Merchandise
  <1>10. \A u \in Txs \ {t} : pc'[u] = pc[u] /\ seen'[u] = seen[u]
    BY <1>1 DEF IInv, TypeOK
  <1>. QED  BY <1>1, <1>2, <1>5, <1>7, <1>8, <1>9, <1>10, GrantStep
-----------------------------------------------------------------------------
LEMMA LockTargetStep ==
  ASSUME IInv, NEW t \in Txs, LockTarget(t)
  PROVE  IInv'
  <1> DEFINE c == command[t]
             r == c.target
             new == [tx |-> t, row |-> r, mode |-> "UPDATE"]
  <1>1. /\ pc[t] = "target" /\ Granted(t) /\ Keep(t) /\ ~Refused(t)
        /\ seen' = [seen EXCEPT ![t] = lifecycle[r]]
        /\ pc' = [pc EXCEPT ![t] = AfterTarget(t)]
        /\ UNCHANGED <<command, lifecycle, stock>>
    BY DEF LockTarget, Goto
  <1>2. /\ t \in Waiting /\ c \in Command
        /\ c.kind \in {"product", "variant"} /\ r \in CatalogRows
        /\ c.status \in Status
    BY <1>1, CommandShape DEF Waiting, IInv, StageOf, CatalogRows
  <1>3. Wanted(t) \in Lock /\ Wanted(t) = new
    BY <1>1, <1>2, WantedIsLock DEF IInv, Wanted
  <1>4. held' = held \cup {new}
    BY <1>1, <1>3 DEF Keep
  <1>5. TypeOK'
    BY <1>1, <1>2, <1>3, <1>4 DEF IInv, TypeOK, Stage, AfterTarget
  <1>6. pc'[t] = AfterTarget(t)
    BY <1>1 DEF IInv, TypeOK
  <1>7. StageOf(t)' /\ PostingKnows(t)'
    BY <1>1, <1>2, <1>6 DEF StageOf, PostingKnows, AfterTarget
  <1>8. ChangeKnows(t)'
    <2>1. HasLocked(t, r)'
      BY <1>1, <1>4 DEF HasLocked
    <2>2. c.status = lifecycle[r] \/ c.status \in AllowedTransitions[lifecycle[r]]
      BY <1>1 DEF Refused
    <2>3. AfterTarget(t) = "balances" => \A v \in AtStake(t)' : HasLocked(t, v)'
      BY <1>1, <1>2, <2>1 DEF AfterTarget, AtStake
    <2>4. AfterTarget(t) = "commit" =>
            c.status # "ARCHIVED" \/ lifecycle[r] = "ARCHIVED"
      BY DEF AfterTarget, RequiresZeroStock
    <2>. QED  BY <1>1, <1>6, <2>1, <2>2, <2>3, <2>4 DEF ChangeKnows
  <1>9. ASSUME NEW l \in held', l.tx = t PROVE HolderOf(l)'
    <2>1. l \notin held
      BY <1>1, <1>2, <1>9 DEF IInv, HolderOf
    <2>2. l = new
      BY <1>4, <2>1
    <2>. QED  BY <1>1, <1>2, <1>6, <2>2 DEF HolderOf, AfterTarget
  <1>10. \A u \in Txs \ {t} : pc'[u] = pc[u] /\ seen'[u] = seen[u]
    BY <1>1 DEF IInv, TypeOK
  <1>. QED  BY <1>1, <1>2, <1>5, <1>7, <1>8, <1>9, <1>10, GrantStep

LEMMA LockNextVariantStep ==
  ASSUME IInv, NEW t \in Txs, LockNextVariant(t)
  PROVE  IInv'
  <1> DEFINE v == NextVariant(t)
             new == [tx |-> t, row |-> v, mode |-> "UPDATE"]
  <1>1. /\ pc[t] = "variants" /\ Unlocked(t) # {} /\ Granted(t) /\ Keep(t)
        /\ UNCHANGED <<pc, command, seen, lifecycle, stock>>
    BY DEF LockNextVariant
  <1>2. t \in Waiting /\ command[t] \in Command /\ command[t].kind = "product"
    BY <1>1 DEF Waiting, IInv, StageOf
  <1>3. Wanted(t) \in Lock /\ Wanted(t) = new
    BY <1>1, <1>2, WantedIsLock DEF IInv, Wanted
  <1>4. held' = held \cup {new}
    BY <1>1, <1>3 DEF Keep
  <1>5. TypeOK'
    BY <1>1, <1>3, <1>4 DEF IInv, TypeOK
  <1>6. StageOf(t)' /\ PostingKnows(t)'
    BY <1>1, <1>2 DEF IInv, StageOf, PostingKnows
  <1>7. ChangeKnows(t)'
    <2>1. ChangeKnows(t)
      BY DEF IInv
    <2>. QED  BY <1>1, <1>4, <2>1 DEF ChangeKnows, HasLocked
  <1>8. v \in VariantsOf(command[t].target)
    BY <1>1, NextVariantIsUnlocked DEF Unlocked
  <1>9. ASSUME NEW l \in held', l.tx = t PROVE HolderOf(l)'
    <2>1. l \in held => HolderOf(l)
      BY DEF IInv
    <2>. QED  BY <1>1, <1>2, <1>4, <1>8, <1>9, <2>1 DEF HolderOf, Merchandise
  <1>. QED  BY <1>1, <1>2, <1>5, <1>6, <1>7, <1>9, GrantStep

LEMMA LockedAllVariantsStep ==
  ASSUME IInv, NEW t \in Txs, LockedAllVariants(t)
  PROVE  IInv'
  <1>1. /\ pc[t] = "variants" /\ Unlocked(t) = {}
        /\ pc' = [pc EXCEPT ![t] = "balances"]
        /\ UNCHANGED <<command, seen, held, lifecycle, stock>>
    BY DEF LockedAllVariants, Goto
  <1>2. command[t] \in Command /\ command[t].kind = "product"
    BY <1>1 DEF IInv, StageOf
  <1>3. TypeOK' /\ LocksCompatible'
    BY <1>1 DEF IInv, TypeOK, Stage, LocksCompatible
  <1>4. pc'[t] = "balances"
    BY <1>1 DEF IInv, TypeOK
  <1>5. StageOf(t)' /\ PostingKnows(t)'
    BY <1>1, <1>2, <1>4 DEF StageOf, PostingKnows
  <1>6. ChangeKnows(t)'
    <2>1. ChangeKnows(t)
      BY DEF IInv
    <2>2. \A v \in AtStake(t) : HasLocked(t, v)
      BY <1>1, <1>2 DEF AtStake, Unlocked
    <2>. QED  BY <1>1, <1>2, <1>4, <2>1, <2>2 DEF ChangeKnows, HasLocked, AtStake
  <1>7. ASSUME NEW l \in held', l.tx = t PROVE HolderOf(l)'
    <2>1. HolderOf(l)
      BY <1>1, <1>7 DEF IInv
    <2>. QED  BY <1>1, <1>2, <1>4, <1>7, <2>1 DEF HolderOf
  <1>8. \A u \in Txs \ {t} : pc'[u] = pc[u]
    BY <1>1 DEF IInv, TypeOK
  <1>. QED  BY <1>1, <1>3, <1>5, <1>6, <1>7, <1>8, QuietStep

LEMMA FindNoStockStep ==
  ASSUME IInv, NEW t \in Txs, FindNoStock(t)
  PROVE  IInv'
  <1>1. /\ pc[t] = "balances" /\ \A v \in AtStake(t) : ~HoldsStock(v)
        /\ pc' = [pc EXCEPT ![t] = "commit"]
        /\ UNCHANGED <<command, seen, held, lifecycle, stock>>
    BY DEF FindNoStock, Goto
  <1>2. command[t] \in Command /\ command[t].kind # "post"
    BY <1>1 DEF IInv, StageOf
  <1>3. TypeOK' /\ LocksCompatible'
    BY <1>1 DEF IInv, TypeOK, Stage, LocksCompatible
  <1>4. pc'[t] = "commit"
    BY <1>1 DEF IInv, TypeOK
  <1>5. StageOf(t)' /\ PostingKnows(t)'
    BY <1>1, <1>2, <1>4 DEF StageOf, PostingKnows
  <1>6. ChangeKnows(t)'
    <2>1. ChangeKnows(t)
      BY DEF IInv
    <2>. QED
      BY <1>1, <1>2, <1>4, <2>1 DEF ChangeKnows, HasLocked, AtStake, HoldsStock
  <1>7. ASSUME NEW l \in held', l.tx = t PROVE HolderOf(l)'
    <2>1. HolderOf(l)
      BY <1>1, <1>7 DEF IInv
    <2>. QED  BY <1>1, <1>2, <1>4, <1>7, <2>1 DEF HolderOf
  <1>8. \A u \in Txs \ {t} : pc'[u] = pc[u]
    BY <1>1 DEF IInv, TypeOK
  <1>. QED  BY <1>1, <1>3, <1>5, <1>6, <1>7, <1>8, QuietStep
-----------------------------------------------------------------------------
(* What a transaction has locked, nobody else has locked the other way.    *)
LEMMA SharedIsNotLocked ==
  ASSUME IInv, NEW t \in Txs, NEW u \in Txs, t # u, NEW r, HasLocked(t, r)
  PROVE  ~Shares(u, r) /\ ~HasLocked(u, r)
  BY DEF IInv, LocksCompatible, HasLocked, Shares

(* The end of a transaction that changes a table: everything but what the  *)
(* others know of that table.                                              *)
LEMMA CommitFrame ==
  ASSUME IInv, NEW t \in Txs, End(t)
  PROVE  /\ pc'[t] = "idle" /\ LocksCompatible'
         /\ pc' \in [Txs -> Stage] /\ command' \in [Txs -> Command \cup {Null}]
         /\ seen' \in [Txs -> Status \cup {Null}] /\ held' \subseteq Lock
         /\ \A u \in Txs \ {t} : /\ pc'[u] = pc[u] /\ command'[u] = command[u]
                                 /\ seen'[u] = seen[u]
         /\ \A l \in held : l.tx # t => l \in held'
         /\ \A l \in held' : HolderOf(l)'
         /\ StageOf(t)' /\ PostingKnows(t)' /\ ChangeKnows(t)'
  <1>1. /\ pc' = [pc EXCEPT ![t] = "idle"]
        /\ command' = [command EXCEPT ![t] = Null]
        /\ seen' = [seen EXCEPT ![t] = Null]
        /\ held' = {l \in held : l.tx # t}
    BY DEF End, Goto
  <1>2. /\ pc'[t] = "idle"
        /\ pc' \in [Txs -> Stage] /\ command' \in [Txs -> Command \cup {Null}]
        /\ seen' \in [Txs -> Status \cup {Null}] /\ held' \subseteq Lock
    BY <1>1 DEF IInv, TypeOK, Stage
  <1>3. LocksCompatible'
    BY <1>1 DEF IInv, LocksCompatible
  <1>4. ASSUME NEW u \in Txs \ {t}
        PROVE  pc'[u] = pc[u] /\ command'[u] = command[u] /\ seen'[u] = seen[u]
    BY <1>1 DEF IInv, TypeOK
  <1>5. ASSUME NEW l \in held' PROVE HolderOf(l)'
    <2>1. l \in held /\ l.tx \in Txs \ {t} /\ HolderOf(l)
      BY <1>1 DEF IInv, TypeOK, Lock
    <2>. QED  BY <1>4, <2>1 DEF HolderOf, Merchandise
  <1>6. StageOf(t)' /\ PostingKnows(t)' /\ ChangeKnows(t)'
    BY <1>2 DEF StageOf, PostingKnows, ChangeKnows
  <1>. QED  BY <1>1, <1>2, <1>3, <1>4, <1>5, <1>6

(* A commit of a posting moves stock of merchandise that may be moved.     *)
LEMMA PostingMoves ==
  ASSUME IInv, NEW t \in Txs, CommitPosting(t)
  PROVE  LET s == command[t].shelf
             v == Merchandise(t)
         IN  /\ command[t] \in Posting /\ s \in Shelves /\ v \in Variants
             /\ v = VariantOf[s]
             /\ stock' = [stock EXCEPT ![s] = After(t)]
             /\ After(t) \in 0..MaxQuantity
             /\ HasLocked(t, s) /\ Shares(t, v)
             /\ Permits(command[t].need, Effective(v))
             /\ "ARCHIVED" \notin {lifecycle[v], lifecycle[ParentOf[v]]}
  <1> DEFINE s == command[t].shelf
             v == Merchandise(t)
  <1>1. pc[t] = "commit" /\ command[t].kind = "post"
        /\ stock' = [stock EXCEPT ![s] = After(t)]
    BY DEF CommitPosting
  <1>2. command[t] \in Command /\ PostingKnows(t)
    BY <1>1 DEF IInv, StageOf
  <1>3. command[t] \in Posting
    BY <1>1, <1>2 DEF Command, ProductChange, VariantChange
  <1>4. s \in Shelves /\ command[t].need \in Need /\ v \in Variants /\ v = VariantOf[s]
    BY <1>1, <1>2, CommandShape DEF Merchandise
  <1>5. /\ HasLocked(t, s) /\ Shares(t, v) /\ After(t) \in 0..MaxQuantity
        /\ Permits(command[t].need, Effective(v))
    BY <1>1, <1>2 DEF PostingKnows
  <1>6. Effective(v) # "ARCHIVED"
    BY <1>4, <1>5 DEF Permits, Need
  <1>7. /\ lifecycle[v] \in Status /\ lifecycle[ParentOf[v]] \in Status
        /\ Restriction["ACTIVE"] = 0 /\ Restriction["DISCONTINUED"] = 1
        /\ Restriction["ARCHIVED"] = 2
    BY <1>4 DEF IInv, TypeOK, CatalogRows, Restriction, Status
  <1>8. "ARCHIVED" \notin {lifecycle[v], lifecycle[ParentOf[v]]}
    BY <1>6, <1>7 DEF Effective, EffectiveLifecycle, Status
  <1>. QED  BY <1>1, <1>3, <1>4, <1>5, <1>8

LEMMA CommitPostingStep ==
  ASSUME IInv, NEW t \in Txs, CommitPosting(t)
  PROVE  IInv'
  <1> DEFINE s == command[t].shelf
             v == Merchandise(t)
  <1>1. End(t) /\ UNCHANGED lifecycle
    BY DEF CommitPosting
  <1>2. /\ s \in Shelves /\ v \in Variants /\ v = VariantOf[s]
        /\ stock' = [stock EXCEPT ![s] = After(t)] /\ After(t) \in 0..MaxQuantity
        /\ HasLocked(t, s) /\ Shares(t, v)
        /\ "ARCHIVED" \notin {lifecycle[v], lifecycle[ParentOf[v]]}
    BY PostingMoves
  <1>3. TypeOK'
    BY <1>1, <1>2, CommitFrame DEF IInv, TypeOK
  <1>4. \A x \in Shelves : x # s => stock'[x] = stock[x]
    BY <1>2 DEF IInv, TypeOK
  <1>5. \A w \in Variants : w # v => (HoldsStock(w)' <=> HoldsStock(w))
    BY <1>2, <1>4 DEF HoldsStock
  <1>6. ArchivedIsEmpty'
    BY <1>1, <1>2, <1>5 DEF IInv, ArchivedIsEmpty
  <1>7. ASSUME NEW u \in Txs, u # t
        PROVE  StageOf(u)' /\ PostingKnows(u)' /\ ChangeKnows(u)'
    <2>1. /\ pc'[u] = pc[u] /\ command'[u] = command[u] /\ seen'[u] = seen[u]
          /\ \A l \in held : l.tx = u => l \in held'
      BY <1>1, <1>7, CommitFrame
    <2>2. StageOf(u) /\ PostingKnows(u) /\ ChangeKnows(u)
      BY DEF IInv
    <2>3. StageOf(u)'
      BY <2>1, <2>2 DEF StageOf
    <2>4. PostingKnows(u)'
      <3>1. HasLocked(u, command[u].shelf) => command[u].shelf # s
        BY <1>2, <1>7, SharedIsNotLocked
      <3>2. pc[u] # "idle" /\ command[u].kind = "post" => command[u].shelf \in Shelves
        BY <2>2, CommandShape DEF StageOf
      <3>. QED
        BY <1>1, <1>4, <2>1, <2>2, <3>1, <3>2
           DEF PostingKnows, Shares, HasLocked, Merchandise, Effective, After
    <2>5. ChangeKnows(u)'
      <3>1. ~HasLocked(u, v)
        BY <1>2, <1>7, SharedIsNotLocked
      <3>2. pc[u] # "idle" /\ command[u].kind # "post" => AtStake(u) \subseteq Variants
        BY <2>2, CommandShape DEF StageOf, AtStake, VariantsOf
      <3>3. AtStake(u)' = AtStake(u)
        BY <2>1 DEF AtStake
      <3>. QED  BY <1>1, <1>5, <2>1, <2>2, <3>1, <3>2, <3>3
           DEF ChangeKnows, HasLocked
    <2>. QED  BY <2>3, <2>4, <2>5
  <1>. QED  BY <1>1, <1>3, <1>6, <1>7, CommitFrame DEF IInv

LEMMA ChangeWrites ==
  ASSUME IInv, NEW t \in Txs, CommitChange(t)
  PROVE  LET c == command[t] IN
         /\ c \in Command /\ c.kind \in {"product", "variant"}
         /\ c.target \in CatalogRows /\ c.status \in Status
         /\ HasLocked(t, c.target)
         /\ lifecycle' = [lifecycle EXCEPT ![c.target] = c.status]
         /\ \/ c.status = lifecycle[c.target]
            \/ c.status \in AllowedTransitions[lifecycle[c.target]]
         /\ c.status = "ARCHIVED" /\ lifecycle[c.target] # "ARCHIVED" =>
              \A v \in AtStake(t) : ~HoldsStock(v)
  <1>1. pc[t] = "commit" /\ command[t].kind # "post"
        /\ lifecycle' = [lifecycle EXCEPT ![command[t].target] = command[t].status]
    BY DEF CommitChange
  <1>2. command[t] \in Command /\ ChangeKnows(t)
    BY <1>1 DEF IInv, StageOf
  <1>3. /\ command[t].kind \in {"product", "variant"}
        /\ command[t].target \in CatalogRows /\ command[t].status \in Status
    BY <1>1, <1>2, CommandShape DEF CatalogRows
  <1>. QED  BY <1>1, <1>2, <1>3 DEF ChangeKnows

LEMMA CommitChangeStep ==
  ASSUME IInv, NEW t \in Txs, CommitChange(t)
  PROVE  IInv'
  <1> DEFINE c == command[t]
  <1>1. End(t) /\ UNCHANGED stock
    BY DEF CommitChange
  <1>2. /\ c \in Command /\ c.kind \in {"product", "variant"}
        /\ c.target \in CatalogRows /\ c.status \in Status
        /\ HasLocked(t, c.target)
        /\ lifecycle' = [lifecycle EXCEPT ![c.target] = c.status]
        /\ c.status = "ARCHIVED" /\ lifecycle[c.target] # "ARCHIVED" =>
             \A v \in AtStake(t) : ~HoldsStock(v)
    BY ChangeWrites
  <1>3. TypeOK'
    BY <1>1, <1>2, CommitFrame DEF IInv, TypeOK
  <1>4. /\ \A r \in CatalogRows : r # c.target => lifecycle'[r] = lifecycle[r]
        /\ lifecycle'[c.target] = c.status
    BY <1>2 DEF IInv, TypeOK
  <1>5. ASSUME NEW v \in Variants,
               "ARCHIVED" \in {lifecycle'[v], lifecycle'[ParentOf[v]]}
        PROVE  ~HoldsStock(v)
    <2>1. v \in CatalogRows /\ ParentOf[v] \in CatalogRows /\ ParentOf[v] \in Products
      BY DEF CatalogRows
    <2>2. CASE "ARCHIVED" \in {lifecycle[v], lifecycle[ParentOf[v]]}
      BY <2>2 DEF IInv, ArchivedIsEmpty
    <2>3. CASE "ARCHIVED" \notin {lifecycle[v], lifecycle[ParentOf[v]]}
      <3>1. c.status = "ARCHIVED" /\ c.target \in {v, ParentOf[v]}
        BY <1>4, <1>5, <2>1, <2>3
      <3>2. lifecycle[c.target] # "ARCHIVED"
        BY <2>3, <3>1
      <3>3. v \in AtStake(t)
        BY <1>2, <2>1, <3>1, CommandShape, RowsAssumption DEF AtStake, VariantsOf
      <3>. QED  BY <1>2, <3>1, <3>2, <3>3
    <2>. QED  BY <2>2, <2>3
  <1>6. ArchivedIsEmpty'
    BY <1>1, <1>5 DEF ArchivedIsEmpty, HoldsStock
  <1>7. ASSUME NEW u \in Txs, u # t
        PROVE  StageOf(u)' /\ PostingKnows(u)' /\ ChangeKnows(u)'
    <2>1. /\ pc'[u] = pc[u] /\ command'[u] = command[u] /\ seen'[u] = seen[u]
          /\ \A l \in held : l.tx = u => l \in held'
      BY <1>1, <1>7, CommitFrame
    <2>2. StageOf(u) /\ PostingKnows(u) /\ ChangeKnows(u)
      BY DEF IInv
    <2>3. StageOf(u)'
      BY <2>1, <2>2 DEF StageOf
    <2>4. \A r \in CatalogRows : Shares(u, r) \/ HasLocked(u, r) =>
            lifecycle'[r] = lifecycle[r]
      BY <1>2, <1>4, <1>7, SharedIsNotLocked
    <2>5. PostingKnows(u)'
      <3>1. CASE pc[u] # "idle" /\ command[u].kind = "post"
        <4> DEFINE v == Merchandise(u)
        <4>1. v \in CatalogRows /\ ParentOf[v] \in CatalogRows
          BY <2>2, <3>1, CommandShape DEF StageOf, Merchandise, CatalogRows
        <4>2. pc[u] \in {"variant", "shelf", "commit"} =>
                lifecycle'[ParentOf[v]] = lifecycle[ParentOf[v]]
          BY <2>2, <2>4, <3>1, <4>1 DEF PostingKnows
        <4>3. pc[u] \in {"shelf", "commit"} => lifecycle'[v] = lifecycle[v]
          BY <2>2, <2>4, <3>1, <4>1 DEF PostingKnows
        <4>. QED
          BY <1>1, <2>1, <2>2, <3>1, <4>2, <4>3
             DEF PostingKnows, Shares, HasLocked, Merchandise, Effective, After
      <3>. QED  BY <2>1, <3>1 DEF PostingKnows
    <2>6. ChangeKnows(u)'
      <3>1. CASE pc[u] \in {"variants", "balances", "commit"} /\ command[u].kind # "post"
        <4>1. command[u].target \in CatalogRows /\ HasLocked(u, command[u].target)
          BY <2>2, <3>1, CommandShape DEF StageOf, ChangeKnows, CatalogRows
        <4>2. lifecycle'[command[u].target] = lifecycle[command[u].target]
          BY <2>4, <4>1
        <4>. QED
          BY <1>1, <2>1, <2>2, <3>1, <4>2
             DEF ChangeKnows, HasLocked, AtStake, HoldsStock
      <3>. QED  BY <2>1, <3>1 DEF ChangeKnows
    <2>. QED  BY <2>3, <2>5, <2>6
  <1>. QED  BY <1>1, <1>3, <1>6, <1>7, CommitFrame DEF IInv
-----------------------------------------------------------------------------
LEMMA InitInv == Init => IInv
  <1> SUFFICES ASSUME Init PROVE IInv
    OBVIOUS
  <1>1. TypeOK
    BY NumbersAssumption DEF Init, TypeOK, Stage, Status
  <1>2. LocksCompatible /\ \A l \in held : HolderOf(l)
    BY DEF Init, LocksCompatible
  <1>3. ArchivedIsEmpty
    BY DEF Init, ArchivedIsEmpty, HoldsStock
  <1>4. \A t \in Txs : StageOf(t) /\ PostingKnows(t) /\ ChangeKnows(t)
    BY DEF Init, StageOf, PostingKnows, ChangeKnows
  <1>. QED  BY <1>1, <1>2, <1>3, <1>4 DEF IInv

LEMMA NextInv == IInv /\ [Next]_vars => IInv'
  <1> SUFFICES ASSUME IInv, [Next]_vars PROVE IInv'
    OBVIOUS
  <1>1. CASE UNCHANGED vars
    <2>1. UNCHANGED <<pc, command, seen, held, lifecycle, stock>>
      BY <1>1 DEF vars
    <2>2. TypeOK' /\ LocksCompatible' /\ ArchivedIsEmpty'
      BY <2>1 DEF IInv, TypeOK, LocksCompatible, ArchivedIsEmpty, HoldsStock
    <2>3. \A t \in Txs : StageOf(t)' /\ ChangeKnows(t)'
      BY <2>1 DEF IInv, StageOf, ChangeKnows, HasLocked, AtStake, HoldsStock
    <2>4. \A t \in Txs : PostingKnows(t)'
      BY <2>1 DEF IInv, PostingKnows, Merchandise, Shares, HasLocked, Effective, After
    <2>5. \A l \in held' : HolderOf(l)'
      BY <2>1 DEF IInv, HolderOf, Merchandise, AtStake
    <2>. QED  BY <2>2, <2>3, <2>4, <2>5 DEF IInv
  <1>2. ASSUME NEW t \in Txs, Begin(t) PROVE IInv'
    BY <1>2, BeginStep
  <1>3. ASSUME NEW t \in Txs, Rollback(t) PROVE IInv'
    BY <1>3, RollbackStep
  <1>4. ASSUME NEW t \in Txs, Post(t) PROVE IInv'
    BY <1>3, <1>4, LockProductStep, LockVariantStep, LockShelfStep,
       CommitPostingStep DEF Post, Ineligible, Insufficient
  <1>5. ASSUME NEW t \in Txs, Change(t) PROVE IInv'
    BY <1>3, <1>5, LockTargetStep, LockNextVariantStep, LockedAllVariantsStep,
       FindNoStockStep, CommitChangeStep DEF Change, RefuseTransition, ArchiveRefused
  <1>. QED  BY <1>1, <1>2, <1>3, <1>4, <1>5 DEF Next, Abort

THEOREM LifecycleInvariant == Spec => []IInv
  BY InitInv, NextInv, PTL DEF Spec

(* Every row and local keeps its shape.                                    *)
THEOREM LifecycleTypeCorrect == Spec => []TypeOK
  <1>1. IInv => TypeOK
    BY DEF IInv
  <1>. QED  BY <1>1, LifecycleInvariant, PTL

(* Archiving never strands stock.                                          *)
THEOREM StockIsNeverStranded == Spec => []NothingStranded
  <1>1. ASSUME IInv, NEW s \in Shelves, stock[s] > 0
        PROVE  /\ VariantOf[s] \in OperationalVariants
               /\ Permits("issue", Effective(VariantOf[s]))
    <2> DEFINE v == VariantOf[s]
    <2>1. v \in Variants /\ HoldsStock(v)
      BY <1>1 DEF HoldsStock
    <2>2. /\ lifecycle[v] \in Status \ {"ARCHIVED"}
          /\ lifecycle[ParentOf[v]] \in Status \ {"ARCHIVED"}
      BY <1>1, <2>1 DEF IInv, TypeOK, ArchivedIsEmpty, CatalogRows
    <2>3. \A status \in Status : Permits("issue", status) <=> status # "ARCHIVED"
      BY DEF Permits
    <2>4. Effective(v) \in Status \ {"ARCHIVED"}
      BY <2>2 DEF Effective, EffectiveLifecycle
    <2>. QED  BY <2>1, <2>2, <2>3, <2>4 DEF OperationalVariants
  <1>2. IInv => NothingStranded
    BY <1>1 DEF NothingStranded
  <1>. QED  BY <1>2, LifecycleInvariant, PTL

(* Stock moves only while the merchandise may be moved.                    *)
THEOREM StockMovesWhilePermitted == Spec => MovedWhilePermitted
  <1> DEFINE A == \A s \in Shelves : stock'[s] # stock[s] =>
                    \E t \in Txs :
                      /\ command[t] \in Posting
                      /\ command[t].shelf = s
                      /\ stock'[s] = stock[s] + command[t].delta
                      /\ Permits(command[t].need, Effective(VariantOf[s]))
  <1>1. ASSUME IInv, Next, NEW s \in Shelves, stock'[s] # stock[s]
        PROVE  \E t \in Txs :
                 /\ command[t] \in Posting
                 /\ command[t].shelf = s
                 /\ stock'[s] = stock[s] + command[t].delta
                 /\ Permits(command[t].need, Effective(VariantOf[s]))
    <2>1. PICK t \in Txs : Begin(t) \/ Post(t) \/ Change(t) \/ Abort(t)
      BY <1>1 DEF Next
    <2>2. CommitPosting(t)
      BY <1>1, <2>1
         DEF Begin, Post, Change, Abort, Rollback, LockProduct, LockVariant,
             Ineligible, LockShelf, Insufficient, LockTarget, RefuseTransition,
             LockNextVariant, LockedAllVariants, FindNoStock, ArchiveRefused,
             CommitChange
    <2>3. /\ command[t] \in Posting /\ command[t].shelf \in Shelves
          /\ Merchandise(t) = VariantOf[command[t].shelf]
          /\ stock' = [stock EXCEPT ![command[t].shelf] = After(t)]
          /\ Permits(command[t].need, Effective(Merchandise(t)))
      BY <1>1, <2>2, PostingMoves
    <2>4. command[t].shelf = s /\ stock'[s] = After(t)
      BY <1>1, <2>3 DEF IInv, TypeOK
    <2>. QED  BY <2>3, <2>4 DEF After
  <1>2. IInv /\ [Next]_vars => [A]_vars
    BY <1>1
  <1>. QED  BY LifecycleInvariant, <1>2, PTL DEF Spec, MovedWhilePermitted

(* A status changes only along the transition table.                       *)
THEOREM TransitionsAreLegal == Spec => TransitionsLegal
  <1> DEFINE A == \A r \in CatalogRows : lifecycle'[r] # lifecycle[r] =>
                    lifecycle'[r] \in AllowedTransitions[lifecycle[r]]
  <1>1. ASSUME IInv, Next, NEW r \in CatalogRows, lifecycle'[r] # lifecycle[r]
        PROVE  lifecycle'[r] \in AllowedTransitions[lifecycle[r]]
    <2>1. PICK t \in Txs : Begin(t) \/ Post(t) \/ Change(t) \/ Abort(t)
      BY <1>1 DEF Next
    <2>2. CommitChange(t)
      BY <1>1, <2>1
         DEF Begin, Post, Change, Abort, Rollback, LockProduct, LockVariant,
             Ineligible, LockShelf, Insufficient, LockTarget, RefuseTransition,
             LockNextVariant, LockedAllVariants, FindNoStock, ArchiveRefused,
             CommitPosting
    <2>. QED  BY <1>1, <2>2, ChangeWrites DEF IInv, TypeOK
  <1>2. IInv /\ [Next]_vars => [A]_vars
    BY <1>1
  <1>. QED  BY LifecycleInvariant, <1>2, PTL DEF Spec, TransitionsLegal
-----------------------------------------------------------------------------
(***************************************************************************)
(* Deadlock freedom.  Locks are taken in the order product, variants,      *)
(* shelf, so only a transaction that is past a row's own stage can hold it.*)
(***************************************************************************)

(* Whoever blocks a transaction that waits for a shelf waits for nobody.   *)
LEMMA ShelfHoldersCommit ==
  ASSUME IInv, NEW t \in Waiting, pc[t] = "shelf", NEW u \in Blockers(t)
  PROVE  u \notin Waiting
  <1>1. PICK l \in held : l.tx = u /\ l.row = Wanted(t).row
    BY DEF Blockers
  <1>2. t \in Txs /\ u \in Txs /\ HolderOf(l) /\ StageOf(t) /\ StageOf(u)
    BY <1>1 DEF IInv, Blockers, Waiting
  <1>3. l.row = command[t].shelf /\ l.row \in Shelves
    BY <1>1, <1>2, CommandShape DEF StageOf, Wanted
  <1>4. l.row \notin CatalogRows
    BY <1>3, RowsAssumption
  <1>5. pc[u] # "idle" /\ command[u] \in Command
    BY <1>1, <1>2 DEF HolderOf, StageOf
  <1>6. CASE command[u].kind = "post"
    <2>1. Merchandise(u) \in CatalogRows /\ ParentOf[Merchandise(u)] \in CatalogRows
      BY <1>5, <1>6, CommandShape DEF Merchandise, CatalogRows
    <2>. QED  BY <1>1, <1>2, <1>4, <1>6, <2>1 DEF HolderOf, Waiting
  <1>7. CASE command[u].kind # "post"
    <2>1. l.row \in CatalogRows
      BY <1>1, <1>2, <1>5, <1>7, CommandShape DEF HolderOf, CatalogRows, VariantsOf
    <2>. QED  BY <1>4, <2>1
  <1>. QED  BY <1>6, <1>7

(* Whoever blocks a transaction that waits for a variant has all its       *)
(* catalog rows, or is a product change that waits for another variant.    *)
LEMMA VariantHoldersAreFurther ==
  ASSUME IInv, NEW t \in Waiting, Wanted(t).row \in Variants,
         NEW u \in Blockers(t), u \in Waiting
  PROVE  \/ pc[u] = "shelf"
         \/ /\ pc[u] = "variants" /\ pc[t] = "target"
            /\ HasLocked(u, ParentOf[Wanted(t).row])
  <1> DEFINE v == Wanted(t).row
  <1>1. PICK l \in held : /\ l.tx = u /\ l.row = v
                          /\ "UPDATE" \in {l.mode, Wanted(t).mode}
    BY DEF Blockers
  <1>2. /\ t \in Txs /\ u \in Txs /\ u # t /\ HolderOf(l) /\ StageOf(t) /\ StageOf(u)
        /\ PostingKnows(t) /\ ChangeKnows(t) /\ ChangeKnows(u)
    BY <1>1 DEF IInv, Blockers, Waiting
  <1>3. command[t] \in Command /\ command[u] \in Command /\ pc[u] # "idle"
    BY <1>1, <1>2 DEF StageOf, Waiting, HolderOf
  <1>4. v \notin Products /\ v \notin Shelves
    BY RowsAssumption DEF CatalogRows
  <1>5. CASE command[u].kind = "post"
    <2>1. ParentOf[Merchandise(u)] \in Products
      BY <1>3, <1>5, CommandShape DEF Merchandise
    <2>. QED  BY <1>1, <1>2, <1>4, <1>5, <2>1 DEF HolderOf, Waiting
  <1>6. CASE command[u].kind = "variant"
    BY <1>1, <1>2, <1>6 DEF HolderOf, Waiting
  <1>7. CASE command[u].kind = "product"
    <2>1. pc[u] = "variants" /\ v \in VariantsOf(command[u].target)
      BY <1>1, <1>2, <1>3, <1>4, <1>7, CommandShape DEF HolderOf, Waiting
    <2>2. ParentOf[v] = command[u].target /\ HasLocked(u, ParentOf[v])
      BY <1>2, <1>7, <2>1 DEF ChangeKnows, VariantsOf
    <2>3. ~Shares(t, ParentOf[v]) /\ ~HasLocked(t, ParentOf[v])
      BY <1>2, <2>2, SharedIsNotLocked
    <2>4. pc[t] # "variant"
      <3>1. pc[t] = "variant" => v = Merchandise(t)
        BY DEF Wanted
      <3>. QED  BY <1>2, <2>3, <3>1 DEF PostingKnows, StageOf
    <2>5. pc[t] # "variants"
      <3>1. pc[t] = "variants" => v \in VariantsOf(command[t].target)
        BY <1>2, NextVariantIsUnlocked DEF Wanted, Waiting, Unlocked
      <3>. QED  BY <1>2, <2>3, <3>1 DEF ChangeKnows, StageOf, VariantsOf
    <2>6. pc[t] \notin {"product", "shelf"}
      <3>1. pc[t] = "product" => v \in Products
        BY <1>2, <1>3, CommandShape DEF Wanted, StageOf, Merchandise
      <3>2. pc[t] = "shelf" => v \in Shelves
        BY <1>2, <1>3, CommandShape DEF Wanted, StageOf
      <3>. QED  BY <1>4, <3>1, <3>2
    <2>. QED  BY <2>1, <2>2, <2>4, <2>5, <2>6 DEF Waiting
  <1>. QED  BY <1>3, <1>5, <1>6, <1>7, CommandShape

(* Whoever blocks a transaction that waits for a product is past it.       *)
LEMMA ProductHoldersAreFurther ==
  ASSUME IInv, NEW t \in Waiting, Wanted(t).row \in Products,
         NEW u \in Blockers(t), u \in Waiting
  PROVE  pc[u] \in {"variant", "shelf", "variants"}
  <1>1. PICK l \in held : l.tx = u /\ l.row = Wanted(t).row
    BY DEF Blockers
  <1>2. u \in Txs /\ HolderOf(l) /\ StageOf(u)
    BY <1>1 DEF IInv, Blockers, Waiting
  <1>3. command[u] \in Command
    BY <1>1, <1>2 DEF StageOf, HolderOf
  <1>4. command[u].kind = "variant" => l.row \in Variants
    BY <1>1, <1>2, <1>3, CommandShape DEF HolderOf
  <1>5. l.row \notin Variants
    BY <1>1, RowsAssumption
  <1>. QED  BY <1>1, <1>2, <1>3, <1>4, <1>5, CommandShape DEF HolderOf, Waiting

(* In every set of waiting transactions somebody waits for nobody in it.   *)
THEOREM NeverDeadlocked == Spec => []NoDeadlock
  <1>1. ASSUME IInv, NEW S \in SUBSET Waiting, S # {}
        PROVE  \E t \in S : Blockers(t) \cap S = {}
    <2>1. CASE \E t \in S : pc[t] = "shelf"
      BY <1>1, <2>1, ShelfHoldersCommit
    <2>2. CASE /\ \A t \in S : pc[t] # "shelf"
               /\ \E t \in S : pc[t] = "variants"
      <3>1. PICK t \in S : pc[t] = "variants"
        BY <2>2
      <3>2. Wanted(t).row \in Variants
        BY <3>1, NextVariantIsUnlocked DEF Wanted, Waiting, Unlocked, VariantsOf
      <3>. QED  BY <1>1, <2>2, <3>1, <3>2, VariantHoldersAreFurther
    <2>3. CASE /\ \A t \in S : pc[t] \notin {"shelf", "variants"}
               /\ \E t \in S : Wanted(t).row \in Variants
      BY <1>1, <2>3, VariantHoldersAreFurther
    <2>4. CASE /\ \A t \in S : pc[t] \notin {"shelf", "variants"}
               /\ \A t \in S : Wanted(t).row \notin Variants
      <3>1. ASSUME NEW t \in S
            PROVE  pc[t] # "variant" /\ Wanted(t).row \in Products
        <4>1. t \in Txs /\ command[t] \in Command /\ StageOf(t)
          BY <1>1 DEF IInv, Waiting, StageOf
        <4>2. pc[t] \in {"product", "variant", "target"}
          BY <2>4 DEF Waiting
        <4>. QED
          BY <2>4, <4>1, <4>2, CommandShape DEF Wanted, StageOf, Merchandise
      <3>2. PICK t \in S : TRUE
        BY <1>1
      <3>. QED  BY <1>1, <2>4, <3>1, <3>2, ProductHoldersAreFurther
    <2>. QED  BY <2>1, <2>2, <2>3, <2>4
  <1>2. IInv => NoDeadlock
    BY <1>1 DEF NoDeadlock
  <1>. QED  BY <1>2, LifecycleInvariant, PTL
=============================================================================
