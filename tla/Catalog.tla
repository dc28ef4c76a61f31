--------------------------------- MODULE Catalog ---------------------------------
(***************************************************************************)
(* Entering merchandise (backend/src/modules/catalog): createProduct and   *)
(* the listing that reads what it wrote.                                   *)
(*                                                                         *)
(* Requests run side by side, each in one transaction at READ COMMITTED: a *)
(* statement sees what is committed and what its own transaction wrote,    *)
(* and an insert whose unique key another transaction has written waits    *)
(* until that one is over.  A brand and a classification value are found   *)
(* or made by their identity (the spelling, trimmed and in lower case).    *)
(***************************************************************************)
EXTENDS Naturals, Sequences, FiniteSets, Functions, SequencesExt

CONSTANTS
  Entries,             \* the requests; a product has the id of the request that made it
  Requests,        \* what they may ask for
  Spellings,       \* names and values as they are typed
  Identity,        \* [Spellings -> what a spelling is compared by]
  Blank,           \* the identity of nothing but spaces
  Dimensions,      \* the classification dimensions that exist
  Vocabulary,      \* the attribute names that are defined
  Skus,            \* what the generator can draw
  MaxSkuAttempts,
  MaxFaults,       \* bound: connections lost
  None

ASSUME CatalogAssumption ==
  /\ IsFiniteSet(Entries)
  /\ \A r \in Requests : /\ r.brand \in Spellings \cup {None}
                         /\ r.classifications \in Seq(Range(r.classifications))
                         /\ r.variants \in Seq(Range(r.variants))
  /\ DOMAIN Identity = Spellings
  /\ MaxSkuAttempts \in Nat \ {0} /\ MaxFaults \in Nat
  /\ None \notin {"created", "invalid", "conflict", "internal"}

VARIABLES
  request,    \* [Entries -> Requests]
  at,         \* [Entries -> the statement that is next]
  index,      \* [Entries -> which classification or variant it is about]
  attempt, sku,   \* [Entries -> SKUs drawn for this variant, the last of them]
  resolved,   \* [Entries -> the brand and the values it is filed under]
  own,        \* [Entries -> rows written and not committed]
  brands, values, products,   \* committed rows
  answer,     \* [Entries -> what the client is told]
  listing,    \* one reader of the whole catalog
  lost        \* the requests whose connection was lost (for the properties)

progress == <<at, index, attempt, sku, resolved>>
rows == <<brands, values, products>>
catalogVars == <<request, at, index, attempt, sku, resolved, own, brands, values, products,
                 answer, listing, lost>>

NoRows == [brand |-> {}, values |-> {}, product |-> {}]
Unresolved == [brand |-> None, values |-> <<>>]
NotListed == [at |-> "products", products |-> {}, classifications |-> {}, variants |-> {},
              attributes |-> {}, barcodes |-> {}]

CatalogInit ==
  /\ request \in [Entries -> Requests]
  /\ at = [t \in Entries |-> "prepare"]
  /\ index = [t \in Entries |-> 1] /\ attempt = [t \in Entries |-> 1]
  /\ sku = [t \in Entries |-> None] /\ resolved = [t \in Entries |-> Unresolved]
  /\ own = [t \in Entries |-> NoRows]
  /\ brands = {} /\ values = {} /\ products = {}
  /\ answer = [t \in Entries |-> None]
  /\ listing = NotListed /\ lost = {}

----------------------------------------------------------------------------
(* What a request says, before the database is asked                       *)
(* (domain/variantSignature.ts, service.ts: prepareVariants).              *)

(* Two spellings of one name, or a blank one, cannot be told apart.        *)
Normalizes(v) ==
  /\ \A a \in v.attributes : Identity[a[1]] # Blank /\ Identity[a[2]] # Blank
  /\ \A a, b \in v.attributes : Identity[a[1]] = Identity[b[1]] => a = b

buildVariantSignature(v) == {<<Identity[a[1]], Identity[a[2]]>> : a \in v.attributes}

(* Stored: the name by its identity, the value as it was typed.            *)
normalizeAttributes(v) == {<<Identity[a[1]], a[2]>> : a \in v.attributes}

prepareVariants(r) == \A i \in DOMAIN r.variants : Normalizes(r.variants[i])

assertNoDuplicateSignatures(r) ==
  \A i, j \in DOMAIN r.variants :
    buildVariantSignature(r.variants[i]) = buildVariantSignature(r.variants[j]) => i = j

(* createProductRequestSchema: at least one variant, no barcode twice on   *)
(* one variant, no blank brand, one value for a dimension.                 *)
createProductRequestSchema(r) ==
  /\ r.variants # <<>>
  /\ \A i \in DOMAIN r.variants : IsInjective(r.variants[i].barcodes)
  /\ r.brand # None => Identity[r.brand] # Blank
  /\ \A i, j \in DOMAIN r.classifications :
       /\ Identity[r.classifications[i].value] # Blank
       /\ r.classifications[i].dimension = r.classifications[j].dimension => i = j

Prepared(r) == createProductRequestSchema(r) /\ prepareVariants(r) /\ assertNoDuplicateSignatures(r)

namesUsed(r) == {a[1] : a \in UNION {normalizeAttributes(r.variants[i]) : i \in DOMAIN r.variants}}

----------------------------------------------------------------------------
(* A transaction that ends leaves what it committed and nothing else.      *)

Ends(t, a) ==
  /\ at' = [at EXCEPT ![t] = "done"]
  /\ answer' = [answer EXCEPT ![t] = a]
  /\ own' = [own EXCEPT ![t] = NoRows]

RollsBack(t, a) ==
  /\ Ends(t, a)
  /\ UNCHANGED <<request, index, attempt, sku, resolved, rows, listing>>

Goes(t, next) == at' = [at EXCEPT ![t] = next]

others == <<request, rows, answer, listing, lost>>

Prepare(t) ==
  /\ at[t] = "prepare"
  /\ \/ /\ ~Prepared(request[t])
        /\ RollsBack(t, "invalid") /\ UNCHANGED lost
     \/ /\ Prepared(request[t])
        /\ Goes(t, "names") /\ UNCHANGED <<index, attempt, sku, resolved, own, others>>

assertAttributeNamesAreDefined(t) ==
  /\ at[t] = "names"
  /\ \/ /\ ~(namesUsed(request[t]) \subseteq Vocabulary)
        /\ RollsBack(t, "invalid") /\ UNCHANGED lost
     \/ /\ namesUsed(request[t]) \subseteq Vocabulary
        /\ Goes(t, IF request[t].brand = None THEN "dimensions" ELSE "brand")
        /\ UNCHANGED <<index, attempt, sku, resolved, own, others>>

----------------------------------------------------------------------------
(* Brands and classification values (infrastructure/catalogRepository.ts). *)

brandKey(t) == Identity[request[t].brand]

brandHolders(t) == {u \in Entries \ {t} : \E b \in own[u].brand : b.key = brandKey(t)}

InsertBrand(t) ==
  /\ at[t] = "brand" /\ brandHolders(t) = {}
  /\ own' = IF \E b \in brands : b.key = brandKey(t) THEN own
            ELSE [own EXCEPT ![t].brand = {[key |-> brandKey(t), name |-> request[t].brand, by |-> t]}]
  /\ Goes(t, "readBrand")
  /\ UNCHANGED <<index, attempt, sku, resolved, others>>

ReadBrand(t) ==
  /\ at[t] = "readBrand"
  /\ \E b \in brands \cup own[t].brand :
       b.key = brandKey(t) /\ resolved' = [resolved EXCEPT ![t].brand = b]
  /\ Goes(t, "dimensions")
  /\ UNCHANGED <<index, attempt, sku, own, others>>

(* Defect: the order in which values are resolved differs from one request *)
(* to the next.                                                            *)
DefectOrdersByRequest(t) ==
  IF \E u \in Entries : u < t THEN Reverse(request[t].classifications)
  ELSE request[t].classifications

classifications(t) == request[t].classifications

CheckDimensions(t) ==
  /\ at[t] = "dimensions"
  /\ \/ /\ \E i \in DOMAIN classifications(t) : classifications(t)[i].dimension \notin Dimensions
        /\ RollsBack(t, "invalid") /\ UNCHANGED lost
     \/ /\ \A i \in DOMAIN classifications(t) : classifications(t)[i].dimension \in Dimensions
        /\ Goes(t, IF classifications(t) = <<>> THEN "product" ELSE "value")
        /\ UNCHANGED <<index, attempt, sku, resolved, own, others>>

valueKey(t) == <<classifications(t)[index[t]].dimension, Identity[classifications(t)[index[t]].value]>>

valueHolders(t) == {u \in Entries \ {t} : \E v \in own[u].values : v.key = valueKey(t)}

(* In the order the request names them.                                    *)
InsertValue(t) ==
  /\ at[t] = "value" /\ valueHolders(t) = {}
  /\ own' = IF \E v \in values : v.key = valueKey(t) THEN own
            ELSE [own EXCEPT ![t].values = @ \cup
                    {[key |-> valueKey(t), name |-> classifications(t)[index[t]].value, by |-> t]}]
  /\ Goes(t, "readValue")
  /\ UNCHANGED <<index, attempt, sku, resolved, others>>

ReadValue(t) ==
  /\ at[t] = "readValue"
  /\ \E v \in values \cup own[t].values :
       v.key = valueKey(t) /\ resolved' = [resolved EXCEPT ![t].values = Append(@, v)]
  /\ IF index[t] = Len(classifications(t))
     THEN Goes(t, "product") /\ index' = [index EXCEPT ![t] = 1]
     ELSE Goes(t, "value") /\ index' = [index EXCEPT ![t] = @ + 1]
  /\ UNCHANGED <<attempt, sku, own, others>>

----------------------------------------------------------------------------
(* The product and its variants.                                           *)

(* insertProduct and insertProductClassifications.                         *)
InsertProduct(t) ==
  /\ at[t] = "product"
  /\ own' = [own EXCEPT ![t].product = {[id |-> t, brand |-> resolved[t].brand,
                                         classifications |-> resolved[t].values, variants |-> <<>>]}]
  /\ Goes(t, "sku")
  /\ UNCHANGED <<index, attempt, sku, resolved, others>>

generateSku(t) ==
  /\ at[t] = "sku"
  /\ \E s \in Skus : sku' = [sku EXCEPT ![t] = s]
  /\ Goes(t, "variant")
  /\ UNCHANGED <<index, attempt, resolved, own, others>>

Bears(p, s) == \E i \in DOMAIN p.variants : p.variants[i].sku = s

skuHolders(t) == {u \in Entries \ {t} : \E p \in own[u].product : Bears(p, sku[t])}

skuTaken(t) == \E p \in products \cup own[t].product : Bears(p, sku[t])

(* The savepoint is released, and the variant's attributes and barcodes    *)
(* follow: nobody else can hold those keys.                                *)
VariantInserted(t) ==
  LET v == request[t].variants[index[t]]
      row == [sku |-> sku[t], attributes |-> normalizeAttributes(v), barcodes |-> ToSet(v.barcodes)]
  IN /\ own' = [own EXCEPT ![t].product = {[p EXCEPT !.variants = Append(@, row)] : p \in @}]
     /\ attempt' = [attempt EXCEPT ![t] = 1]
     /\ IF index[t] = Len(request[t].variants)
        THEN Goes(t, "commit") /\ UNCHANGED index
        ELSE Goes(t, "sku") /\ index' = [index EXCEPT ![t] = @ + 1]
     /\ UNCHANGED <<sku, resolved, others>>

(* Defect: the savepoint is kept, the count of attempts is not.            *)
DefectForgetsTheAttempts(t) ==
  /\ Goes(t, "sku")
  /\ UNCHANGED <<index, attempt, sku, resolved, own, others>>

(* Rolled back to the savepoint, the transaction goes on with another SKU. *)
SkuCollides(t) ==
  \/ /\ attempt[t] < MaxSkuAttempts
     /\ attempt' = [attempt EXCEPT ![t] = @ + 1]
     /\ Goes(t, "sku")
     /\ UNCHANGED <<index, sku, resolved, own, others>>
  \/ /\ attempt[t] = MaxSkuAttempts
     /\ RollsBack(t, "conflict") /\ UNCHANGED lost

(* Defect: a variant whose SKU could not be placed is skipped.             *)
DefectSkipsTheVariant(t) ==
  /\ at[t] = "variant" /\ skuHolders(t) = {}
  /\ \/ ~skuTaken(t) /\ VariantInserted(t)
     \/ /\ skuTaken(t)
        /\ Goes(t, IF index[t] = Len(request[t].variants) THEN "commit" ELSE "sku")
        /\ index' = [index EXCEPT ![t] = @ + 1]
        /\ UNCHANGED <<attempt, sku, resolved, own, others>>

insertVariantWithUniqueSku(t) ==
  /\ at[t] = "variant" /\ skuHolders(t) = {}
  /\ \/ ~skuTaken(t) /\ VariantInserted(t)
     \/ skuTaken(t) /\ SkuCollides(t)

(* Read back and committed; what is committed is what was read.            *)
Commits(t) ==
  /\ at[t] = "commit"
  /\ brands' = brands \cup own[t].brand
  /\ values' = values \cup own[t].values
  /\ products' = products \cup own[t].product

Commit(t) ==
  /\ Commits(t) /\ Ends(t, "created")
  /\ UNCHANGED <<request, index, attempt, sku, resolved, listing, lost>>

----------------------------------------------------------------------------
(* The connection to the database breaks: nothing is written - or, when    *)
(* it breaks under COMMIT, everything is and the client is told of a fault.*)
ConnectionLost(t) ==
  /\ at[t] \notin {"prepare", "done"} /\ Cardinality(lost) < MaxFaults
  /\ lost' = lost \cup {t}
  /\ \/ RollsBack(t, "internal")
     \/ Commits(t) /\ Ends(t, "internal") /\ UNCHANGED <<request, index, attempt, sku, resolved, listing>>

WaitsFor(t) ==
  CASE at[t] = "brand" -> brandHolders(t)
    [] at[t] = "value" -> valueHolders(t)
    [] at[t] = "variant" -> skuHolders(t)
    [] OTHER -> {}

(* Each transaction of a circle waits for one of it and is waited for.     *)
Circles == {S \in SUBSET Entries : S # {} /\ \A t \in S : /\ WaitsFor(t) \cap S # {}
                                                     /\ \E u \in S : t \in WaitsFor(u)}

(* PostgreSQL finds the circle and fails one of its statements; the error  *)
(* is nobody's AppError and the client is told of a fault.                 *)
DeadlockDetected(t) ==
  /\ \E S \in Circles : t \in S
  /\ RollsBack(t, "internal") /\ UNCHANGED lost

----------------------------------------------------------------------------
(* loadProducts: five statements, each with a snapshot of its own, every   *)
(* one for the ids the earlier ones returned.  A product is there with all *)
(* its rows or not at all, so what a later statement finds of it is kept   *)
(* as its id.                                                              *)
Ids == {p.id : p \in products}

Reads(part, ids, next) ==
  /\ listing' = [listing EXCEPT ![part] = ids, !.at = next]
  /\ UNCHANGED <<request, progress, own, rows, answer, lost>>

ListProducts == listing.at = "products" /\ Reads("products", Ids, "classifications")

ListClassifications ==
  /\ listing.at = "classifications"
  /\ Reads("classifications", Ids \cap listing.products, "variants")

ListVariants == listing.at = "variants" /\ Reads("variants", Ids \cap listing.products, "attributes")

loadAttributes == listing.at = "attributes" /\ Reads("attributes", Ids \cap listing.variants, "barcodes")

(* Defect: the products themselves are read last.                          *)
DefectListsProductsLast ==
  /\ listing.at = "barcodes"
  /\ listing' = [listing EXCEPT !.products = Ids, !.barcodes = Ids \cap listing.variants, !.at = "done"]
  /\ UNCHANGED <<request, progress, own, rows, answer, lost>>

loadBarcodes == listing.at = "barcodes" /\ Reads("barcodes", Ids \cap listing.variants, "done")

Steps(t) ==
  \/ Prepare(t) \/ assertAttributeNamesAreDefined(t)
  \/ InsertBrand(t) \/ ReadBrand(t)
  \/ CheckDimensions(t) \/ InsertValue(t) \/ ReadValue(t)
  \/ InsertProduct(t) \/ generateSku(t) \/ insertVariantWithUniqueSku(t) \/ Commit(t)
  \/ ConnectionLost(t) \/ DeadlockDetected(t)

Lists == ListProducts \/ ListClassifications \/ ListVariants \/ loadAttributes \/ loadBarcodes

CatalogNext == (\E t \in Entries : Steps(t)) \/ Lists

(* The server goes on with every request it has begun, and the database    *)
(* with its statements and its deadlock detector.                          *)
Fairness == \A t \in Entries : WF_catalogVars(Steps(t))

CatalogSpec == CatalogInit /\ [][CatalogNext]_catalogVars /\ Fairness
=============================================================================
