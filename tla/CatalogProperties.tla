---------------------------- MODULE CatalogProperties ----------------------------
(***************************************************************************)
(* What entering merchandise promises.                                     *)
(***************************************************************************)
EXTENDS Catalog

BrandAsAsked(p) ==
  IF request[p.id].brand = None THEN p.brand = None
  ELSE p.brand \in brands /\ p.brand.key = brandKey(p.id)

ClassifiedAsAsked(p) ==
  LET asked == request[p.id].classifications
  IN /\ DOMAIN p.classifications = DOMAIN asked
     /\ \A i \in DOMAIN asked :
          /\ p.classifications[i] \in values
          /\ p.classifications[i].key = <<asked[i].dimension, Identity[asked[i].value]>>

VariantsAsAsked(p) ==
  LET asked == request[p.id].variants
  IN /\ DOMAIN p.variants = DOMAIN asked
     /\ \A i \in DOMAIN asked :
          /\ p.variants[i].attributes = normalizeAttributes(asked[i])
          /\ p.variants[i].barcodes = ToSet(asked[i].barcodes)

(* A product is there as it was asked for, under brands and values that    *)
(* are there too, however many requests brought the same new name at once; *)
(* every SKU names one variant; and a request that came to nothing leaves  *)
(* no brand and no value behind (service.ts: createProduct).               *)
CreatedWhole ==
  /\ \A p \in products : BrandAsAsked(p) /\ ClassifiedAsAsked(p) /\ VariantsAsAsked(p)
  /\ \A p, q \in products : \A i \in DOMAIN p.variants, j \in DOMAIN q.variants :
       p.variants[i].sku = q.variants[j].sku => p = q /\ i = j
  /\ \A row \in brands \cup values : row.by \in Ids

(* One order of the values there are fits what every request names.        *)
Named(t, i) ==
  LET asked == request[t].classifications
  IN <<asked[i].dimension, Identity[asked[i].value]>>

Filing == UNION {{Named(t, i) : i \in DOMAIN request[t].classifications} : t \in Entries}

InOneOrder ==
  \E rank \in [Filing -> 1..Cardinality(Filing)] :
    \A t \in Entries : Prepared(request[t]) =>
      \A i, j \in DOMAIN request[t].classifications :
        i < j => rank[Named(t, i)] < rank[Named(t, j)]

(* A request meets a fault of the server only if its connection was lost,  *)
(* or no one order fits all the requests, or two of them draw more than    *)
(* one SKU: those that list their values in one order never wait for each  *)
(* other in a circle, however many they are.                               *)
FailsForCause ==
  (\E t \in Entries : answer[t] = "internal" /\ t \notin lost) =>
    \/ ~InOneOrder
    \/ \E t, u \in Entries : /\ t # u
                             /\ Len(request[t].variants) > 1 /\ Len(request[u].variants) > 1

(* A listing shows a product with everything that was committed with it,   *)
(* although it is read in five statements (loadProducts).                  *)
ListingIsWhole ==
  listing.at = "done" =>
    \A part \in {"classifications", "variants", "attributes", "barcodes"} :
      listing[part] = listing.products

(* Every request is answered, also when SKUs collide, one request waits    *)
(* for another, or all wait for each other.                                *)
Answered == \A t \in Entries : <>(answer[t] # None)
=============================================================================
