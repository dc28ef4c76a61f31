-------------------------------- MODULE MCCatalog --------------------------------
(***************************************************************************)
(* Two requests at once: one brand spelled two ways, two classifications   *)
(* in either order, two variants, and SKUs that collide.                   *)
(***************************************************************************)
EXTENDS CatalogProperties

MCEntries == 1..2

MCSpellings == {"Ekon", "EKON", "Women", "Sandals", "Color", "color", "Red", "red", " ", "Weight"}

MCIdentity == [s \in MCSpellings |->
  CASE s = "Ekon" -> "EKON" [] s = "Color" -> "color" [] s = "Red" -> "red" [] OTHER -> s]

Filed(d, v) == [dimension |-> d, value |-> v]
Variant(as, bs) == [attributes |-> as, barcodes |-> bs]
Plain == Variant({}, <<>>)
Asked(b, cs, vs) == [brand |-> b, classifications |-> cs, variants |-> vs]

Audience == Filed("audience", "Women")
Type     == Filed("type", "Sandals")

MCRequests == {
  Asked("Ekon", <<Audience, Type>>, <<Plain>>),
  Asked("EKON", <<Audience>>, <<Plain>>),
  Asked(None, <<Audience, Type>>, <<Plain>>),
  Asked(None, <<Type, Audience>>, <<Plain>>),
  Asked(None, <<>>, <<Variant({<<"Color", "Red">>}, <<"b1">>), Plain>>),
  Asked("Ekon", <<Filed("mood", "Women")>>, <<Plain>>),
  Asked(None, <<>>, <<Variant({<<"Weight", "red">>}, <<>>)>>),
  Asked(None, <<>>, <<Variant({<<"Color", "Red">>}, <<>>), Variant({<<"color", "red">>}, <<>>)>>),
  Asked(None, <<>>, <<Variant({<<"Color", "Red">>, <<"color", "red">>}, <<>>)>>),
  Asked(None, <<>>, <<Variant({<<"Color", " ">>}, <<>>)>>)}

(* Every request is answered and the listing is done.                      *)
Terminated == (\A t \in Entries : at[t] = "done") /\ listing.at = "done" /\ UNCHANGED catalogVars

MCSpec == CatalogInit /\ [][CatalogNext \/ Terminated]_catalogVars /\ Fairness
=============================================================================
