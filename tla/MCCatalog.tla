------------------------------ MODULE MCCatalog ------------------------------
(***************************************************************************)
(* A small instance of the catalog for TLC.                                *)
(***************************************************************************)
EXTENDS Catalog, TLC

ASSUME CatalogAssumption

\* An extra may change its price, its quantity or its detail.
Extra(p, q, d) == [price |-> p, quantity |-> q, detail |-> d]
MCExtraValues == {Extra(1, 1, 0), Extra(1, 1, 1), Extra(1, 2, 0)}

\* The same two values are the extras, the pieces of furniture and the photos.
Alike ==
  Permutations(Extras) \union Permutations(Editors) \union Permutations(Requests)

\* Long behaviours of one photo, short ones of two whose uploads are alike; quote
\* requests that arrive in the order of their numbers.
Brief ==
  /\ part = "photos" =>
       \/ Cardinality({p \in Photos : link[p] # 0}) <= 1
       \/ /\ now <= 2
          /\ \A p \in Photos, k \in P!Keys : object[p][k] \in {None, "front"}
  /\ part = "limit" => \A c \in Calls : read[c] = None => \A d \in Calls : d > c => read[d] = None
=============================================================================
