----------------------------- MODULE MCCatalogues -----------------------------
(* An instance of Catalogues in which all packages bring the same catalogue, *)
(* which the user may also have.                                             *)
EXTENDS Catalogues

CONSTANT home

HomeOfAll == [k \in Packages |-> home]
=============================================================================
