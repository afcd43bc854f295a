----------------------------- MODULE MCCatalog ------------------------------
(* An instance of the catalog pages for TLC. *)
EXTENDS CatalogPages, TLC

Symmetry == Permutations(Admin)
=============================================================================
