------------------------ MODULE MCCatalogGeneration ------------------------
(* Model values for CatalogGeneration: the connections are interchangeable. *)
EXTENDS CatalogGeneration, TLC

MCSymmetry == Permutations(Conn)
=============================================================================
