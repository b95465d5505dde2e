------------------------- MODULE MCCatalogMigration -------------------------
(* Connections that open one old file.                                     *)
EXTENDS CatalogMigration
=============================================================================
