------------------------------ MODULE MCCatalog ------------------------------
(* The scheduler and the superadmin, one loop and one other writer; records  *)
(* get stale, come back and get stale again.                                 *)
EXTENDS CatalogLoops

CONSTANTS superadmin, w1
=============================================================================
