----------------------------- MODULE MCCatalog -----------------------------
(* The instance of Catalog that TLC checks. *)
EXTENDS Catalog, TLC

MCSymmetry == Permutations(Audits) \cup Permutations(Requests)
=============================================================================
