---------------------------- MODULE MCAdminVault ----------------------------
(* The instances of AdminVault that TLC checks. *)
EXTENDS AdminVault, TLC

MCSymmetry == Permutations(Requests) \cup Permutations(Workers)
=============================================================================
