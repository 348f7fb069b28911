----------------------------- MODULE MCApiAccess -----------------------------
(* The instances of ApiAccess that TLC checks. *)
EXTENDS ApiAccess, TLC

\* An administrator's key, and two that may be made: one for good, one that expires.
CONSTANTS k1, k2, k3

MCLimit == (k1 :> 2) @@ (k2 :> 1) @@ (k3 :> 1)
MCExpiresAt == [k \in Keys |-> IF k = k3 THEN MaxClock ELSE Never]
MCSymmetry == Permutations(Requests) \cup Permutations(Workers)
=============================================================================
