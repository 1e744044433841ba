---------------------------- MODULE MCLeaseChannel ----------------------------
(* Instance of LeaseChannel for TLC: one consumer is dedicated to one key.   *)
EXTENDS LeaseChannel, TLC

CONSTANTS k1, k2, k3, c1, c2

MCEligible == k1 :> {c1, c2} @@ k2 :> {c1, c2} @@ k3 :> {c2}

Symmetry == Permutations(Ids) \cup Permutations({k1, k2})
===============================================================================
