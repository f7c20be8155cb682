----------------------------- MODULE MCPaidEffect -----------------------------
(* Small instances of PaidEffect: an image, and two runs' voices of one name. *)
EXTENDS PaidEffect, TLC

CONSTANTS k1, k2, k3, p1, p2

MCKeys == {k1, k2, k3}
MCUnits == (k1 :> 1) @@ (k2 :> 2) @@ (k3 :> 1)
MCLimits == {2, 3}
MCReconcilable == {k2, k3}
MCNameOf == (k1 :> 1) @@ (k2 :> 2) @@ (k3 :> 2)
MCProcs == {p1, p2}
ProcSymmetry == Permutations(MCProcs)

===============================================================================
