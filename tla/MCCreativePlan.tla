---------------------------- MODULE MCCreativePlan ----------------------------
(* Small instances of CreativePlan: three briefs, two of one spec.      *)
EXTENDS CreativePlan, TLC

CONSTANTS c0, c1, b1, b2, b3

MCCreators == {c0, c1}
MCBriefs == {b1, b2, b3}
MCSpecOf == (b1 :> 1) @@ (b2 :> 1) @@ (b3 :> 2)
Symmetry == Permutations(MCCreators)

==============================================================================
