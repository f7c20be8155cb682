---------------------------- MODULE MCVideoEffect ----------------------------
(* Small instances of VideoEffect.                                         *)
EXTENDS VideoEffect, TLC

CONSTANTS k1, o1, o2, p1, p2, h1

MCKeys == {k1}
MCUnits == (k1 :> 8)
MCLimits == {8}
MCPredIds == {o1, o2}
MCProcs == {p1, p2}
MCHooks == {h1}

==============================================================================
