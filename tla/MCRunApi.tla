------------------------------- MODULE MCRunApi -------------------------------
(* RunApi with two items and two dashboards.                               *)
EXTENDS RunApi, TLC

CONSTANTS i1, i2, c1, c2

MCItems == {i1, i2}
MCScreens == {c1, c2}
ApiSymmetry == Permutations(MCItems) \cup Permutations(MCScreens)

===============================================================================
