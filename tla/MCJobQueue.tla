----------------------------- MODULE MCJobQueue -----------------------------
(* Small instances of JobQueue for TLC.                                    *)
EXTENDS JobQueue, TLC

CONSTANTS r1, p1, p2

MCRuns == {r1}
NoRuns == {}
MCProcs == {p1, p2}
OwnId == [p \in MCProcs |-> p]
ProcSymmetry == Permutations(MCProcs)

=============================================================================
