------------------------------ MODULE MCWakeQueue ------------------------------
(* Two runners with the same default worker id, two jobs.                  *)
EXTENDS WakeQueue

CONSTANTS p1, p2, j1, j2, w

MCRunners == {p1, p2}
MCJobs == {j1, j2}
SharedId == [p \in MCRunners |-> w]
===============================================================================
