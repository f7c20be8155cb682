------------------------------ MODULE MCMembers ------------------------------
(* Instances of Members for TLC: users and requests are interchangeable.   *)
EXTENDS Members, TLC

Symmetry == Permutations(Users) \cup Permutations(Procs)

==============================================================================
