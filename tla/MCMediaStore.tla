----------------------------- MODULE MCMediaStore -----------------------------
(* MediaStore with two attempts and two faults.                            *)
EXTENDS MediaStore

===============================================================================
