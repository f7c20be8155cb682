----------------------------- MODULE MCProduction -----------------------------
(* Production with two items, two attempts of QC and two of the job.       *)
EXTENDS Production

===============================================================================
