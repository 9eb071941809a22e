----------------------------- MODULE MCLeaseBook -----------------------------
(* Two runners, two jobs, two lease lengths. *)
EXTENDS LeaseBook, TLC

CONSTANTS r1, r2, j1, j2, v11, v12, v21, v22

MCVmNameFor == r1 :> (j1 :> v11 @@ j2 :> v12) @@ r2 :> (j1 :> v21 @@ j2 :> v22)
==============================================================================
