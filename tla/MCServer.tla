------------------------------ MODULE MCServer ------------------------------
(***************************************************************************)
(* Small servers: two runs for what one run's call may do to another, one   *)
(* run with a call of each RPC for liveness.  Runs are interchangeable.     *)
(***************************************************************************)
EXTENDS Server, TLC

RunSymmetry == Permutations(Runs)
=============================================================================
