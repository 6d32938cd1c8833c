------------------------------ MODULE MCDocker ------------------------------
(***************************************************************************)
(* Two jobs at the same time, each with two steps, so that a step can be    *)
(* the second of its job and a job can race another; jobs that are alike.   *)
(***************************************************************************)
EXTENDS Docker

CONSTANTS a, b
=============================================================================
