------------------------------ MODULE MCPolls ------------------------------
(***************************************************************************)
(* Two pipelines, so that a page's answers may be of another's.             *)
(***************************************************************************)
EXTENDS Polls

CONSTANTS p, q
=============================================================================
