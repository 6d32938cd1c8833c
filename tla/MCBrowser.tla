----------------------------- MODULE MCBrowser -----------------------------
(***************************************************************************)
(* A tab over a server with one pipeline of its own, in which two are run.  *)
(***************************************************************************)
EXTENDS Browser

CONSTANTS p, q, r
=============================================================================
