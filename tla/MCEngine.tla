------------------------------ MODULE MCEngine ------------------------------
(***************************************************************************)
(* Instances of Engine for TLC: three jobs under every shape of graph that *)
(* three jobs have, and graphs that Schedule rejects.  Job a has two steps *)
(* so that a cancellation or a failure can fall between steps.             *)
(***************************************************************************)
EXTENDS Engine, TLC

CONSTANTS a, b, c, ghost

MCJobs  == {a, b, c}
MCNames == MCJobs \cup {ghost}

Deps(da, db, dc) == (a :> da) @@ (b :> db) @@ (c :> dc)

MCNumSteps == Deps(2, 1, 1)

Chain    == Deps(<<>>, <<a>>, <<b>>)
Fork     == Deps(<<>>, <<a>>, <<a>>)
Join     == Deps(<<>>, <<>>, <<a, b>>)
Triangle == Deps(<<>>, <<a>>, <<b, a, b>>)
Split    == Deps(<<>>, <<a>>, <<>>)
TwoCycle == Deps(<<>>, <<a, c>>, <<b>>)
SelfDep  == Deps(<<>>, <<>>, <<a, c>>)
Unknown  == Deps(<<>>, <<a>>, <<b, ghost>>)

MCGraphs == {Chain, Fork, Join, Triangle, Split, TwoCycle, SelfDep, Unknown}
=============================================================================
