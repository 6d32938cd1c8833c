---------------------------- MODULE MCScheduler ----------------------------
(***************************************************************************)
(* Every dependency graph of four jobs without self-dependencies; and three *)
(* jobs whose lists may name the job itself, repeat a job or name an        *)
(* unknown one.                                                             *)
(***************************************************************************)
EXTENDS Scheduler

CONSTANT Unknown

MCJobs  == 1 .. 4
MCNames == MCJobs \cup {Unknown}

Ascending == [S \in SUBSET MCJobs |-> SetToSortSeq(S, LAMBDA x, y : x < y)]

(* Every graph without self-dependencies, each list without repetition.    *)
AllGraphs ==
    {[j \in MCJobs |-> Ascending[S[j]]] :
        S \in {S \in [MCJobs -> SUBSET MCJobs] : \A j \in MCJobs : j \notin S[j]}}

(* Short lists of three of the jobs, with repetitions and an unknown name. *)
ShortLists == UNION {[1 .. n -> (MCNames \ {4})] : n \in 0 .. 2}
ListGraphs == {[j \in MCJobs |-> IF j = 4 THEN <<>> ELSE lists[j]] :
                 lists \in [MCJobs \ {4} -> ShortLists]}

MCGraphs == UNION {AllGraphs, ListGraphs}
=============================================================================
