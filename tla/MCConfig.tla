------------------------------ MODULE MCConfig ------------------------------
(***************************************************************************)
(* Three families of configurations: every short dependency list over      *)
(* three sound jobs; two jobs with every kind of fault; and one job whose  *)
(* environments overlap in every way.                                      *)
(***************************************************************************)
EXTENDS Config

CONSTANTS a, b, c, u, v, w

SoundSteps == <<[name |-> unnamed, run |-> TRUE, env |-> <<>>]>>

Job(image, steps, deps, env) ==
    [image |-> image, steps |-> steps, dependsOn |-> deps, env |-> env]

Pipeline(named, env, jobs) == [named |-> named, env |-> env, jobs |-> jobs]

ListsUpTo(S, n) == UNION {[1 .. k -> S] : k \in 0 .. n}

(* Dependency graphs, with repeated entries and every order.               *)
GraphNames   == {a, b, c}
GraphLists   == ListsUpTo(GraphNames, 2) \cup SetToSeqs(GraphNames)
GraphConfigs ==
    {Pipeline(TRUE, <<>>, [j \in GraphNames |-> Job(TRUE, SoundSteps, deps[j], <<>>)]) :
        deps \in [GraphNames -> GraphLists]}

(* Faults of every kind, alone and together.                               *)
AnyStep       == [name : {unnamed, u}, run : BOOLEAN, env : {<<>>}]
AnyJob        == {Job(image, steps, deps, <<>>) :
                    image \in BOOLEAN, steps \in ListsUpTo(AnyStep, 2),
                    deps \in ListsUpTo({a, c}, 1)}
FaultyConfigs ==
    {Pipeline(named, <<>>, jobs) :
        named \in BOOLEAN,
        jobs \in UNION {[J -> AnyJob] : J \in {{}, {a}}}}
    \cup {Pipeline(TRUE, <<>>, jobs) :
        jobs \in [{a, b} -> AnyJob]}

(* Two variables, each set or not at each of the three levels.             *)
EnvOf(x)   == UNION {[K -> {x}] : K \in SUBSET {v, w}}
EnvConfigs ==
    {Pipeline(TRUE, outer,
        [j \in {a, b} |->
            Job(TRUE, <<[name |-> unnamed, run |-> TRUE, env |-> own],
                        [name |-> unnamed, run |-> TRUE, env |-> <<>>]>>,
                IF j = a THEN <<b>> ELSE <<>>, IF j = a THEN inner ELSE <<>>)]) :
        outer \in EnvOf(1), inner \in EnvOf(2), own \in EnvOf(3)}

AllConfigs == (FaultyConfigs \cup EnvConfigs) \cup GraphConfigs
=============================================================================
