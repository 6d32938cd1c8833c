------------------------------ MODULE Scheduler ------------------------------
(***************************************************************************)
(* Schedule and findCycle of internal/core/scheduler.go: Kahn's algorithm, *)
(* one level of jobs per step, and, when a level comes out empty, the      *)
(* depth-first search that names a cycle, one dependency per step.  A job  *)
(* is a number: the code sorts job names, and only their order matters.    *)
(***************************************************************************)
EXTENDS Integers, Sequences, FiniteSets, SequencesExt

CONSTANTS
    Jobs,      \* the jobs of the pipeline
    Names,     \* what depends_on may name
    Graphs     \* the dependency functions to schedule

ASSUME SchedulerAssumption ==
    /\ Jobs \subseteq Names /\ Names \subseteq Nat
    /\ IsFiniteSet(Jobs)
    /\ Graphs \subseteq [Jobs -> Seq(Names)]

VARIABLES
    dependsOn,    \* Job.DependsOn
    pc,           \* where Schedule is, or how it ended
    inDegree,     \* the inDegree map: its domain is what is not scheduled yet
    groups,       \* the levels found, in order
    color,        \* the three maps of findCycle ...
    parent,
    stack,        \* ... its calls of dfs: the node and the deps not looked at
    path,         \* the cycle being rebuilt, backwards until it is complete
    cur           \* and the node the rebuilding loop is at

kahnVars == <<inDegree, groups>>
dfsVars  == <<color, parent, stack>>
pathVars == <<path, cur>>
vars     == <<dependsOn, pc, kahnVars, dfsVars, pathVars>>

none == -1

DepsOf(j) == {dependsOn[j][k] : k \in DOMAIN dependsOn[j]}
Least(S)  == CHOOSE x \in S : \A y \in S : x <= y

(* How many entries of j's list name a job of S: a list may repeat a job.  *)
Occurrences(j, S) == Cardinality({k \in DOMAIN dependsOn[j] : dependsOn[j][k] \in S})

Remaining == DOMAIN inDegree
(* Fault: one ready job per pass. *)
Ready_OneByOne ==
    LET ready == {j \in Remaining : inDegree[j] = 0}
    IN  IF ready = {} THEN {} ELSE {Least(ready)}

Ready     == {j \in Remaining : inDegree[j] = 0}

Init ==
    /\ dependsOn \in Graphs
    /\ pc = "start"
    /\ inDegree = [j \in Jobs |-> Len(dependsOn[j])]
    /\ groups = <<>>
    /\ color = [j \in Jobs |-> "white"]
    /\ parent = [j \in Jobs |-> none]
    /\ stack = <<>>
    /\ path = <<>>
    /\ cur = none

-----------------------------------------------------------------------------
(* Schedule.                                                               *)

UnknownName ==
    /\ pc = "start"
    /\ \E j \in Jobs : ~(DepsOf(j) \subseteq Jobs)
    /\ pc' = "unknown"
    /\ UNCHANGED <<dependsOn, kahnVars, dfsVars, pathVars>>

NamesKnown ==
    /\ pc = "start"
    /\ \A j \in Jobs : DepsOf(j) \subseteq Jobs
    /\ pc' = "kahn"
    /\ UNCHANGED <<dependsOn, kahnVars, dfsVars, pathVars>>

(* Fault: a repeated dependency is taken off once. *)
Decremented_Once(j) == inDegree[j] - Cardinality(DepsOf(j) \cap Ready)

(* One pass of the loop: the ready jobs leave the map as a group, and each *)
(* entry that names one of them is taken off the degree of its job.        *)
Decremented(j) == inDegree[j] - Occurrences(j, Ready)

Level ==
    /\ pc = "kahn"
    /\ Ready # {}
    /\ groups' = Append(groups, Ready)
    /\ inDegree' = [j \in Remaining \ Ready |-> Decremented(j)]
    /\ UNCHANGED <<dependsOn, pc, dfsVars, pathVars>>

Scheduled ==
    /\ pc = "kahn"
    /\ Remaining = {}
    /\ pc' = "scheduled"
    /\ UNCHANGED <<dependsOn, kahnVars, dfsVars, pathVars>>

Stuck ==
    /\ pc = "kahn"
    /\ Remaining # {}
    /\ Ready = {}
    /\ pc' = "search"
    /\ UNCHANGED <<dependsOn, kahnVars, dfsVars, pathVars>>

-----------------------------------------------------------------------------
(* findCycle.                                                              *)

Top      == stack[Len(stack)]
Push(j)  == Append(stack, [node |-> j, rest |-> DepsOf(j)])
Whites   == {j \in Jobs : color[j] = "white"}

(* The loop over the sorted names calls dfs on the next white one.         *)
Root ==
    /\ pc = "search"
    /\ stack = <<>>
    /\ Whites # {}
    /\ stack' = Push(Least(Whites))
    /\ color' = [color EXCEPT ![Least(Whites)] = "gray"]
    /\ UNCHANGED <<dependsOn, pc, parent, kahnVars, pathVars>>

(* The loop of dfs looks at the least dependency it has not looked at.     *)
LookAt(dep) ==
    /\ pc = "search"
    /\ stack # <<>>
    /\ Top.rest # {}
    /\ dep = Least(Top.rest)

DropTop(dep) == [stack EXCEPT ![Len(stack)].rest = @ \ {dep}]

Descend(dep) ==
    /\ LookAt(dep)
    /\ color[dep] = "white"
    /\ parent' = [parent EXCEPT ![dep] = Top.node]
    /\ color' = [color EXCEPT ![dep] = "gray"]
    /\ stack' = Append(DropTop(dep), [node |-> dep, rest |-> DepsOf(dep)])
    /\ UNCHANGED <<dependsOn, pc, kahnVars, pathVars>>

PassBy(dep) ==
    /\ LookAt(dep)
    /\ color[dep] = "black"
    /\ stack' = DropTop(dep)
    /\ UNCHANGED <<dependsOn, pc, color, parent, kahnVars, pathVars>>

(* node -> dep closes a cycle; every call of dfs returns it.               *)
CloseCycle(dep) ==
    /\ LookAt(dep)
    /\ color[dep] = "gray"
    /\ parent' = [parent EXCEPT ![dep] = Top.node]
    /\ path' = <<dep>>
    /\ cur' = Top.node
    /\ pc' = "rebuild"
    /\ stack' = <<>>
    /\ UNCHANGED <<dependsOn, color, kahnVars>>

(* Fault: a finished node is not marked black. *)
Return_StaysWhite ==
    /\ pc = "search"
    /\ stack # <<>>
    /\ Top.rest = {}
    /\ color' = [color EXCEPT ![Top.node] = "white"]
    /\ stack' = Front(stack)
    /\ UNCHANGED <<dependsOn, pc, parent, kahnVars, pathVars>>

Return ==
    /\ pc = "search"
    /\ stack # <<>>
    /\ Top.rest = {}
    /\ color' = [color EXCEPT ![Top.node] = "black"]
    /\ stack' = Front(stack)
    /\ UNCHANGED <<dependsOn, pc, parent, kahnVars, pathVars>>

Rebuild ==
    /\ pc = "rebuild"
    /\ cur # path[1]
    /\ path' = Append(path, cur)
    /\ cur' = parent[cur]
    /\ UNCHANGED <<dependsOn, pc, kahnVars, dfsVars>>

(* Fault: the path is not reversed, so its edges point the wrong way. *)
Report_NotReversed ==
    /\ pc = "rebuild"
    /\ cur = path[1]
    /\ path' = Append(path, path[1])
    /\ pc' = "cycle"
    /\ UNCHANGED <<dependsOn, cur, kahnVars, dfsVars>>

Report ==
    /\ pc = "rebuild"
    /\ cur = path[1]
    /\ path' = Reverse(Append(path, path[1]))
    /\ pc' = "cycle"
    /\ UNCHANGED <<dependsOn, cur, kahnVars, dfsVars>>

-----------------------------------------------------------------------------
Ended    == {"unknown", "scheduled", "cycle"}
Finished == pc \in Ended /\ UNCHANGED vars

Kahn == UnknownName \/ NamesKnown \/ Level \/ Scheduled \/ Stuck

Search ==
    \/ Root \/ Return \/ Rebuild \/ Report
    \/ \E dep \in Jobs : Descend(dep) \/ PassBy(dep) \/ CloseCycle(dep)

Next == Kahn \/ Search \/ Finished

Spec     == Init /\ [][Next]_vars
FairSpec == Spec /\ WF_vars(Next)

-----------------------------------------------------------------------------
(* Properties.                                                             *)

GroupIndices == DOMAIN groups

(* Each job is in one group or still waits, and no group is empty.         *)
GroupsPartition ==
    /\ \A g, h \in GroupIndices : g # h => groups[g] \cap groups[h] = {}
    /\ \A g \in GroupIndices : groups[g] # {} /\ groups[g] \cap Remaining = {}
    /\ Jobs = Remaining \cup UNION {groups[g] : g \in GroupIndices}

(* A job's dependencies are all in earlier groups.                         *)
GroupsTopological ==
    \A g \in GroupIndices : \A j \in groups[g] : \A d \in DepsOf(j) :
        \E h \in GroupIndices : h < g /\ d \in groups[h]

(* No job waits for longer than it must: past the first group, each job    *)
(* has a dependency in the group just before its own.                      *)
GroupsTight ==
    \A g \in GroupIndices \ {1} : \A j \in groups[g] : DepsOf(j) \cap groups[g - 1] # {}

(* Some ranking of the jobs puts each below what depends on it: what       *)
(* Execute needs for its goroutines not to wait for one another.           *)
Acyclic ==
    \E rank \in [Jobs -> 1 .. Cardinality(Jobs)] :
        \A j \in Jobs : \A d \in DepsOf(j) : rank[d] < rank[j]

(* The verdict is right: success only without a cycle, and the error path, *)
(* on which Schedule is as soon as no job is ready, only with one.         *)
VerdictRight ==
    /\ pc = "scheduled" => Acyclic
    /\ pc \in {"search", "rebuild", "cycle"} => ~Acyclic

(* The path in the message is a cycle of the graph: each job depends on    *)
(* the next, the first is the last, and no other comes twice.  And there   *)
(* always is one: the search never runs out of white nodes, which would be *)
(* the last return of findCycle, an error that names no path.              *)
CycleIsReal ==
    /\ pc = "cycle" =>
          /\ Len(path) > 1 /\ path[1] = path[Len(path)]
          /\ \A k \in 1 .. Len(path) - 1 : path[k + 1] \in DepsOf(path[k])
          /\ \A k, l \in 1 .. Len(path) - 1 : path[k] = path[l] => k = l
    /\ pc = "search" /\ stack = <<>> => Whites # {}

(* The inductive invariant behind the groups and the verdict: it speaks of *)
(* the first half of the algorithm, and the search only has to keep it.    *)
KahnInv ==
    /\ dependsOn \in [Jobs -> Seq(Names)]
    /\ Remaining \subseteq Jobs /\ inDegree \in [Remaining -> Int]
    /\ groups \in Seq(SUBSET Jobs)
    /\ GroupsPartition /\ GroupsTopological
    /\ Len(groups) <= Cardinality(Jobs \ Remaining)
    /\ pc = "start" => Remaining = Jobs /\ groups = <<>>
                       /\ \A j \in Jobs : inDegree[j] = Len(dependsOn[j])
    /\ pc \notin {"start", "unknown"} =>
          /\ \A j \in Jobs : DepsOf(j) \subseteq Jobs
          /\ \A j \in Remaining : inDegree[j] = Occurrences(j, Remaining)
    /\ pc = "scheduled" => Remaining = {}
    /\ pc \in {"search", "rebuild", "cycle"} => Remaining # {} /\ Ready = {}

(* What Schedule still has before it: its stages, the jobs not in a group, *)
(* the calls of dfs not made and not finished, the dependencies they have  *)
(* not looked at, and the jobs the rebuilding loop has not walked to.      *)
Stage ==
    CASE pc = "start" -> 4 [] pc = "kahn" -> 3 [] pc = "search" -> 2
      [] pc = "rebuild" -> 1 [] OTHER -> 0
Unfinished == {j \in Jobs : color[j] # "black"}
Unlooked ==
    {e \in Jobs \X Jobs : /\ e[2] \in DepsOf(e[1])
                          /\ \/ color[e[1]] = "white"
                             \/ \E k \in DOMAIN stack : stack[k].node = e[1] /\ e[2] \in stack[k].rest}
Unwalked == Jobs \ {path[k] : k \in DOMAIN path}
Budget ==
    Stage + Cardinality(Remaining) + Cardinality(Whites) + Cardinality(Unfinished)
          + Cardinality(Unlooked) + Cardinality(Unwalked)

(* Nothing is put off or done twice: none of these ever grows, and every   *)
(* step takes something off one of them.  So Schedule takes at most 4 + 4n *)
(* + e steps with n jobs and e dependencies, the rebuilding loop, which    *)
(* follows parent and would go round for ever on a wrong one, included.    *)
EveryStepCounts ==
    [][/\ Remaining' \subseteq Remaining /\ Whites' \subseteq Whites
       /\ Unfinished' \subseteq Unfinished /\ Unlooked' \subseteq Unlooked
       /\ Unwalked' \subseteq Unwalked
       /\ Budget' < Budget]_vars

(* Schedule returns, its path-rebuilding loop included.                    *)
Termination == <>(pc \in Ended)
=============================================================================
