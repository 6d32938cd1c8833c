------------------------------- MODULE Config -------------------------------
(***************************************************************************)
(* What happens to a parsed configuration: Validate and detectCycles of    *)
(* internal/core/config.go, then NewPipelineFromConfig of convert.go.      *)
(* Validate walks the jobs map twice, each time in an order of Go's        *)
(* choosing: once to check each job, once to start the depth-first search. *)
(***************************************************************************)
EXTENDS Integers, Sequences, FiniteSets, SequencesExt

CONSTANTS
    Names,        \* what jobs, and depends_on entries, may be called
    Configs,      \* the configurations to validate
    unnamed,      \* the empty step name
    none          \* no job

ASSUME ConfigAssumption ==
    /\ IsFiniteSet(Names) /\ none \notin Names
    /\ \A c \in Configs :
          /\ DOMAIN c.jobs \subseteq Names
          /\ \A j \in DOMAIN c.jobs : /\ c.jobs[j].dependsOn \in Seq(Names)
                                     /\ c.jobs[j].steps \in Seq(Range(c.jobs[j].steps))

VARIABLES
    config,       \* the PipelineConfig: [named, env, jobs]
    pc,           \* where Validate is, or the message it ended with
    todo,         \* the jobs the first walk has not checked
    state,        \* detectCycles: unvisited, inStack or visited ...
    parent,
    stack,        \* ... its calls of dfs: the job and the position in its list
    path,         \* the cycle slice
    cur,
    pipeline      \* the runtime jobs, empty before NewPipelineFromConfig

searchVars == <<state, parent, stack>>
pathVars   == <<path, cur>>
vars       == <<config, pc, todo, searchVars, pathVars, pipeline>>

Jobs        == DOMAIN config.jobs
DepsOf(j)   == {config.jobs[j].dependsOn[k] : k \in DOMAIN config.jobs[j].dependsOn}
Unvisited   == {j \in Jobs : state[j] = "unvisited"}

Errors == {"noName", "noJobs", "noImage", "noSteps", "noRun", "duplicateStep",
           "unknownDep", "cycle"}

Init ==
    /\ config \in Configs
    /\ pc = "start"
    /\ todo = DOMAIN config.jobs
    /\ state = [j \in DOMAIN config.jobs |-> "unvisited"]
    /\ parent = [j \in DOMAIN config.jobs |-> none]
    /\ stack = <<>>
    /\ path = <<>>
    /\ cur = none
    /\ pipeline = <<>>

-----------------------------------------------------------------------------
(* Validate.                                                               *)

GoTo(l) ==
    /\ pc' = l
    /\ UNCHANGED <<config, searchVars, pathVars, pipeline>>

CheckPipeline ==
    /\ pc = "start"
    /\ \/ ~config.named /\ GoTo("noName")
       \/ config.named /\ Jobs = {} /\ GoTo("noJobs")
       \/ config.named /\ Jobs # {} /\ GoTo("jobs")
    /\ UNCHANGED todo

(* A step that repeats the name of an earlier one; no name is no repetition. *)
Repeats(steps, i) ==
    steps[i].name # unnamed /\ \E k \in 1 .. i - 1 : steps[k].name = steps[i].name

BadSteps(steps) == {i \in DOMAIN steps : ~steps[i].run \/ Repeats(steps, i)}

StepComplaint(steps) ==
    LET i == CHOOSE i \in BadSteps(steps) : \A k \in BadSteps(steps) : i <= k
    IN  IF steps[i].run THEN "duplicateStep" ELSE "noRun"

(* The first thing wrong with a job, in the order the loop's body looks.   *)
Complaint(j) ==
    LET job == config.jobs[j] IN
    IF ~job.image THEN "noImage"
    ELSE IF job.steps = <<>> THEN "noSteps"
    ELSE IF BadSteps(job.steps) # {} THEN StepComplaint(job.steps)
    ELSE IF ~(DepsOf(j) \subseteq Jobs) THEN "unknownDep"
    ELSE "none"

CheckJob(j) ==
    /\ pc = "jobs"
    /\ j \in todo
    /\ IF Complaint(j) = "none"
       THEN /\ todo' = todo \ {j}
            /\ GoTo("jobs")
       ELSE /\ UNCHANGED todo
            /\ GoTo(Complaint(j))

StartSearch ==
    /\ pc = "jobs"
    /\ todo = {}
    /\ GoTo("search")
    /\ UNCHANGED todo

-----------------------------------------------------------------------------
(* detectCycles.                                                           *)

Top     == stack[Len(stack)]
TopDeps == config.jobs[Top.job].dependsOn

(* A call of dfs; the caller's loop stays where it is until it returns.    *)
Call(j) ==
    /\ state' = [state EXCEPT ![j] = "inStack"]
    /\ stack' = Append(stack, [job |-> j, at |-> 1])

Advance(s) == IF s = <<>> THEN s ELSE [s EXCEPT ![Len(s)].at = @ + 1]

Root(j) ==
    /\ pc = "search"
    /\ stack = <<>>
    /\ j \in Unvisited
    /\ Call(j)
    /\ UNCHANGED <<config, pc, todo, parent, pathVars, pipeline>>

LookingAt(dep) ==
    /\ pc = "search"
    /\ stack # <<>>
    /\ Top.at <= Len(TopDeps)
    /\ dep = TopDeps[Top.at]

Descend(dep) ==
    /\ LookingAt(dep)
    /\ state[dep] = "unvisited"
    /\ parent' = [parent EXCEPT ![dep] = Top.job]
    /\ Call(dep)
    /\ UNCHANGED <<config, pc, todo, pathVars, pipeline>>

(* Fault: a job on the stack is passed by like a visited one. *)
PassBy_InStack(dep) ==
    /\ LookingAt(dep)
    /\ state[dep] # "unvisited"
    /\ stack' = Advance(stack)
    /\ UNCHANGED <<config, pc, todo, state, parent, pathVars, pipeline>>

PassBy(dep) ==
    /\ LookingAt(dep)
    /\ state[dep] = "visited"
    /\ stack' = Advance(stack)
    /\ UNCHANGED <<config, pc, todo, state, parent, pathVars, pipeline>>

(* Fault: any job seen before closes a cycle. *)
CloseCycle_Visited(dep) ==
    /\ LookingAt(dep)
    /\ state[dep] # "unvisited"
    /\ path' = <<dep, Top.job>>
    /\ cur' = Top.job
    /\ pc' = "rebuild"
    /\ UNCHANGED <<config, todo, searchVars, pipeline>>

(* The error passes through every call of dfs, so the stack no longer moves. *)
CloseCycle(dep) ==
    /\ LookingAt(dep)
    /\ state[dep] = "inStack"
    /\ path' = <<dep, Top.job>>
    /\ cur' = Top.job
    /\ pc' = "rebuild"
    /\ UNCHANGED <<config, todo, searchVars, pipeline>>

(* Fault: a job left is not marked visited. *)
Return_Unmarked ==
    /\ pc = "search"
    /\ stack # <<>>
    /\ Top.at > Len(TopDeps)
    /\ state' = [state EXCEPT ![Top.job] = "unvisited"]
    /\ stack' = Advance(Front(stack))
    /\ UNCHANGED <<config, pc, todo, parent, pathVars, pipeline>>

Return ==
    /\ pc = "search"
    /\ stack # <<>>
    /\ Top.at > Len(TopDeps)
    /\ state' = [state EXCEPT ![Top.job] = "visited"]
    /\ stack' = Advance(Front(stack))
    /\ UNCHANGED <<config, pc, todo, parent, pathVars, pipeline>>

(* Fault: the loop appends before it compares. *)
AtCycleStart_Late == cur = path[1]

(* The loop stops before it would append the job the cycle began with.     *)
AtCycleStart == cur = path[1] \/ parent[cur] = path[1]

Rebuild ==
    /\ pc = "rebuild"
    /\ ~AtCycleStart
    /\ cur' = parent[cur]
    /\ path' = Append(path, parent[cur])
    /\ UNCHANGED <<config, pc, todo, searchVars, pipeline>>

Report ==
    /\ pc = "rebuild"
    /\ AtCycleStart
    /\ path' = Reverse(path)
    /\ pc' = "cycle"
    /\ UNCHANGED <<config, todo, cur, searchVars, pipeline>>

Accept ==
    /\ pc = "search"
    /\ stack = <<>>
    /\ Unvisited = {}
    /\ GoTo("accepted")
    /\ UNCHANGED todo

-----------------------------------------------------------------------------
(* NewPipelineFromConfig.                                                  *)

(* Fault: the base wins. *)
MergeEnv_BaseWins(base, override) == base @@ override

MergeEnv(base, override) ==
    [v \in DOMAIN base \cup DOMAIN override |->
        IF v \in DOMAIN override THEN override[v] ELSE base[v]]

JobEnv(j)     == MergeEnv(config.env, config.jobs[j].env)
StepEnv(j, k) == MergeEnv(JobEnv(j), config.jobs[j].steps[k].env)

NewPipelineFromConfig ==
    /\ pc = "accepted"
    /\ pc' = "converted"
    /\ pipeline' = [j \in Jobs |->
                      [env   |-> JobEnv(j),
                       steps |-> [k \in DOMAIN config.jobs[j].steps |-> StepEnv(j, k)]]]
    /\ UNCHANGED <<config, todo, searchVars, pathVars>>

-----------------------------------------------------------------------------
Validate == CheckPipeline \/ StartSearch \/ \E j \in Jobs : CheckJob(j)

DetectCycles ==
    \/ Return \/ Rebuild \/ Report \/ Accept
    \/ \E j \in Jobs : Root(j)
    \/ \E dep \in Jobs : Descend(dep) \/ PassBy(dep) \/ CloseCycle(dep)

Ended    == Errors \cup {"converted"}
Finished == pc \in Ended /\ UNCHANGED vars

Next == Validate \/ DetectCycles \/ NewPipelineFromConfig \/ Finished

Spec     == Init /\ [][Next]_vars
FairSpec == Spec /\ WF_vars(Next)

-----------------------------------------------------------------------------
(* Properties.                                                             *)

Ranks == [Jobs -> 1 .. Cardinality(Jobs)]

IsTopological(rank) == \A j \in Jobs : \A d \in DepsOf(j) \cap Jobs : rank[d] < rank[j]

Acyclic == \E rank \in Ranks : IsTopological(rank)

(* What the engine and the scheduler rely on in a job they are given.      *)
Runnable(j) ==
    LET job == config.jobs[j] IN
    /\ job.image /\ job.steps # <<>>
    /\ \A i \in DOMAIN job.steps : job.steps[i].run
    /\ \A i, k \in DOMAIN job.steps :
          i # k /\ job.steps[i].name = job.steps[k].name => job.steps[i].name = unnamed
    /\ DepsOf(j) \subseteq Jobs

(* Validate accepts what can run: every job in order, and dependencies     *)
(* that exist and can be ranked, which is when Schedule succeeds.          *)
AcceptsOnlyRunnable ==
    pc \in {"accepted", "converted"} => (\A j \in Jobs : Runnable(j)) /\ Acyclic

(* It rejects nothing else: there is a bad job when the message is about   *)
(* one, and a cycle when it is about a cycle.                              *)
RejectsOnlyFaulty ==
    /\ pc \in Errors \ {"noName", "noJobs", "cycle"} => \E j \in Jobs : ~Runnable(j)
    /\ pc \in {"rebuild", "cycle"} => ~Acyclic

(* The jobs in the message, read in a circle, each depend on the next, and *)
(* none comes twice; a job that depends on itself is written twice.  (The  *)
(* message does not close the circle: where docs/config.md:200 has         *)
(* "A -> B -> A" the code writes "B -> A".)                                 *)
PathNamesCycle ==
    pc = "cycle" =>
        \/ Len(path) = 2 /\ path[1] = path[2] /\ path[1] \in DepsOf(path[1])
        \/ /\ IsInjective(path) /\ Len(path) > 1
           /\ \A k \in DOMAIN path : path[(k % Len(path)) + 1] \in DepsOf(path[k])

(* Each step of the pipeline sees every variable set around it, with the   *)
(* value set nearest to it: its own, else its job's, else the pipeline's.  *)
NearestEnvWins ==
    pc = "converted" =>
        \A j \in Jobs : \A k \in DOMAIN config.jobs[j].steps :
            LET own    == config.jobs[j].steps[k].env
                job    == config.jobs[j].env
                outer  == config.env
                merged == pipeline[j].steps[k]
            IN  /\ DOMAIN merged = DOMAIN own \cup DOMAIN job \cup DOMAIN outer
                /\ \A v \in DOMAIN merged :
                      \/ v \in DOMAIN own /\ merged[v] = own[v]
                      \/ v \in DOMAIN job \ DOMAIN own /\ merged[v] = job[v]
                      \/ v \notin DOMAIN own \cup DOMAIN job /\ merged[v] = outer[v]

(* What Validate and the conversion still have before them: their stages,  *)
(* the jobs not checked, the calls of dfs not made and not finished, the   *)
(* positions in the lists of dependencies not passed, and the jobs that    *)
(* are not in the path.                                                    *)
Stage ==
    CASE pc = "start" -> 4 [] pc = "jobs" -> 3 [] pc = "search" -> 2
      [] pc \in {"rebuild", "accepted"} -> 1 [] OTHER -> 0
Unfinished == {j \in Jobs : state[j] # "visited"}
NotPassed(j) ==
    {i \in DOMAIN config.jobs[j].dependsOn :
        \/ state[j] = "unvisited"
        \/ \E k \in DOMAIN stack : stack[k].job = j /\ stack[k].at <= i}
Unlooked == UNION {{j} \X NotPassed(j) : j \in Jobs}
Unwalked == Jobs \ {path[k] : k \in DOMAIN path}
Budget ==
    Stage + Cardinality(todo) + Cardinality(Unvisited) + Cardinality(Unfinished)
          + Cardinality(Unlooked) + Cardinality(Unwalked)

(* Nothing is put off or done twice: none of these ever grows, and every   *)
(* step takes something off one of them.  So a configuration of n jobs and *)
(* e entries in their lists is through after at most 4 + 4n + e steps, in  *)
(* whatever order Go walks the jobs; the rebuilding loop, which would go   *)
(* round for ever on a wrong parent, is counted in.                        *)
EveryStepCounts ==
    [][/\ todo' \subseteq todo /\ Unvisited' \subseteq Unvisited
       /\ Unfinished' \subseteq Unfinished /\ Unlooked' \subseteq Unlooked
       /\ Unwalked' \subseteq Unwalked
       /\ Budget' < Budget]_vars

(* Validation ends, its path-rebuilding loop included.                     *)
Termination == <>(pc \in Ended)

(* The inductive invariant behind the verdict.  The first walk leaves only *)
(* runnable jobs behind it; the search keeps a chain of dependencies on    *)
(* its stack, which any ranking must descend, and a ranking of what it has *)
(* visited, to which the job it leaves can be added at the top.            *)
Visited == {j \in Jobs : state[j] = "visited"}

WalkInv ==
    /\ \A j \in Jobs \ todo : Runnable(j)
    /\ pc = "start" => todo = Jobs
    /\ pc \in {"search", "rebuild", "cycle", "accepted", "converted"} => todo = {}
    /\ pc \in Errors \ {"noName", "noJobs", "cycle"} => \E j \in Jobs : ~Runnable(j)
    /\ pc \in {"start", "jobs"} => stack = <<>> /\ \A j \in Jobs : state[j] = "unvisited"

Frame(k) == config.jobs[stack[k].job].dependsOn

StackInv ==
    /\ \A k \in DOMAIN stack : state[stack[k].job] = "inStack"
    /\ \A j \in Jobs : state[j] = "inStack" => \E k \in DOMAIN stack : stack[k].job = j
    /\ \A k, l \in DOMAIN stack : k # l => stack[k].job # stack[l].job
    /\ \A k \in DOMAIN stack : \A i \in DOMAIN Frame(k) :
          i < stack[k].at => state[Frame(k)[i]] = "visited"
    /\ \A k \in DOMAIN stack : k < Len(stack) =>
          stack[k].at \in DOMAIN Frame(k) /\ Frame(k)[stack[k].at] = stack[k + 1].job

StackDescends ==
    \A rank \in Ranks : IsTopological(rank) =>
        \A k, l \in DOMAIN stack : k < l => rank[stack[l].job] < rank[stack[k].job]

RanksVisited(rank) ==
    \A j \in Visited :
        /\ rank[j] \in 1 .. Cardinality(Visited)
        /\ \A d \in DepsOf(j) : d \in Visited /\ rank[d] < rank[j]

VerdictInv ==
    /\ pc \in {"accepted", "converted"} => Visited = Jobs
    /\ pc \in {"rebuild", "cycle"} => ~Acyclic

ConfigInv ==
    /\ config \in Configs
    /\ todo \subseteq Jobs
    /\ state \in [Jobs -> {"unvisited", "inStack", "visited"}]
    /\ stack \in Seq([job : Jobs, at : Nat \ {0}])
    /\ WalkInv
    /\ StackInv
    /\ StackDescends
    /\ \E rank \in [Jobs -> Nat] : RanksVisited(rank)
    /\ VerdictInv
=============================================================================
