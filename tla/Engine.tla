------------------------------- MODULE Engine -------------------------------
(***************************************************************************)
(* Engine.Execute and Engine.executeJob of internal/core/engine.go: one    *)
(* goroutine per job that waits for the done channels of its dependencies, *)
(* then is canceled, skipped, or runs Setup, its steps and Teardown on the *)
(* runner, and a main goroutine that validates the graph, spawns the jobs, *)
(* waits for all of them and publishes the pipeline's status.              *)
(*                                                                         *)
(* Setup and RunStep belong to the EngineRunner interface: any outcome may *)
(* come back at any time, whether or not the context has been canceled.    *)
(* The context can be canceled at any moment.  Steps are numbers, durations*)
(* and messages are left out.                                              *)
(***************************************************************************)
EXTENDS Integers, Sequences, FiniteSets

CONSTANTS
    Jobs,       \* the pipeline's jobs (their names are unique)
    Names,      \* what depends_on may name: jobs and unknown names
    Graphs,     \* the dependency functions a run may start with
    NumSteps    \* how many steps each job has

ASSUME JobsAssumption   == IsFiniteSet(Jobs)
ASSUME NamesAssumption  == Jobs \subseteq Names
ASSUME GraphsAssumption == Graphs \subseteq [Jobs -> Seq(Names)]
ASSUME StepsAssumption  == NumSteps \in [Jobs -> Nat]

VARIABLES
    dependsOn,        \* Job.DependsOn
    ctxErr,           \* ctx.Err() # nil
    mainPc,           \* where Execute is
    pc,               \* where each job's goroutine is
    depIdx,           \* the dependency each goroutine waits for next
    stepIdx,          \* the step each executeJob comes to next
    jobStatus,        \* Job.Status
    stepStatus,       \* Step.Status
    failedJobs,       \* the keys of the failedJobs map
    jobResults,       \* jobResults, "none" where the map has no entry
    pipelineStatus,   \* Pipeline.Status
    pipelineEvents,   \* pipeline events handed to the EventHandler, in order
    trace,            \* per job: its events and runner calls, in order
    lateStarts        \* per job: job or step starts after the cancellation

jobVars  == <<pc, depIdx, stepIdx, jobStatus, stepStatus, trace, lateStarts>>
mainVars == <<mainPc, pipelineStatus, pipelineEvents>>
maps     == <<failedJobs, jobResults>>
vars     == <<dependsOn, ctxErr, mainVars, jobVars, maps>>

-----------------------------------------------------------------------------
Terminal    == {"success", "failed", "skipped", "canceled"}
Statuses    == Terminal \cup {"pending", "running"}
StepNumbers(j) == 1 .. NumSteps[j]

DepsOf(j) == {dependsOn[j][k] : k \in DOMAIN dependsOn[j]}

(* What Schedule accepts: known names and a graph some ranking of the jobs *)
(* orders.  The module Scheduler derives it from the code of Schedule.     *)
Acyclic ==
    \E rank \in [Jobs -> 1 .. Cardinality(Jobs)] :
        \A j \in Jobs : \A d \in DepsOf(j) : rank[d] < rank[j]

(* Fault: Schedule only looks the names up. *)
Schedulable_NoCycleCheck == \A j \in Jobs : DepsOf(j) \subseteq Jobs

Schedulable == (\A j \in Jobs : DepsOf(j) \subseteq Jobs) /\ Acyclic

(* Fault: the done channel is closed when the job starts. *)
DoneClosed_AtStart(j) == pc[j] \notin {"unspawned", "await", "checkCtx", "checkDeps"}

(* The deferred close(doneCh[j]) runs before the deferred wg.Done().       *)
DoneClosed(j) == pc[j] \in {"wgDone", "exited"}

(* executeJob's local jobFailed.                                           *)
AnyStepFailed(j) ==
    \E s \in StepNumbers(j) : stepStatus[j][s] \in {"failed", "canceled"}

(* One entry of a job's trace: step 0 when it is about the job.            *)
Entry(type, step, status) == [type |-> type, step |-> step, status |-> status]

Log(j, type, step, status) ==
    trace' = [trace EXCEPT ![j] = Append(@, Entry(type, step, status))]

Goto(j, from, to) == pc[j] = from /\ pc' = [pc EXCEPT ![j] = to]

Count(j) == lateStarts' = [lateStarts EXCEPT ![j] = @ + IF ctxErr THEN 1 ELSE 0]

Init ==
    /\ dependsOn \in Graphs
    /\ ctxErr = FALSE
    /\ mainPc = "begin"
    /\ pc = [j \in Jobs |-> "unspawned"]
    /\ depIdx = [j \in Jobs |-> 1]
    /\ stepIdx = [j \in Jobs |-> 1]
    /\ jobStatus = [j \in Jobs |-> "pending"]
    /\ stepStatus = [j \in Jobs |-> [s \in StepNumbers(j) |-> "pending"]]
    /\ failedJobs = {}
    /\ jobResults = [j \in Jobs |-> "none"]
    /\ pipelineStatus = "pending"
    /\ pipelineEvents = <<>>
    /\ trace = [j \in Jobs |-> <<>>]
    /\ lateStarts = [j \in Jobs |-> 0]

-----------------------------------------------------------------------------
(* The caller's context is canceled: RunPipeline's cancel function, the    *)
(* CLI's signal handler, the RPC's own context.                            *)
Cancel ==
    /\ ~ctxErr
    /\ mainPc # "returned"
    /\ ctxErr' = TRUE
    /\ UNCHANGED <<dependsOn, mainVars, jobVars, maps>>

Begin ==
    /\ mainPc = "begin"
    /\ mainPc' = "schedule"
    /\ pipelineStatus' = "running"
    /\ pipelineEvents' = Append(pipelineEvents, "PipelineStarted")
    /\ UNCHANGED <<dependsOn, ctxErr, jobVars, maps>>

ScheduleError ==
    /\ mainPc = "schedule"
    /\ ~Schedulable
    /\ mainPc' = "returned"
    /\ pipelineStatus' = "failed"
    /\ pipelineEvents' = Append(pipelineEvents, "PipelineFinished")
    /\ UNCHANGED <<dependsOn, ctxErr, jobVars, maps>>

Spawn ==
    /\ mainPc = "schedule"
    /\ Schedulable
    /\ mainPc' = "wait"
    /\ pc' = [j \in Jobs |-> "await"]
    /\ UNCHANGED <<dependsOn, ctxErr, pipelineStatus, pipelineEvents, depIdx,
                   stepIdx, jobStatus, stepStatus, trace, lateStarts, maps>>

(* Fault: the results are looked at before the context. *)
FinalStatus_FailedFirst ==
    IF \E j \in Jobs : jobResults[j] = "failed" THEN "failed"
    ELSE IF ctxErr THEN "canceled"
    ELSE "success"

(* wg.Wait returned: ctx.Err() first, then the results of the jobs.        *)
FinalStatus ==
    IF ctxErr THEN "canceled"
    ELSE IF \E j \in Jobs : jobResults[j] = "failed" THEN "failed"
    ELSE "success"

AllExited == \A j \in Jobs : pc[j] = "exited"

Decide ==
    /\ mainPc = "wait"
    /\ AllExited
    /\ mainPc' = "finish"
    /\ pipelineStatus' = FinalStatus
    /\ UNCHANGED <<dependsOn, ctxErr, pipelineEvents, jobVars, maps>>

Finish ==
    /\ mainPc = "finish"
    /\ mainPc' = "returned"
    /\ pipelineEvents' = Append(pipelineEvents, "PipelineFinished")
    /\ UNCHANGED <<dependsOn, ctxErr, pipelineStatus, jobVars, maps>>

-----------------------------------------------------------------------------
(* The goroutine of job j, up to executeJob.                               *)

(* case <-doneCh[dep] of the select.                                       *)
DepDone(j) ==
    /\ pc[j] = "await"
    /\ depIdx[j] <= Len(dependsOn[j])
    /\ DoneClosed(dependsOn[j][depIdx[j]])
    /\ depIdx' = [depIdx EXCEPT ![j] = @ + 1]
    /\ UNCHANGED <<dependsOn, ctxErr, mainVars, pc, stepIdx, jobStatus,
                   stepStatus, trace, lateStarts, maps>>

(* The loop over DependsOn is over.                                        *)
DepsDone(j) ==
    /\ depIdx[j] > Len(dependsOn[j])
    /\ Goto(j, "await", "checkCtx")
    /\ UNCHANGED <<dependsOn, ctxErr, mainVars, depIdx, stepIdx, jobStatus,
                   stepStatus, trace, lateStarts, maps>>

(* Status and result of a job that never ran; no event goes out.           *)
GiveUp(j) ==
    /\ ctxErr
    /\ jobStatus' = [jobStatus EXCEPT ![j] = "canceled"]
    /\ jobResults' = [jobResults EXCEPT ![j] = "canceled"]
    /\ UNCHANGED <<dependsOn, ctxErr, mainVars, depIdx, stepIdx, stepStatus,
                   trace, lateStarts, failedJobs>>

(* case <-ctx.Done() of the select: also possible when doneCh is closed.   *)
AwaitCanceled(j) ==
    /\ depIdx[j] <= Len(dependsOn[j])
    /\ Goto(j, "await", "close")
    /\ GiveUp(j)

CtxCanceled(j) == Goto(j, "checkCtx", "close") /\ GiveUp(j)

(* Fault: no second look at the context after the dependencies. *)
CtxAlive_NoRecheck(j) ==
    /\ Goto(j, "checkCtx", "checkDeps")
    /\ UNCHANGED <<dependsOn, ctxErr, mainVars, depIdx, stepIdx, jobStatus,
                   stepStatus, trace, lateStarts, maps>>

CtxAlive(j) ==
    /\ ~ctxErr
    /\ Goto(j, "checkCtx", "checkDeps")
    /\ UNCHANGED <<dependsOn, ctxErr, mainVars, depIdx, stepIdx, jobStatus,
                   stepStatus, trace, lateStarts, maps>>

(* Fault: only the first dependency is looked up. *)
ShouldSkip_FirstOnly(j) == dependsOn[j] # <<>> /\ dependsOn[j][1] \in failedJobs

ShouldSkip(j) == DepsOf(j) \cap failedJobs # {}

SkipJob(j) ==
    /\ ShouldSkip(j)
    /\ Goto(j, "checkDeps", "skipMark")
    /\ jobStatus' = [jobStatus EXCEPT ![j] = "skipped"]
    /\ Log(j, "JobSkipped", 0, "skipped")
    /\ UNCHANGED <<dependsOn, ctxErr, mainVars, depIdx, stepIdx, stepStatus,
                   lateStarts, maps>>

SkipMark(j) ==
    /\ Goto(j, "skipMark", "skipRecord")
    /\ failedJobs' = failedJobs \cup {j}
    /\ UNCHANGED <<dependsOn, ctxErr, mainVars, depIdx, stepIdx, jobStatus,
                   stepStatus, trace, lateStarts, jobResults>>

(* Fault: a skipped job gets no result. *)
SkipRecord_Forgotten(j) ==
    /\ Goto(j, "skipRecord", "close")
    /\ UNCHANGED <<dependsOn, ctxErr, mainVars, depIdx, stepIdx, jobStatus,
                   stepStatus, trace, lateStarts, maps>>

SkipRecord(j) ==
    /\ Goto(j, "skipRecord", "close")
    /\ jobResults' = [jobResults EXCEPT ![j] = jobStatus[j]]
    /\ UNCHANGED <<dependsOn, ctxErr, mainVars, depIdx, stepIdx, jobStatus,
                   stepStatus, trace, lateStarts, failedJobs>>

DontSkip(j) ==
    /\ ~ShouldSkip(j)
    /\ Goto(j, "checkDeps", "execute")
    /\ UNCHANGED <<dependsOn, ctxErr, mainVars, depIdx, stepIdx, jobStatus,
                   stepStatus, trace, lateStarts, maps>>

(* executeJob has returned: its result, then failedJobs, then the defers.  *)
Record(j) ==
    /\ Goto(j, "record", "mark")
    /\ jobResults' = [jobResults EXCEPT ![j] = jobStatus[j]]
    /\ UNCHANGED <<dependsOn, ctxErr, mainVars, depIdx, stepIdx, jobStatus,
                   stepStatus, trace, lateStarts, failedJobs>>

Mark(j) ==
    /\ Goto(j, "mark", "close")
    /\ failedJobs' = IF jobResults[j] \in {"failed", "canceled"}
                     THEN failedJobs \cup {j} ELSE failedJobs
    /\ UNCHANGED <<dependsOn, ctxErr, mainVars, depIdx, stepIdx, jobStatus,
                   stepStatus, trace, lateStarts, jobResults>>

CloseDone(j) ==
    /\ Goto(j, "close", "wgDone")
    /\ UNCHANGED <<dependsOn, ctxErr, mainVars, depIdx, stepIdx, jobStatus,
                   stepStatus, trace, lateStarts, maps>>

WgDone(j) ==
    /\ Goto(j, "wgDone", "exited")
    /\ UNCHANGED <<dependsOn, ctxErr, mainVars, depIdx, stepIdx, jobStatus,
                   stepStatus, trace, lateStarts, maps>>

-----------------------------------------------------------------------------
(* executeJob.                                                             *)

StartJob(j) ==
    /\ Goto(j, "execute", "setup")
    /\ jobStatus' = [jobStatus EXCEPT ![j] = "running"]
    /\ Log(j, "JobStarted", 0, "running")
    /\ Count(j)
    /\ UNCHANGED <<dependsOn, ctxErr, mainVars, depIdx, stepIdx, stepStatus, maps>>

SetupOk(j) ==
    /\ Goto(j, "setup", "stepCheck")
    /\ Log(j, "Setup", 0, "success")
    /\ UNCHANGED <<dependsOn, ctxErr, mainVars, depIdx, stepIdx, jobStatus,
                   stepStatus, lateStarts, maps>>

SetupErr(j) ==
    /\ Goto(j, "setup", "setupTeardown")
    /\ Log(j, "Setup", 0, "failed")
    /\ jobStatus' = [jobStatus EXCEPT ![j] = "failed"]
    /\ UNCHANGED <<dependsOn, ctxErr, mainVars, depIdx, stepIdx, stepStatus,
                   lateStarts, maps>>

(* On this path Teardown comes before the JobFinished event.               *)
SetupTeardown(j) ==
    /\ Goto(j, "setupTeardown", "setupFinish")
    /\ Log(j, "Teardown", 0, jobStatus[j])
    /\ UNCHANGED <<dependsOn, ctxErr, mainVars, depIdx, stepIdx, jobStatus,
                   stepStatus, lateStarts, maps>>

SetupFinish(j) ==
    /\ Goto(j, "setupFinish", "record")
    /\ Log(j, "JobFinished", 0, "failed")
    /\ UNCHANGED <<dependsOn, ctxErr, mainVars, depIdx, stepIdx, jobStatus,
                   stepStatus, lateStarts, maps>>

SetStep(j, status) == stepStatus' = [stepStatus EXCEPT ![j][stepIdx[j]] = status]

(* The check at the head of the step loop; this step gets no event.        *)
StepCanceled(j) ==
    /\ stepIdx[j] \in StepNumbers(j)
    /\ ctxErr
    /\ Goto(j, "stepCheck", "finishJob")
    /\ SetStep(j, "canceled")
    /\ UNCHANGED <<dependsOn, ctxErr, mainVars, depIdx, stepIdx, jobStatus,
                   trace, lateStarts, maps>>

(* Fault: the step loop does not look at the context. *)
StepAlive_NoCtx(j) ==
    /\ stepIdx[j] \in StepNumbers(j)
    /\ Goto(j, "stepCheck", "stepStart")
    /\ UNCHANGED <<dependsOn, ctxErr, mainVars, depIdx, stepIdx, jobStatus,
                   stepStatus, trace, lateStarts, maps>>

StepAlive(j) ==
    /\ stepIdx[j] \in StepNumbers(j)
    /\ ~ctxErr
    /\ Goto(j, "stepCheck", "stepStart")
    /\ UNCHANGED <<dependsOn, ctxErr, mainVars, depIdx, stepIdx, jobStatus,
                   stepStatus, trace, lateStarts, maps>>

StepsDone(j) ==
    /\ stepIdx[j] \notin StepNumbers(j)
    /\ Goto(j, "stepCheck", "finishJob")
    /\ UNCHANGED <<dependsOn, ctxErr, mainVars, depIdx, stepIdx, jobStatus,
                   stepStatus, trace, lateStarts, maps>>

StartStep(j) ==
    /\ Goto(j, "stepStart", "stepRun")
    /\ SetStep(j, "running")
    /\ Log(j, "StepStarted", stepIdx[j], "running")
    /\ Count(j)
    /\ UNCHANGED <<dependsOn, ctxErr, mainVars, depIdx, stepIdx, jobStatus, maps>>

StepOk(j) ==
    /\ Goto(j, "stepRun", "stepCheck")
    /\ SetStep(j, "success")
    /\ Log(j, "StepFinished", stepIdx[j], "success")
    /\ stepIdx' = [stepIdx EXCEPT ![j] = @ + 1]
    /\ UNCHANGED <<dependsOn, ctxErr, mainVars, depIdx, jobStatus, lateStarts, maps>>

(* RunStep returned an error, or a result with a non-zero exit code.       *)
StepFails(j) ==
    /\ Goto(j, "stepRun", "finishJob")
    /\ SetStep(j, "failed")
    /\ Log(j, "StepFinished", stepIdx[j], "failed")
    /\ UNCHANGED <<dependsOn, ctxErr, mainVars, depIdx, stepIdx, jobStatus,
                   lateStarts, maps>>

FinishJob(j) ==
    LET outcome == IF AnyStepFailed(j) THEN "failed" ELSE "success" IN
    /\ Goto(j, "finishJob", "teardown")
    /\ jobStatus' = [jobStatus EXCEPT ![j] = outcome]
    /\ Log(j, "JobFinished", 0, outcome)
    /\ UNCHANGED <<dependsOn, ctxErr, mainVars, depIdx, stepIdx, stepStatus,
                   lateStarts, maps>>

(* The deferred Teardown, after the JobFinished event.                     *)
Teardown(j) ==
    /\ Goto(j, "teardown", "record")
    /\ Log(j, "Teardown", 0, jobStatus[j])
    /\ UNCHANGED <<dependsOn, ctxErr, mainVars, depIdx, stepIdx, jobStatus,
                   stepStatus, lateStarts, maps>>

-----------------------------------------------------------------------------
Wrapper(j) ==
    \/ DepDone(j) \/ DepsDone(j) \/ AwaitCanceled(j)
    \/ CtxCanceled(j) \/ CtxAlive(j)
    \/ SkipJob(j) \/ SkipMark(j) \/ SkipRecord(j) \/ DontSkip(j)
    \/ Record(j) \/ Mark(j) \/ CloseDone(j) \/ WgDone(j)

ExecuteJob(j) ==
    \/ StartJob(j) \/ SetupOk(j) \/ SetupErr(j) \/ SetupTeardown(j) \/ SetupFinish(j)
    \/ StepCanceled(j) \/ StepAlive(j) \/ StepsDone(j)
    \/ StartStep(j) \/ StepOk(j) \/ StepFails(j)
    \/ FinishJob(j) \/ Teardown(j)

Job(j) == Wrapper(j) \/ ExecuteJob(j)
Main   == Begin \/ ScheduleError \/ Spawn \/ Decide \/ Finish

(* Execute has returned; nothing of it is left running.                    *)
Returned == mainPc = "returned" /\ UNCHANGED vars

Next == Cancel \/ Main \/ (\E j \in Jobs : Job(j)) \/ Returned

(* The Go scheduler runs every runnable goroutine, and the runner's calls  *)
(* return.  Nothing obliges the context to be canceled.                    *)
Fairness == WF_vars(Main) /\ \A j \in Jobs : WF_vars(Job(j))

Spec     == Init /\ [][Next]_vars
FairSpec == Spec /\ Fairness
-----------------------------------------------------------------------------
(* Properties.                                                             *)

Pcs == {"unspawned", "await", "checkCtx", "checkDeps", "skipMark", "skipRecord",
        "execute", "setup", "setupTeardown", "setupFinish", "stepCheck",
        "stepStart", "stepRun", "finishJob", "teardown", "record", "mark",
        "close", "wgDone", "exited"}

NotBegun == {"unspawned", "await", "checkCtx", "checkDeps", "execute"}
InJob    == {"setup", "stepCheck", "stepStart", "stepRun", "finishJob"}
Leaving  == {"close", "wgDone", "exited"}

EntryTypes == {"JobStarted", "JobSkipped", "JobFinished", "StepStarted",
               "StepFinished", "Setup", "Teardown"}

Entries == [type : EntryTypes, step : Nat, status : Statuses]

TypeOK ==
    /\ dependsOn \in Graphs
    /\ ctxErr \in BOOLEAN
    /\ mainPc \in {"begin", "schedule", "wait", "finish", "returned"}
    /\ pc \in [Jobs -> Pcs]
    /\ depIdx \in [Jobs -> Nat \ {0}]
    /\ stepIdx \in [Jobs -> Nat \ {0}]
    /\ \A j \in Jobs : stepIdx[j] <= NumSteps[j] + 1
    /\ \A j \in Jobs : pc[j] \in {"stepStart", "stepRun"} => stepIdx[j] <= NumSteps[j]
    /\ jobStatus \in [Jobs -> Statuses]
    /\ DOMAIN stepStatus = Jobs
    /\ \A j \in Jobs : stepStatus[j] \in [StepNumbers(j) -> Statuses]
    /\ failedJobs \subseteq Jobs
    /\ jobResults \in [Jobs -> Terminal \cup {"none", "pending", "running"}]
    /\ pipelineStatus \in {"pending", "running", "success", "failed", "canceled"}
    /\ pipelineEvents \in Seq({"PipelineStarted", "PipelineFinished"})
    /\ trace \in [Jobs -> Seq(Entries)]
    /\ lateStarts \in [Jobs -> Nat]

Started(j)  == jobStatus[j] \in {"running", "success", "failed"}
Spawned     == \E j \in Jobs : pc[j] # "unspawned"
Decided     == mainPc \in {"finish", "returned"} /\ Spawned

(* A job runs only when each job it depends on has succeeded and has left  *)
(* executeJob.  A canceled dependency is not in failedJobs: it is the      *)
(* second look at the context, after the wait, that stops the dependents.  *)
StartOnlyAfterSuccess ==
    \A j \in Jobs : Started(j) =>
        \A d \in DepsOf(j) : d \in Jobs /\ jobStatus[d] = "success" /\ DoneClosed(d)

(* Skips are caused by failures: a set that holds a skipped job and, with  *)
(* each job, the jobs it depends on, holds a failed job too.               *)
SkipHasFailedAncestor ==
    \A S \in SUBSET Jobs :
        (\A j \in S : DepsOf(j) \subseteq S) =>
            ((\E j \in S : jobStatus[j] = "skipped")
                => \E j \in S : jobStatus[j] = "failed")

(* When Execute has decided, each job has a result, it is the job's status *)
(* and it is terminal: no path through the goroutine forgets the map.      *)
ResultsComplete ==
    Decided => \A j \in Jobs : jobResults[j] = jobStatus[j] /\ jobStatus[j] \in Terminal

(* The pipeline's status agrees with its jobs': success only when each job *)
(* succeeded, failed only when some job failed and none was canceled.      *)
FinalStatusSound ==
    Decided =>
        /\ pipelineStatus = "success" => \A j \in Jobs : jobStatus[j] = "success"
        /\ pipelineStatus = "failed" =>
              /\ \E j \in Jobs : jobStatus[j] = "failed"
              /\ \A j \in Jobs : jobStatus[j] # "canceled"
        /\ pipelineStatus = "canceled" => ctxErr

(* After the cancellation a goroutine that was past its check may start    *)
(* one thing more, a job or a step, and never a second one.                *)
CancellationBounded == \A j \in Jobs : lateStarts[j] <= 1

Positions(j, type) == {i \in DOMAIN trace[j] : trace[j][i].type = type}

(* Of a job that has exited: each start has its finish, each Setup its     *)
(* single Teardown, after which nothing runs, and the last status told is  *)
(* the status kept.                                                        *)
Paired ==
    \A j \in Jobs : pc[j] = "exited" =>
        /\ Cardinality(Positions(j, "JobStarted")) = Cardinality(Positions(j, "JobFinished"))
        /\ Cardinality(Positions(j, "Setup")) = Cardinality(Positions(j, "Teardown"))
        /\ \A i \in Positions(j, "StepStarted") :
              /\ i + 1 \in Positions(j, "StepFinished")
              /\ trace[j][i + 1].step = trace[j][i].step
        /\ \A i \in Positions(j, "Teardown"), k \in DOMAIN trace[j] :
              k > i => trace[j][k].type = "JobFinished"
        /\ \A i \in Positions(j, "JobFinished") : trace[j][i].status = jobStatus[j]

(* When JobStarted is out, JobFinished(success) and Teardown of each       *)
(* dependency were.                                                        *)
Caused ==
    \A j \in Jobs : Positions(j, "JobStarted") # {} =>
        \A d \in DepsOf(j) :
            /\ \E i \in Positions(d, "JobFinished") : trace[d][i].status = "success"
            /\ Positions(d, "Teardown") # {}

(* What an EventHandler and a Runner see is well told: every start is      *)
(* matched, whichever branch the goroutine leaves by, and no event of a    *)
(* job overtakes those of its dependencies.                                *)
TraceWellTold == Paired /\ Caused

(* An outcome is final: no later branch of the goroutine overwrites it.    *)
OutcomeIsFinal ==
    [][\A j \in Jobs : jobStatus[j] \in Terminal => jobStatus'[j] = jobStatus[j]]_vars

(* PipelineFinished is the last event of a run, for every goroutine.       *)
NothingAfterFinished ==
    [][mainPc = "returned" => UNCHANGED <<trace, pipelineEvents>>]_vars

(* Execute returns: the done channels release every waiting goroutine.     *)
Termination == <>(mainPc = "returned")

(* The two halves of it that are about steps.  A goroutine waits for a     *)
(* dependency that has not closed its channel; while jobs are left, some   *)
(* goroutine does not wait.                                                *)
Waits(j) ==
    /\ pc[j] = "await"
    /\ depIdx[j] <= Len(dependsOn[j])
    /\ ~DoneClosed(dependsOn[j][depIdx[j]])

SomebodyRuns ==
    mainPc = "wait" /\ ~AllExited => \E j \in Jobs : pc[j] # "exited" /\ ~Waits(j)

StepsLeft(j) == NumSteps[j] + 1 - stepIdx[j]
DepsLeft(j)  == Len(dependsOn[j]) + 1 - depIdx[j]

(* How many moves a goroutine has at most before it: from a place in the   *)
(* code to the end without steps and waits, three for each step that is    *)
(* left, one for each dependency that is left.                             *)
Distance(p) ==
    CASE p = "exited" -> 0           [] p = "wgDone" -> 1
      [] p = "close" -> 2            [] p \in {"mark", "skipRecord"} -> 3
      [] p \in {"record", "skipMark"} -> 4
      [] p \in {"teardown", "setupFinish"} -> 5
      [] p \in {"finishJob", "setupTeardown"} -> 6
      [] p = "stepRun" -> 7          [] p = "stepStart" -> 8
      [] p = "stepCheck" -> 9        [] p = "setup" -> 10
      [] p = "execute" -> 11         [] p = "checkDeps" -> 12
      [] p = "checkCtx" -> 13        [] p = "await" -> 14
      [] OTHER -> 15

BeforeSteps == NotBegun \cup {"setup", "stepCheck", "stepStart", "stepRun"}

WorkOf(p, steps, deps) ==
    Distance(p)
      + (IF p \in BeforeSteps THEN 3 * steps ELSE 0)
      + (IF p \in {"unspawned", "await"} THEN deps ELSE 0)

Work(j) == WorkOf(pc[j], StepsLeft(j), DepsLeft(j))

(* Every move of a goroutine is one less that it has before it: none goes  *)
(* round in circles, whatever the runner answers.                          *)
EveryMoveCounts ==
    [][\A j \in Jobs :
          \/ UNCHANGED <<pc[j], depIdx[j]>>
          \/ Work(j) \in Nat /\ Work(j)' \in Nat /\ Work(j)' < Work(j)]_vars

(* Execute keeps the contract its callers rely on.                         *)
Contract     == INSTANCE PipelineContract WITH canceled <- ctxErr
ContractSpec == Contract!Spec
-----------------------------------------------------------------------------
(* The inductive invariant behind the properties: where a goroutine is,    *)
(* what it has written, and what its dependencies had written by then.     *)

(* The status a goroutine has given its job, from where it is.             *)
PcStatus(j) ==
    /\ pc[j] \in NotBegun => jobStatus[j] = "pending"
    /\ pc[j] \in InJob => jobStatus[j] = "running"
    /\ pc[j] \in {"setupTeardown", "setupFinish"} => jobStatus[j] = "failed"
    /\ pc[j] \in {"teardown", "record", "mark"} => jobStatus[j] \in {"success", "failed"}
    /\ pc[j] \in {"skipMark", "skipRecord"} => jobStatus[j] = "skipped"
    /\ pc[j] \in Leaving => jobStatus[j] \in Terminal

(* What the maps hold when the done channel is closed, and never before.   *)
MapsWritten(j) ==
    /\ pc[j] \in Leaving \cup {"mark"} => jobResults[j] = jobStatus[j]
    /\ pc[j] \in Leaving /\ jobStatus[j] \in {"failed", "skipped"} => j \in failedJobs
    /\ pc[j] = "skipRecord" => j \in failedJobs
    /\ j \in failedJobs => jobStatus[j] \in {"failed", "skipped"}
    /\ jobStatus[j] = "canceled" => ctxErr

(* The dependencies a goroutine has waited for are closed; past the check  *)
(* of the context none of them was canceled; past the check of failedJobs  *)
(* all of them succeeded.                                                  *)
Waited(j) ==
    /\ \A k \in 1 .. Len(dependsOn[j]) :
          k < depIdx[j] => DoneClosed(dependsOn[j][k])
    /\ pc[j] \notin {"unspawned", "await"} /\ jobStatus[j] # "canceled" =>
          \A d \in DepsOf(j) : DoneClosed(d)
    /\ pc[j] = "checkDeps" => \A d \in DepsOf(j) : jobStatus[d] # "canceled"
    /\ pc[j] = "execute" \/ Started(j) => \A d \in DepsOf(j) : jobStatus[d] = "success"

MainAt ==
    /\ mainPc \in {"begin", "schedule"} => ~Spawned
    /\ mainPc \in {"wait", "finish"} => \A j \in Jobs : pc[j] # "unspawned"
    /\ mainPc \in {"finish", "returned"} /\ Spawned => AllExited
    /\ Spawned => \A j \in Jobs : DepsOf(j) \subseteq Jobs
    /\ mainPc = "begin" => pipelineStatus = "pending"
    /\ mainPc \in {"schedule", "wait"} => pipelineStatus = "running"

EngineInv ==
    /\ MainAt
    /\ \A j \in Jobs : PcStatus(j) /\ MapsWritten(j) /\ Waited(j)

=============================================================================
