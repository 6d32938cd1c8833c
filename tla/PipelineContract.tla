-------------------------- MODULE PipelineContract --------------------------
(***************************************************************************)
(* What Engine.Execute promises its callers (the server handler and the    *)
(* local runner), without goroutines, channels, locks or events: every job *)
(* moves once from pending to an outcome, a job runs only when each job it *)
(* depends on has succeeded, a failure is passed down the dependencies as  *)
(* skips, a cancellation as canceled jobs, and the pipeline gets its       *)
(* status when every job has an outcome.                                   *)
(***************************************************************************)
EXTENDS Sequences

CONSTANTS
    Jobs,       \* the jobs of the pipeline
    Names       \* the names depends_on may use: jobs and unknown names

VARIABLES
    dependsOn,        \* [Jobs -> Seq(Names)], fixed at the start
    canceled,         \* the caller's context has been canceled
    jobStatus,        \* [Jobs -> JobStatuses]
    pipelineStatus    \* PipelineStatuses

vars == <<dependsOn, canceled, jobStatus, pipelineStatus>>

Outcomes         == {"success", "failed", "skipped", "canceled"}
JobStatuses      == Outcomes \cup {"pending", "running"}
PipelineStatuses == {"pending", "running", "success", "failed", "canceled"}

DepsOf(j) == {dependsOn[j][k] : k \in DOMAIN dependsOn[j]}

Init ==
    /\ dependsOn \in [Jobs -> Seq(Names)]
    /\ canceled \in BOOLEAN
    /\ jobStatus = [j \in Jobs |-> "pending"]
    /\ pipelineStatus = "pending"

(* The caller gives up: CancelPipeline, a signal, the RPC's own context.   *)
Cancel ==
    /\ canceled' = TRUE
    /\ UNCHANGED <<dependsOn, jobStatus, pipelineStatus>>

Begin ==
    /\ pipelineStatus = "pending"
    /\ pipelineStatus' = "running"
    /\ UNCHANGED <<dependsOn, canceled, jobStatus>>

(* The dependencies cannot be scheduled: no job ever runs.                 *)
Reject ==
    /\ pipelineStatus = "running"
    /\ \A j \in Jobs : jobStatus[j] = "pending"
    /\ pipelineStatus' = "failed"
    /\ UNCHANGED <<dependsOn, canceled, jobStatus>>

Move(j, from, to) ==
    /\ pipelineStatus = "running"
    /\ jobStatus[j] = from
    /\ jobStatus' = [jobStatus EXCEPT ![j] = to]
    /\ UNCHANGED <<dependsOn, canceled, pipelineStatus>>

Start(j) ==
    /\ \A d \in DepsOf(j) : d \in Jobs /\ jobStatus[d] = "success"
    /\ Move(j, "pending", "running")

Succeed(j) == Move(j, "running", "success")
Fail(j)    == Move(j, "running", "failed")

Skip(j) ==
    /\ \E d \in DepsOf(j) : d \in Jobs /\ jobStatus[d] \in {"failed", "skipped"}
    /\ Move(j, "pending", "skipped")

Abandon(j) ==
    /\ canceled
    /\ Move(j, "pending", "canceled")

Finish ==
    /\ pipelineStatus = "running"
    /\ \A j \in Jobs : jobStatus[j] \in Outcomes
    /\ \/ canceled /\ pipelineStatus' = "canceled"
       \/ (\E j \in Jobs : jobStatus[j] = "failed") /\ pipelineStatus' = "failed"
       \/ (\A j \in Jobs : jobStatus[j] = "success") /\ pipelineStatus' = "success"
    /\ UNCHANGED <<dependsOn, canceled, jobStatus>>

Next ==
    \/ Cancel \/ Begin \/ Reject \/ Finish
    \/ \E j \in Jobs : Start(j) \/ Succeed(j) \/ Fail(j) \/ Skip(j) \/ Abandon(j)

Spec == Init /\ [][Next]_vars
=============================================================================
