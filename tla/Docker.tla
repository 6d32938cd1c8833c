-------------------------------- MODULE Docker --------------------------------
(***************************************************************************)
(* The Docker runner, for the jobs of one run that go on at the same time:  *)
(* Setup, RunStep and Teardown as executeJob calls them, the calls of the   *)
(* Docker API they make, the goroutine that copies a container's output,    *)
(* and the runner's map of volumes, which the jobs share without a lock.    *)
(*                                                                          *)
(* A call is one step.  The daemon and its containers are external: a call  *)
(* that fails may have had its effect, as the answer may have been lost.    *)
(***************************************************************************)
EXTENDS Naturals

CONSTANTS
    Jobs,
    Steps,       \* the number of steps of each job
    MaxFaults    \* bound: calls that fail although the run is not canceled

ASSUME StepsAssumption == Steps \in Nat

VARIABLES
    pc,          \* for each job, the call or the access to the map it is at
    failed,      \* for each job, a call or a step of it has failed
    stepIdx,     \* for each job, its steps that are done
    known,       \* Runner.volumes: the jobs it has a volume for
    volume,      \* for each job, its volume exists
    helper,      \* for each job, the container of InjectSource exists
    box,         \* for each job, the container of its step
    refused,     \* jobs one of whose containers could not be removed
    unread,      \* for each job, its container wrote what is not yet copied
    copier,      \* for each job, the goroutine that copies its step's output
    canceled,    \* the run's context
    faults,
    raced,       \* an access to the map went wrong because of another
    crashed      \* the runtime has found two of them and ended the process

control == <<pc, failed, stepIdx, known, raced>>
daemon == <<volume, helper, box, refused, unread>>
vars == <<control, daemon, copier, canceled, faults, crashed>>

Init ==
    /\ pc = [j \in Jobs |-> "pull"]
    /\ failed = [j \in Jobs |-> FALSE]
    /\ stepIdx = [j \in Jobs |-> 0]
    /\ known = {}
    /\ volume = [j \in Jobs |-> FALSE]
    /\ helper = [j \in Jobs |-> FALSE]
    /\ box = [j \in Jobs |-> "none"]
    /\ refused = {}
    /\ unread = [j \in Jobs |-> FALSE]
    /\ copier = [j \in Jobs |-> "none"]
    /\ canceled = FALSE
    /\ faults = 0
    /\ raced = FALSE
    /\ crashed = FALSE

-----------------------------------------------------------------------------
At(j, here) == ~crashed /\ pc[j] = here

Goto(j, there) ==
    /\ pc' = [pc EXCEPT ![j] = there]
    /\ UNCHANGED <<failed, stepIdx, known, raced, canceled, crashed>>

GiveUp(j, there) ==
    /\ pc' = [pc EXCEPT ![j] = there]
    /\ failed' = [failed EXCEPT ![j] = TRUE]
    /\ UNCHANGED <<stepIdx, known, raced, canceled, crashed>>

Fault == faults < MaxFaults /\ faults' = faults + 1

\* A call with the run's context.
Succeeds == ~canceled /\ UNCHANGED faults
Fails == (canceled /\ UNCHANGED faults) \/ Fault

Set(f, j, v) == f' = [f EXCEPT ![j] = v]

-----------------------------------------------------------------------------
\* The map of volumes.  An access is under way from the step that comes to it
\* to the step that leaves it.

Writing(j) == pc[j] \in {"writing", "deleting"}
Accessing(j) == Writing(j) \/ pc[j] \in {"reading", "looking"}

\* Another job's goroutine writes to the map.
Raced(j) == \E k \in Jobs \ {j} : Writing(k)

\* The runtime ends the process when it sees the race; it need not see it.
Crash ==
    /\ ~crashed
    /\ \E j \in Jobs : Accessing(j) /\ Raced(j)
    /\ crashed' = TRUE
    /\ UNCHANGED <<control, daemon, copier, canceled, faults>>

\* r.volumes[job.Name] = volName, which a race may undo.
WriteVolume(j) ==
    /\ At(j, "writing")
    /\ Set(pc, j, "helper")
    /\ \/ known' = known \cup {j} /\ UNCHANGED raced
       \/ Raced(j) /\ raced' = TRUE /\ UNCHANGED known
    /\ UNCHANGED <<failed, stepIdx, daemon, copier, canceled, faults, crashed>>

\* volName, ok := r.volumes[job.Name], which a race may make miss.
LookUp(j, here, there, otherwise) ==
    /\ At(j, here)
    /\ \/ /\ j \in known
          /\ Goto(j, there)
       \/ /\ j \notin known
          /\ IF here = "reading" THEN GiveUp(j, otherwise) ELSE Goto(j, otherwise)
       \/ /\ j \in known
          /\ Raced(j)
          /\ Set(pc, j, otherwise)
          /\ failed' = [failed EXCEPT ![j] = @ \/ here = "reading"]
          /\ raced' = TRUE
          /\ UNCHANGED <<stepIdx, known, canceled, crashed>>
    /\ UNCHANGED <<daemon, copier, faults>>

DeleteVolume(j) ==
    /\ At(j, "deleting")
    /\ Set(pc, j, "over")
    /\ known' = known \ {j}
    /\ UNCHANGED <<failed, stepIdx, raced, daemon, copier, canceled, faults, crashed>>

-----------------------------------------------------------------------------
\* Setup.  When it fails, executeJob goes on to Teardown.

PullImage(j) ==
    /\ At(j, "pull")
    /\ \/ Succeeds /\ Goto(j, "volume")
       \/ Fails /\ GiveUp(j, "looking")
    /\ UNCHANGED <<daemon, copier>>

CreateVolume(j) ==
    /\ At(j, "volume")
    /\ \/ Succeeds /\ Goto(j, "writing") /\ Set(volume, j, TRUE)
       \/ Fails /\ GiveUp(j, "looking") /\ \E lost \in BOOLEAN : Set(volume, j, lost)
    /\ UNCHANGED <<helper, box, refused, unread, copier>>

\* InjectSource: a container that is never started holds the volume while the
\* source is copied into it.
CreateHelper(j) ==
    /\ At(j, "helper")
    /\ \/ Succeeds /\ Goto(j, "copy") /\ Set(helper, j, TRUE)
       \/ Fails /\ GiveUp(j, "looking") /\ \E lost \in BOOLEAN : Set(helper, j, lost)
    /\ UNCHANGED <<volume, box, refused, unread, copier>>

\* The archive is made and copied.  Reading the source may fail by itself.
CopySource(j) ==
    /\ At(j, "copy")
    /\ \/ Succeeds /\ Goto(j, "unhelp")
       \/ (Fails \/ UNCHANGED faults) /\ GiveUp(j, "unhelp")
    /\ UNCHANGED <<daemon, copier>>

(* Fault: a failed Setup is not torn down. *)
RemoveHelper_NoTeardown(j) ==
    /\ At(j, "unhelp")
    /\ Goto(j, IF failed[j] THEN "over" ELSE "ready")
    /\ \/ Succeeds /\ Set(helper, j, FALSE)
       \/ Fails /\ \E lost \in BOOLEAN : Set(helper, j, lost)
    /\ UNCHANGED <<volume, box, refused, unread, copier>>

\* The deferred removal has the run's context; its error is dropped.
RemoveHelper(j) ==
    /\ At(j, "unhelp")
    /\ Goto(j, IF failed[j] THEN "looking" ELSE "ready")
    /\ \/ Succeeds /\ Set(helper, j, FALSE)
       \/ Fails /\ \E lost \in BOOLEAN : Set(helper, j, lost)
    /\ UNCHANGED <<volume, box, refused, unread, copier>>

-----------------------------------------------------------------------------
\* RunStep and RunContainer.

\* executeJob's loop.
NextStep(j) ==
    /\ At(j, "ready")
    /\ CASE stepIdx[j] = Steps -> Goto(j, "looking")
         [] canceled           -> GiveUp(j, "looking")
         [] OTHER              -> Goto(j, "reading")
    /\ UNCHANGED <<daemon, copier, faults>>

CreateContainer(j) ==
    /\ At(j, "create")
    /\ \/ Succeeds /\ Goto(j, "attach") /\ Set(box, j, "created")
       \/ Fails /\ GiveUp(j, "looking") /\ \E lost \in {"none", "created"} : Set(box, j, lost)
    /\ UNCHANGED <<volume, helper, refused, unread, copier>>

Attach(j) ==
    /\ At(j, "attach")
    /\ \/ Succeeds /\ Goto(j, "start")
       \/ Fails /\ GiveUp(j, "remove")
    /\ UNCHANGED <<daemon, copier>>

(* Fault: the removal is deferred once the container has been started. *)
StartContainer_LateDefer(j) ==
    /\ At(j, "start")
    /\ \/ /\ Succeeds /\ Goto(j, "wait")
          /\ Set(box, j, "running") /\ Set(copier, j, "copying") /\ Set(unread, j, FALSE)
       \/ /\ Fails /\ GiveUp(j, "looking")
          /\ \E lost \in {"created", "running"} : Set(box, j, lost)
          /\ UNCHANGED <<copier, unread>>
    /\ UNCHANGED <<volume, helper, refused>>

StartContainer(j) ==
    /\ At(j, "start")
    /\ \/ /\ Succeeds /\ Goto(j, "wait")
          /\ Set(box, j, "running") /\ Set(copier, j, "copying") /\ Set(unread, j, FALSE)
       \/ /\ Fails /\ GiveUp(j, "close")
          /\ \E lost \in {"created", "running"} : Set(box, j, lost)
          /\ UNCHANGED <<copier, unread>>
    /\ UNCHANGED <<volume, helper, refused>>

(* Fault: the output is not waited for. *)
WaitExit_NoDrain(j) ==
    /\ At(j, "wait")
    /\ box[j] = "exited"
    /\ Goto(j, "close")
    /\ UNCHANGED <<daemon, copier, faults>>

\* The select: the container has exited, the run is canceled, or the call that
\* waits for the container has failed.
WaitExit(j) ==
    /\ At(j, "wait")
    /\ box[j] = "exited"
    /\ Goto(j, "drain")
    /\ UNCHANGED <<daemon, copier, faults>>

(* Fault: the wait is not given the run's context. *)
WaitCanceled_Background(j) ==
    /\ At(j, "wait")
    /\ canceled
    /\ box[j] = "exited"
    /\ GiveUp(j, "close")
    /\ UNCHANGED <<daemon, copier, faults>>

WaitCanceled(j) ==
    /\ At(j, "wait")
    /\ canceled
    /\ GiveUp(j, "kill")
    /\ UNCHANGED <<daemon, copier, faults>>

WaitFails(j) ==
    /\ At(j, "wait")
    /\ Fault
    /\ GiveUp(j, "close")
    /\ UNCHANGED <<daemon, copier>>

\* <-streamDone, whose error is dropped.  A step whose command failed fails.
Drain(j) ==
    /\ At(j, "drain")
    /\ copier[j] # "copying"
    /\ Goto(j, "close") \/ GiveUp(j, "close")
    /\ UNCHANGED <<daemon, copier, faults>>

\* Killing and removing do not have the run's context; their errors are dropped.
Kill(j) ==
    /\ At(j, "kill")
    /\ Goto(j, "close")
    /\ \/ Set(box, j, "exited") /\ UNCHANGED faults
       \/ Fault /\ UNCHANGED box
    /\ UNCHANGED <<volume, helper, refused, unread, copier>>

\* The deferred attachResp.Close: the copier's reader fails from here on.
CloseAttach(j) ==
    /\ At(j, "close")
    /\ Goto(j, "remove")
    /\ UNCHANGED <<daemon, copier, faults>>

RemoveContainer(j) ==
    /\ At(j, "remove")
    /\ Set(pc, j, IF failed[j] THEN "looking" ELSE "ready")
    /\ stepIdx' = [stepIdx EXCEPT ![j] = IF failed[j] THEN @ ELSE @ + 1]
    /\ Set(box, j, "none")
    /\ \/ UNCHANGED <<refused, faults>>
       \/ Fault /\ refused' = refused \cup {j}
    /\ UNCHANGED <<failed, known, raced, volume, helper, unread, copier, canceled, crashed>>

-----------------------------------------------------------------------------
\* Teardown, with the run's context.

\* A volume that a container holds is not removed, even when forced.
Held(j) == helper[j] \/ box[j] # "none" \/ j \in refused

RemoveVolume(j) ==
    /\ At(j, "unvolume")
    /\ \/ Succeeds /\ ~Held(j) /\ Goto(j, "deleting") /\ Set(volume, j, FALSE)
       \/ Succeeds /\ Held(j) /\ Goto(j, "over") /\ UNCHANGED volume
       \/ /\ Fails /\ Goto(j, "over")
          /\ \E left \in {TRUE, Held(j)} : Set(volume, j, left)
    /\ UNCHANGED <<helper, box, refused, unread, copier>>

-----------------------------------------------------------------------------
\* What goes on beside the jobs' goroutines.

Copying(j) == ~crashed /\ copier[j] = "copying"
Attached(j) == pc[j] \in {"wait", "drain", "kill", "close"}

Copy(j) ==
    /\ Copying(j)
    /\ unread[j]
    /\ Attached(j)
    /\ Set(unread, j, FALSE)
    /\ UNCHANGED <<control, volume, helper, box, refused, copier, canceled, faults, crashed>>

\* The container has exited, or the connection is closed.
CopyEnds(j) ==
    /\ Copying(j)
    /\ \/ ~Attached(j) /\ Set(copier, j, "broken")
       \/ Attached(j) /\ box[j] = "exited" /\ ~unread[j] /\ Set(copier, j, "done")
    /\ UNCHANGED <<control, daemon, canceled, faults, crashed>>

\* The connection is lost.
CopyFails(j) ==
    /\ Copying(j)
    /\ Fault
    /\ Set(copier, j, "broken")
    /\ UNCHANGED <<control, daemon, canceled, crashed>>

Writes(j) ==
    /\ box[j] = "running"
    /\ ~unread[j]
    /\ Set(unread, j, TRUE)
    /\ UNCHANGED <<control, volume, helper, box, refused, copier, canceled, faults, crashed>>

Exits(j) ==
    /\ box[j] = "running"
    /\ Set(box, j, "exited")
    /\ UNCHANGED <<control, volume, helper, refused, unread, copier, canceled, faults, crashed>>

Cancel ==
    /\ ~canceled
    /\ canceled' = TRUE
    /\ UNCHANGED <<control, daemon, copier, faults, crashed>>

Setup(j) ==
    \/ PullImage(j) \/ CreateVolume(j) \/ WriteVolume(j)
    \/ CreateHelper(j) \/ CopySource(j) \/ RemoveHelper(j)

RunStep(j) ==
    \/ NextStep(j)
    \/ LookUp(j, "reading", "create", "looking")
    \/ CreateContainer(j) \/ Attach(j) \/ StartContainer(j)
    \/ WaitExit(j) \/ WaitCanceled(j) \/ Drain(j)
    \/ Kill(j) \/ CloseAttach(j) \/ RemoveContainer(j)

Teardown(j) ==
    \/ LookUp(j, "looking", "unvolume", "over")
    \/ RemoveVolume(j) \/ DeleteVolume(j)

JobStep(j) == Setup(j) \/ RunStep(j) \/ Teardown(j)

Next ==
    \/ \E j \in Jobs : JobStep(j) \/ WaitFails(j)
    \/ \E j \in Jobs : Copy(j) \/ CopyEnds(j) \/ CopyFails(j)
    \/ \E j \in Jobs : Writes(j) \/ Exits(j)
    \/ Cancel
    \/ Crash

Spec == Init /\ [][Next]_vars

\* The daemon answers every call, and what a container wrote is copied.  That a
\* container exits by itself is not assumed.
FairSpec ==
    /\ Spec
    /\ \A j \in Jobs : /\ WF_vars(JobStep(j))
                       /\ WF_vars(Copy(j))
                       /\ WF_vars(CopyEnds(j))

-----------------------------------------------------------------------------
Pcs == {"pull", "volume", "writing", "helper", "copy", "unhelp", "ready", "reading", "create",
        "attach", "start", "wait", "drain", "kill", "close", "remove", "looking", "unvolume",
        "deleting", "over"}

\* The values each variable may take.
TypeOK ==
    /\ pc \in [Jobs -> Pcs]
    /\ failed \in [Jobs -> BOOLEAN]
    /\ stepIdx \in [Jobs -> Nat]
    /\ known \in SUBSET Jobs
    /\ volume \in [Jobs -> BOOLEAN]
    /\ helper \in [Jobs -> BOOLEAN]
    /\ box \in [Jobs -> {"none", "created", "running", "exited"}]
    /\ refused \in SUBSET Jobs
    /\ unread \in [Jobs -> BOOLEAN]
    /\ copier \in [Jobs -> {"none", "copying", "done", "broken"}]
    /\ canceled \in BOOLEAN
    /\ faults \in Nat
    /\ raced \in BOOLEAN
    /\ crashed \in BOOLEAN

\* However a step ends, canceled runs and calls that fail included, its container
\* is not left once it may have been started, unless the daemon refuses to remove
\* it.  (RunContainer's defers.)
StartedAreRemoved ==
    \A j \in Jobs :
        pc[j] \notin {"start", "wait", "drain", "kill", "close", "remove"}
            => box[j] \in {"none", "created"}

\* A job leaves nothing in the daemon, and nothing in the runner, even if its
\* source cannot be read or its steps fail: unless its run is canceled, the daemon
\* fails, or jobs race for the runner's map.  (Teardown always called.)
LeavesNothing ==
    \A j \in Jobs :
        pc[j] = "over" /\ ~canceled /\ faults = 0 /\ ~raced =>
            ~volume[j] /\ ~Held(j) /\ j \notin known

\* When a step has been run with success nothing of its output is still to come, and
\* all of it has been handed on, unless the connection it came by was lost: that
\* alone does not fail the step.  (<-streamDone.)
OutputIsWhole ==
    \A j \in Jobs :
        pc[j] \notin {"wait", "drain"} /\ ~failed[j] =>
            copier[j] # "copying" /\ (unread[j] => copier[j] = "broken")

\* A canceled run's jobs come to their end, even if their containers never would.
CancelEnds == canceled ~> (crashed \/ \A j \in Jobs : pc[j] = "over")

\* cleanup.go says that the registry's CleanupAll is "Called at the end of a
\* pipeline run or on fatal error": then no volume that Setup has registered (it is
\* registered and noted in the runner's map together) is left for ever.
EveryVolumeRemoved ==
    \A j \in Jobs : j \in known /\ volume[j] ~> (~volume[j] \/ crashed)
=============================================================================
