------------------------------- MODULE Server -------------------------------
(***************************************************************************)
(* CIServiceHandler of internal/server/handler.go: the registry of runs    *)
(* under its read-write mutex, the streaming RPC that runs a pipeline, the *)
(* unary RPCs that look at it and cancel it, and the pruning of old runs   *)
(* by the ticker of server.go.  A pipeline is one job and its own status,  *)
(* with the writes in the order of Execute.  No lock orders the reads and  *)
(* writes of a pipeline's fields, so every read of a field is a step, and  *)
(* one that races a write may see one word of it without the other.        *)
(***************************************************************************)
EXTENDS Naturals, FiniteSets

CONSTANTS
    Runs,         \* calls of RunPipeline, named by their pipeline's ID
    Cancelers,    \* calls of CancelPipeline
    Watchers,     \* calls of GetPipelineStatus
    Listers,      \* calls of ListPipelines
    Filters,      \* the status filters they ask for
    none

VARIABLES
    pc,           \* where RunPipeline is
    registry,     \* the keys of the pipelines map
    done,         \* the runs whose done channel is closed
    ctxDone,      \* the runs whose runCtx is canceled
    gone,         \* the runs whose client has disconnected
    job,          \* the status of the run's job
    status,       \* Pipeline.Status
    chosen,       \* the status a goroutine is about to write
    endedAt,      \* Pipeline.EndedAt: zero, recent, or before the cutoff
    cancel,       \* CancelPipeline: where it is and the run it found
    watch,        \* GetPipelineStatus: the same, and what it has read
    list          \* ListPipelines: the same, and what it has collected

runVars  == <<pc, done, gone, job, status, chosen, endedAt>>
callVars == <<cancel, watch, list>>
vars     == <<runVars, registry, ctxDone, callVars>>

Final    == {"success", "failed", "canceled"}
Statuses == {"pending", "running"} \cup Final
Answers  == {"unspecified"} \cup Statuses   \* the values of seedeev1.Status

ASSUME ServerAssumption == none \notin Runs \cup Answers /\ Filters \subseteq Answers

Replies  == {"idle", "notFound", "completed", "accepted"}

Init ==
    /\ pc = [r \in Runs |-> "called"]
    /\ registry = {} /\ done = {} /\ ctxDone = {} /\ gone = {}
    /\ job = [r \in Runs |-> "pending"]
    /\ status = [r \in Runs |-> "pending"]
    /\ chosen = [r \in Runs |-> none]
    /\ endedAt = [r \in Runs |-> "zero"]
    /\ cancel = [c \in Cancelers |-> [at |-> "idle", run |-> none]]
    /\ watch = [w \in Watchers |-> [at |-> "idle", run |-> none, job |-> none, status |-> none]]
    /\ list = [l \in Listers |->
                 [at |-> "idle", filter |-> "unspecified", todo |-> {}, run |-> none, found |-> {}]]

(* The mutex: ListPipelines keeps a read lock while it walks the map; the  *)
(* other readers take and release it in one step.                          *)
ReadLocked == \E l \in Listers : list[l].at \in {"walking", "matched"}

-----------------------------------------------------------------------------
(* RunPipeline.                                                            *)

At(r, from, to) ==
    /\ pc[r] = from
    /\ pc' = [pc EXCEPT ![r] = to]

(* No pipeline in the request, or one that Validate rejects.               *)
Reject(r) ==
    /\ At(r, "called", "rejected")
    /\ UNCHANGED <<done, gone, job, status, chosen, endedAt, registry, ctxDone, callVars>>

Register(r) ==
    /\ ~ReadLocked
    /\ At(r, "called", "registered")
    /\ registry' = registry \cup {r}
    /\ UNCHANGED <<done, gone, job, status, chosen, endedAt, ctxDone, callVars>>

(* There is no Docker client, or no working directory.                     *)
CannotRun(r) ==
    /\ At(r, "registered", "leaving")
    /\ UNCHANGED <<done, gone, job, status, chosen, endedAt, registry, ctxDone, callVars>>

(* Fault: the status is left until the jobs are over. *)
Execute_Unmarked(r) ==
    /\ At(r, "registered", "executing")
    /\ UNCHANGED <<done, gone, job, status, chosen, endedAt, registry, ctxDone, callVars>>

Execute(r) ==
    /\ At(r, "registered", "executing")
    /\ status' = [status EXCEPT ![r] = "running"]
    /\ UNCHANGED <<done, gone, job, chosen, endedAt, registry, ctxDone, callVars>>

JobStarts(r) ==
    /\ pc[r] = "executing"
    /\ job[r] = "pending"
    /\ r \notin ctxDone
    /\ job' = [job EXCEPT ![r] = "running"]
    /\ UNCHANGED <<pc, done, gone, status, chosen, endedAt, registry, ctxDone, callVars>>

(* A job that had not started is canceled; one that had fails or succeeds, *)
(* with or without the context.                                            *)
JobOutcome(r) ==
    /\ At(r, "executing", "jobEnding")
    /\ \/ /\ job[r] = "pending"
          /\ r \in ctxDone
          /\ chosen' = [chosen EXCEPT ![r] = "canceled"]
       \/ /\ job[r] = "running"
          /\ \E s \in {"success", "failed"} : chosen' = [chosen EXCEPT ![r] = s]
    /\ UNCHANGED <<done, gone, job, status, endedAt, registry, ctxDone, callVars>>

JobEnds(r) ==
    /\ At(r, "jobEnding", "joined")
    /\ job' = [job EXCEPT ![r] = chosen[r]]
    /\ UNCHANGED <<done, gone, status, chosen, endedAt, registry, ctxDone, callVars>>

(* wg.Wait has returned, EndedAt is written ...                            *)
WriteEndedAt(r) ==
    /\ At(r, "joined", "ended")
    /\ endedAt' = [endedAt EXCEPT ![r] = "recent"]
    /\ UNCHANGED <<done, gone, job, status, chosen, registry, ctxDone, callVars>>

(* Fault: the end is taken for what the jobs did, canceled or not. *)
Choose_IgnoresContext(r) ==
    /\ At(r, "ended", "chosen")
    /\ chosen' = [chosen EXCEPT ![r] = IF job[r] = "failed" THEN "failed" ELSE "success"]
    /\ UNCHANGED <<done, gone, job, status, endedAt, registry, ctxDone, callVars>>

(* ... the context is looked at ...                                        *)
Choose(r) ==
    /\ At(r, "ended", "chosen")
    /\ chosen' = [chosen EXCEPT ![r] =
                    IF r \in ctxDone THEN "canceled"
                    ELSE IF job[r] = "failed" THEN "failed" ELSE "success"]
    /\ UNCHANGED <<done, gone, job, status, endedAt, registry, ctxDone, callVars>>

(* ... and the status is written.                                          *)
StoreStatus(r) ==
    /\ At(r, "chosen", "finished")
    /\ status' = [status EXCEPT ![r] = chosen[r]]
    /\ UNCHANGED <<done, gone, job, chosen, endedAt, registry, ctxDone, callVars>>

(* PipelineFinished has been sent, or the stream's client is gone.         *)
Executed(r) ==
    /\ At(r, "finished", "leaving")
    /\ UNCHANGED <<done, gone, job, status, chosen, endedAt, registry, ctxDone, callVars>>

(* Fault: done is not closed. *)
CloseDone_Forgotten(r) ==
    /\ At(r, "leaving", "closed")
    /\ UNCHANGED <<done, gone, job, status, chosen, endedAt, registry, ctxDone, callVars>>

(* The deferred calls, last first: close(done), then cancel().             *)
CloseDone(r) ==
    /\ At(r, "leaving", "closed")
    /\ done' = done \cup {r}
    /\ UNCHANGED <<gone, job, status, chosen, endedAt, registry, ctxDone, callVars>>

Return(r) ==
    /\ At(r, "closed", "returned")
    /\ ctxDone' = ctxDone \cup {r}
    /\ UNCHANGED <<done, gone, job, status, chosen, endedAt, registry, callVars>>

(* The request's context, which runCtx comes from, ends with its client.   *)
Disconnect(r) ==
    /\ r \notin gone
    /\ pc[r] \notin {"called", "rejected", "returned"}
    /\ gone' = gone \cup {r}
    /\ ctxDone' = ctxDone \cup {r}
    /\ UNCHANGED <<pc, done, job, status, chosen, endedAt, registry, callVars>>

-----------------------------------------------------------------------------
(* Unsynchronised reads.  A status is a string, a pointer and a length:    *)
(* with one of them old and the other new it is no status at all, which    *)
(* StatusToProto makes "unspecified".  The lengths of "pending", "running" *)
(* and "success" are the same.                                             *)

Torn(r, writing) ==
    IF pc[r] = writing /\ chosen[r] # "success" THEN {"unspecified"} ELSE {}

JobReads(r)    == {job[r]} \cup Torn(r, "jobEnding")
StatusReads(r) == {status[r]} \cup Torn(r, "chosen")

-----------------------------------------------------------------------------
(* Pruning.                                                                *)

(* The end of a run passes the cutoff; an hour does not pass between two   *)
(* statements, but may before the last event has been sent.                *)
Ages(r) ==
    /\ endedAt[r] = "recent"
    /\ status[r] \in Final
    /\ endedAt' = [endedAt EXCEPT ![r] = "old"]
    /\ UNCHANGED <<pc, done, gone, job, status, chosen, registry, ctxDone, callVars>>

(* Fault: the zero time is before every cutoff. *)
Prunable_ZeroIsOld == {r \in registry : endedAt[r] # "recent"}

(* Fault: only successful runs are forgotten. *)
Prunable_SuccessOnly == {r \in registry : endedAt[r] = "old" /\ status[r] = "success"}

Prunable == {r \in registry : endedAt[r] = "old"}

(* The first word of a time.Time that is being written says that the second *)
(* is a monotonic clock reading; the second still zero is before any cutoff *)
(* of a server that has been up for pruneMaxAge.                            *)
HalfWritten == {r \in registry : pc[r] = "joined"}

(* Fault: the map is changed while it is walked. *)
PruneOldRuns_Unlocked ==
    \E torn \in SUBSET HalfWritten :
        /\ registry' = registry \ (Prunable \cup torn)
        /\ UNCHANGED <<runVars, ctxDone, callVars>>

PruneOldRuns ==
    \E torn \in SUBSET HalfWritten :
        /\ ~ReadLocked
        /\ registry' = registry \ (Prunable \cup torn)
        /\ UNCHANGED <<runVars, ctxDone, callVars>>

-----------------------------------------------------------------------------
(* CancelPipeline.                                                         *)

CancelLookup(c, r) ==
    /\ cancel[c].at = "idle"
    /\ cancel' = [cancel EXCEPT ![c] =
                    [at |-> IF r \in registry THEN "found" ELSE "notFound", run |-> r]]
    /\ UNCHANGED <<runVars, registry, ctxDone, watch, list>>

(* Fault: the branches of the select are swapped. *)
CancelSelect_Swapped(c) ==
    /\ cancel[c].at = "found"
    /\ cancel' = [cancel EXCEPT ![c].at =
                    IF cancel[c].run \in done THEN "canceling" ELSE "completed"]
    /\ UNCHANGED <<runVars, registry, ctxDone, watch, list>>

CancelSelect(c) ==
    /\ cancel[c].at = "found"
    /\ cancel' = [cancel EXCEPT ![c].at =
                    IF cancel[c].run \in done THEN "completed" ELSE "canceling"]
    /\ UNCHANGED <<runVars, registry, ctxDone, watch, list>>

CancelContext(c) ==
    /\ cancel[c].at = "canceling"
    /\ ctxDone' = ctxDone \cup {cancel[c].run}
    /\ cancel' = [cancel EXCEPT ![c].at = "accepted"]
    /\ UNCHANGED <<runVars, registry, watch, list>>

-----------------------------------------------------------------------------
(* GetPipelineStatus: PipelineStatusToProto reads the jobs first.          *)

WatchLookup(w, r) ==
    /\ watch[w].at = "idle"
    /\ watch' = [watch EXCEPT ![w].run = r,
                              ![w].at = IF r \in registry THEN "found" ELSE "notFound"]
    /\ UNCHANGED <<runVars, registry, ctxDone, cancel, list>>

ReadJobs(w) ==
    /\ watch[w].at = "found"
    /\ \E s \in JobReads(watch[w].run) :
          watch' = [watch EXCEPT ![w].at = "jobsRead", ![w].job = s]
    /\ UNCHANGED <<runVars, registry, ctxDone, cancel, list>>

ReadStatus(w) ==
    /\ watch[w].at = "jobsRead"
    /\ \E s \in StatusReads(watch[w].run) :
          watch' = [watch EXCEPT ![w].at = "answered", ![w].status = s]
    /\ UNCHANGED <<runVars, registry, ctxDone, cancel, list>>

-----------------------------------------------------------------------------
(* ListPipelines: under the read lock, in an order of the map's choosing,  *)
(* it reads a status for the filter and reads it again for the summary.    *)

ListLock(l, f) ==
    /\ list[l].at = "idle"
    /\ list' = [list EXCEPT ![l].at = "walking", ![l].filter = f, ![l].todo = registry]
    /\ UNCHANGED <<runVars, registry, ctxDone, cancel, watch>>

Matches(f, s) == f = "unspecified" \/ f = s

Filter(l, r) ==
    /\ list[l].at = "walking"
    /\ r \in list[l].todo
    /\ \E s \in StatusReads(r) :
          list' = [list EXCEPT ![l].todo = @ \ {r},
                               ![l].run = r,
                               ![l].at = IF Matches(list[l].filter, s)
                                         THEN "matched" ELSE "walking"]
    /\ UNCHANGED <<runVars, registry, ctxDone, cancel, watch>>

Summarise(l) ==
    /\ list[l].at = "matched"
    /\ \E s \in StatusReads(list[l].run) :
          list' = [list EXCEPT ![l].at = "walking",
                               ![l].found = @ \cup {[run |-> list[l].run, status |-> s]}]
    /\ UNCHANGED <<runVars, registry, ctxDone, cancel, watch>>

ListUnlock(l) ==
    /\ list[l].at = "walking"
    /\ list[l].todo = {}
    /\ list' = [list EXCEPT ![l].at = "answered"]
    /\ UNCHANGED <<runVars, registry, ctxDone, cancel, watch>>

-----------------------------------------------------------------------------
Engine(r) ==
    \/ Execute(r) \/ JobStarts(r) \/ JobOutcome(r) \/ JobEnds(r) \/ WriteEndedAt(r)
    \/ Choose(r) \/ StoreStatus(r) \/ Executed(r)

Handler(r) == Reject(r) \/ Register(r) \/ CannotRun(r) \/ CloseDone(r) \/ Return(r)

CancelCall(c) ==
    (\E r \in Runs : CancelLookup(c, r)) \/ CancelSelect(c) \/ CancelContext(c)
WatchCall(w)  == (\E r \in Runs : WatchLookup(w, r)) \/ ReadJobs(w) \/ ReadStatus(w)
ListCall(l)   ==
    \/ \E f \in Filters : ListLock(l, f)
    \/ \E r \in Runs : Filter(l, r)
    \/ Summarise(l) \/ ListUnlock(l)

Next ==
    \/ \E r \in Runs : Handler(r) \/ Engine(r) \/ Disconnect(r) \/ Ages(r)
    \/ PruneOldRuns
    \/ \E c \in Cancelers : CancelCall(c)
    \/ \E w \in Watchers : WatchCall(w)
    \/ \E l \in Listers : ListCall(l)

Spec == Init /\ [][Next]_vars

(* The Go scheduler runs every goroutine, the engine's calls return, a     *)
(* client reads its stream or goes away, time passes and the ticker ticks. *)
(* The ticker may find the map locked; a list it waits for ends.           *)
FairSpec ==
    /\ Spec
    /\ \A r \in Runs : WF_vars(Handler(r) \/ Engine(r)) /\ WF_vars(Ages(r))
    /\ SF_vars(PruneOldRuns)
    /\ \A c \in Cancelers : WF_vars(CancelSelect(c) \/ CancelContext(c))
    /\ \A l \in Listers : WF_vars((\E r \in Runs : Filter(l, r)) \/ Summarise(l) \/ ListUnlock(l))

-----------------------------------------------------------------------------
(* Properties.                                                             *)

RunPcs == {"called", "rejected", "registered", "executing", "jobEnding", "joined", "ended",
           "chosen", "finished", "leaving", "closed", "returned"}

RunsTyped ==
    /\ pc \in [Runs -> RunPcs]
    /\ registry \subseteq Runs /\ done \subseteq Runs /\ ctxDone \subseteq Runs
    /\ gone \subseteq Runs
    /\ job \in [Runs -> Statuses] /\ status \in [Runs -> Statuses]
    /\ chosen \in [Runs -> Final \cup {none}]
    /\ endedAt \in [Runs -> {"zero", "recent", "old"}]

CancelCalls == [at : Replies \cup {"found", "canceling"}, run : Runs \cup {none}]
WatchCalls  == [at : {"idle", "found", "jobsRead", "notFound", "answered"}, run : Runs \cup {none},
                job : Answers \cup {none}, status : Answers \cup {none}]
ListCalls   == [at : {"idle", "walking", "matched", "answered"}, filter : Answers,
                todo : SUBSET Runs, run : Runs \cup {none},
                found : SUBSET [run : Runs, status : Answers]]

CallsTyped ==
    /\ cancel \in [Cancelers -> CancelCalls]
    /\ \A c \in Cancelers : cancel[c].at # "idle" => cancel[c].run \in Runs
    /\ watch \in [Watchers -> WatchCalls]
    /\ \A w \in Watchers : watch[w].at # "idle" => watch[w].run \in Runs
    /\ list \in [Listers -> ListCalls]
    /\ \A l \in Listers : list[l].at = "matched" => list[l].run \in Runs

TypeOK == RunsTyped /\ CallsTyped

(* A run that has been registered and has a job that is not over can be    *)
(* looked up: it can be watched and canceled for as long as there is       *)
(* something to cancel.                                                    *)
ActiveRunsKnown ==
    \A r \in Runs : pc[r] \in {"registered", "executing", "jobEnding"} => r \in registry

(* A run's context ends for a reason of its own: its client left, someone  *)
(* asked to cancel this very run, or its handler is returning.             *)
ContextHasCause ==
    \A r \in ctxDone :
        \/ r \in gone
        \/ pc[r] = "returned"
        \/ \E c \in Cancelers : cancel[c].at = "accepted" /\ cancel[c].run = r

(* "pipeline already completed" is only said of a run that has ended, or   *)
(* never began: nothing is left for the refused cancellation to stop.      *)
RefusedOnlyWhenOver ==
    \A c \in Cancelers : cancel[c].at = "completed" =>
        LET r == cancel[c].run
        IN  pc[r] \in {"closed", "returned"} /\ (status[r] \in Final \/ status[r] = "pending")

(* A list is of one moment: while it is made, what it has to look at is in *)
(* the registry, and unfiltered it misses nothing that is there.           *)
ListSeesAll ==
    \A l \in Listers : list[l].at \in {"walking", "matched"} =>
        /\ list[l].todo \subseteq registry
        /\ list[l].filter = "unspecified" =>
              registry = list[l].todo \cup {f.run : f \in list[l].found}
                         \cup (IF list[l].at = "matched" THEN {list[l].run} ELSE {})

(* GetPipelineStatus never calls a pipeline pending beside a job that is   *)
(* not: the engine writes the pipeline's status before it starts a job,    *)
(* and PipelineStatusToProto reads it after the jobs'.                     *)
PendingMeansUntouched ==
    \A w \in Watchers : watch[w].status = "pending" => watch[w].job = "pending"

(* A run canceled before its engine has looked at the context ends as      *)
(* canceled: an accepted cancellation is not lost.                         *)
CancelTakesEffect ==
    \A c \in Cancelers : \A r \in Runs :
        (cancel[c].at = "accepted" /\ cancel[c].run = r /\ pc[r] \in {"executing", "jobEnding", "joined", "ended"})
            ~> status[r] = "canceled"

(* Every run that is taken in leaves its handler and has its done channel  *)
(* closed, whichever way it goes.                                          *)
RunsEnd == \A r \in Runs : (pc[r] = "registered") ~> (pc[r] = "returned" /\ r \in done)

(* A run that has executed is forgotten in the end.                        *)
FinishedRunsPruned == \A r \in Runs : (endedAt[r] # "zero") ~> (r \notin registry)
=============================================================================
