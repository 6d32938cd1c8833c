# seedee: a verification project in TLA+

seedee is a small CI system written in Go: a command-line client (`seedee`), a
server (`seedeed`) and a web page run pipelines of jobs, each job a list of
steps executed in Docker containers, the jobs ordered by `depends_on`. This
directory holds TLA+ models of its core, the TLC configurations that check
them, and TLAPS proofs about them. Paths below are relative to `src/`.

## The system: inventory

**Execution engine** (`internal/core/engine.go`). State: the statuses of the
pipeline, its jobs and steps, the maps `failedJobs` and `jobResults` under two
mutexes, one done channel per job, a wait group. Operations: `Execute` spawns a
goroutine per job that waits for the done channels of its dependencies and then
is canceled, skipped or runs `executeJob` (Setup, steps, Teardown on an
`EngineRunner`); events go to an `EventHandler`. Hard: jobs and the main
goroutine interleave, the context is canceled at any moment, Setup and steps
fail. Correct when: a job runs only after its dependencies succeeded; failures
become skips, cancellations become canceled jobs; every job has one final
outcome, recorded and announced; `PipelineFinished` comes last; `Execute`
returns.

**Scheduler** (`internal/core/scheduler.go`). A sequential algorithm: Kahn's
levels over `inDegree`, and a depth-first search that names a cycle. Its result
is used for validation only; `Execute` relies on "no error means no cycle".
Correct when: groups are a topological order by levels, repeated dependencies
included; the verdict is right; the named cycle is one; it terminates.

**Configuration** (`internal/core/config.go`, `convert.go`). Parses and
validates `.seedee.yml`, with a second cycle search in map order; merges
environments. Correct when: it accepts exactly what the scheduler accepts, and
its messages name real cycles.

**Docker runner** (`internal/runner/docker/`). State: the `volumes` map shared
by the job goroutines; volumes and containers in the daemon; a goroutine that
copies a container's output. Operations: Setup (pull, volume, copy of the
source through a helper container), RunStep (create, attach, start, copy of the
output, wait), Teardown. Hard: concurrent use of an unguarded map; calls made
with a context that is already canceled; calls that fail although they had their
effect; output still on its way when the container exits. Correct when: nothing
is left behind, a step that succeeds has told all its output, a cancellation
ends a container that would run for ever.

**Server** (`internal/server/`). State: the registry of runs under a
read-write mutex, one cancel function and done channel per run. Operations: the
RPCs RunPipeline (streaming), GetPipelineStatus, CancelPipeline, ListPipelines,
and PruneOldRuns from a ticker; start and graceful shutdown. Hard: RPCs
interleave with running pipelines and with each other; a run ends between two
steps of a cancel; the prune interval; shutdown with streams open. Correct
when: a known run stays known while it runs, a cancel is answered truthfully,
finished runs are eventually pruned.

**Command line** (`internal/cli/`, `cmd/seedee`). Local runs (engine in the
process), remote runs (a receive loop beside a goroutine that turns a signal
into CancelPipeline), status, list, cancel, and a progress display whose live
zone is redrawn by events and by a ticker. Hard: the signal races the end of
the stream; handlers and ticker share the display.

**Web frontend** (`frontend/src`), four parts that share one tab:

* the *polls* (`useListPipelines`, `usePipelineStatus`, the dashboard, a
  pipeline's page): the last answer, an error, a loading flag; a request on a
  timer, whether or not the one before has ended. Correct when no answer is
  taken for another page's and a page comes to show how its pipeline ended;
* *running from the browser* (`useRunPipeline`, the run dialog, the re-run
  button): one stream per hook, aborted by the next run and by unmounting.
  Correct when streams end with their page and the page tells the truth of them;
* the *log stream and viewer* (`useLogStream`, `LogViewer`): events become
  entries, entries pass filters, a list follows its end. Correct when no text is
  lost or doubled and the list ends where it should;
* the *dialog's YAML reader* (`parseYamlToPipeline`): a line at a time, with a
  context. Correct when it reads what it claims to read.

**Wire conversion and generated code** (`*/convert.go`, `gen/`,
`frontend/src/gen`): field copies without control of their own. The unlocked
reads that conversion makes of a running pipeline are steps of `Server`; the
messages the frontend reads are record types of its modules.

The parts meet as follows: the CLI or the server builds a `Pipeline` from a
validated configuration, gives the engine a Docker runner and an event handler
(terminal, or the RPC's stream), and holds the cancel function of the engine's
context; the engine calls the runner and the handler from the job goroutines.
The frontend builds its own definition from the dialog's text, opens
RunPipeline, turns the stream into log entries, and polls the other RPCs.

## Modules

| module | models | extends / uses |
|---|---|---|
| `PipelineContract` | what `Execute` promises: job and pipeline statuses only | |
| `Engine` | `Execute`, `executeJob` | instantiates `PipelineContract` |
| `Scheduler` | `Schedule`, `findCycle` | |
| `Config` | `Validate`, `detectCycles`, `mergeEnv`, `NewPipelineFromConfig` | |
| `Docker` | Setup, RunStep, Teardown, the copier, the shared map | |
| `Server` | `CIServiceHandler`: registry, RPCs, pruning | |
| `LogView` | `eventLogAdapter`, `useLogStream`, `LogViewer` | |
| `Polls` | the polling hooks and what the pages show | |
| `Browser` | `useRunPipeline`, the dialog, the re-run button, moves between pages | |
| `ParseYaml` | `parseYamlToPipeline` | |
| `YamlMeaning` | no code: what YAML says of a text, told from its lines | `ParseYaml` |
| `<M>_proofs` | proofs about M, for `Engine`, `Scheduler`, `Config`, `Docker`, `Server`, `Polls` and `Browser` | M, TLAPS |
| `RunText_proofs` | proofs about the text of a run: `ParseYaml` at its one end, `LogView` at the other | `YamlMeaning`, `LogView`, TLAPS |
| `MC<M>` | instances of M for TLC, for all of these but `PipelineContract` and `YamlMeaning` | M |

`Engine` is composed with its abstraction `PipelineContract`; `LogView` composes
the engine's end of the log stream with the two frontend components at its other
end; `Docker` runs the jobs of one run side by side against the daemon, in the
order `executeJob` calls it; `Server` contains the writes of `Execute` that other
RPCs can see. Definitions named `X_Something` are plausible faults in X, each
with a comment that names it: with the fault put in, the property meant to
notice it fails. They are no part of any specification.

### Engine

One program counter per goroutine (`pc[j]`) and one for `Execute` (`mainPc`).
An action is the code between two points where another goroutine can see or
change something: a channel receive, a mutex section, a runner call, an event.
`DoneClosed(j)` stands for the state of `doneCh[j]`, which the deferred calls
close before `wg.Done`. A result is the status in `jobResults`, `"none"` where
the map has no entry. `trace[j]` is a history: the events and runner calls of
job j in order; `lateStarts[j]` counts starts after a cancellation. The local
`jobFailed` is read off the step statuses (`AnyStepFailed`).

The runner is an interface: `SetupOk`/`SetupErr` and `StepOk`/`StepFails` may
happen whenever the call is open, and whether or not the context is canceled.
The handler's errors are ignored by `emit`, so it has no actions. The model
takes from `io.Writer`'s use in the engine that a runner writes only during
RunStep: `Docker` shows it of a step that succeeds, while a canceled one may be
told to have finished before its copier has written its last piece.

`Cancel` can happen at any moment until `Execute` returns. In the `select` of
the waiting loop both cases may be ready: `DepDone` and `AwaitCanceled` are then
both enabled, as in Go.

### Scheduler

Jobs are numbers because the code sorts names. `inDegree` is a function whose
domain shrinks as the code deletes keys; `Occurrences` counts list entries, so a
dependency listed twice counts twice on both sides. The search keeps an explicit
stack for the calls of `dfs`; `Rebuild` is one turn of the path loop, which
would hang on a wrong parent link.

### Config

`Validate` walks a Go map, so the order of the jobs is a choice of every step
(`CheckJob(j)` for any unchecked j, `Root(j)` for any unvisited one). The first
complaint ends it. The search is a stack of frames, as in `Scheduler`, but the
code is another one: its states, its parent links and its message differ.
`Rebuild` is one turn of the path loop. YAML parsing is a library's; a job is
what it leaves: whether each required field is there, the steps, the
dependencies. `MergeEnv`, `JobEnv` and `StepEnv` are operators on functions from
names to values, checked over all small environments.

`AcceptsOnlyRunnable` and `RejectsOnlyFaulty` state the verdict against a
definition of a cycle that does not mention the search: `Acyclic` asks for a
ranking of the jobs in which every job comes above its dependencies.

### Server

A run is a call of `RunPipeline`, named by the pipeline's ID. `pc[r]` follows the
handler and, inside `Execute`, the writes other RPCs can see, in their order:
`Status` running, the job, `EndedAt`, the look at the context, the final
`Status`, then the deferred `close(done)` and `cancel()`. One job stands for the
engine's jobs, which `Engine` treats in full.

`mu` is not a variable: a critical section of one statement is a step, and a
list, which holds the read lock while it walks the map, is `ReadLocked`, a guard
of the writers. `CancelPipeline` is three steps (lookup, look at `done`,
`cancel`), `GetPipelineStatus` three, a list one lock, two reads for each run
and one unlock. `Disconnect` is the end of the request's context.

The fields of a pipeline are read without a lock while the engine writes them.
A read that races a write of a string may pair a pointer and a length that do
not belong together, which `StatusToProto` turns into UNSPECIFIED
(`StatusReads`, `JobReads`); a read that races the write of `EndedAt` may see
its first word only (`HalfWritten`). Both are choices of the reader.

`Ages` is the passing of an hour. It waits for the final status, which is some
statements after `EndedAt`, but not for the handler's return: the last event may
wait for its client as long as it likes.

### Docker

`pc[j]` is the call or the map access job j's goroutine is at. A call is one
step that succeeds or fails. It fails at once when it has the run's context and
that is canceled, and otherwise when the daemon or the connection fails, at most
`MaxFaults` times; a failed call may have had its effect, as its answer may be
what was lost (`\E lost`). Kill and ContainerRemove run under `WithoutCancel`, so
they do not fail on a cancellation. RunContainer's two defers are the steps
`close` and `remove` on every way out.

An access to `Runner.volumes` lasts from the step that comes to it to the step
that leaves it. While another job is writing, the entry may get lost or not be
found (`raced`), and the Go runtime may end the process (`Crash`): this is what
the build can do with the race, and nothing in the repository excludes it.
Reading the source directory may fail by itself, a step's command may fail.
`copier[j]` is the goroutine of `stdcopy`; its error is dropped by the code, so a
lost connection truncates a step's output without failing the step, which
`OutputIsWhole` says by its exception.

### LogView

`Emit(j)` is one Write of `eventLogAdapter`: it cuts off at most `MaxChunk`
bytes and sends the event. `Receive` is `push`: the decoding, the cut at newlines,
the dropped empty last piece, the lists of names in order of appearance. Text is a
sequence of bytes, of which the newline matters and the two halves of a character
of two bytes (`Wide`). Each event is decoded by itself (`useLogStream.ts:136` does
not ask for `stream: true`), so half a character comes out as a replacement
character: `Decoded`. Characters of three and four bytes are not in the model; a
decoder may write fewer replacements for a part of one than it has bytes. Nor is
the byte order mark, which a decoder takes away at the front of a chunk. The
banner of a lifecycle event counts as one character, its type. A line that a chunk
cuts becomes two entries; `TextKept` is about bytes and not lines for that reason:
what is shown has the length of what was written and its bytes, but for halves of
characters that were replaced, and it is exact where no write is cut
(`WholeWrites`).

The viewer's list has no height; its position is the number of rows above its
lower edge. A render (`Rendered`) first runs the effect the render before has
left, clamps the position as a browser does, and leaves an effect if the rows or
`autoScroll` changed. `scrolled` is a scroll event not yet delivered:
`HandleScroll` is its handler and reads `autoScroll` off the position, whoever
moved the list.

### Polls

`path` is the location; `data`, `error`, `loading` the state of the mounted
page; `flight` the requests under way. `live` is the negation of the effect's
`cancelled` flag. From the dashboard to a pipeline's page the component is
replaced (`Mount`); from one pipeline's page to another's it stays with its
state, and only the effect starts anew. React runs passive effects some time after
the page is shown and before it renders again: `polled` is the location the effect
has run for, and `RunEffects` is its cleanup, which sets the flag, and its next
run. Until then the timer and the requests of the location before go on. `Respond`
is the moment the server looks at its registry, `Settle` the promise's callback,
in any order; `ServerRuns`, `ServerEnds` and `ServerPrunes` are what a poll can
see of the server.

From p's page to q's, p's data stands under q's location, p's answers are taken
until the effect has run, and p's data is shown until q's first answer.
`NoForeignAnswers` claims what the flag is there for: once the effect has run, no
answer for another location is taken. That the page shows the other pipeline until
then is listed among the disagreements.

### Browser

`streams[r]` is one call of `run`: open, aborting (the loop has still to notice),
over. `from` is the location it was asked for at, which says which of the two
callers goes on after it, `mounted` whether the hook's component is still there,
`heard` whether the first event has told the id. `current` is `abortRef`; `leaving`
is that of a page just left, whose cleanup, a passive effect, is still to run
(`Cleanup`). From one pipeline's page to another's the component stays and its
stream goes on: a re-run's logs are then shown on the other pipeline's page.
Closing the dialog does not unmount the hook. The code after the awaited `run`
navigates even when its page has gone (`RunPipelineDialog.tsx:297`): `GoesOn`.
`StreamsAreNotCut` says what this can do to a later stream. A re-run starts a new pipeline, made of
the page's job and step names with a fixed image and command and without
dependencies; the model keeps the new run and not its contents.

React's state updates of one callback are one step. StrictMode's doubled effects,
a development aid, are left out.

### ParseYaml

A line is its indentation, its kind (which of the code's string tests it passes)
and the name it carries. One action per branch of the loop, in the code's order:
what a branch before has taken is excluded by the guard, and a line that none takes
(`~Handled`) changes nothing. A document carries what
YAML says it means, and the properties compare. What it means is also told from
its lines, so that something can be proved of every text: its jobs in `ParseYaml`
(`JobsNamed`, `MeaningAssumption`), and what stands in a job in `YamlMeaning`. There
`UnderKey` says which lines are under a key of a job, `Items`, `EnvLines` and
`StepLinesOf` which of them give it its dependencies, variables and steps, and
`Listed` what they carry, in order (`JobMeaningAssumption`). `UniqueKeys` and
`TemplateDepths` say what the texts look like: YAML, at the depths of the template
the dialog shows (`ShapeAssumption`). A text is of the template's form, its first
column holding `name`, `env` and `jobs`, or of the form `docs/config.md` gives, all
of it below the one key `pipeline:` (`Wrapped`, `RootKeysAssumption`): of the latter
the reader finds no job. For a plain text the lines give the whole
pipeline, with each step's command and variables (`PlainAssumption`). In the runs
the meanings are written down independently of the lines, and TLC evaluates the
four assumptions on all 8232 texts. The index expressions the code
makes are all in range (`NeverThrows`), so the dialog's "Failed to parse YAML" is
out of reach.

## Runs

| run | instance | shows |
|---|---|---|
| `engine` | 3 jobs, 8 graphs, job `a` with 2 steps | jobs start only after their dependencies; results complete; sound final status; at most one start after a cancellation; events and calls in pairs and causally ordered; the refinement of `PipelineContract`; `Execute` returns |
| `scheduler` | 4096 graphs of 4 jobs, 9261 of 3 with repeated and unknown names | tight groups, verdict, a real cycle named, termination |
| `config` | 6859 graphs of 3 jobs, jobs with every kind of fault, overlapping environments | the verdict and the named cycle in every map order, nearest level wins, termination |
| `docker` | 2 jobs of 2 steps, 1 fault, a cancellation | started containers are removed, an undisturbed run leaves nothing, output whole, a cancellation ends the jobs |
| `docker_leak` | 1 job of 1 step, no fault, a cancellation | violation: the volume of a canceled run stays, although no call fails but for the cancellation |
| `server` | 2 runs, 1 cancellation, 1 unfiltered list | registry, refused cancellations, lists of one moment |
| `server_live` | 1 run, 1 call of each RPC, the list filtered by failed | accepted cancellations show, runs end, executed runs are forgotten; never pending beside a job that is not |
| `yaml` | every order of a job's keys, three styles of dependencies, five of a step, around a second job; the same below `pipeline:` | all jobs found, or none below `pipeline:`; nothing given to another job, the plain form exact |
| `yaml_documented` | the same | violation: of a text in the documented form no job is read |
| `logs` | 2 jobs, 3 writes of 2 steps to both outputs, a character of two bytes that is cut and one that is not, chunks of 2, window 1, 3 acts of the user | text kept, filters among what is offered, the list at its end and at rest |
| `polls` | 2 pipelines, 2 requests under way, 2 moves | no foreign answer is used once a page's effect has run, a page settles on the final status |
| `browser` | 1 pipeline before the tab, 2 runs in it, 3 clicks, 1 lost connection | streams end with their pages and are cut by nothing else, running is true and ends |

### Bounds

*Engine*: three jobs give every shape a wait can have (chain, fork, join,
triangle, independent jobs) and the rejected ones (two-cycle behind a valid job,
self dependency, unknown name); the list `<<b, a, b>>` repeats a name. Two steps
in one job put a cancellation and a failure before, between and after steps. No
counter needs a bound: every goroutine runs a finite program. *Scheduler*: four
jobs give every cycle length up to four and as many levels. *Config*: three jobs
with lists of up to three names hold every shape of a search: tree, forward, back
and cross edges, repeated entries, self dependencies, cycles off the path from
the root.

*Docker*: two jobs are what it takes to race, a second step is the first that
follows another, and one fault meets every call of the program, before or after a
cancellation. *Server*: two runs let one run's call meet another's, and one call
of each RPC meets every step of both; calls of the same kind share no state but
the registry and the contexts, and the proofs cover any number of them.

*Logs*: a chunk of two cuts a line of four bytes within its wide character and is
full at its end; an empty first line, a last line without a newline, a second
output and a wide character in one chunk are there;
three acts are enough to open the viewer, filter or scroll, and undo it. A window
of one makes jobs wait for the reader, which orders nothing between them.
*Polls*: two requests under way are the least that can overtake each other; two
moves leave a page and come back. *Browser*: two runs are the least where one
aborts or outlives the other; three clicks open, leave and return. *ParseYaml*:
two jobs are the least where a key can go astray; each pair of neighbouring
sections occurs in both orders.

The proofs of the next section lift these bounds for the properties they cover.

### Fairness

`Engine`: weak fairness of the main goroutine and of each job's goroutine: the Go
scheduler runs what can run, a closed channel releases its readers, and the
runner's calls return (`CancelEnds` shows it of the Docker runner once the run is
canceled; a container that never ends by itself is outside the claim, as it is in
the code). Nothing makes `Cancel` happen. `Scheduler` and `Config` are
sequential: weak fairness of their next step.

`Docker`: weak fairness of each job's goroutine and of the copier: the daemon
answers every call. Kill and Remove have no timeout of their own, so a daemon
that stops answering blocks the job for good, in the code as well. That a
container exits by itself is not assumed.

`Server`: weak fairness of each handler with its engine (which returns, see
above; a client reads its stream or goes away), of the passing of time, of the
steps of a call once it is made, and strong fairness of `PruneOldRuns`: the
ticker's goroutine waits for the write lock, and Go's RWMutex lets no new reader
pass a waiting writer. No client is assumed to call or to disconnect.

`LogView`: jobs run on, the connection delivers or breaks, the browser runs
effects and handlers. `Polls`: effects run, timers fire, and every request is
answered or fails; nothing of the user, the pipelines or the connection. `Browser`:
effects run, a request that was sent arrives, runs end, streams are read, an aborted loop is left. The
user is never assumed to act in any of them.

## Proofs

Each proof module assumes only the named ASSUMEs of the module it extends, which
TLC evaluates in that module's run. Every theorem below holds for any number of
jobs, runs, requests, faults and clicks: no bound of a run appears in them, except
as a constant about which nothing is assumed but its type.

`Engine_proofs`: type correctness (`TypeCorrect`); the inductive invariant
`EngineInv` (`EngineInvariant`); and from it `DependencySafety`,
`OutcomesAreFinal`, `FinishedIsLast`, `ResultsAreComplete`, `SkipsAreCaused`,
`FinalStatusAgrees`, `CancellationIsBounded`, `TraceIsWellTold` and `Refinement`
(Engine implements PipelineContract). `SomebodyAlwaysRuns` and `RunsWindDown` are
the part of `Termination` that is about states and steps.

None of these properties is inductive by itself. A job in `execute` is safe only
because its dependencies had succeeded when it looked, and that in turn because
the goroutine had seen their channels closed, that a closed channel means the
outcome and the maps are written, that a canceled dependency means a canceled
context, and that the context was not canceled when it looked. `EngineInv` says
this, by where the goroutine is: `PcStatus` (what it has written to its status),
`MapsWritten` (what the maps hold when its channel closes), `Waited` (what it
knows of its dependencies) and `MainAt`. Lemma `Frame` states what a step of one
goroutine leaves alone; `OthersKept` uses it for the other goroutines;
`OwnStatus` and `OwnWaited` go through the actions. `SkipsAreCaused` is inductive
on top of `EngineInv`: a set of jobs closed under dependencies that holds a
skipped job holds a failed one. `FinalStatusAgrees` uses it where `Decide`
chooses success. `CancellationIsBounded` needs `LateInv`: a goroutine on its way
to a start past a live context has made no late start yet, and after one late
start it meets the context's check before the next. `TraceIsWellTold` needs
`TraceInv`, which says for every place of a goroutine what its trace may look
like: opened by JobStarted and Setup, then pairs of StepStarted and StepFinished,
the last one still open while the runner has the step, and one of four complete
shapes (`Told`) when the job is over. A dependency that succeeded has the complete
shape with both JobFinished and Teardown, and `DependencySafety` says that it had
it before the dependent started.

`SomebodyAlwaysRuns`: the goroutines never all wait for one another. `WaitInv`
says that only a graph with an order is run, so among the jobs that are left one
comes first, and what it waits for, if anything, has exited. `RunsWindDown`: every
move of a goroutine lowers `Work`, a natural number that bounds the moves it has
before it (its place in the code, three for each step left, one for each
dependency left), so no goroutine goes round in circles whatever the runner
answers. That a goroutine that does not wait does move is fairness, and stays with
TLC's `Termination`. The assumptions: there are finitely many jobs, jobs are
names, lists are sequences of names, step counts are naturals.

`Scheduler_proofs` proves `KahnInv` inductive (the degrees count the entries
still to be scheduled, the groups are a partition and topological, there are no
more groups than scheduled jobs) and from it `GroupsAreTopological`,
`GroupsArePartition` and `VerdictIsRight`: full groups give a ranking of the
jobs, and a stuck state, in which each remaining job has a remaining dependency,
excludes one. `GroupsAreTight` adds `ReadyTight` (what becomes ready in a level
was not ready before it). `ReportedCycleIsReal` is about the depth-first search
that names a cycle: `SearchInv` says that its pending calls are a path over
distinct gray jobs linked by `parent`, that a dependency already looked at is
black or the next call, and that no job Kahn's algorithm left over ever becomes
black, since it would need one of its left-over dependencies to be black first.
So the search cannot run out of white jobs without finding a cycle, and the walk
back along `parent` retraces the path. `ScheduleRunsDown` is the part of
`Termination` that is about states and steps: `Budget` counts what is still to be
done (the stages, the jobs in no group, the calls of `dfs` not made and not
finished, the dependencies not looked at, the jobs the rebuilding loop has not
walked to), none of these sets ever grows, and every step takes something off one.
So `Schedule` is through after at most 4 + 4n + e steps with n jobs and e
dependencies. It needs `SearchInv`: a wrong `parent` link would make the rebuilding
loop walk to a job it has been at. `IsFiniteSet(Jobs)` is assumed.

`Config_proofs` proves `ConfigInv` inductive and from it `AcceptedCanRun` and
`RejectedHasFault`. Its parts: `WalkInv` (what has been checked is without
fault), `StackInv` and `StackDescends` (the frames of the search are a path of
dependencies, and its jobs are the ones in the stack's state), `RanksVisited`
(the visited jobs have a ranking that every dependency descends, which excludes a
cycle among them) and `VerdictInv`. A rejection for a cycle gives one: the stack
from the repeated job on. `PathIsCycle` follows the second half, the walk along
`parent` that writes the message: the parents lead back along the stack
(`ParentsLead`), the cycle is a stretch of it (`IsCycle`), and what has been
written is the end of that stretch (`Rebuilding`). `ValidateRunsDown` bounds the
steps of `Validate` in the same way, whatever the order of its map walks: an entry
of a list is passed once, a job is visited and finished once, and the message is
rebuilt without coming back to a job. `EnvIsMerged` proves the two
merges of ToPipeline: a job's environment is its own over the pipeline's, a step's
its own over the job's.

`Server_proofs` proves `ServerInv` inductive and from it `TypeCorrect`,
`ActiveRunsStay`, `RefusalsAreRight`, `ContextsHaveCauses`, `ListsAreComplete` and
`AnswersFit`.
What the properties need besides themselves: `EndedLate` (a non-zero `EndedAt`
means that the jobs are over, so pruning takes no other run, a half-written time
included), `DoneLate` and `Refusals` (a refusing call has seen `done` closed, and
only a leaving handler closes it), `StatusAt` (what the status is by then) and
`ListsFresh`. `AnswersFit` is about the reads that no lock guards: the engine
marks the pipeline before a job (`MarkedFirst`), so a watcher that has read a job
past pending finds the pipeline past pending (`AnswersMarked`). The only
assumptions are that `none` is neither a run nor a status and that filters are
statuses.

`Docker_proofs` proves `RunnerInv` inductive and from it `TypeCorrect`,
`StartedContainersGo`, `JobsLeaveNothing` and `OutputStaysWhole`. `BoxInHand`: a
started container is one whose goroutine has still to pass the removal.
`ExitedFirst` and `CopierAtWork`: when the output is waited for the container has
exited, and a copier that is done then has left nothing. `Tidy`: in a run that is
undisturbed, where a goroutine is says exactly what it has in the daemon and in
the map; only so does the end leave nothing. Three lemmas, one per group of
actions (`SetupKeeps`, `ContainerKeeps`, `BesideKeeps`), carry the step.

`RunText_proofs` proves for any set of texts and any documents that what the
dialog submits is a pipeline definition (`ReadsPipelines`) and that no index is
out of range (`ReadingIsTotal`). The two are inductive together: a step's key is
typed only because the current job and step are there. `FindsEveryJob` proves
`JobsFound`, that the jobs submitted are those the text has: `ReadSoFar` says that
the jobs read are those named by the lines behind the reader, and that the reader
is below `jobs:` exactly when the text is; in a text below `pipeline:` it never is
(`RootKey`). Its assumptions are the two forms a text may have: the lines of the
first column are the keys `name`, `env` and `jobs`, and the jobs are the keys at the
first depth of `jobs:` (`MeaningAssumption`), or they are `pipeline:` alone
(`RootKeysAssumption`). `KeepsToTheText` proves `OnlyItsOwn`, with the
first of the two alone: for any text, each value submitted for a job is on a line
that stands in that job, at the depth of its kind, and each value of a step on one
in that step. `OwnSoFar` adds what this needs of the reader: while it is in a job,
or in a step, the line it is at stands in the one it takes for the current.

`SectionsComeWhole` proves `NothingMoved`: for any text that is YAML at the
template's depths, in whatever order its keys come, the dependencies, the
variables and the steps of a job are read whole and in order, or not at all.
`NothingMoved` is about the end of the text; `PartsSoFar` says for every line what
each part of each job is by then: nothing, or what the lines before carry, and
which of the two while the reader is under the part's key, by its context
(`PartRead`). A part is therefore decided at its key. That needs that no two keys
are open at once (`OneKey`), that a job has a key once, so that before it nothing
has been read (`UpToKey`), and that a context that takes a part's lines lasts until
the part ends (`PartOneLineFurther`, which every branch of the loop is shown to
meet). `PlainTextsAreExact` proves `PlainIsExact`: what is submitted for a plain
text is what YAML says of it, to the last variable of the last step. `PlainSoFar`
is what the reader has at each line: the name and variables so far (`TopRead`), the
image and dependencies so far of every job (`JobRead`), and its steps, of which all
but the last are whole; the last one has the command and variables of the lines
read, and the reader is among its variables exactly when it has passed their key
(`StepInWork`). A step is whole where the next step, the next job or the section
ends it (`StepEnds`). A list in brackets is one line and stands for one name.

Of the log stream it proves, for any names, bytes, wide characters, programs, chunk
size and window, that no byte is lost or doubled, that one is replaced only in a
character that is cut, and that an output none of whose writes is cut is exact
(`NoTextIsLost`). `StreamInv` has five parts: `StreamType`; `OwnEvents` (what is still to do is a job's own, and the
run's first and last event are the run's); `Phases` (nothing happens before the
run, its last event is sent when all else is, and it ends without an error only
when all has arrived); `Uncut` (an output whose writes are whole is in whole events
on its way); and `Accounted`, the heart of it: for each job, step and output, what
the program writes is what has come followed by a rest, what is shown stands for
what has come, and until the connection breaks the rest is what is in the stream
and what the job has still to do. For that what is sent and what is shown have to be distributed over
concatenation (`SentConcat`, `ShownConcat`), the decoding has to stand for the bytes
of each event (`DecodedShows`), and the cut at newlines has to keep the characters
whatever the text (`SplitKeepsText`). These are inductions over data; they are done with sets instead
of an operator parameter: `NumberInduction` (a set of naturals that holds 0 and
with each number its successor holds all) and `SequenceInduction`, both proved
from the least-element principle of the naturals. Of the viewer it proves
`SelectionStaysOffered` and `FollowingStaysAtTheEnd` by `ViewerInv`: what is
selected has been seen, and once the effect that a render has left has run, a list
that follows is at its end. `EffectsSettle` is the step half of `ComesToRest`:
`Unrest` counts the effects and scroll events that are still to come, is at most
three, and goes down with each that runs, so that only a new line or the user can
set the list in motion again. It needs `EffectFollows`: the effect of following is
pending only in a list that follows. The assumptions: jobs' programs are sequences of events
of their own without the run's first and last (`ProgramsAssumption`), chunks have
at least one byte (`BoundsAssumption`), the empty name is one (`NamesAssumption`),
and the halves of wide characters are bytes of their own (`WideAssumption`).

`Polls_proofs` proves `PollInv` inductive and from it `TypeCorrect`,
`SkeletonsAreBacked`, `ClaimsHaveAnswers` and `AnswersAreOwn`. `FlightFits` is the
strengthening: a request whose answer will be used was sent for the location that is
polled, and an answer is about what was asked. `Excused`: a page with no answer is
loading or in error.

`Browser_proofs` proves `TabInv` inductive and from it `TypeCorrect`,
`StreamsStayWatched`, `RunningStaysTrue` and `StreamsStayUncut`. The strengthening
`AbortedAreLeft` is the heart of it: a stream that is being aborted has lost its
page, since the buttons that could start a second stream are disabled while one
is open. Without it the late `finally` of an aborted stream would clear the
`running` of the new one.

### Only model-checked

Liveness (`Termination` of three modules, `CancelEnds`, `CancelTakesEffect`,
`RunsEnd`, `FinishedRunsPruned`, `ComesToRest`, `SettlesOnFinal`, `RunningEnds`)
is outside the prover; of the terminations, `RunsWindDown`, `ScheduleRunsDown` and
`ValidateRunsDown` prove all but that a step that is possible is taken, and
`EffectsSettle` that the viewer's effects do not keep it from its rest. Every other
property of a passing run is stated by a theorem.

What the theorems say of one component meets what they say of the next. `Engine`
runs a graph if it is `Schedulable`: its names are known and a ranking orders it.
By `VerdictIsRight` this is when `Schedule` succeeds, and by `AcceptedCanRun` an
accepted configuration has both; the three modules define a ranking by the same
formula. So what `Validate` accepts is run, and by `SomebodyAlwaysRuns` and
`RunsWindDown` its goroutines neither block each other nor go round for ever.

## Disagreements between the code and what is said of it

Shown by a run:

* `internal/runner/docker/cleanup.go:38-39` says that CleanupAll is called at the
  end of a run; it has no caller, and Teardown's own call has the canceled
  context, so the volume of a canceled run stays (`docker_leak`).
* `docs/config.md:3-24` gives the form of every `.seedee.yml`, one key `pipeline:`
  with all the rest below it, and the dialog asks for such a text
  (`RunPipelineDialog.tsx:341`, `:364`); its reader finds no job in it and submits an
  empty pipeline named "untitled" (`yaml_documented`).

Met while modelling and not given a run of their own:

* `docs/config.md:93-94` says groups execute sequentially; the engine starts a job
  when its own dependencies are done (`engine.go:91`).
* `docs/architecture.md:121` says events are emitted at each state transition; a
  job canceled before it starts becomes `canceled` in silence
  (`engine.go:99-110`).
* `docs/architecture.md:103-104` says old runs are pruned; a run whose handler
  gives up at `internal/server/handler.go:87-96` stays pending and never is.
  `FinishedRunsPruned` is therefore about runs that were executed.
* `handler.go:209` says runs older than maxAge are removed; `EndedAt` is read
  (`handler.go:216`) with no lock in common with its writer, and its first word
  alone is a time long ago. `ActiveRunsKnown` holds all the same.
* `handler.go:181-182` promises a filter by status; the status is read again for
  the summary (`handler.go:195` and `201`) and may differ.
* `docs/config.md:200` writes the message for a cycle as `A -> B -> A`; the code
  lists each job once, `B -> A` (`internal/core/config.go:98-111`), and only a job
  that depends on itself is written twice. `PathNamesCycle` is about what the code
  writes.
* `frontend/src/components/RunPipelineDialog.tsx:22-23` lists the keys the reader
  understands: name, env, jobs with image, depends_on, env and steps. Of these it
  drops, without an error, the keys of a job that come after its `steps:` (no branch
  of 136-196 takes them) or end its environment (121-123), dependencies indented below
  their key or in brackets (95, indent 4), a step's command after its environment, and
  the lines of a block command (136-156, indent 8). `NothingMoved` says that what is
  dropped is dropped whole.
* `usePipelines.ts:81` says the hook polls a pipeline's status; from one pipeline's
  page to another's it shows the first one's under the second's location until its
  effect has run and the second's answer is there, and takes late answers of the first
  until the effect has run.
* `usePipelines.ts:214` says the stream is cleaned up on unmounting, which is all that
  ends it: a re-run begun on one pipeline's page goes on when another's is opened, as
  the component stays, and its logs are shown there.
* `RunPipelineDialog.tsx:297` goes on after a run whose dialog has been left: it
  navigates away from what the user has opened since and, if that is the dialog with a
  later run, ends the later run's stream with its page. `StreamsAreNotCut` names this
  as its one exception.
* `useLogStream.ts:135` says that log data is decoded; a character that a chunk's end
  divides (`engine.go:466-471`) is decoded in two parts, each of which becomes
  replacement characters. `TextKept` excepts it.
* `LogViewer.tsx:166` says the handler detects a manual scroll; it hears the list's
  own scrolls as well, and a filter that shortens the list so that its end comes
  into view turns following on.

## Not modelled, and why

* **Command line** (`internal/cli`, `cmd/seedee`): `run` is a receive loop and one
  goroutine that sends a cancellation. Its two races (a signal before the first
  event; a signal that also ends the stream) are listed as hazards; what they lead
  to on the server, the end of the request's context, is `Disconnect` in `Server`.
  The other commands are one call each.
* **Progress display and terminal handlers**: drawing under one mutex; what they are
  right about is layout.
* **Server start and shutdown** (`server.go`, `cmd/seedeed`): the order of
  `Shutdown`, `ListenAndServe` and process exit is that of `net/http`, not of this
  code; likewise a Send that blocks, whose limit is HTTP/2's flow control.
* **Event handlers and models** (`events.go`, `model.go`, `log.go`): data in
  `Engine`; the buffered and multi handlers collect or pass on.
* **CleanupRegistry** (`cleanup.go`): filled, never read.
* **Presentation** of the frontend (`ui/`, badges, layout, dark mode, toasts) and
  `useCancelPipeline`, which no page uses.
* **Generated code** and field-by-field conversions.
