------------------------------- MODULE Browser -------------------------------
(***************************************************************************)
(* Running pipelines from one tab of the web frontend: the dashboard with   *)
(* its dialog, the page of a pipeline with its re-run button, the stream of *)
(* useRunPipeline behind both, and the moves between the pages.             *)
(*                                                                          *)
(* The polls are those of Polls; of them only whether the mounted page has  *)
(* an answer matters here.  Of the server, a run is "unknown" before its    *)
(* request has arrived, then "running" and "over".                          *)
(***************************************************************************)
EXTENDS Naturals

CONSTANTS
    Old,         \* pipelines the server ran before the tab was opened
    Runs,        \* pipelines the tab may run
    MaxMoves,    \* bound: clicks that change the page or the dialog, and reloads
    MaxFaults    \* bound: lost connections

VARIABLES
    path,        \* the location: Dashboard, or a pipeline's page
    answered,    \* the poll of the mounted page has an answer
    dialog,      \* the dashboard's dialog: open, its text, a file being read
    running,     \* of the mounted page's useRunPipeline
    runError,    \* of the mounted page's useRunPipeline
    current,     \* abortRef: the run whose controller is the last one
    leaving,     \* abortRef of the page before, until its cleanup has run
    hasLogs,     \* of a pipeline's page
    streaming,   \* of a pipeline's page: the log stream's indicator
    streams,     \* for each run of the tab, its stream
    srv,         \* for each run of the tab: "unknown", "running" or "over"
    moves, faults

hook == <<running, runError, current>>
logs == <<hasLogs, streaming>>
page == <<answered, dialog, hook, logs>>
vars == <<path, page, leaving, streams, srv, moves, faults>>

Dashboard == "/"
Locations == {Dashboard} \cup Old \cup Runs
NoRun == "none"

\* A pipeline's id is neither the dashboard's location nor that of no run.
ASSUME PagesAssumption == {Dashboard, NoRun} \cap (Old \cup Runs) = {}

NoDialog == [open |-> FALSE, text |-> "given", reading |-> FALSE]

\* A stream that has not been opened: where it was asked for, whether the component
\* that asked is still there, whether the pipeline's id has been heard.
NoStream == [state |-> "none", from |-> "none", mounted |-> FALSE, heard |-> FALSE]

-----------------------------------------------------------------------------
\* The pages.

\* A page is mounted with new state.
Mount ==
    /\ answered' = FALSE
    /\ dialog' = NoDialog
    /\ running' = FALSE
    /\ runError' = FALSE
    /\ current' = NoRun
    /\ hasLogs' = FALSE
    /\ streaming' = TRUE

\* A controller's stream is aborted.
Aborted(controller, s) ==
    [r \in Runs |->
        [s[r] EXCEPT !.state = IF r = controller /\ @ = "open" THEN "aborting" ELSE @]]

Unmounted(s) == [r \in Runs |-> [s[r] EXCEPT !.mounted = FALSE]]

(* Fault: leaving a page does not abort its stream. *)
Cleanup_NoAbort ==
    /\ leaving # NoRun
    /\ leaving' = NoRun
    /\ UNCHANGED <<path, page, streams, srv, moves, faults>>

\* The cleanup of the useRunPipeline of a page that was left: a passive effect,
\* which runs some time after the next page is shown.
Cleanup ==
    /\ leaving # NoRun
    /\ leaving' = NoRun
    /\ streams' = Aborted(leaving, streams)
    /\ UNCHANGED <<path, page, srv, moves, faults>>

\* The router shows another location, with the streams as they are in s and what
\* cleanup there is to run.  From one pipeline's page to another's the component
\* stays, with all its state.
Visit(to, s) ==
    /\ path' = to
    /\ IF to # path /\ Dashboard \in {to, path}
       THEN streams' = Unmounted(Aborted(leaving, s)) /\ leaving' = current /\ Mount
       ELSE streams' = Aborted(leaving, s) /\ leaving' = NoRun /\ UNCHANGED page

Init ==
    /\ path \in {Dashboard} \cup Old
    /\ answered = FALSE
    /\ dialog = NoDialog
    /\ running = FALSE
    /\ runError = FALSE
    /\ current = NoRun
    /\ leaving = NoRun
    /\ hasLogs = FALSE
    /\ streaming = TRUE
    /\ streams = [r \in Runs |-> NoStream]
    /\ srv = [r \in Runs |-> "unknown"]
    /\ moves = 0
    /\ faults = 0

PollAnswers ==
    /\ ~answered
    /\ answered' = TRUE
    /\ UNCHANGED <<path, dialog, hook, logs, leaving, streams, srv, moves, faults>>

-----------------------------------------------------------------------------
\* The streams.

\* run(): the stream before it, if any, is aborted.
Run(r) ==
    /\ streams[r] = NoStream
    /\ streams' = [Aborted(current, streams) EXCEPT
                      ![r] = [state |-> "open", from |-> path,
                              mounted |-> TRUE, heard |-> FALSE]]
    /\ current' = r
    /\ running' = TRUE
    /\ runError' = FALSE
    /\ UNCHANGED leaving

(* Fault: the button stays enabled while a run goes on. *)
RunEnabled_WhileRunning == dialog.open /\ dialog.text # "blank"

\* The dialog's button can be pressed.
RunEnabled == dialog.open /\ ~running /\ dialog.text # "blank"

\* The logs tab offers to run the pipeline again, if it has jobs.
RerunOffered == path # Dashboard /\ answered /\ ~hasLogs /\ ~running

\* The text is parsed and run.
HandleRun(r) ==
    /\ RunEnabled
    /\ Run(r)
    /\ UNCHANGED <<path, answered, dialog, logs, srv, moves, faults>>

\* The jobs shown are run as a new pipeline, whose logs the page then shows.
HandleStartStream(r) ==
    /\ RerunOffered
    /\ Run(r)
    /\ hasLogs' = TRUE
    /\ streaming' = TRUE
    /\ UNCHANGED <<path, answered, dialog, srv, moves, faults>>

\* The first event of a stream tells the pipeline's id.
FirstEvent(r) ==
    /\ streams[r].state = "open"
    /\ ~streams[r].heard
    /\ srv[r] # "unknown"
    /\ streams' = [streams EXCEPT ![r].heard = TRUE]
    /\ UNCHANGED <<path, page, leaving, srv, moves, faults>>

Over(r) == [streams EXCEPT ![r].state = "over"]

(* Fault: the id is not looked at. *)
GoesOn_Unheard(r) == streams[r].from = Dashboard

\* handleRun and handleStartStream go on after run(): the dialog's goes to the
\* run's page if it has heard of it, even when its own page is no longer there.
GoesOn(r) == streams[r].from = Dashboard /\ streams[r].heard

\* The rest of a stream's end: the logs of a re-run are complete, the dialog of a
\* run without an error is closed.
Told(r, failed) ==
    /\ runError' = failed
    /\ streaming' = (streaming /\ streams[r].from = Dashboard)
    /\ dialog' = [dialog EXCEPT !.open = @ /\ (failed \/ streams[r].from # Dashboard)]

(* Fault: running is cleared after the loop and not in a finally. *)
EndStream_NoFinally(r, failed) ==
    /\ streams[r].state = "open"
    /\ IF GoesOn(r)
       THEN Visit(r, Over(r))
       ELSE /\ streams' = Over(r)
            /\ IF streams[r].mounted
               THEN running' = (running /\ failed) /\ Told(r, failed)
               ELSE UNCHANGED <<running, runError, streaming, dialog>>
            /\ UNCHANGED <<path, answered, current, leaving, hasLogs>>
    /\ UNCHANGED <<srv, moves>>

\* A stream ends, with an error or without; of a page that was left nothing is
\* there to be told.
EndStream(r, failed) ==
    /\ streams[r].state = "open"
    /\ IF GoesOn(r)
       THEN Visit(r, Over(r))
       ELSE /\ streams' = Over(r)
            /\ IF streams[r].mounted
               THEN running' = FALSE /\ Told(r, failed)
               ELSE UNCHANGED <<running, runError, streaming, dialog>>
            /\ UNCHANGED <<path, answered, current, leaving, hasLogs>>
    /\ UNCHANGED <<srv, moves>>

StreamCompletes(r) ==
    /\ streams[r].heard
    /\ srv[r] = "over"
    /\ EndStream(r, FALSE)
    /\ UNCHANGED faults

StreamFails(r) ==
    /\ faults < MaxFaults
    /\ faults' = faults + 1
    /\ EndStream(r, TRUE)

\* The loop of an aborted stream is left, at its next event or with an error that
\* is not shown.  Its finally clears running, if its page is still there.
AbortedStreamEnds(r) ==
    /\ streams[r].state = "aborting"
    /\ IF GoesOn(r)
       THEN Visit(r, Over(r))
       ELSE /\ streams' = Over(r)
            /\ running' = (running /\ ~streams[r].mounted)
            /\ UNCHANGED <<path, answered, dialog, runError, current, leaving, logs>>
    /\ UNCHANGED <<srv, moves, faults>>

-----------------------------------------------------------------------------
\* The user.

Click == moves < MaxMoves /\ moves' = moves + 1 /\ UNCHANGED <<srv, faults>>

\* A row of the dashboard, the link back to it, or the browser's history, in which
\* any page of the tab may be the next.
Go(to) ==
    /\ to \in Runs => streams[to].heard
    /\ to # path
    /\ Click
    /\ Visit(to, streams)

SetDialog(new) ==
    /\ dialog' = new
    /\ UNCHANGED <<path, answered, hook, logs, leaving, streams>>

OpenDialog ==
    /\ path = Dashboard
    /\ ~dialog.open
    /\ SetDialog([dialog EXCEPT !.open = TRUE])
    /\ UNCHANGED <<srv, moves, faults>>

\* Escape and the backdrop close the dialog even while its run goes on.
CloseDialog ==
    /\ dialog.open
    /\ Click
    /\ SetDialog([dialog EXCEPT !.open = FALSE])

Edit ==
    /\ dialog.open
    /\ Click
    /\ \E text \in {"blank", "given"} : SetDialog([dialog EXCEPT !.text = text])

\* A file is chosen; its text replaces the editor's when it has been read.
HandleFileUpload ==
    /\ dialog.open
    /\ Click
    /\ SetDialog([dialog EXCEPT !.reading = TRUE])

FileRead ==
    /\ dialog.reading
    /\ SetDialog([dialog EXCEPT !.reading = FALSE, !.text = "given"])
    /\ UNCHANGED <<srv, moves, faults>>

\* The banner's button, or the browser's: the tab starts anew where it is, and its
\* streams are dropped with the code that waits for them.
Reload ==
    /\ Click
    /\ Mount
    /\ leaving' = NoRun
    /\ streams' = [r \in Runs |->
                      IF streams[r].state = "none" THEN NoStream
                      ELSE [streams[r] EXCEPT !.state = "over", !.mounted = FALSE]]
    /\ UNCHANGED path

User ==
    \/ \E r \in Runs : HandleRun(r) \/ HandleStartStream(r)
    \/ \E to \in Locations : Go(to)
    \/ OpenDialog
    \/ CloseDialog
    \/ Edit
    \/ HandleFileUpload
    \/ Reload

-----------------------------------------------------------------------------
\* The server.

\* The request of a stream arrives; one whose stream is gone may still arrive.
ServerStarts(r) ==
    /\ streams[r].state # "none"
    /\ srv[r] = "unknown"
    /\ srv' = [srv EXCEPT ![r] = "running"]
    /\ UNCHANGED <<path, page, leaving, streams, moves, faults>>

ServerFinishes(r) ==
    /\ srv[r] = "running"
    /\ srv' = [srv EXCEPT ![r] = "over"]
    /\ UNCHANGED <<path, page, leaving, streams, moves, faults>>

Next ==
    \/ PollAnswers
    \/ Cleanup
    \/ \E r \in Runs : FirstEvent(r) \/ StreamCompletes(r) \/ StreamFails(r)
                       \/ AbortedStreamEnds(r)
    \/ User
    \/ FileRead
    \/ \E r \in Runs : ServerStarts(r) \/ ServerFinishes(r)

Spec == Init /\ [][Next]_vars

\* Effects run, requests arrive, runs end, what was sent is read, an aborted
\* stream's loop is left.  Nothing is assumed of the user.
FairSpec ==
    /\ Spec
    /\ WF_vars(Cleanup)
    /\ \A r \in Runs : /\ WF_vars(ServerStarts(r))
                       /\ WF_vars(ServerFinishes(r))
                       /\ WF_vars(FirstEvent(r))
                       /\ WF_vars(StreamCompletes(r))
                       /\ WF_vars(AbortedStreamEnds(r))

-----------------------------------------------------------------------------
\* The values each variable may take.
TypeOK ==
    /\ path \in Locations
    /\ answered \in BOOLEAN
    /\ dialog \in [open : BOOLEAN, text : {"given", "blank"}, reading : BOOLEAN]
    /\ running \in BOOLEAN
    /\ runError \in BOOLEAN
    /\ current \in Runs \cup {NoRun}
    /\ leaving \in Runs \cup {NoRun}
    /\ hasLogs \in BOOLEAN
    /\ streaming \in BOOLEAN
    /\ streams \in [Runs -> [state : {"none", "open", "aborting", "over"}, mounted : BOOLEAN,
                              from : Locations \cup {"none"}, heard : BOOLEAN]]
    /\ srv \in [Runs -> {"unknown", "running", "over"}]
    /\ moves \in Nat
    /\ faults \in Nat

\* A stream is read only for the component that asked for it, as the last one it
\* asked for, or until the cleanup of a page that was left: a run of the dialog
\* never goes on behind a pipeline's page nor a re-run behind the dashboard.  (run,
\* the cleanup of useRunPipeline.)  From one pipeline's page to another's component
\* and stream stay, so that a re-run's logs are then shown on the other's page.
StreamsAreWatched ==
    \A r \in Runs : streams[r].state = "open" =>
        IF streams[r].mounted
        THEN r = current /\ (streams[r].from = Dashboard <=> path = Dashboard)
        ELSE r = leaving

\* What a page says of its stream is true: it counts as running, which disables its
\* buttons, and shows the indicator over its logs, exactly while its stream is open,
\* whichever of two streams ends first.  (run's finally, complete.)
RunningIsTrue ==
    /\ running <=> \E r \in Runs : streams[r].state = "open" /\ streams[r].mounted
    /\ path # Dashboard => (running <=> hasLogs /\ streaming)

Watched(r) == streams[r].state = "open" /\ streams[r].mounted

\* What the user watches is cut short by nothing but what the user does: a stream
\* that does not end by itself is left by a click or a reload.  The one exception is
\* of the dialog: an earlier run of it, aborted when its page was left, goes on
\* after run() all the same and, if it knows its pipeline, moves the tab there from
\* under a later run.  (handleRun's navigate after the await.)  A re-run on a
\* pipeline's page is never cut so.
StreamsAreNotCut ==
    [][\A r \in Runs :
         Watched(r) /\ ~Watched(r)' =>
            \/ streams'[r].state = "over"
            \/ moves' # moves
            \/ /\ streams[r].from = Dashboard
               /\ \E d \in Runs : /\ streams[d].from = Dashboard
                                  /\ streams[d].heard
                                  /\ ~Watched(d)
                                  /\ streams[d].state # "over"
                                  /\ streams'[d].state = "over"]_vars

\* A run that a page shows as going on is seen to end, or the page is left: the
\* buttons it disables do not stay so.
RunningEnds == running ~> ~running
=============================================================================
