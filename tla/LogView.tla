------------------------------- MODULE LogView -------------------------------
(***************************************************************************)
(* The way of a log line: the engine's eventLogAdapter cuts what a step     *)
(* writes into chunks, each an event of the run's stream; useLogStream      *)
(* turns the events that arrive into entries; LogViewer shows the entries   *)
(* that pass its filters and follows their end.                             *)
(*                                                                          *)
(* Text is a sequence of bytes, of which the newline matters and the two    *)
(* halves of a character of two bytes: the engine cuts between bytes, and   *)
(* useLogStream decodes every chunk by itself.  A character of three or four *)
(* bytes may leave fewer replacement characters than it has bytes, and the  *)
(* byte order mark that a decoder takes from the front of a chunk is left   *)
(* out.                                                                     *)
(* The position of the list is the number of rows above its lower edge.     *)
(***************************************************************************)
EXTENDS Naturals, Sequences, FiniteSets, SequencesExt, FiniteSetsExt

CONSTANTS
    Names,       \* of jobs and steps
    Characters,  \* what texts are made of: bytes, and what replaces them
    Wide,        \* the characters of two bytes, a pair each
    Jobs,        \* names of jobs
    Programs,    \* what each job does: a sequence of events and writes
    MaxChunk,    \* maxLogChunkSize
    Window,      \* bound: events a stream holds before Send blocks
    Slack,       \* rows within the 80 pixels in which the list counts as at its end
    MaxActs      \* bound: what the user does

VARIABLES
    left,        \* what each job has still to do
    wire,        \* events sent and not yet received
    phase,       \* of the run: "idle", "open", "ended"
    failed,      \* the stream ended with an error
    entries, jobNames, stepNames, seenJobs, seenSteps, streaming, pipelineStatus,
    viewer,      \* the viewer's state, or Closed
    acts

\* The events of a run's stream.  A log event's data is what a step wrote, or a
\* part of it.
EventTypes ==
    {"pipeline_started", "pipeline_finished", "job_started", "job_finished", "job_skipped",
     "step_started", "step_log", "step_finished"}

Events ==
    [type : EventTypes, job : Names, step : Names, stderr : BOOLEAN, data : Seq(Characters)]

NoName == ""
NL == "nl"
Replaced == "replaced"   \* U+FFFD
Halves == {w[1] : w \in Wide} \cup {w[2] : w \in Wide}

\* The banner of a lifecycle event counts as one character, its type.
ASSUME NamesAssumption == NoName \in Names /\ EventTypes \subseteq Characters
ASSUME WideAssumption ==
    /\ Wide \subseteq Characters \X Characters
    /\ Replaced \in Characters
    /\ Halves \cap ({NL, Replaced} \cup EventTypes) = {}
    /\ {w[1] : w \in Wide} \cap {w[2] : w \in Wide} = {}

\* A job's program is of its own events, and the run's first and last event are
\* the engine's.
ASSUME ProgramsAssumption ==
    /\ Programs \in [Jobs -> Seq(Events)]
    /\ \A j \in Jobs : \A i \in DOMAIN Programs[j] :
          /\ Programs[j][i].job = j
          /\ Programs[j][i].type \notin {"pipeline_started", "pipeline_finished"}
ASSUME BoundsAssumption ==
    /\ MaxChunk \in Nat \ {0}
    /\ Window \in Nat /\ Slack \in Nat /\ MaxActs \in Nat

stream == <<left, wire, phase, failed>>
logs == <<entries, jobNames, stepNames, seenJobs, seenSteps, streaming, pipelineStatus>>
vars == <<stream, logs, viewer, acts>>

Event(type, job, step) ==
    [type |-> type, job |-> job, step |-> step, stderr |-> FALSE, data |-> <<>>]
Write(job, step, stderr, data) ==
    [type |-> "step_log", job |-> job, step |-> step, stderr |-> stderr, data |-> data]

Started == Event("pipeline_started", NoName, NoName)
Finished == Event("pipeline_finished", NoName, NoName)

-----------------------------------------------------------------------------
\* useLogStream: an event becomes entries.

\* What the decoder makes of the data of one event, by itself: half a character
\* is replaced.
WholeAt(data, i) == i \in 1 .. Len(data) - 1 /\ <<data[i], data[i + 1]>> \in Wide
Torn(data, i) == data[i] \in Halves /\ ~WholeAt(data, i) /\ ~WholeAt(data, i - 1)
Decoded(data) == [i \in 1 .. Len(data) |-> IF Torn(data, i) THEN Replaced ELSE data[i]]

\* The decoded data cut at newlines: a newline begins a piece, another character
\* goes to the last one.
SplitAt(data) ==
    LET pieces[i \in 0 .. Len(data)] ==
            IF i = 0 THEN << <<>> >>
            ELSE LET before == pieces[i - 1]
                 IN IF data[i] = NL THEN Append(before, <<>>)
                    ELSE Append(Front(before), Append(Last(before), data[i]))
    IN pieces[Len(data)]

(* Fault: the last piece is dropped whether or not it is empty. *)
LinesOf_DropsLast(data) == Front(SplitAt(data))

\* An empty last piece is dropped.
LinesOf(data) ==
    LET pieces == SplitAt(data)
    IN IF Last(pieces) = <<>> THEN Front(pieces) ELSE pieces

Entry(e, text) ==
    [type |-> e.type, job |-> e.job, step |-> e.step, stderr |-> e.stderr, text |-> text]

\* A lifecycle event's entry is its banner; the banner's wording is its type.
NewEntries(e) ==
    IF e.type = "step_log"
    THEN LET texts == LinesOf(Decoded(e.data)) IN [k \in 1 .. Len(texts) |-> Entry(e, texts[k])]
    ELSE <<Entry(e, <<e.type>>)>>

\* A name is listed the first time it is seen.
Noted(names, seen, n) == IF n = NoName \/ n \in seen THEN names ELSE Append(names, n)
Remembered(seen, n) == IF n = NoName THEN seen ELSE seen \cup {n}

\* The engine gives its first event no status, so it always passes the test that
\* makes the pipeline a running one.
Push(e) ==
    /\ jobNames' = Noted(jobNames, seenJobs, e.job)
    /\ seenJobs' = Remembered(seenJobs, e.job)
    /\ stepNames' = Noted(stepNames, seenSteps, e.step)
    /\ seenSteps' = Remembered(seenSteps, e.step)
    /\ pipelineStatus' = CASE e.type = "pipeline_started"  -> "running"
                           [] e.type = "pipeline_finished" -> "finished"
                           [] OTHER                        -> pipelineStatus
    /\ entries' = entries \o NewEntries(e)
    /\ UNCHANGED streaming

Complete ==
    /\ streaming' = FALSE
    /\ UNCHANGED <<entries, jobNames, stepNames, seenJobs, seenSteps, pipelineStatus>>

Reset ==
    /\ entries' = <<>>
    /\ jobNames' = <<>>
    /\ stepNames' = <<>>
    /\ seenJobs' = {}
    /\ seenSteps' = {}
    /\ streaming' = TRUE
    /\ pipelineStatus' = "unspecified"

-----------------------------------------------------------------------------
\* The viewer.

Closed == [open |-> FALSE]
NewViewer ==
    [open |-> TRUE, jobFilter |-> NoName, stepFilter |-> NoName, showStderr |-> TRUE,
     query |-> "", autoScroll |-> TRUE, bottom |-> 0, follow |-> FALSE, scrolled |-> FALSE]

\* filterEntries, for one entry.
Passes(e, job, step, showStderr, query) ==
    /\ job = NoName \/ e.job = NoName \/ e.job = job
    /\ step = NoName \/ e.step = NoName \/ e.step = step
    /\ showStderr \/ ~e.stderr \/ e.type # "step_log"
    /\ query = "" \/ \E i \in DOMAIN e.text : e.text[i] = query

\* The entries that are shown, by their places in the log.
Shown(es, v) ==
    {i \in DOMAIN es : Passes(es[i], v.jobFilter, v.stepFilter, v.showStderr, v.query)}

Rows(es, v) == Cardinality(Shown(es, v))

\* The steps offered: of the selected job, or all.
ScopedStepNames(v) ==
    IF v.jobFilter = NoName
    THEN ToSet(stepNames)
    ELSE {e.step : e \in {x \in ToSet(entries) : x.job = v.jobFilter}} \ {NoName}

(* Fault: the effect depends on autoScroll only. *)
Rendered_AutoScrollOnly(v, es, w, es2) ==
    LET ran == IF v.follow THEN Rows(es, v) ELSE w.bottom
        bottom == Min({ran, Rows(es2, w)})
    IN [w EXCEPT !.bottom = bottom,
                 !.scrolled = w.scrolled \/ bottom # v.bottom,
                 !.follow = w.autoScroll # v.autoScroll /\ w.autoScroll]

\* The rows change from es to es2 or the state from v to w: React first runs the
\* effect of the render before, then renders, and keeps an effect for later if
\* the number of rows or autoScroll has changed.  The browser announces every
\* change of the position, its own corrections included.
Rendered(v, es, w, es2) ==
    LET ran == IF v.follow THEN Rows(es, v) ELSE w.bottom
        bottom == Min({ran, Rows(es2, w)})
        changed == Rows(es2, w) # Rows(es, v) \/ w.autoScroll # v.autoScroll
    IN [w EXCEPT !.bottom = bottom,
                 !.scrolled = w.scrolled \/ bottom # v.bottom,
                 !.follow = changed /\ w.autoScroll]

\* A render of the same entries with another state of the viewer.
Shows(w) == viewer' = Rendered(viewer, entries, w, entries)

\* The viewer, if it is open, when entries change under it.
Rerendered == IF viewer.open THEN Rendered(viewer, entries, viewer, entries') ELSE viewer

-----------------------------------------------------------------------------
Init ==
    /\ left = Programs
    /\ wire = <<>>
    /\ phase = "idle"
    /\ failed = FALSE
    /\ entries = <<>>
    /\ jobNames = <<>>
    /\ stepNames = <<>>
    /\ seenJobs = {}
    /\ seenSteps = {}
    /\ streaming = TRUE
    /\ pipelineStatus = "unspecified"
    /\ viewer = Closed
    /\ acts = 0

\* The re-run button: clear the logs, open the stream.
StartStream ==
    /\ phase = "idle"
    /\ Reset
    /\ phase' = "open"
    /\ wire' = <<Started>>
    /\ UNCHANGED <<left, failed, viewer, acts>>

\* A write that is too long for one event is cut.
Chunk(e) == [e EXCEPT !.data = SubSeq(@, 1, MaxChunk)]
Rest(e) == [e EXCEPT !.data = SubSeq(@, MaxChunk + 1, Len(@))]

\* A job sends its next event, or the next chunk of its next write.
Emit(j) ==
    /\ phase = "open"
    /\ left[j] # <<>>
    /\ Len(wire) < Window
    /\ LET e == Head(left[j])
           cut == e.type = "step_log" /\ Len(e.data) > MaxChunk
       IN /\ wire' = Append(wire, IF cut THEN Chunk(e) ELSE e)
          /\ left' = [left EXCEPT ![j] = IF cut THEN <<Rest(e)>> \o Tail(@) ELSE Tail(@)]
    /\ UNCHANGED <<phase, failed, logs, viewer, acts>>

\* The engine's last event, after those of all jobs.
EmitFinished ==
    /\ phase = "open"
    /\ pipelineStatus # "finished"
    /\ \A j \in Jobs : left[j] = <<>>
    /\ \A i \in DOMAIN wire : wire[i] # Finished
    /\ Len(wire) < Window
    /\ wire' = Append(wire, Finished)
    /\ UNCHANGED <<left, phase, failed, logs, viewer, acts>>

Receive ==
    /\ phase = "open"
    /\ wire # <<>>
    /\ Push(Head(wire))
    /\ wire' = Tail(wire)
    /\ viewer' = Rerendered
    /\ UNCHANGED <<left, phase, failed, acts>>

\* onComplete: the server has closed the stream after its last event.
EndOfStream ==
    /\ phase = "open"
    /\ wire = <<>>
    /\ pipelineStatus = "finished"
    /\ Complete
    /\ phase' = "ended"
    /\ UNCHANGED <<left, wire, failed, viewer, acts>>

\* onError: the connection breaks, and what was on its way is lost.
StreamBreaks ==
    /\ phase = "open"
    /\ Complete
    /\ phase' = "ended"
    /\ failed' = TRUE
    /\ wire' = <<>>
    /\ UNCHANGED <<left, viewer, acts>>

-----------------------------------------------------------------------------
\* What the user does.
Act ==
    /\ acts < MaxActs
    /\ acts' = acts + 1
    /\ UNCHANGED <<stream, logs>>

\* The logs tab mounts the viewer, another tab unmounts it.
OpenTab ==
    /\ Act
    /\ phase # "idle"
    /\ ~viewer.open
    /\ viewer' = [NewViewer EXCEPT !.follow = TRUE]

CloseTab ==
    /\ Act
    /\ viewer.open
    /\ viewer' = Closed

(* Fault: the step filter is not reset. *)
SelectJob_KeepsStep(j) ==
    /\ viewer.open
    /\ Act
    /\ j # viewer.jobFilter
    /\ Shows([viewer EXCEPT !.jobFilter = j])

\* Another job: the effect on jobFilter clears the step filter before the next
\* event of the page.
SelectJob(j) ==
    /\ viewer.open
    /\ Act
    /\ j # viewer.jobFilter
    /\ Shows([viewer EXCEPT !.jobFilter = j, !.stepFilter = NoName])

SelectStep(s) ==
    /\ viewer.open
    /\ Act
    /\ s # viewer.stepFilter
    /\ Shows([viewer EXCEPT !.stepFilter = s])

ToggleStderr ==
    /\ viewer.open
    /\ Act
    /\ Shows([viewer EXCEPT !.showStderr = ~@])

Search(q) ==
    /\ viewer.open
    /\ Act
    /\ q # viewer.query
    /\ Shows([viewer EXCEPT !.query = q])

\* The wheel: the position changes, the page hears of it later.
Scroll(to) ==
    /\ viewer.open
    /\ Act
    /\ to # viewer.bottom
    /\ viewer' = [viewer EXCEPT !.bottom = to, !.scrolled = TRUE]

\* The button that a list which does not follow offers.
ScrollToBottom ==
    /\ viewer.open
    /\ Act
    /\ ~viewer.autoScroll
    /\ Shows([viewer EXCEPT !.autoScroll = TRUE, !.bottom = Rows(entries, viewer),
                            !.scrolled = TRUE])

User ==
    \/ OpenTab \/ CloseTab
    \/ \E j \in ToSet(jobNames) \cup {NoName} : SelectJob(j)
    \/ viewer.open /\ \E s \in ScopedStepNames(viewer) \cup {NoName} : SelectStep(s)
    \/ ToggleStderr
    \/ \E q \in {"", "x"} : Search(q)
    \/ viewer.open /\ \E to \in 0 .. Rows(entries, viewer) : Scroll(to)
    \/ ScrollToBottom

\* handleScroll: whether the list follows is read off its position.
HandleScroll ==
    /\ viewer.open
    /\ viewer.scrolled
    /\ \E atEnd \in BOOLEAN :
          /\ atEnd <=> Rows(entries, viewer) <= viewer.bottom + Slack
          /\ Shows([viewer EXCEPT !.scrolled = FALSE, !.autoScroll = atEnd])
    /\ UNCHANGED <<stream, logs, acts>>

(* Fault: the effect sets a state of its own, and so runs again. *)
FollowEffect_Loops ==
    /\ viewer.open
    /\ viewer.follow
    /\ viewer' = [viewer EXCEPT !.bottom = Rows(entries, viewer),
                                !.scrolled = @ \/ viewer.bottom # Rows(entries, viewer)]
    /\ UNCHANGED <<stream, logs, acts>>

\* The effect that scrolls to the end.
FollowEffect ==
    /\ viewer.open
    /\ viewer.follow
    /\ viewer' = [viewer EXCEPT !.follow = FALSE,
                                !.bottom = Rows(entries, viewer),
                                !.scrolled = @ \/ viewer.bottom # Rows(entries, viewer)]
    /\ UNCHANGED <<stream, logs, acts>>

Next ==
    \/ StartStream
    \/ \E j \in Jobs : Emit(j)
    \/ EmitFinished
    \/ Receive
    \/ EndOfStream
    \/ StreamBreaks
    \/ User
    \/ HandleScroll
    \/ FollowEffect

Spec == Init /\ [][Next]_vars

\* Jobs run on, the connection delivers, the browser runs effects and handlers.
FairSpec ==
    /\ Spec
    /\ \A j \in Jobs : WF_vars(Emit(j))
    /\ WF_vars(EmitFinished)
    /\ WF_vars(Receive)
    /\ WF_vars(EndOfStream)
    /\ WF_vars(HandleScroll)
    /\ WF_vars(FollowEffect)

-----------------------------------------------------------------------------
Steps == UNION {{e.step : e \in ToSet(Programs[j])} : j \in Jobs}
Quiet == viewer.open /\ ~viewer.follow /\ ~viewer.scrolled

\* The characters of a text, newlines apart.
Clean(data) == FlattenSeq([i \in DOMAIN data |-> IF data[i] = NL THEN <<>> ELSE <<data[i]>>])

\* An event or an entry of one of a step's outputs.
IsOutput(e, job, step, stderr) ==
    e.type = "step_log" /\ e.job = job /\ e.step = step /\ e.stderr = stderr

\* What an event carries of an output, and what an entry displays of it.
Carried(e, job, step, stderr) ==
    IF IsOutput(e, job, step, stderr) THEN Clean(e.data) ELSE <<>>
Displayed(e, job, step, stderr) ==
    IF IsOutput(e, job, step, stderr) THEN e.text ELSE <<>>

\* What the events of es write to an output, and what the entries show of it.
Sent(es, job, step, stderr) ==
    FlattenSeq([i \in DOMAIN es |-> Carried(es[i], job, step, stderr)])

OutputOf(job, step, stderr) == Sent(Programs[job], job, step, stderr)

ShownOf(es, job, step, stderr) ==
    FlattenSeq([i \in DOMAIN es |-> Displayed(es[i], job, step, stderr)])

\* A text is shown for a text when it has its length and its bytes, but for halves
\* of characters that were replaced.
ShowsByte(a, b) == a = b \/ (a = Replaced /\ b \in Halves)
ShownFor(shown, written) ==
    /\ Len(shown) = Len(written)
    /\ \A i \in 1 .. Len(shown) : ShowsByte(shown[i], written[i])

\* No character of the output is cut, whether by what hands a write over or by
\* the engine.
Whole(e) == Len(e.data) <= MaxChunk /\ Decoded(e.data) = e.data
WholeWrites(job, step, stderr) ==
    \A i \in DOMAIN Programs[job] :
        IsOutput(Programs[job][i], job, step, stderr) => Whole(Programs[job][i])

\* Each output of a step is shown in the order it was written and with nothing
\* lost or doubled, whatever chunks it was cut into and whatever other jobs
\* write between them, but for a character that a cut divides, whose bytes come
\* out as replacement characters; once the stream has ended without an error all
\* of it is.  Where no write is too long for one event the text is exact.
\* (eventLogAdapter.Write, push.)
TextKept ==
    \A j \in Jobs, s \in Steps, err \in BOOLEAN :
        LET shown == ShownOf(entries, j, s, err)
            written == OutputOf(j, s, err)
        IN /\ Len(shown) <= Len(written)
           /\ ShownFor(shown, SubSeq(written, 1, Len(shown)))
           /\ phase = "ended" /\ ~failed => Len(shown) = Len(written)
           /\ WholeWrites(j, s, err) => IsPrefix(shown, written)

\* What is selected is among what is offered: no filter of another job's step
\* stays behind when the job changes.
SelectionOffered ==
    viewer.open =>
        /\ viewer.jobFilter \in ToSet(jobNames) \cup {NoName}
        /\ viewer.stepFilter \in ScopedStepNames(viewer) \cup {NoName}

\* A list that follows the end is at its end as soon as the effects and the
\* scroll events under way are done, whatever rows came or went meanwhile.
FollowingIsAtTheEnd ==
    Quiet /\ viewer.autoScroll => Rows(entries, viewer) <= viewer.bottom + Slack

\* The effect that scrolls and the event that the scrolling causes do not chase
\* each other: the list comes to rest.
ComesToRest == <>[](viewer.open => Quiet)

\* How many of them are still to come if no line arrives and the user rests: the
\* effect that is pending and the event that is announced, the event that moving
\* the list will cause, and the effect of following again.
Unrest ==
    LET One(p) == IF p THEN 1 ELSE 0
        away == One(viewer.bottom # Rows(entries, viewer))
    IN IF ~viewer.open THEN 0
       ELSE IF viewer.follow THEN 1 + One(viewer.scrolled) + away
       ELSE IF viewer.scrolled THEN 1 + One(~viewer.autoScroll) + away
       ELSE 0

\* Each of them leaves fewer to come: three at most.
EffectsRunOut ==
    [][HandleScroll \/ FollowEffect => Unrest' < Unrest]_vars
=============================================================================
