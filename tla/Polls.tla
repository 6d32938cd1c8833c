-------------------------------- MODULE Polls --------------------------------
(***************************************************************************)
(* The polls of the web frontend: useListPipelines on the dashboard and     *)
(* usePipelineStatus on a pipeline's page, as the location changes under    *)
(* them, and what the two pages show of their answers.                      *)
(*                                                                          *)
(* Of the server a pipeline is "unknown" before it is run, then "running",  *)
(* "over", and "gone" once it is pruned; the connection is external.        *)
(* React's state updates of one callback are one step, as React batches     *)
(* them; what waits for a promise or a timer is a step of its own, and so   *)
(* are the passive effects, which run some time after the page is shown and *)
(* before React renders again.                                              *)
(***************************************************************************)
EXTENDS Naturals, Sequences, SequencesExt

CONSTANTS
    Pipelines,   \* ids of pipelines
    MaxMoves,    \* bound: changes of the location, and reloads
    MaxFlight    \* bound: requests under way when a timer starts another

VARIABLES
    path,        \* the location: Dashboard, or a pipeline's page
    polled,      \* the location that the mounted page's effect polls, or "none"
    data,        \* of the mounted page: the last answer
    error,       \* of the mounted page: the last request failed
    loading,     \* of the mounted page: no request has ended
    flight,      \* requests under way, oldest first
    srv,         \* the server's view of each pipeline
    offline,     \* no request reaches the server
    moves

poll == <<data, error, loading, flight>>
vars == <<path, polled, poll, srv, offline, moves>>

Dashboard == "/"
Locations == {Dashboard} \cup Pipelines

\* An id is neither the dashboard's location nor that of no answer.
ASSUME PagesAssumption == {Dashboard, "none"} \cap Pipelines = {}
ASSUME BoundsAssumption == MaxMoves \in Nat /\ MaxFlight \in Nat

NoData == [of |-> "none"]
Waiting == [kind |-> "waiting"]
Failure == [kind |-> "failure"]

-----------------------------------------------------------------------------
\* The requests.

\* The statuses of a pipeline that a poll may tell; which end it came to does not
\* matter here.
Statuses == {"running", "over"}

\* The answers: summaries of the known pipelines, or one pipeline's status.
Summaries == [of : {Dashboard}, shows : UNION {[S -> Statuses] : S \in SUBSET Pipelines}]
StatusResponses == UNION {[of : {p}, shows : [{p} -> Statuses]] : p \in Pipelines}
Answers == Summaries \cup StatusResponses

Known == {p \in Pipelines : srv[p] \in {"running", "over"}}

\* ListPipelines' summaries, or GetPipelineStatus; a pipeline the server does
\* not know is an error.
Answer(target) ==
    IF offline \/ (target # Dashboard /\ target \notin Known)
    THEN Failure
    ELSE [kind |-> "data",
          data |-> [of |-> target,
                    shows |-> [p \in IF target = Dashboard THEN Known ELSE {target} |->
                                  srv[p]]]]

Request(target) == [target |-> target, answer |-> Waiting, live |-> TRUE]

Live == {i \in DOMAIN flight : flight[i].live}

\* The cleanup of the polling effect: no answer under way is used any more.
Cancelled == [i \in DOMAIN flight |-> [flight[i] EXCEPT !.live = FALSE]]

\* A page is mounted: new state, and no effect has run yet.  Requests of the page
\* before it may still be under way; there is no state left for their answers.
Mount(to, before) ==
    /\ path' = to
    /\ polled' = "none"
    /\ data' = NoData
    /\ error' = FALSE
    /\ loading' = TRUE
    /\ flight' = before

Init ==
    /\ path \in Locations
    /\ polled = "none"
    /\ data = NoData
    /\ error = FALSE
    /\ loading = TRUE
    /\ flight = <<>>
    /\ srv \in [Pipelines -> {"unknown", "running"}]
    /\ offline = FALSE
    /\ moves = 0

\* The passive effects of a page that is mounted or of another id: the cleanup of
\* the effect before, then the first request for what is now shown.
RunEffects ==
    /\ polled # path
    /\ polled' = path
    /\ flight' = Append(Cancelled, Request(path))
    /\ UNCHANGED <<path, data, error, loading, srv, offline, moves>>

\* setInterval: another request, whether or not those before have ended.  Until
\* the effects have run it is the timer of the location before.
Tick ==
    /\ polled # "none"
    /\ Len(flight) < MaxFlight
    /\ flight' = Append(flight, Request(polled))
    /\ UNCHANGED <<path, polled, data, error, loading, srv, offline, moves>>

\* The server answers, or the request fails.
Respond(i) ==
    /\ flight[i].answer = Waiting
    /\ flight' = [flight EXCEPT ![i].answer = Answer(flight[i].target)]
    /\ UNCHANGED <<path, polled, data, error, loading, srv, offline, moves>>

(* Fault: an answer is used although the effect that asked was cleaned up. *)
Settle_NotCancelled(i) ==
    /\ flight[i].answer # Waiting
    /\ flight' = RemoveAt(flight, i)
    /\ loading' = FALSE
    /\ IF flight[i].answer = Failure
       THEN error' = TRUE /\ UNCHANGED data
       ELSE data' = flight[i].answer.data /\ error' = FALSE
    /\ UNCHANGED <<path, polled, srv, offline, moves>>

(* Fault: an answer does not clear the error before it. *)
Settle_KeepsError(i) ==
    /\ flight[i].answer # Waiting
    /\ flight' = RemoveAt(flight, i)
    /\ IF flight[i].live
       THEN /\ loading' = FALSE
            /\ IF flight[i].answer = Failure
               THEN error' = TRUE /\ UNCHANGED data
               ELSE data' = flight[i].answer.data /\ UNCHANGED error
       ELSE UNCHANGED <<data, error, loading>>
    /\ UNCHANGED <<path, polled, srv, offline, moves>>

\* The request's promise settles; answers may overtake each other.
Settle(i) ==
    /\ flight[i].answer # Waiting
    /\ flight' = RemoveAt(flight, i)
    /\ IF flight[i].live
       THEN /\ loading' = FALSE
            /\ IF flight[i].answer = Failure
               THEN error' = TRUE /\ UNCHANGED data
               ELSE data' = flight[i].answer.data /\ error' = FALSE
       ELSE UNCHANGED <<data, error, loading>>
    /\ UNCHANGED <<path, polled, srv, offline, moves>>

-----------------------------------------------------------------------------
\* The pages.

\* What the dashboard shows below its heading.
ListShows ==
    (IF error THEN {"error"} ELSE {}) \cup
    (IF loading THEN {"skeleton"}
     ELSE IF data = NoData \/ data.shows = << >>
          THEN IF error THEN {} ELSE {"no pipelines"}
          ELSE {"rows"})

\* What a pipeline's page shows: 404, or the heading over the jobs.
DetailShows ==
    IF data = NoData
    THEN IF loading THEN {"skeleton"} ELSE IF error THEN {"404"} ELSE {"no jobs"}
    ELSE {"status", "jobs"}

\* The rows of the table, or the cards of a small screen.
Rows == IF path = Dashboard /\ "rows" \in ListShows THEN DOMAIN data.shows ELSE {}

\* The router shows another location, once the effects of the one before have run.
\* From one pipeline's page to another's the component stays with its state, and
\* its polls go on for the id before until the effect is run anew.
Go(to) ==
    /\ moves < MaxMoves
    /\ polled = path
    /\ to # path
    /\ IF Dashboard \in {to, path}
       THEN Mount(to, Cancelled)
       ELSE path' = to /\ UNCHANGED <<polled, poll>>
    /\ moves' = moves + 1
    /\ UNCHANGED <<srv, offline>>

HandleRowClick(p) == p \in Rows /\ Go(p)
BackToDashboard == path # Dashboard /\ Go(Dashboard)

\* The browser's history, or a run of the dialog that ends.
Elsewhere(p) == Go(p)

\* The banner's button, or the browser's: the tab starts anew where it is, and
\* its requests are dropped with the code that waits for them.
Reload ==
    /\ moves < MaxMoves
    /\ Mount(path, <<>>)
    /\ moves' = moves + 1
    /\ UNCHANGED <<srv, offline>>

-----------------------------------------------------------------------------
\* The server and the connection.

\* RunPipeline registers the run before its engine starts.
ServerRuns(p) ==
    /\ srv[p] = "unknown"
    /\ srv' = [srv EXCEPT ![p] = "running"]
    /\ UNCHANGED <<path, polled, poll, offline, moves>>

ServerEnds(p) ==
    /\ srv[p] = "running"
    /\ srv' = [srv EXCEPT ![p] = "over"]
    /\ UNCHANGED <<path, polled, poll, offline, moves>>

ServerPrunes(p) ==
    /\ srv[p] = "over"
    /\ srv' = [srv EXCEPT ![p] = "gone"]
    /\ UNCHANGED <<path, polled, poll, offline, moves>>

GoOffline ==
    /\ ~offline
    /\ offline' = TRUE
    /\ UNCHANGED <<path, polled, poll, srv, moves>>

\* The banner's Retry reloads the page; the polls recover by themselves.
GoOnline ==
    /\ offline
    /\ offline' = FALSE
    /\ UNCHANGED <<path, polled, poll, srv, moves>>

Next ==
    \/ RunEffects
    \/ Tick
    \/ \E i \in DOMAIN flight : Respond(i) \/ Settle(i)
    \/ BackToDashboard
    \/ \E p \in Pipelines : HandleRowClick(p) \/ Elsewhere(p)
    \/ Reload
    \/ \E p \in Pipelines : ServerRuns(p) \/ ServerEnds(p) \/ ServerPrunes(p)
    \/ GoOffline
    \/ GoOnline

Spec == Init /\ [][Next]_vars

\* Effects run, timers fire and every request ends.  Nothing is assumed of the user, of the
\* server's pipelines or of the connection.
FairSpec ==
    /\ Spec
    /\ WF_vars(RunEffects)
    /\ WF_vars(Tick)
    /\ WF_vars(flight # <<>> /\ Respond(1))
    /\ WF_vars(flight # <<>> /\ Settle(1))

-----------------------------------------------------------------------------
\* The values each variable may take.
TypeOK ==
    /\ path \in Locations
    /\ polled \in Locations \cup {"none"}
    /\ data \in {NoData} \cup Answers
    /\ error \in BOOLEAN
    /\ loading \in BOOLEAN
    /\ flight \in Seq([target : Locations, live : BOOLEAN,
                       answer : {Waiting, Failure} \cup [kind : {"data"}, data : Answers]])
    /\ srv \in [Pipelines -> {"unknown", "running", "over", "gone"}]
    /\ offline \in BOOLEAN
    /\ moves \in 0 .. MaxMoves

\* While a page shows its skeleton its effect is still to run or a request of its
\* own is under way, although the effect may be cleaned up between a request and
\* its answer.
SkeletonIsBacked ==
    loading => polled # path \/ \E i \in Live : flight[i].target = path

\* A page never claims what it has no answer for: the dashboard says that there
\* are no pipelines, and a pipeline's page that it has no jobs, only after an
\* answer; the 404 page stands for an error and never for an answer not yet there.
ClaimsAreAnswered ==
    IF path = Dashboard
    THEN "no pipelines" \in ListShows => data # NoData
    ELSE "no jobs" \notin DetailShows /\ ("404" \in DetailShows => error)

\* Once the effect of a location has run, no answer to a request for another is
\* taken for this one's, although requests outlive the effect that sent them (the
\* cancelled flag).  Before it has run, and until this location's first answer, a
\* pipeline's page that was another's does show the other's data and may still
\* take its answers: usePipelineStatus keeps its state when the id changes.
NoForeignAnswers ==
    [][polled = path /\ data' # data => data' = NoData \/ data'.of = path']_vars

ShowsOver(p) ==
    /\ data # NoData
    /\ ~error
    /\ data.of = path
    /\ \E x \in DOMAIN data.shows : x = p /\ data.shows[x] = "over"

\* However answers overtake each other and whatever failed before, the page of a
\* pipeline that stays over, and the dashboard, come to show that it is, and go on
\* to do so: there is no state, 404 included, that the next polls do not leave.
SettlesOnFinal ==
    \A p \in Pipelines :
        <>[](path \in {p, Dashboard} /\ srv[p] = "over" /\ ~offline)
            => <>[]ShowsOver(p)
=============================================================================
