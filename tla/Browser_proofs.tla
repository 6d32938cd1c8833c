---------------------------- MODULE Browser_proofs ----------------------------
(***************************************************************************)
(* Proofs about running pipelines from a tab, for any number of runs, of    *)
(* moves and of lost connections.                                           *)
(***************************************************************************)
EXTENDS Browser, TLAPS

(* The dialog is the dashboard's. *)
DialogAtHome == dialog.open => path = Dashboard

(* A stream that is being aborted is one whose page has been left: run never *)
(* finds a stream to abort, as its button was disabled.                      *)
AbortedAreLeft == \A r \in Runs : streams[r].state = "aborting" => ~streams[r].mounted

(* The page's controller is that of a stream that it opened. *)
CurrentIsOpened ==
    current # NoRun => streams[current].state # "none" /\ streams[current].mounted

(* What a cleanup is to abort is of a page that was left. *)
LeavingIsLeft ==
    leaving # NoRun => streams[leaving].state # "none" /\ ~streams[leaving].mounted

TabInv ==
    /\ TypeOK
    /\ DialogAtHome /\ AbortedAreLeft /\ CurrentIsOpened /\ LeavingIsLeft
    /\ StreamsAreWatched /\ RunningIsTrue

Streams == [Runs -> [state : {"none", "open", "aborting", "over"}, mounted : BOOLEAN,
                     from : Locations \cup {"none"}, heard : BOOLEAN]]

(* A visit that mounts another page. *)
Remounts(to) == to # path /\ Dashboard \in {to, path}

-----------------------------------------------------------------------------
(* No run and no page is "none". *)
LEMMA NoneIsNothing == NoRun \notin Runs /\ Dashboard \notin Runs
  BY PagesAssumption

LEMMA InitTab == Init => TabInv
<1> SUFFICES ASSUME Init PROVE TabInv
  OBVIOUS
<1>1. /\ streams \in Streams
      /\ \A r \in Runs : streams[r].state = "none"
  BY DEF Init, NoStream, Streams
<1>2. TypeOK
  BY <1>1 DEF Init, TypeOK, NoDialog, Locations, Streams
<1>3. QED
  BY <1>1, <1>2
  DEF Init, TabInv, NoDialog, DialogAtHome, AbortedAreLeft, CurrentIsOpened, LeavingIsLeft,
      StreamsAreWatched, RunningIsTrue

(* An abort changes the state of its own stream and nothing else. *)
LEMMA AbortShape ==
    ASSUME NEW s \in Streams, NEW c
    PROVE  /\ Aborted(c, s) \in Streams
           /\ \A r \in Runs :
                 /\ Aborted(c, s)[r].state =
                       IF r = c /\ s[r].state = "open" THEN "aborting" ELSE s[r].state
                 /\ Aborted(c, s)[r].mounted = s[r].mounted
                 /\ Aborted(c, s)[r].from = s[r].from
                 /\ Aborted(c, s)[r].heard = s[r].heard
  BY DEF Streams, Aborted

(* A visit runs the cleanup that is to come, and mounts a page or not. *)
LEMMA VisitShape ==
    ASSUME NEW s \in Streams, NEW to, Visit(to, s)
    PROVE  /\ streams' \in Streams
           /\ \A r \in Runs :
                 /\ streams'[r].state =
                       IF r = leaving /\ s[r].state = "open" THEN "aborting" ELSE s[r].state
                 /\ streams'[r].mounted = (s[r].mounted /\ ~Remounts(to))
                 /\ streams'[r].from = s[r].from
                 /\ streams'[r].heard = s[r].heard
<1> DEFINE a == Aborted(leaving, s)
<1>1. /\ a \in Streams
      /\ \A r \in Runs :
            /\ a[r].state = IF r = leaving /\ s[r].state = "open" THEN "aborting" ELSE s[r].state
            /\ a[r].mounted = s[r].mounted
            /\ a[r].from = s[r].from
            /\ a[r].heard = s[r].heard
  BY AbortShape
<1> HIDE DEF a
<1>2. CASE Remounts(to)
  <2>1. streams' = Unmounted(a)
    BY <1>2 DEF Visit, Remounts, a
  <2>2. streams' = [r \in Runs |-> [a[r] EXCEPT !.mounted = FALSE]]
    BY <2>1 DEF Unmounted
  <2>3. ASSUME NEW r \in Runs
        PROVE  /\ streams'[r] \in [state : {"none", "open", "aborting", "over"},
                                    mounted : BOOLEAN, from : Locations \cup {"none"},
                                    heard : BOOLEAN]
               /\ streams'[r].state = a[r].state
               /\ streams'[r].mounted = FALSE
               /\ streams'[r].from = a[r].from
               /\ streams'[r].heard = a[r].heard
    <3>1. a[r] \in [state : {"none", "open", "aborting", "over"}, mounted : BOOLEAN,
                    from : Locations \cup {"none"}, heard : BOOLEAN]
      BY <1>1 DEF Streams
    <3>2. streams'[r] = [a[r] EXCEPT !.mounted = FALSE]
      BY <2>2, Zenon
    <3>3. QED
      BY <3>1, <3>2
  <2>4. streams' \in Streams
    BY <2>2, <2>3 DEF Streams
  <2>5. QED
    BY <1>1, <1>2, <2>3, <2>4
<1>3. CASE ~Remounts(to)
  <2>1. streams' = a
    BY <1>3 DEF Visit, Remounts, a
  <2>2. \A r \in Runs : s[r].mounted \in BOOLEAN
    BY DEF Streams
  <2>3. QED
    BY <1>1, <1>3, <2>1, <2>2
<1>4. QED
  BY <1>2, <1>3

(* A visit keeps the invariant, if the streams it finds are those of the page *)
(* or without one that has ended, and no stream of a page that stays has.     *)
LEMMA VisitKeeps ==
    ASSUME TabInv, NEW to \in Locations, NEW s \in Streams,
           \A r \in Runs : /\ s[r].state = "open" => streams[r].state = "open"
                           /\ s[r].state = "aborting" => streams[r].state = "aborting"
                           /\ streams[r].state # "none" => s[r].state # "none"
                           /\ s[r].mounted = streams[r].mounted
                           /\ s[r].from = streams[r].from,
           Remounts(to) \/ \A r \in Runs : streams[r].mounted /\ streams[r].state = "open"
                                             => s[r].state = "open",
           Visit(to, s), UNCHANGED srv, moves' \in Nat, faults' \in Nat
    PROVE  TabInv'
<1> USE DEF TabInv
<1>1. /\ streams' \in Streams
      /\ \A r \in Runs :
            /\ streams'[r].state =
                  IF r = leaving /\ s[r].state = "open" THEN "aborting" ELSE s[r].state
            /\ streams'[r].mounted = (s[r].mounted /\ ~Remounts(to))
            /\ streams'[r].from = s[r].from
  BY VisitShape
<1>2. AbortedAreLeft'
  <2> SUFFICES ASSUME NEW r \in Runs, streams'[r].state = "aborting"
               PROVE  ~streams[r].mounted
    BY <1>1 DEF AbortedAreLeft
  <2>1. CASE r = leaving
    BY <2>1, NoneIsNothing DEF LeavingIsLeft
  <2>2. CASE r # leaving
    BY <1>1, <2>2 DEF AbortedAreLeft
  <2>3. QED
    BY <2>1, <2>2
<1>3. CASE Remounts(to)
  <2>1. path' = to /\ leaving' = current /\ Mount
    BY <1>3 DEF Visit, Remounts
  <2>2. TypeOK'
    BY <1>1, <2>1 DEF TypeOK, Mount, NoDialog, Streams
  <2>3. CurrentIsOpened' /\ DialogAtHome'
    BY <2>1 DEF CurrentIsOpened, DialogAtHome, Mount, NoDialog
  <2>4. LeavingIsLeft'
    BY <1>1, <1>3, <2>1 DEF LeavingIsLeft, CurrentIsOpened, TypeOK
  <2>5. StreamsAreWatched'
    <3> SUFFICES ASSUME NEW r \in Runs, streams'[r].state = "open"
                 PROVE  ~streams'[r].mounted /\ r = leaving'
      BY DEF StreamsAreWatched
    <3>1. streams[r].state = "open" /\ r # leaving /\ ~streams'[r].mounted
      BY <1>1, <1>3
    <3>2. r = current
      BY <3>1 DEF StreamsAreWatched
    <3>3. QED
      BY <2>1, <3>1, <3>2
  <2>6. RunningIsTrue'
    BY <1>1, <1>3, <2>1 DEF RunningIsTrue, Mount
  <2>7. QED
    BY <1>2, <2>2, <2>3, <2>4, <2>5, <2>6
<1>4. CASE ~Remounts(to)
  <2>1. /\ path' = to /\ leaving' = NoRun
        /\ UNCHANGED <<answered, dialog, running, runError, current, hasLogs, streaming>>
    BY <1>4 DEF Visit, Remounts, page, hook, logs
  <2>2. TypeOK'
    BY <1>1, <2>1 DEF TypeOK, Streams
  <2>3. path' = Dashboard <=> path = Dashboard
    BY <1>4, <2>1 DEF Remounts
  <2>4. \A r \in Runs : /\ streams'[r].mounted = streams[r].mounted
                        /\ streams'[r].from = streams[r].from
                        /\ streams'[r].state = "open" => streams[r].state = "open" /\ r # leaving
                        /\ streams[r].mounted /\ streams[r].state = "open"
                              => streams'[r].state = "open"
    BY <1>1, <1>4, NoneIsNothing DEF LeavingIsLeft, TypeOK, Streams
  <2>5. CurrentIsOpened' /\ DialogAtHome' /\ LeavingIsLeft'
    <3>1. \A r \in Runs : streams[r].state # "none" => streams'[r].state # "none"
      BY <1>1
    <3>2. CurrentIsOpened'
      BY <2>1, <2>4, <3>1 DEF CurrentIsOpened, TypeOK
    <3>3. QED
      BY <2>1, <2>3, <3>2 DEF DialogAtHome, LeavingIsLeft
  <2>6. StreamsAreWatched'
    BY <2>1, <2>3, <2>4 DEF StreamsAreWatched
  <2>7. RunningIsTrue'
    BY <2>1, <2>3, <2>4 DEF RunningIsTrue
  <2>8. QED
    BY <1>2, <2>2, <2>5, <2>6, <2>7
<1>5. QED
  BY <1>3, <1>4

(* The end of a stream changes its state and nothing else. *)
LEMMA OverTypes ==
    ASSUME TypeOK, NEW r \in Runs
    PROVE  /\ Over(r) \in Streams
           /\ Over(r)[r] = [streams[r] EXCEPT !.state = "over"]
           /\ \A x \in Runs : x # r => Over(r)[x] = streams[x]
           /\ Over(r)[r].state = "over"
           /\ \A x \in Runs : /\ Over(r)[x].mounted = streams[x].mounted
                              /\ Over(r)[x].from = streams[x].from
  BY DEF TypeOK, Over, Streams

(* run() is reached only when nothing that is watched is streaming. *)
LEMMA RunKeeps ==
    ASSUME TabInv, NEW r \in Runs, ~running, Run(r)
    PROVE  /\ streams' \in Streams
           /\ current' = r /\ running' = TRUE /\ runError' = FALSE /\ leaving' = leaving
           /\ streams[r].state = "none"
           /\ streams'[r].state = "open" /\ streams'[r].mounted /\ streams'[r].from = path
           /\ \A x \in Runs : x # r => streams'[x] = streams[x]
           /\ \A x \in Runs : ~Watched(x)
<1>1. streams \in Streams
  BY DEF TabInv, TypeOK, Streams
<1>2. \A x \in Runs : ~Watched(x)
  BY DEF TabInv, RunningIsTrue, Watched
<1>3. \A x \in Runs : x = current => streams[x].state # "open"
  BY <1>2, NoneIsNothing DEF Watched, TabInv, CurrentIsOpened
<1>4. Aborted(current, streams) = streams
  BY <1>1, <1>3 DEF Aborted, Streams
<1>5. /\ streams[r] = NoStream
      /\ streams' = [streams EXCEPT ![r] = [state |-> "open", from |-> path,
                                            mounted |-> TRUE, heard |-> FALSE]]
      /\ current' = r /\ running' = TRUE /\ runError' = FALSE /\ leaving' = leaving
  BY <1>4 DEF Run
<1>6. [state |-> "open", from |-> path, mounted |-> TRUE, heard |-> FALSE]
         \in [state : {"none", "open", "aborting", "over"}, mounted : BOOLEAN,
              from : Locations \cup {"none"}, heard : BOOLEAN]
  BY DEF TabInv, TypeOK
<1>7. /\ streams' \in Streams
      /\ streams'[r] = [state |-> "open", from |-> path, mounted |-> TRUE, heard |-> FALSE]
      /\ \A x \in Runs : x # r => streams'[x] = streams[x]
  BY <1>1, <1>5, <1>6 DEF Streams
<1>8. streams[r].state = "none"
  BY <1>5 DEF NoStream
<1>9. QED
  BY <1>2, <1>5, <1>7, <1>8

(* A run that starts is the one stream its page watches. *)
LEMMA StartKeeps ==
    ASSUME TabInv, NEW r \in Runs, ~running, Run(r),
           UNCHANGED <<path, answered, dialog, srv, moves, faults>>,
           hasLogs' \in BOOLEAN, streaming' \in BOOLEAN,
           path # Dashboard => hasLogs' /\ streaming'
    PROVE  TabInv'
<1> USE DEF TabInv
<1>1. /\ streams' \in Streams
      /\ current' = r /\ running' = TRUE /\ runError' = FALSE /\ leaving' = leaving
      /\ streams[r].state = "none"
      /\ streams'[r].state = "open" /\ streams'[r].mounted /\ streams'[r].from = path
      /\ \A x \in Runs : x # r => streams'[x] = streams[x]
      /\ \A x \in Runs : ~Watched(x)
  BY RunKeeps
<1>2. TypeOK'
  BY <1>1 DEF TypeOK, Streams
<1>3. DialogAtHome' /\ AbortedAreLeft' /\ CurrentIsOpened'
  BY <1>1 DEF DialogAtHome, AbortedAreLeft, CurrentIsOpened
<1>4. LeavingIsLeft'
  BY <1>1 DEF LeavingIsLeft, TypeOK
<1>5. StreamsAreWatched'
  BY <1>1 DEF StreamsAreWatched, Watched
<1>6. RunningIsTrue'
  BY <1>1 DEF RunningIsTrue
<1>7. QED
  BY <1>2, <1>3, <1>4, <1>5, <1>6

-----------------------------------------------------------------------------
LEMMA EndKeeps ==
    ASSUME TabInv, NEW r \in Runs, NEW failed \in BOOLEAN, EndStream(r, failed), faults' \in Nat
    PROVE  TabInv'
<1> USE DEF TabInv
<1>1. streams[r].state = "open" /\ UNCHANGED srv /\ moves' = moves
  BY DEF EndStream
<1>2. /\ Over(r) \in Streams /\ Over(r)[r].state = "over"
      /\ \A x \in Runs : x # r => Over(r)[x] = streams[x]
      /\ \A x \in Runs : /\ Over(r)[x].mounted = streams[x].mounted
                         /\ Over(r)[x].from = streams[x].from
  BY OverTypes
<1>3. \A x \in Runs : Watched(x) => x = current
  BY DEF Watched, StreamsAreWatched
<1>4. CASE GoesOn(r)
  <2>1. Visit(r, Over(r)) /\ r \in Locations /\ moves' \in Nat
    BY <1>1, <1>4 DEF EndStream, Locations, TypeOK
  <2>2. Remounts(r) \/ ~Watched(r)
    BY <1>4, NoneIsNothing DEF GoesOn, Remounts, Watched, StreamsAreWatched
  <2>3. QED
    BY <1>1, <1>2, <2>1, <2>2, VisitKeeps DEF Watched
<1>5. CASE ~GoesOn(r)
  <2>1. /\ streams' = Over(r)
        /\ IF streams[r].mounted
           THEN running' = FALSE /\ Told(r, failed)
           ELSE UNCHANGED <<running, runError, streaming, dialog>>
        /\ UNCHANGED <<path, answered, current, leaving, hasLogs>>
    BY <1>5 DEF EndStream
  <2>2. /\ running' \in BOOLEAN /\ runError' \in BOOLEAN /\ streaming' \in BOOLEAN
        /\ dialog' \in [open : BOOLEAN, text : {"given", "blank"}, reading : BOOLEAN]
        /\ dialog'.open => dialog.open
    <3>1. CASE streams[r].mounted
      BY <2>1, <3>1 DEF Told, TypeOK
    <3>2. CASE ~streams[r].mounted
      BY <2>1, <3>2 DEF TypeOK
    <3>3. QED
      BY <3>1, <3>2
  <2>3. TypeOK'
    BY <1>1, <1>2, <2>1, <2>2 DEF TypeOK, Streams
  <2>4. DialogAtHome' /\ AbortedAreLeft' /\ CurrentIsOpened' /\ LeavingIsLeft'
    BY <1>1, <1>2, <2>1, <2>2
    DEF DialogAtHome, AbortedAreLeft, CurrentIsOpened, LeavingIsLeft, TypeOK
  <2>5. StreamsAreWatched'
    BY <1>2, <2>1 DEF StreamsAreWatched
  <2>6. RunningIsTrue'
    <3>1. CASE streams[r].mounted
      <4>1. \A x \in Runs : ~Watched(x)'
        BY <1>1, <1>2, <1>3, <2>1, <3>1 DEF Watched
      <4>2. path # Dashboard => ~streaming'
        BY <1>1, <2>1, <3>1 DEF Told, StreamsAreWatched
      <4>3. QED
        BY <2>1, <3>1, <4>1, <4>2 DEF RunningIsTrue, Watched
    <3>2. CASE ~streams[r].mounted
      BY <1>2, <2>1, <3>2 DEF RunningIsTrue
    <3>3. QED
      BY <3>1, <3>2
  <2>7. QED
    BY <2>3, <2>4, <2>5, <2>6
<1>6. QED
  BY <1>4, <1>5

LEMMA AbortedEndKeeps ==
    ASSUME TabInv, NEW r \in Runs, AbortedStreamEnds(r)
    PROVE  TabInv'
<1> USE DEF TabInv
<1>1. /\ streams[r].state = "aborting" /\ ~streams[r].mounted
      /\ UNCHANGED <<srv, moves, faults>>
  BY DEF AbortedStreamEnds, AbortedAreLeft
<1>2. /\ Over(r) \in Streams /\ Over(r)[r].state = "over"
      /\ \A x \in Runs : x # r => Over(r)[x] = streams[x]
      /\ \A x \in Runs : /\ Over(r)[x].mounted = streams[x].mounted
                         /\ Over(r)[x].from = streams[x].from
  BY OverTypes
<1>3. moves' \in Nat /\ faults' \in Nat /\ r \in Locations
  BY <1>1 DEF TypeOK, Locations
<1>4. CASE GoesOn(r)
  <2>1. Visit(r, Over(r))
    BY <1>4 DEF AbortedStreamEnds
  <2>2. QED
    BY <1>1, <1>2, <1>3, <2>1, VisitKeeps
<1>5. CASE ~GoesOn(r)
  <2>1. /\ streams' = Over(r) /\ running' = running
        /\ UNCHANGED <<path, answered, dialog, runError, current, leaving, logs>>
    BY <1>1, <1>5 DEF AbortedStreamEnds, TypeOK
  <2>2. TypeOK'
    BY <1>1, <1>2, <2>1 DEF TypeOK, Streams, logs
  <2>3. DialogAtHome' /\ AbortedAreLeft' /\ CurrentIsOpened' /\ LeavingIsLeft'
    BY <1>1, <1>2, <2>1
    DEF DialogAtHome, AbortedAreLeft, CurrentIsOpened, LeavingIsLeft, TypeOK
  <2>4. StreamsAreWatched' /\ RunningIsTrue'
    BY <1>1, <1>2, <2>1 DEF logs, StreamsAreWatched, RunningIsTrue
  <2>5. QED
    BY <2>2, <2>3, <2>4
<1>6. QED
  BY <1>4, <1>5

LEMMA UserKeeps ==
    ASSUME TabInv, User
    PROVE  TabInv'
<1>1. moves \in Nat /\ faults \in Nat
  BY DEF TabInv, TypeOK
<1>2. ASSUME NEW r \in Runs, HandleRun(r) PROVE TabInv'
  <2>1. /\ path = Dashboard /\ ~running /\ Run(r)
        /\ UNCHANGED <<path, answered, dialog, hasLogs, streaming, srv, moves, faults>>
    BY <1>2 DEF HandleRun, RunEnabled, TabInv, DialogAtHome, logs
  <2>2. hasLogs' \in BOOLEAN /\ streaming' \in BOOLEAN
    BY <2>1 DEF TabInv, TypeOK
  <2>3. QED
    BY <2>1, <2>2, StartKeeps
<1>3. ASSUME NEW r \in Runs, HandleStartStream(r) PROVE TabInv'
  <2>1. /\ ~running /\ Run(r) /\ hasLogs' = TRUE /\ streaming' = TRUE
        /\ UNCHANGED <<path, answered, dialog, srv, moves, faults>>
    BY <1>3 DEF HandleStartStream, RerunOffered
  <2>2. QED
    BY <2>1, StartKeeps
<1>4. ASSUME NEW to \in Locations, Go(to) PROVE TabInv'
  <2>1. Visit(to, streams) /\ UNCHANGED srv /\ moves' \in Nat /\ faults' \in Nat
    BY <1>1, <1>4 DEF Go, Click
  <2>2. streams \in Streams
    BY DEF TabInv, TypeOK, Streams
  <2>3. QED
    BY <2>1, <2>2, VisitKeeps
<1>5. CASE OpenDialog \/ CloseDialog \/ Edit \/ HandleFileUpload
  <2>1. /\ UNCHANGED <<path, answered, hook, logs, leaving, streams, srv, faults>>
        /\ moves' \in Nat
    BY <1>1, <1>5 DEF OpenDialog, CloseDialog, Edit, HandleFileUpload, SetDialog, Click
  <2>2. /\ dialog' \in [open : BOOLEAN, text : {"given", "blank"}, reading : BOOLEAN]
        /\ dialog'.open => path = Dashboard
    BY <1>5 DEF OpenDialog, CloseDialog, Edit, HandleFileUpload, SetDialog,
                TabInv, TypeOK, DialogAtHome
  <2>3. TypeOK'
    BY <1>1, <2>1, <2>2 DEF TabInv, TypeOK, hook, logs
  <2>4. QED
    BY <2>1, <2>2, <2>3
    DEF TabInv, hook, logs, DialogAtHome, AbortedAreLeft, CurrentIsOpened, LeavingIsLeft,
        StreamsAreWatched, RunningIsTrue
<1>6. CASE Reload
  <2>1. /\ Mount /\ leaving' = NoRun /\ UNCHANGED <<path, srv, faults>> /\ moves' \in Nat
        /\ streams' = [r \in Runs |->
                          IF streams[r].state = "none" THEN NoStream
                          ELSE [streams[r] EXCEPT !.state = "over", !.mounted = FALSE]]
    <3>1. Click /\ Mount /\ leaving' = NoRun /\ UNCHANGED path
      BY <1>6 DEF Reload
    <3>2. UNCHANGED <<srv, faults>> /\ moves' \in Nat
      BY <1>1, <3>1 DEF Click
    <3>3. QED
      BY <1>6, <3>1, <3>2, Zenon DEF Reload
  <2>2. streams' \in Streams /\ \A r \in Runs : streams'[r].state \in {"none", "over"}
    BY <2>1 DEF TabInv, TypeOK, Streams, NoStream
  <2>3. TypeOK'
    BY <2>1, <2>2 DEF TabInv, TypeOK, Mount, NoDialog, Streams
  <2>4. QED
    BY <2>1, <2>2, <2>3
    DEF TabInv, Mount, NoDialog, DialogAtHome, AbortedAreLeft, CurrentIsOpened, LeavingIsLeft,
        StreamsAreWatched, RunningIsTrue
<1>7. QED
  BY <1>2, <1>3, <1>4, <1>5, <1>6 DEF User

LEMMA StepTab == TabInv /\ [Next]_vars => TabInv'
<1> SUFFICES ASSUME TabInv, [Next]_vars PROVE TabInv'
  OBVIOUS
<1> USE DEF TabInv
<1>1. CASE PollAnswers
  BY <1>1 DEF PollAnswers, TypeOK, hook, logs, DialogAtHome, AbortedAreLeft, CurrentIsOpened, LeavingIsLeft, StreamsAreWatched,
              RunningIsTrue
<1>2. ASSUME NEW r \in Runs, FirstEvent(r) PROVE TabInv'
  <2>1. /\ streams' = [streams EXCEPT ![r].heard = TRUE]
        /\ UNCHANGED <<path, page, leaving, srv, moves, faults>>
    BY <1>2 DEF FirstEvent
  <2>2. /\ streams' \in Streams
        /\ \A x \in Runs : /\ streams'[x].state = streams[x].state
                           /\ streams'[x].mounted = streams[x].mounted
                           /\ streams'[x].from = streams[x].from
    <3>1. streams \in Streams
      BY DEF TypeOK, Streams
    <3> HIDE DEF TabInv
    <3>2. QED
      BY <2>1, <3>1 DEF Streams
  <2>3. TypeOK'
    BY <2>1, <2>2 DEF TypeOK, Streams, page, hook, logs
  <2>4. QED
    BY <2>1, <2>2, <2>3
    DEF page, hook, logs, DialogAtHome, AbortedAreLeft, CurrentIsOpened, LeavingIsLeft,
        StreamsAreWatched, RunningIsTrue
<1>3. ASSUME NEW r \in Runs, StreamCompletes(r) \/ StreamFails(r) PROVE TabInv'
  <2>1. faults' \in Nat /\ (EndStream(r, TRUE) \/ EndStream(r, FALSE))
    <3>1. EndStream(r, TRUE) \/ EndStream(r, FALSE)
      BY <1>3 DEF StreamCompletes, StreamFails
    <3>2. faults' = faults \/ faults' = faults + 1
      BY <1>3 DEF StreamCompletes, StreamFails
    <3>3. faults \in Nat
      BY DEF TypeOK
    <3>4. faults' \in Nat
      BY <3>2, <3>3
    <3>5. QED
      BY <3>1, <3>4
  <2>2. QED
    BY <2>1, EndKeeps
<1>4. ASSUME NEW r \in Runs, AbortedStreamEnds(r) PROVE TabInv'
  BY <1>4, AbortedEndKeeps
<1>5. CASE User
  BY <1>5, UserKeeps
<1>6. CASE FileRead
  <2>1. /\ UNCHANGED <<path, answered, hook, logs, leaving, streams, srv, moves, faults>>
        /\ dialog' \in [open : BOOLEAN, text : {"given", "blank"}, reading : BOOLEAN]
        /\ dialog'.open = dialog.open
    BY <1>6 DEF FileRead, SetDialog, TypeOK
  <2>2. TypeOK'
    BY <2>1 DEF TypeOK, hook, logs
  <2>3. QED
    BY <2>1, <2>2 DEF hook, logs, DialogAtHome, AbortedAreLeft, CurrentIsOpened, LeavingIsLeft,
        StreamsAreWatched, RunningIsTrue
<1>7. ASSUME NEW r \in Runs, ServerStarts(r) \/ ServerFinishes(r) PROVE TabInv'
  <2>1. /\ UNCHANGED <<path, page, leaving, streams, moves, faults>>
        /\ srv' \in [Runs -> {"unknown", "running", "over"}]
    BY <1>7 DEF ServerStarts, ServerFinishes, TypeOK
  <2>2. QED
    BY <2>1 DEF TypeOK, page, hook, logs, DialogAtHome, AbortedAreLeft, CurrentIsOpened, LeavingIsLeft, StreamsAreWatched,
                RunningIsTrue
<1>8. CASE UNCHANGED vars
  BY <1>8 DEF vars, TypeOK, page, hook, logs, DialogAtHome, AbortedAreLeft, CurrentIsOpened, LeavingIsLeft, StreamsAreWatched,
              RunningIsTrue
<1>9. CASE Cleanup
  <2>1. /\ leaving # NoRun /\ leaving' = NoRun
        /\ streams' = Aborted(leaving, streams)
        /\ UNCHANGED <<path, page, srv, moves, faults>>
    BY <1>9 DEF Cleanup
  <2>2. streams \in Streams
    BY DEF TypeOK, Streams
  <2>3. /\ streams' \in Streams
        /\ \A x \in Runs :
              /\ streams'[x].state =
                    IF x = leaving /\ streams[x].state = "open" THEN "aborting"
                    ELSE streams[x].state
              /\ streams'[x].mounted = streams[x].mounted
              /\ streams'[x].from = streams[x].from
    BY <2>1, <2>2, AbortShape
  <2>4. ~streams[leaving].mounted
    BY <2>1 DEF LeavingIsLeft
  <2>5. TypeOK'
    BY <2>1, <2>3 DEF TypeOK, Streams, page, hook, logs
  <2>6. DialogAtHome' /\ AbortedAreLeft' /\ CurrentIsOpened' /\ LeavingIsLeft'
    BY <2>1, <2>3, <2>4
    DEF TypeOK, page, hook, DialogAtHome, AbortedAreLeft, CurrentIsOpened, LeavingIsLeft
  <2>7. StreamsAreWatched' /\ RunningIsTrue'
    BY <2>1, <2>3, <2>4 DEF page, hook, logs, StreamsAreWatched, RunningIsTrue
  <2>8. QED
    BY <2>5, <2>6, <2>7
<1>10. QED
  BY <1>1, <1>2, <1>3, <1>4, <1>5, <1>6, <1>7, <1>8, <1>9 DEF Next

LEMMA TabInvariant == Spec => []TabInv
  BY InitTab, StepTab, PTL DEF Spec

-----------------------------------------------------------------------------
(* The tab's state has its types. *)
THEOREM TypeCorrect == Spec => []TypeOK
<1>1. TabInv => TypeOK
  BY DEF TabInv
<1>2. QED
  BY <1>1, TabInvariant, PTL

(* A stream is read for the component that asked for it, or until its cleanup. *)
THEOREM StreamsStayWatched == Spec => []StreamsAreWatched
<1>1. TabInv => StreamsAreWatched
  BY DEF TabInv
<1>2. QED
  BY <1>1, TabInvariant, PTL

(* What a page says of its stream is true. *)
THEOREM RunningStaysTrue == Spec => []RunningIsTrue
<1>1. TabInv => RunningIsTrue
  BY DEF TabInv
<1>2. QED
  BY <1>1, TabInvariant, PTL

(* A visit at the end of a run leaves what is watched, unless it is to be taken *)
(* from the dashboard.                                                        *)
LEMMA VisitLeaves ==
    ASSUME TabInv, NEW r \in Runs, NEW x \in Runs, x # r, Watched(r), Visit(x, Over(x)),
           ~Watched(r)'
    PROVE  streams[r].from = Dashboard
<1>1. streams[r].state = "open" /\ streams[r].mounted
  BY DEF Watched
<1>2. Over(x) \in Streams /\ Over(x)[r] = streams[r]
  BY OverTypes DEF TabInv
<1>3. /\ streams'[r].state = IF r = leaving /\ streams[r].state = "open" THEN "aborting"
                                                                     ELSE streams[r].state
      /\ streams'[r].mounted = (streams[r].mounted /\ ~Remounts(x))
  BY <1>2, VisitShape
<1>4. r # leaving
  BY <1>1, NoneIsNothing DEF TabInv, LeavingIsLeft
<1>5. Remounts(x)
  BY <1>1, <1>3, <1>4 DEF Watched
<1>6. path = Dashboard
  BY <1>5, NoneIsNothing DEF Remounts
<1>7. QED
  BY <1>1, <1>6 DEF TabInv, StreamsAreWatched

(* Nothing but the user, its own end, or an earlier run of the dialog ends what *)
(* the user watches; the latter never ends a re-run.                            *)
THEOREM StreamsStayUncut == Spec => StreamsAreNotCut
<1> DEFINE Uncut == \A r \in Runs :
         Watched(r) /\ ~Watched(r)' =>
            \/ streams'[r].state = "over"
            \/ moves' # moves
            \/ /\ streams[r].from = Dashboard
               /\ \E d \in Runs : /\ streams[d].from = Dashboard
                                  /\ streams[d].heard
                                  /\ ~Watched(d)
                                  /\ streams[d].state # "over"
                                  /\ streams'[d].state = "over"
<1>1. TabInv /\ [Next]_vars => Uncut
  <2> SUFFICES ASSUME TabInv, [Next]_vars, NEW r \in Runs, Watched(r), ~Watched(r)',
                      streams'[r].state # "over", moves' = moves
               PROVE  /\ streams[r].from = Dashboard
                      /\ \E d \in Runs : /\ streams[d].from = Dashboard
                                         /\ streams[d].heard
                                         /\ ~Watched(d)
                                         /\ streams[d].state # "over"
                                         /\ streams'[d].state = "over"
    OBVIOUS
  <2>1. streams \in Streams /\ streams[r].state = "open" /\ streams[r].mounted /\ r = current
    BY DEF TabInv, TypeOK, Streams, Watched, StreamsAreWatched
  <2>2. ASSUME NEW x \in Runs, StreamCompletes(x) \/ StreamFails(x) \/ AbortedStreamEnds(x)
        PROVE  /\ streams[r].from = Dashboard
               /\ \E d \in Runs : /\ streams[d].from = Dashboard
                                  /\ streams[d].heard
                                  /\ ~Watched(d)
                                  /\ streams[d].state # "over"
                                  /\ streams'[d].state = "over"
    <3>1. /\ Over(x) \in Streams /\ Over(x)[x].state = "over"
          /\ \A y \in Runs : y # x => Over(x)[y] = streams[y]
      BY OverTypes DEF TabInv
    <3>2. streams[x].state \in {"open", "aborting"}
      BY <2>2 DEF StreamCompletes, StreamFails, EndStream, AbortedStreamEnds
    <3>3. IF GoesOn(x) THEN Visit(x, Over(x)) ELSE streams' = Over(x)
      BY <2>2 DEF StreamCompletes, StreamFails, EndStream, AbortedStreamEnds
    <3>4. streams'[x].state = "over"
      <4>1. CASE GoesOn(x)
        BY <3>1, <3>3, <4>1, VisitShape
      <4>2. CASE ~GoesOn(x)
        BY <3>1, <3>3, <4>2
      <4>3. QED
        BY <4>1, <4>2
    <3>5. x # r
      BY <3>4
    <3>6. GoesOn(x) /\ Visit(x, Over(x))
      BY <2>1, <3>1, <3>3, <3>5 DEF Watched
    <3>7. streams[r].from = Dashboard
      BY <3>5, <3>6, VisitLeaves
    <3>8. ~Watched(x)
      BY <2>1, <3>5 DEF TabInv, Watched, StreamsAreWatched
    <3>9. QED
      BY <3>2, <3>4, <3>6, <3>7, <3>8 DEF GoesOn
  <2>3. ASSUME NEW x \in Runs, HandleRun(x) \/ HandleStartStream(x)
        PROVE  FALSE
    <3>1. ~running
      BY <2>3 DEF HandleRun, HandleStartStream, RunEnabled, RerunOffered
    <3>2. QED
      BY <2>1, <3>1 DEF TabInv, RunningIsTrue
  <2>4. CASE Cleanup
    <3>1. streams'[r].state = "open" /\ streams'[r].mounted
      BY <2>1, <2>4, AbortShape, NoneIsNothing DEF Cleanup, TabInv, LeavingIsLeft
    <3>2. QED
      BY <3>1 DEF Watched
  <2>5. ASSUME NEW x \in Runs, FirstEvent(x)
        PROVE  FALSE
    <3>1. streams'[r].state = streams[r].state /\ streams'[r].mounted = streams[r].mounted
      BY <2>1, <2>5 DEF FirstEvent, Streams
    <3>2. QED
      BY <2>1, <3>1 DEF Watched
  <2>6. CASE UNCHANGED streams
    BY <2>6 DEF Watched
  <2>7. CASE Click
    BY <2>7 DEF Click, TabInv, TypeOK
  <2>8. QED
    BY <2>2, <2>3, <2>4, <2>5, <2>6, <2>7
    DEF Next, vars, PollAnswers, User, Go, OpenDialog, CloseDialog, Edit, HandleFileUpload,
        SetDialog, Reload, FileRead, ServerStarts, ServerFinishes
<1>2. QED
  BY <1>1, TabInvariant, PTL DEF Spec, StreamsAreNotCut
=============================================================================
