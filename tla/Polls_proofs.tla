----------------------------- MODULE Polls_proofs -----------------------------
(***************************************************************************)
(* Proofs about the frontend's polls, for any number of pipelines, of moves *)
(* and of requests under way.                                               *)
(***************************************************************************)
EXTENDS Polls, SequenceTheorems, TLAPS

Requests == [target : Locations, live : BOOLEAN,
             answer : {Waiting, Failure} \cup [kind : {"data"}, data : Answers]]

(* A request whose answer will be used is one of the effect that has run last, *)
(* and an answer is about what was asked.                                     *)
Fits(r) ==
    /\ r.live => r.target = polled
    /\ r.answer \notin {Waiting, Failure} => r.answer.data.of = r.target

FlightFits == \A i \in DOMAIN flight : Fits(flight[i])

(* A page without an answer waits for one, or has failed to get it. *)
Excused == data = NoData => loading \/ error

PollInv == TypeOK /\ FlightFits /\ SkeletonIsBacked /\ Excused

-----------------------------------------------------------------------------
(* "none" is no location. *)
LEMMA NoneIsNowhere == "none" \notin Locations
  BY PagesAssumption DEF Locations, Dashboard

(* What is left of a sequence without one of its elements. *)
LEMMA Removal ==
    ASSUME NEW S, NEW s \in Seq(S), NEW i \in 1 .. Len(s)
    PROVE  LET w == SubSeq(s, 1, i - 1) \o SubSeq(s, i + 1, Len(s))
           IN  /\ w \in Seq(S)
               /\ Len(w) = Len(s) - 1
               /\ \A k \in 1 .. Len(w) : w[k] = IF k < i THEN s[k] ELSE s[k + 1]
<1> DEFINE a == SubSeq(s, 1, i - 1)
           b == SubSeq(s, i + 1, Len(s))
<1>1. /\ a \in Seq(S) /\ Len(a) = i - 1
      /\ \A k \in 1 .. i - 1 : a[k] = s[k]
  OBVIOUS
<1>2. /\ b \in Seq(S) /\ Len(b) = Len(s) - i
      /\ \A k \in 1 .. Len(s) - i : b[k] = s[i + k]
  OBVIOUS
<1> HIDE DEF a, b
<1>3. a \o b \in Seq(S) /\ Len(a \o b) = Len(s) - 1
  <2>1. a \o b \in Seq(S) /\ Len(a \o b) = Len(a) + Len(b)
    BY <1>1, <1>2, ConcatProperties
  <2>2. Len(s) \in Nat
    OBVIOUS
  <2>3. QED
    BY <1>1, <1>2, <2>1, <2>2
<1>4. ASSUME NEW k \in 1 .. Len(a \o b)
      PROVE  (a \o b)[k] = IF k < i THEN s[k] ELSE s[k + 1]
  <2>1. CASE k < i
    BY <1>1, <1>2, <2>1
  <2>2. CASE ~(k < i)
    <3>1. k - Len(a) \in 1 .. Len(s) - i /\ i + (k - Len(a)) = k + 1
      BY <1>1, <1>3, <2>2
    <3>2. (a \o b)[k] = b[k - Len(a)]
      BY <1>1, <1>2, <1>3, <2>2
    <3>3. QED
      BY <1>2, <2>2, <3>1, <3>2
  <2>3. QED
    BY <2>1, <2>2
<1>5. QED
  BY <1>3, <1>4 DEF a, b

(* Ending a request keeps the others. *)
LEMMA WithoutKeeps ==
    ASSUME NEW i \in DOMAIN flight, flight \in Seq(Requests)
    PROVE  /\ RemoveAt(flight, i) \in Seq(Requests)
           /\ \A k \in DOMAIN RemoveAt(flight, i) : \E j \in DOMAIN flight : RemoveAt(flight, i)[k] = flight[j]
           /\ \A j \in DOMAIN flight :
                 j # i => \E k \in DOMAIN RemoveAt(flight, i) : RemoveAt(flight, i)[k] = flight[j]
<1>1. i \in 1 .. Len(flight)
  OBVIOUS
<1>2. /\ RemoveAt(flight, i) \in Seq(Requests) /\ Len(RemoveAt(flight, i)) = Len(flight) - 1
      /\ \A k \in 1 .. Len(RemoveAt(flight, i)) :
            RemoveAt(flight, i)[k] = IF k < i THEN flight[k] ELSE flight[k + 1]
  BY <1>1, Removal DEF RemoveAt
<1>3. DOMAIN RemoveAt(flight, i) = 1 .. Len(RemoveAt(flight, i)) /\ DOMAIN flight = 1 .. Len(flight)
  BY <1>2
<1>4. ASSUME NEW k \in DOMAIN RemoveAt(flight, i)
      PROVE  \E j \in DOMAIN flight : RemoveAt(flight, i)[k] = flight[j]
  <2>1. k \in DOMAIN flight /\ k + 1 \in DOMAIN flight
    BY <1>1, <1>2, <1>3
  <2>2. QED
    BY <1>2, <1>3, <2>1
<1>5. ASSUME NEW j \in DOMAIN flight, j # i
      PROVE  \E k \in DOMAIN RemoveAt(flight, i) : RemoveAt(flight, i)[k] = flight[j]
  <2> DEFINE k == IF j < i THEN j ELSE j - 1
  <2>1. k \in DOMAIN RemoveAt(flight, i)
    BY <1>1, <1>2, <1>3, <1>5
  <2>2. RemoveAt(flight, i)[k] = flight[j]
    BY <1>1, <1>2, <1>3, <1>5, <2>1
  <2>3. QED
    BY <2>1, <2>2
<1>6. QED
  BY <1>2, <1>4, <1>5

(* The answer to a request is one, and about its target. *)
LEMMA AnswerFits ==
    ASSUME TypeOK, NEW t \in Locations
    PROVE  /\ Answer(t) \in {Failure} \cup [kind : {"data"}, data : Answers]
           /\ Answer(t) # Failure => Answer(t).data.of = t
<1>1. CASE offline \/ (t # Dashboard /\ t \notin Known)
  BY <1>1 DEF Answer
<1>2. CASE ~(offline \/ (t # Dashboard /\ t \notin Known))
  <2> DEFINE S == IF t = Dashboard THEN Known ELSE {t}
             f == [p \in S |-> srv[p]]
             d == [of |-> t, shows |-> f]
  <2>1. S \in SUBSET Pipelines /\ \A p \in S : p \in Known
    BY <1>2 DEF Known, Locations
  <2>2. f \in [S -> Statuses]
    BY <2>1 DEF Known, Statuses
  <2>3. d \in Answers
    <3>1. CASE t = Dashboard
      <4>1. f \in UNION {[X -> Statuses] : X \in SUBSET Pipelines}
        BY <2>1, <2>2
      <4> HIDE DEF f
      <4>2. QED
        BY <3>1, <4>1 DEF Answers, Summaries
    <3>2. CASE t # Dashboard
      <4>1. t \in Pipelines /\ S = {t}
        BY <3>2 DEF Locations
      <4>2. f \in [{t} -> Statuses]
        BY <2>2, <4>1
      <4> HIDE DEF f
      <4>3. QED
        BY <4>1, <4>2 DEF Answers, StatusResponses
    <3>3. QED
      BY <3>1, <3>2
  <2>4. Answer(t) = [kind |-> "data", data |-> d]
    BY <1>2 DEF Answer
  <2> HIDE DEF d
  <2>5. QED
    <3>1. d.of = t
      BY DEF d
    <3>2. QED
      BY <2>3, <2>4, <3>1
<1>3. QED
  BY <1>1, <1>2

(* An effect that has run has a request of its own, and the requests before it *)
(* are not its.                                                               *)
LEMMA AskedAnew ==
    ASSUME NEW to \in Locations, NEW before \in Seq(Requests),
           \A i \in DOMAIN before : /\ ~before[i].live
                                    /\ before[i].answer \notin {Waiting, Failure}
                                          => before[i].answer.data.of = before[i].target,
           flight' = Append(before, Request(to)), polled' = to, path' = to
    PROVE  flight' \in Seq(Requests) /\ FlightFits' /\ SkeletonIsBacked'
<1> DEFINE n == Len(before) + 1
<1>1. Request(to) \in Requests
  BY DEF Request, Requests
<1>2. /\ flight' \in Seq(Requests) /\ DOMAIN flight' = 1 .. n
      /\ flight'[n] = Request(to)
      /\ \A i \in 1 .. n : i # n => i \in DOMAIN before /\ flight'[i] = before[i]
  BY <1>1
<1>3. FlightFits'
  BY <1>2 DEF FlightFits, Fits, Request
<1>4. SkeletonIsBacked'
  BY <1>2 DEF SkeletonIsBacked, Live, Request
<1>5. QED
  BY <1>2, <1>3, <1>4

(* The effect's cleanup forgets the requests under way and keeps them. *)
LEMMA Forgotten ==
    ASSUME TypeOK, FlightFits
    PROVE  /\ Cancelled \in Seq(Requests)
           /\ \A i \in DOMAIN Cancelled :
                 /\ ~Cancelled[i].live
                 /\ Cancelled[i].answer \notin {Waiting, Failure}
                       => Cancelled[i].answer.data.of = Cancelled[i].target
<1>1. flight \in Seq(Requests)
  BY DEF TypeOK, Requests
<1>2. /\ DOMAIN Cancelled = 1 .. Len(flight)
      /\ \A i \in 1 .. Len(flight) : /\ Cancelled[i] \in Requests
                                     /\ ~Cancelled[i].live
                                     /\ Cancelled[i].answer = flight[i].answer
                                     /\ Cancelled[i].target = flight[i].target
  <2>1. DOMAIN Cancelled = 1 .. Len(flight)
    BY <1>1 DEF Cancelled
  <2>2. ASSUME NEW i \in 1 .. Len(flight)
        PROVE  /\ Cancelled[i] \in Requests
               /\ ~Cancelled[i].live
               /\ Cancelled[i].answer = flight[i].answer
               /\ Cancelled[i].target = flight[i].target
    <3>1. flight[i] \in Requests
      BY <1>1
    <3>2. Cancelled[i] = [flight[i] EXCEPT !.live = FALSE]
      <4>1. i \in DOMAIN flight
        BY <1>1
      <4>2. QED
        BY <4>1, Zenon DEF Cancelled
    <3>3. QED
      BY <3>1, <3>2 DEF Requests
  <2>3. QED
    BY <2>1, <2>2
<1>3. Cancelled \in Seq(Requests)
  BY <1>1, <1>2 DEF Cancelled
<1>4. QED
  BY <1>1, <1>2, <1>3 DEF FlightFits, Fits

-----------------------------------------------------------------------------
LEMMA InitPolls == Init => PollInv
<1> SUFFICES ASSUME Init PROVE PollInv
  OBVIOUS
<1>1. path \in Locations /\ polled = "none" /\ flight = <<>>
  BY DEF Init
<1>2. flight \in Seq(Requests) /\ DOMAIN flight = {}
  BY <1>1
<1>3. TypeOK
  <2>1. moves \in 0 .. MaxMoves
    BY BoundsAssumption DEF Init
  <2>2. srv \in [Pipelines -> {"unknown", "running", "over", "gone"}]
    BY DEF Init
  <2>3. data = NoData /\ error \in BOOLEAN /\ loading \in BOOLEAN /\ offline \in BOOLEAN
    BY DEF Init
  <2>4. QED
    BY <1>1, <1>2, <2>1, <2>2, <2>3 DEF TypeOK, Requests
<1>4. FlightFits /\ SkeletonIsBacked
  BY <1>1, <1>2, NoneIsNowhere DEF FlightFits, SkeletonIsBacked
<1>5. QED
  BY <1>3, <1>4 DEF PollInv, Excused, Init

(* A request's answer is used for the location that is polled, if at all. *)
LEMMA SettleKeeps ==
    ASSUME PollInv, NEW i \in DOMAIN flight, Settle(i)
    PROVE  /\ PollInv'
           /\ data' # data => data'.of = polled
<1> USE DEF PollInv
<1>1. flight \in Seq(Requests) /\ flight[i] \in Requests /\ flight[i].answer # Waiting
  <2>1. flight \in Seq(Requests) /\ flight[i].answer # Waiting
    BY DEF TypeOK, Requests, Settle
  <2>2. QED
    BY <2>1
<1>2. /\ flight' = RemoveAt(flight, i) /\ flight' \in Seq(Requests)
      /\ \A k \in DOMAIN flight' : \E j \in DOMAIN flight : flight'[k] = flight[j]
      /\ \A j \in DOMAIN flight : j # i => \E k \in DOMAIN flight' : flight'[k] = flight[j]
  BY <1>1, WithoutKeeps DEF Settle
<1>3. UNCHANGED <<path, polled, srv, offline, moves>>
  BY DEF Settle
<1>4. FlightFits'
  BY <1>2, <1>3 DEF FlightFits, Fits
<1>5. CASE ~flight[i].live
  <2>1. UNCHANGED <<data, error, loading>>
    BY <1>5 DEF Settle
  <2>2. TypeOK'
    BY <1>2, <1>3, <2>1 DEF TypeOK, Requests
  <2>3. SkeletonIsBacked'
    BY <1>2, <1>3, <1>5, <2>1 DEF SkeletonIsBacked, Live
  <2>4. QED
    BY <1>4, <2>1, <2>2, <2>3 DEF Excused
<1>6. CASE flight[i].live
  <2>1. loading' = FALSE /\ flight[i].target = polled
    BY <1>6 DEF Settle, FlightFits, Fits
  <2>2. CASE flight[i].answer = Failure
    <3>1. error' = TRUE /\ UNCHANGED data
      BY <1>6, <2>2 DEF Settle
    <3>2. TypeOK'
      BY <1>2, <1>3, <2>1, <3>1 DEF TypeOK, Requests
    <3>3. QED
      BY <1>4, <2>1, <3>1, <3>2 DEF Excused, SkeletonIsBacked
  <2>3. CASE flight[i].answer # Failure
    <3>1. data' = flight[i].answer.data /\ error' = FALSE
      BY <1>6, <2>3 DEF Settle
    <3>2. data' \in Answers /\ data'.of = polled
      BY <1>1, <2>1, <2>3, <3>1 DEF Requests, FlightFits, Fits
    <3>3. TypeOK'
      BY <1>2, <1>3, <2>1, <3>1, <3>2 DEF TypeOK, Requests
    <3>4. data' # NoData
      <4>1. polled \in Locations /\ NoData.of = "none"
        BY <1>1, <2>1 DEF Requests, NoData
      <4>2. QED
        BY <3>2, <4>1, NoneIsNowhere
    <3>5. QED
      BY <1>4, <2>1, <3>2, <3>3, <3>4 DEF Excused, SkeletonIsBacked
  <2>4. QED
    BY <2>2, <2>3
<1>7. QED
  BY <1>5, <1>6

(* A change of the location shows no answer to a request sent before it. *)
LEMMA GoKeeps ==
    ASSUME PollInv, NEW to \in Locations, Go(to)
    PROVE  PollInv' /\ (data' = data \/ data' = NoData)
<1> USE DEF PollInv
<1>1. UNCHANGED <<srv, offline>> /\ moves' \in 0 .. MaxMoves
  BY BoundsAssumption DEF Go, TypeOK
<1>2. CASE Dashboard \in {to, path}
  <2>1. /\ path' = to /\ polled' = "none" /\ flight' = Cancelled
        /\ data' = NoData /\ error' = FALSE /\ loading' = TRUE
    BY <1>2 DEF Go, Mount
  <2>2. FlightFits' /\ SkeletonIsBacked'
    BY <2>1, Forgotten, NoneIsNowhere DEF FlightFits, Fits, SkeletonIsBacked
  <2>3. TypeOK' /\ Excused'
    BY <1>1, <2>1, Forgotten DEF TypeOK, Excused, Requests
  <2>4. QED
    BY <2>1, <2>2, <2>3
<1>3. CASE Dashboard \notin {to, path}
  <2>1. path' = to /\ UNCHANGED <<polled, data, error, loading, flight>>
    BY <1>3 DEF Go, poll
  <2>2. polled' # path'
    BY <2>1 DEF Go
  <2>3. FlightFits' /\ SkeletonIsBacked'
    BY <2>1, <2>2 DEF FlightFits, Fits, SkeletonIsBacked
  <2>4. TypeOK' /\ Excused'
    BY <1>1, <2>1 DEF TypeOK, Excused
  <2>5. QED
    BY <2>1, <2>3, <2>4
<1>4. QED
  BY <1>2, <1>3

LEMMA StepPolls ==
    ASSUME PollInv, [Next]_vars
    PROVE  /\ PollInv'
           /\ polled = path /\ data' # data => data' = NoData \/ data'.of = path'
<1> USE DEF PollInv
<1>1. CASE Tick
  <2> DEFINE n == Len(flight) + 1
  <2>1. /\ flight' = Append(flight, Request(polled))
        /\ UNCHANGED <<path, polled, data, error, loading, srv, offline, moves>>
    BY <1>1 DEF Tick
  <2>2. flight \in Seq(Requests) /\ Request(polled) \in Requests
    <3>1. polled \in Locations
      BY <1>1 DEF Tick, TypeOK
    <3>2. QED
      BY <3>1 DEF TypeOK, Request, Requests
  <2>3. /\ flight' \in Seq(Requests) /\ DOMAIN flight' = 1 .. n
        /\ flight'[n] = Request(polled)
        /\ \A i \in 1 .. n : i # n => i \in DOMAIN flight /\ flight'[i] = flight[i]
        /\ \A i \in DOMAIN flight : i \in 1 .. n /\ flight'[i] = flight[i]
    BY <2>1, <2>2
  <2>4. FlightFits' /\ SkeletonIsBacked'
    BY <2>1, <2>3 DEF FlightFits, Fits, SkeletonIsBacked, Live, Request
  <2>5. TypeOK' /\ Excused'
    BY <2>1, <2>3 DEF TypeOK, Excused, Requests
  <2>6. QED
    BY <2>1, <2>4, <2>5
<1>2. ASSUME NEW i \in DOMAIN flight, Respond(i)
      PROVE  PollInv' /\ data' = data
  <2>1. /\ flight' = [flight EXCEPT ![i].answer = Answer(flight[i].target)]
        /\ UNCHANGED <<path, polled, data, error, loading, srv, offline, moves>>
    BY <1>2 DEF Respond
  <2>2. flight \in Seq(Requests) /\ flight[i] \in Requests
    <3>1. flight \in Seq(Requests)
      BY DEF TypeOK, Requests
    <3>2. QED
      BY <3>1
  <2> DEFINE a == Answer(flight[i].target)
  <2>3. /\ a \in {Failure} \cup [kind : {"data"}, data : Answers]
        /\ a # Failure => a.data.of = flight[i].target
    BY <2>2, AnswerFits DEF Requests
  <2> HIDE DEF a
  <2>4. flight' = [flight EXCEPT ![i] = [flight[i] EXCEPT !.answer = a]]
    BY <2>1 DEF a
  <2>5. /\ flight' \in Seq(Requests) /\ DOMAIN flight' = DOMAIN flight
        /\ flight'[i] = [flight[i] EXCEPT !.answer = a]
        /\ \A k \in DOMAIN flight : k # i => flight'[k] = flight[k]
    <3>1. [flight[i] EXCEPT !.answer = a] \in Requests
      BY <2>2, <2>3 DEF Requests
    <3>2. QED
      BY <2>2, <2>4, <3>1
  <2>6. /\ flight'[i].live = flight[i].live /\ flight'[i].target = flight[i].target
        /\ flight'[i].answer = a
    BY <2>2, <2>5 DEF Requests
  <2>7. FlightFits'
    BY <2>1, <2>3, <2>5, <2>6 DEF FlightFits, Fits
  <2>8. SkeletonIsBacked'
    BY <2>1, <2>5, <2>6 DEF SkeletonIsBacked, Live
  <2>9. TypeOK' /\ Excused'
    BY <2>1, <2>5 DEF TypeOK, Excused, Requests
  <2>10. QED
    BY <2>1, <2>7, <2>8, <2>9
<1>3. ASSUME NEW i \in DOMAIN flight, Settle(i)
      PROVE  PollInv' /\ (polled = path /\ data' # data => data'.of = path')
  <2>1. path' = path
    BY <1>3 DEF Settle
  <2>2. QED
    BY <1>3, <2>1, SettleKeeps
<1>4. ASSUME NEW to \in Locations, Go(to)
      PROVE  PollInv' /\ (data' = data \/ data' = NoData)
  BY <1>4, GoKeeps
<1>5. CASE BackToDashboard \/ \E p \in Pipelines : HandleRowClick(p) \/ Elsewhere(p)
  <2>1. PICK to \in Locations : Go(to)
    BY <1>5 DEF BackToDashboard, HandleRowClick, Elsewhere, Locations
  <2>2. QED
    BY <1>4, <2>1
<1>6. CASE Reload
  <2>1. /\ path' = path /\ polled' = "none" /\ flight' = <<>>
        /\ data' = NoData /\ error' = FALSE /\ loading' = TRUE
        /\ UNCHANGED <<srv, offline>>
    BY <1>6 DEF Reload, Mount
  <2>2. moves' \in 0 .. MaxMoves
    BY <1>6, BoundsAssumption DEF Reload, TypeOK
  <2>3. flight' \in Seq(Requests) /\ DOMAIN flight' = {}
    BY <2>1
  <2>4. FlightFits' /\ SkeletonIsBacked'
    BY <2>1, <2>3, NoneIsNowhere DEF FlightFits, SkeletonIsBacked, TypeOK
  <2>5. TypeOK' /\ Excused'
    BY <2>1, <2>2, <2>3 DEF TypeOK, Excused, Requests
  <2>6. QED
    BY <2>1, <2>4, <2>5
<1>7. CASE GoOffline \/ GoOnline \/
           \E p \in Pipelines : ServerRuns(p) \/ ServerEnds(p) \/ ServerPrunes(p)
  <2>1. /\ UNCHANGED <<path, polled, poll, moves>> /\ offline' \in BOOLEAN
        /\ srv' \in [Pipelines -> {"unknown", "running", "over", "gone"}]
    BY <1>7 DEF GoOffline, GoOnline, ServerRuns, ServerEnds, ServerPrunes, TypeOK
  <2>2. QED
    BY <2>1 DEF TypeOK, FlightFits, Fits, SkeletonIsBacked, Live, Excused, poll
<1>8. CASE UNCHANGED vars
  BY <1>8 DEF vars, poll, TypeOK, FlightFits, Fits, SkeletonIsBacked, Live, Excused
<1>9. CASE RunEffects
  <2>1. /\ polled' = path /\ flight' = Append(Cancelled, Request(path))
        /\ UNCHANGED <<path, data, error, loading, srv, offline, moves>>
    BY <1>9 DEF RunEffects
  <2>2. path \in Locations /\ path' = path
    BY <2>1 DEF TypeOK
  <2>3. flight' \in Seq(Requests) /\ FlightFits' /\ SkeletonIsBacked'
    BY <2>1, <2>2, Forgotten, AskedAnew
  <2>4. TypeOK' /\ Excused'
    BY <2>1, <2>2, <2>3 DEF TypeOK, Excused, Requests
  <2>5. QED
    BY <2>1, <2>3, <2>4
<1>10. QED
  BY <1>1, <1>2, <1>3, <1>5, <1>6, <1>7, <1>8, <1>9 DEF Next

LEMMA PollInvariant == Spec => []PollInv
<1>1. PollInv /\ [Next]_vars => PollInv'
  BY StepPolls
<1>2. QED
  BY <1>1, InitPolls, PTL DEF Spec

-----------------------------------------------------------------------------
(* The pages' state and the requests under way have their types. *)
THEOREM TypeCorrect == Spec => []TypeOK
<1>1. PollInv => TypeOK
  BY DEF PollInv
<1>2. QED
  BY <1>1, PollInvariant, PTL

(* A page that shows its skeleton has its effect still to run, or a request of *)
(* its own under way.                                                         *)
THEOREM SkeletonsAreBacked == Spec => []SkeletonIsBacked
<1>1. PollInv => SkeletonIsBacked
  BY DEF PollInv
<1>2. QED
  BY <1>1, PollInvariant, PTL

(* No page claims that there is nothing before it has an answer. *)
THEOREM ClaimsHaveAnswers == Spec => []ClaimsAreAnswered
<1>1. PollInv => ClaimsAreAnswered
  BY DEF PollInv, Excused, TypeOK, ClaimsAreAnswered, ListShows, DetailShows
<1>2. QED
  BY <1>1, PollInvariant, PTL

(* Between an effect's run and the next move no answer to a request for another *)
(* location than the one that is shown becomes the page's data, however many    *)
(* requests are under way and however late they answer.                         *)
THEOREM AnswersAreOwn == Spec => NoForeignAnswers
<1>1. PollInv /\ [Next]_vars
         => (polled = path /\ data' # data => data' = NoData \/ data'.of = path')
  BY StepPolls
<1>2. QED
  BY <1>1, PollInvariant, PTL DEF Spec, NoForeignAnswers
=============================================================================
