---------------------------- MODULE Server_proofs ----------------------------
(***************************************************************************)
(* Proofs about the server's registry and its RPCs, for any number of runs *)
(* and of calls.                                                           *)
(***************************************************************************)
EXTENDS Server, TLAPS

Ended == {"ended", "chosen", "finished", "leaving", "closed", "returned"}

(* EndedAt is only written once the jobs are over. *)
EndedLate == \A r \in Runs : endedAt[r] # "zero" => pc[r] \in Ended

(* What the handler's place says of the pipeline's status. *)
StatusAt ==
    \A r \in Runs :
        /\ pc[r] \in {"called", "rejected", "registered"} => status[r] = "pending"
        /\ pc[r] \in {"jobEnding", "chosen"} => chosen[r] \in Final
        /\ pc[r] = "finished" => status[r] \in Final
        /\ pc[r] \in {"leaving", "closed", "returned"} => status[r] \in Final \cup {"pending"}

(* done is closed last, and a refused cancellation has seen it closed. *)
DoneLate  == \A r \in done : pc[r] \in {"closed", "returned"}
Refusals  == \A c \in Cancelers : cancel[c].at = "completed" => cancel[c].run \in done

(* A list begins with nothing found. *)
ListsFresh == \A l \in Listers : list[l].at = "idle" => list[l].found = {}

ServerInv ==
    /\ TypeOK
    /\ EndedLate /\ ActiveRunsKnown
    /\ StatusAt /\ DoneLate /\ Refusals
    /\ ContextHasCause
    /\ ListsFresh /\ ListSeesAll

RunStep(r) == Handler(r) \/ Engine(r) \/ Disconnect(r) \/ Ages(r)

-----------------------------------------------------------------------------
(* The initial state satisfies the invariant. *)
LEMMA InitInv == Init => ServerInv
  BY DEF Init, ServerInv, TypeOK, RunsTyped, CallsTyped, CancelCalls, WatchCalls, ListCalls, RunPcs,
         Statuses, Final, Answers, Replies,
         EndedLate, ActiveRunsKnown, StatusAt, DoneLate, Refusals, ContextHasCause, ListsFresh, ListSeesAll

(* The steps of a run keep the types, and leave the calls alone. *)
LEMMA RunTypes ==
    ASSUME TypeOK, StatusAt, NEW r \in Runs, RunStep(r)
    PROVE  TypeOK' /\ UNCHANGED callVars
<1>1. UNCHANGED callVars
  BY DEF RunStep, Handler, Reject, Register, CannotRun, CloseDone, Return, Engine, Execute, JobStarts,
         JobOutcome, JobEnds, WriteEndedAt, Choose, StoreStatus, Executed, Disconnect, Ages
<1>2. CallsTyped'
  BY <1>1 DEF callVars, TypeOK, CallsTyped
<1> USE DEF TypeOK, RunsTyped, At, RunPcs, Final, Statuses
<1>3. CASE Handler(r)
  BY <1>2, <1>3 DEF Handler, Reject, Register, CannotRun, CloseDone, Return
<1>4. CASE Execute(r) \/ JobStarts(r)
  BY <1>2, <1>4 DEF Execute, JobStarts
<1>5. CASE JobOutcome(r)
  BY <1>2, <1>5 DEF JobOutcome
<1>6. CASE JobEnds(r)
  BY <1>2, <1>6 DEF JobEnds, StatusAt
<1>7. CASE WriteEndedAt(r)
  BY <1>2, <1>7 DEF WriteEndedAt
<1>8. CASE Choose(r)
  BY <1>2, <1>8 DEF Choose
<1>9. CASE StoreStatus(r)
  BY <1>2, <1>9 DEF StoreStatus, StatusAt
<1>10. CASE Executed(r)
  BY <1>2, <1>10 DEF Executed
<1>11. CASE Disconnect(r) \/ Ages(r)
  BY <1>2, <1>11 DEF Disconnect, Ages
<1>12. QED
  BY <1>1, <1>3, <1>4, <1>5, <1>6, <1>7, <1>8, <1>9, <1>10, <1>11 DEF RunStep, Engine

(* What the calls do: a step of one of them keeps the types and leaves the *)
(* runs alone.                                                             *)
CallStep ==
    \/ \E c \in Cancelers : CancelCall(c)
    \/ \E w \in Watchers : WatchCall(w)
    \/ \E l \in Listers : ListCall(l)

LEMMA ReadsTyped ==
    ASSUME TypeOK, StatusAt, NEW r \in Runs
    PROVE  JobReads(r) \subseteq Answers /\ StatusReads(r) \subseteq Answers
  BY DEF JobReads, StatusReads, Torn, TypeOK, RunsTyped, Answers

LEMMA CallTypes ==
    ASSUME TypeOK, StatusAt, CallStep
    PROVE  TypeOK' /\ UNCHANGED <<runVars, registry>>
<1>1. ASSUME NEW c \in Cancelers, CancelCall(c)
      PROVE  TypeOK' /\ UNCHANGED <<runVars, registry>>
  <2>1. UNCHANGED <<runVars, registry, watch, list>>
    BY <1>1 DEF CancelCall, CancelLookup, CancelSelect, CancelContext
  <2>2. ctxDone' \subseteq Runs
    BY <1>1 DEF CancelCall, CancelLookup, CancelSelect, CancelContext, TypeOK, RunsTyped, CallsTyped
  <2>3. RunsTyped'
    BY <2>1, <2>2 DEF TypeOK, RunsTyped, runVars
  <2>4. PICK call \in CancelCalls :
          call.run \in Runs /\ cancel' = [cancel EXCEPT ![c] = call]
    <3>1. cancel[c] \in CancelCalls /\ (cancel[c].at # "idle" => cancel[c].run \in Runs)
      BY DEF TypeOK, CallsTyped
    <3>2. CASE \E r \in Runs : CancelLookup(c, r)
      <4>1. PICK r \in Runs : CancelLookup(c, r)
        BY <3>2
      <4> DEFINE found == [at |-> "found", run |-> r]
                 lost  == [at |-> "notFound", run |-> r]
      <4>2. found \in CancelCalls /\ lost \in CancelCalls /\ found.run = r /\ lost.run = r
        BY DEF CancelCalls, Replies
      <4>3. cancel' = [cancel EXCEPT ![c] = found] \/ cancel' = [cancel EXCEPT ![c] = lost]
        BY <4>1 DEF CancelLookup
      <4> HIDE DEF found, lost
      <4>4. QED
        BY <4>2, <4>3
    <3>3. CASE CancelSelect(c)
      BY <3>1, <3>3 DEF CancelSelect, CancelCalls, Replies
    <3>4. CASE CancelContext(c)
      BY <3>1, <3>4 DEF CancelContext, CancelCalls, Replies
    <3>5. QED
      BY <1>1, <3>2, <3>3, <3>4 DEF CancelCall
  <2>5. CallsTyped'
    BY <2>1, <2>4 DEF TypeOK, CallsTyped
  <2>6. QED
    BY <2>1, <2>3, <2>5 DEF TypeOK
<1>2. ASSUME NEW w \in Watchers, WatchCall(w)
      PROVE  TypeOK' /\ UNCHANGED <<runVars, registry>>
  <2>1. UNCHANGED <<runVars, registry, ctxDone, cancel, list>>
    BY <1>2 DEF WatchCall, WatchLookup, ReadJobs, ReadStatus
  <2>2. RunsTyped'
    BY <2>1 DEF TypeOK, RunsTyped, runVars
  <2>3. CASE \E r \in Runs : WatchLookup(w, r)
    BY <2>1, <2>2, <2>3 DEF WatchLookup, TypeOK, CallsTyped, WatchCalls
  <2>4. CASE ReadJobs(w) \/ ReadStatus(w)
    <3>1. watch[w].run \in Runs
      BY <2>4 DEF ReadJobs, ReadStatus, TypeOK, CallsTyped
    <3>2. JobReads(watch[w].run) \subseteq Answers /\ StatusReads(watch[w].run) \subseteq Answers
      BY <3>1, ReadsTyped
    <3>3. QED
      BY <2>1, <2>2, <2>4, <3>2 DEF ReadJobs, ReadStatus, TypeOK, CallsTyped, WatchCalls
  <2>5. QED
    BY <1>2, <2>1, <2>3, <2>4 DEF WatchCall
<1>3. ASSUME NEW l \in Listers, ListCall(l)
      PROVE  TypeOK' /\ UNCHANGED <<runVars, registry>>
  <2>1. UNCHANGED <<runVars, registry, ctxDone, cancel, watch>>
    BY <1>3 DEF ListCall, ListLock, Filter, Summarise, ListUnlock
  <2>2. RunsTyped'
    BY <2>1 DEF TypeOK, RunsTyped, runVars
  <2>3. PICK call \in ListCalls :
          /\ call.at = "matched" => call.run \in Runs
          /\ list' = [list EXCEPT ![l] = call]
    <3>1. list[l] \in ListCalls /\ (list[l].at = "matched" => list[l].run \in Runs)
      BY DEF TypeOK, CallsTyped
    <3>2. CASE \E f \in Filters : ListLock(l, f)
      <4>1. PICK f \in Filters : ListLock(l, f)
        BY <3>2
      <4> DEFINE call == [list[l] EXCEPT !.at = "walking", !.filter = f, !.todo = registry]
      <4>2. call \in ListCalls /\ call.at = "walking"
        <5>1. f \in Answers
          BY ServerAssumption
        <5>2. QED
          BY <3>1, <5>1 DEF ListCalls, TypeOK, RunsTyped
      <4>3. list' = [list EXCEPT ![l] = call]
        BY <4>1 DEF ListLock, TypeOK, CallsTyped
      <4> HIDE DEF call
      <4>4. QED
        BY <4>2, <4>3
    <3>3. CASE \E r \in Runs : Filter(l, r)
      <4>1. PICK r \in Runs, at \in {"walking", "matched"} :
              list' = [list EXCEPT ![l].todo = @ \ {r}, ![l].run = r, ![l].at = at]
        BY <3>3 DEF Filter
      <4> DEFINE call == [list[l] EXCEPT !.todo = @ \ {r}, !.run = r, !.at = at]
      <4>2. call \in ListCalls /\ call.run \in Runs
        BY <3>1 DEF ListCalls
      <4>3. list' = [list EXCEPT ![l] = call]
        BY <4>1 DEF TypeOK, CallsTyped
      <4> HIDE DEF call
      <4>4. QED
        BY <4>2, <4>3
    <3>4. CASE Summarise(l)
      <4>1. list[l].run \in Runs
        BY <3>1, <3>4 DEF Summarise
      <4>2. PICK s \in Answers :
              list' = [list EXCEPT ![l].at = "walking",
                                   ![l].found = @ \cup {[run |-> list[l].run, status |-> s]}]
        BY <3>4, <4>1, ReadsTyped DEF Summarise
      <4>3. QED
        <5> DEFINE call == [list[l] EXCEPT !.at = "walking",
                                           !.found = @ \cup {[run |-> list[l].run, status |-> s]}]
        <5>1. [run |-> list[l].run, status |-> s] \in [run : Runs, status : Answers]
          BY <4>1
        <5>2. call \in ListCalls /\ call.at = "walking"
          BY <3>1, <5>1 DEF ListCalls
        <5>3. list' = [list EXCEPT ![l] = call]
          BY <4>2 DEF TypeOK, CallsTyped
        <5> HIDE DEF call
        <5>4. QED
          BY <5>2, <5>3
    <3>5. CASE ListUnlock(l)
      BY <3>1, <3>5 DEF ListUnlock, ListCalls
    <3>6. QED
      BY <1>3, <3>2, <3>3, <3>4, <3>5 DEF ListCall
  <2>4. CallsTyped'
    BY <2>1, <2>3 DEF TypeOK, CallsTyped
  <2>5. QED
    BY <2>1, <2>2, <2>4 DEF TypeOK
<1>4. QED
  BY <1>1, <1>2, <1>3 DEF CallStep

(* Pruning takes runs from the registry whose jobs are over. *)
LEMMA Pruning ==
    ASSUME TypeOK, EndedLate, PruneOldRuns
    PROVE  /\ UNCHANGED <<runVars, ctxDone, callVars>>
           /\ registry' \subseteq registry
           /\ \A r \in registry \ registry' : pc[r] \in Ended \cup {"joined"}
           /\ ~ReadLocked
           /\ TypeOK'
<1>1. PICK torn \in SUBSET HalfWritten :
        /\ ~ReadLocked
        /\ registry' = registry \ (Prunable \cup torn)
        /\ UNCHANGED <<runVars, ctxDone, callVars>>
  BY DEF PruneOldRuns
<1>2. \A r \in registry \ registry' : pc[r] \in Ended \cup {"joined"}
  BY <1>1 DEF Prunable, HalfWritten, EndedLate, TypeOK, RunsTyped
<1>3. RunsTyped' /\ CallsTyped'
  BY <1>1 DEF TypeOK, RunsTyped, CallsTyped, runVars, callVars
<1>4. QED
  BY <1>1, <1>2, <1>3 DEF TypeOK

-----------------------------------------------------------------------------
(* The steps of Next, by the part of the system that takes them. *)
LEMMA Steps ==
    ASSUME Next
    PROVE  (\E r \in Runs : RunStep(r)) \/ PruneOldRuns \/ CallStep
  BY DEF Next, RunStep, CallStep

(* Where a run is and what it has written keep fitting together. *)
LEMMA RunKeepsFields ==
    ASSUME ServerInv, NEW r \in Runs, RunStep(r)
    PROVE  EndedLate' /\ StatusAt' /\ ActiveRunsKnown' /\ DoneLate'
<1> USE DEF ServerInv, TypeOK, RunsTyped, At, Ended, Final, EndedLate, StatusAt, ActiveRunsKnown,
            DoneLate
<1>1. CASE Handler(r)
  BY <1>1 DEF Handler, Reject, Register, CannotRun, CloseDone, Return
<1>2. CASE Execute(r) \/ JobStarts(r)
  BY <1>2 DEF Execute, JobStarts
<1>3. CASE JobOutcome(r) \/ JobEnds(r)
  BY <1>3 DEF JobOutcome, JobEnds
<1>4. CASE WriteEndedAt(r) \/ Choose(r)
  <2>1. CASE WriteEndedAt(r)
    BY <2>1 DEF WriteEndedAt
  <2>2. CASE Choose(r)
    BY <2>2 DEF Choose
  <2>3. QED
    BY <1>4, <2>1, <2>2
<1>5. CASE StoreStatus(r) \/ Executed(r)
  BY <1>5 DEF StoreStatus, Executed
<1>6. CASE Disconnect(r) \/ Ages(r)
  BY <1>6 DEF Disconnect, Ages
<1>7. QED
  BY <1>1, <1>2, <1>3, <1>4, <1>5, <1>6 DEF RunStep, Engine

(* What a run's step does to the calls' facts: done and the contexts only  *)
(* grow, and the registry grows only while no list is being made.          *)
LEMMA RunKeepsCalls ==
    ASSUME ServerInv, NEW r \in Runs, RunStep(r)
    PROVE  Refusals' /\ ContextHasCause' /\ ListsFresh' /\ ListSeesAll'
<1>1. UNCHANGED callVars
  BY RunTypes DEF ServerInv
<1>2. done \subseteq done' /\ gone \subseteq gone'
  BY DEF RunStep, Handler, Reject, Register, CannotRun, CloseDone, Return, Engine, Execute, JobStarts,
         JobOutcome, JobEnds, WriteEndedAt, Choose, StoreStatus, Executed, Disconnect, Ages
<1>3. Refusals'
  BY <1>1, <1>2 DEF ServerInv, Refusals, callVars
<1>4. ContextHasCause'
  <2>1. \A q \in Runs : pc[q] = "returned" => pc'[q] = "returned"
    BY DEF RunStep, Handler, Reject, Register, CannotRun, CloseDone, Return, Engine, Execute,
           JobStarts, JobOutcome, JobEnds, WriteEndedAt, Choose, StoreStatus, Executed, Disconnect,
           Ages, At, ServerInv, TypeOK, RunsTyped
  <2>2. ctxDone' \subseteq ctxDone \cup gone' \cup {q \in Runs : pc'[q] = "returned"}
    BY DEF RunStep, Handler, Reject, Register, CannotRun, CloseDone, Return, Engine, Execute,
           JobStarts, JobOutcome, JobEnds, WriteEndedAt, Choose, StoreStatus, Executed, Disconnect,
           Ages, At, ServerInv, TypeOK, RunsTyped
  <2>3. QED
    BY <1>1, <1>2, <2>1, <2>2 DEF ServerInv, ContextHasCause, callVars, TypeOK, RunsTyped
<1>5. ListSeesAll'
  <2>1. registry' = registry \/ ~ReadLocked
    BY DEF RunStep, Handler, Reject, Register, CannotRun, CloseDone, Return, Engine, Execute, JobStarts,
           JobOutcome, JobEnds, WriteEndedAt, Choose, StoreStatus, Executed, Disconnect, Ages
  <2>2. QED
    BY <1>1, <2>1 DEF ServerInv, ListSeesAll, ReadLocked, callVars
<1>6. ListsFresh'
  BY <1>1 DEF ServerInv, ListsFresh, callVars
<1>7. QED
  BY <1>3, <1>4, <1>5, <1>6

(* Pruning only takes runs that are over, and waits for lists. *)
LEMMA PruningKeeps ==
    ASSUME ServerInv, PruneOldRuns
    PROVE  ServerInv'
<1>1. /\ UNCHANGED <<runVars, ctxDone, callVars>>
      /\ registry' \subseteq registry
      /\ \A r \in registry \ registry' : pc[r] \in Ended \cup {"joined"}
      /\ ~ReadLocked
      /\ TypeOK'
  BY Pruning DEF ServerInv
<1>2. EndedLate' /\ StatusAt' /\ DoneLate' /\ Refusals' /\ ContextHasCause' /\ ListsFresh'
  BY <1>1 DEF ServerInv, EndedLate, StatusAt, DoneLate, Refusals, ContextHasCause, ListsFresh, runVars,
              callVars
<1>3. ActiveRunsKnown'
  BY <1>1 DEF ServerInv, ActiveRunsKnown, Ended, runVars
<1>4. ListSeesAll'
  BY <1>1 DEF ListSeesAll, ReadLocked, callVars
<1>5. QED
  BY <1>1, <1>2, <1>3, <1>4 DEF ServerInv

(* A canceling call answers "completed" only after it has seen done closed,*)
(* and cancels the context of its own run.                                 *)
LEMMA CancelKeeps ==
    ASSUME ServerInv, NEW c \in Cancelers, CancelCall(c)
    PROVE  Refusals' /\ ContextHasCause' /\ list' = list
<1> USE DEF ServerInv, TypeOK, CallsTyped
<1>1. list' = list /\ UNCHANGED <<runVars, registry>>
  BY DEF CancelCall, CancelLookup, CancelSelect, CancelContext
<1>2. Refusals'
  <2>1. CASE \E r \in Runs : CancelLookup(c, r)
    BY <1>1, <2>1 DEF CancelLookup, Refusals, runVars
  <2>2. CASE CancelSelect(c)
    BY <1>1, <2>2 DEF CancelSelect, Refusals, runVars
  <2>3. CASE CancelContext(c)
    BY <1>1, <2>3 DEF CancelContext, Refusals, runVars
  <2>4. QED
    BY <2>1, <2>2, <2>3 DEF CancelCall
<1>3. ContextHasCause'
  <2>1. \A d \in Cancelers :
          cancel[d].at = "accepted" => cancel'[d].at = "accepted" /\ cancel'[d].run = cancel[d].run
    BY DEF CancelCall, CancelLookup, CancelSelect, CancelContext
  <2>2. \/ ctxDone' = ctxDone
        \/ /\ ctxDone' = ctxDone \cup {cancel[c].run}
           /\ cancel'[c].at = "accepted" /\ cancel'[c].run = cancel[c].run
    <3>1. CASE CancelContext(c)
      <4>1. cancel[c] \in CancelCalls
        OBVIOUS
      <4>2. cancel' = [cancel EXCEPT ![c].at = "accepted"]
        BY <3>1 DEF CancelContext
      <4>3. cancel'[c].at = "accepted" /\ cancel'[c].run = cancel[c].run
        BY <4>1, <4>2 DEF CancelCalls
      <4>4. QED
        BY <3>1, <4>3 DEF CancelContext
    <3>2. QED
      BY <3>1 DEF CancelCall, CancelLookup, CancelSelect
  <2>3. gone' = gone /\ pc' = pc
    BY <1>1 DEF runVars
  <2>4. \A r \in ctxDone :
          \/ r \in gone'
          \/ pc'[r] = "returned"
          \/ \E d \in Cancelers : cancel'[d].at = "accepted" /\ cancel'[d].run = r
    BY <2>1, <2>3 DEF ContextHasCause
  <2>5. \A r \in ctxDone' :
          \/ r \in gone'
          \/ pc'[r] = "returned"
          \/ \E d \in Cancelers : cancel'[d].at = "accepted" /\ cancel'[d].run = r
    BY ONLY <2>2, <2>4, c \in Cancelers
  <2>6. QED
    BY ONLY <2>5 DEF ContextHasCause
<1>4. QED
  BY <1>1, <1>2, <1>3

(* The steps of a list, field by field. *)
ListBegins(l) ==
    /\ list[l].at = "idle" /\ list'[l].at = "walking"
    /\ list'[l].todo = registry /\ list'[l].found = list[l].found
ListTakes(l) ==
    /\ list[l].at = "walking" /\ list'[l].at \in {"walking", "matched"}
    /\ list'[l].filter = list[l].filter /\ list'[l].found = list[l].found
    /\ \E r \in list[l].todo :
          /\ list'[l].todo = list[l].todo \ {r} /\ list'[l].run = r
          /\ list[l].filter = "unspecified" => list'[l].at = "matched"
ListAdds(l) ==
    /\ list[l].at = "matched" /\ list'[l].at = "walking"
    /\ list'[l].filter = list[l].filter /\ list'[l].todo = list[l].todo
    /\ \E s : list'[l].found = list[l].found \cup {[run |-> list[l].run, status |-> s]}

LEMMA ListEffect ==
    ASSUME ServerInv, NEW l \in Listers, ListCall(l)
    PROVE  /\ ListBegins(l) \/ ListTakes(l) \/ ListAdds(l) \/ list'[l].at = "answered"
           /\ list'[l].at # "idle"
<1>1. list[l] \in ListCalls /\ list \in [Listers -> ListCalls]
  BY DEF ServerInv, TypeOK, CallsTyped
<1>2. CASE \E f \in Filters : ListLock(l, f)
  <2>1. PICK f \in Filters : ListLock(l, f)
    BY <1>2
  <2> DEFINE call == [list[l] EXCEPT !.at = "walking", !.filter = f, !.todo = registry]
  <2>2. list'[l] = call
    BY <1>1, <2>1 DEF ListLock
  <2>3. call.at = "walking" /\ call.todo = registry /\ call.found = list[l].found
    BY <1>1 DEF ListCalls
  <2>4. list[l].at = "idle"
    BY <2>1 DEF ListLock
  <2> HIDE DEF call
  <2>5. QED
    BY <2>2, <2>3, <2>4 DEF ListBegins
<1>3. CASE \E r \in Runs : Filter(l, r)
  <2>1. PICK r \in list[l].todo, at \in {"walking", "matched"} :
          /\ list' = [list EXCEPT ![l].todo = @ \ {r}, ![l].run = r, ![l].at = at]
          /\ list[l].filter = "unspecified" => at = "matched"
    BY <1>3 DEF Filter, Matches
  <2> DEFINE call == [list[l] EXCEPT !.todo = @ \ {r}, !.run = r, !.at = at]
  <2>2. list'[l] = call
    BY <1>1, <2>1
  <2>3. /\ call.at = at /\ call.todo = list[l].todo \ {r} /\ call.run = r
        /\ call.filter = list[l].filter /\ call.found = list[l].found
    BY <1>1 DEF ListCalls
  <2>4. list[l].at = "walking"
    BY <1>3 DEF Filter
  <2> HIDE DEF call
  <2>5. QED
    BY <2>1, <2>2, <2>3, <2>4 DEF ListTakes
<1>4. CASE Summarise(l)
  <2>1. PICK s :
          list' = [list EXCEPT ![l].at = "walking",
                               ![l].found = @ \cup {[run |-> list[l].run, status |-> s]}]
    BY <1>4 DEF Summarise
  <2> DEFINE call == [list[l] EXCEPT !.at = "walking",
                                     !.found = @ \cup {[run |-> list[l].run, status |-> s]}]
  <2>2. list'[l] = call
    BY <1>1, <2>1
  <2>3. /\ call.at = "walking" /\ call.todo = list[l].todo /\ call.filter = list[l].filter
        /\ call.found = list[l].found \cup {[run |-> list[l].run, status |-> s]}
    BY <1>1 DEF ListCalls
  <2>4. list[l].at = "matched"
    BY <1>4 DEF Summarise
  <2> HIDE DEF call
  <2>5. QED
    BY <2>2, <2>3, <2>4 DEF ListAdds
<1>5. CASE ListUnlock(l)
  BY <1>1, <1>5 DEF ListUnlock, ListCalls
<1>6. QED
  BY <1>2, <1>3, <1>4, <1>5 DEF ListCall, ListBegins, ListTakes, ListAdds

(* A summary adds its run to the runs found. *)
LEMMA FoundRuns ==
    ASSUME NEW F, NEW x, NEW s
    PROVE  {f.run : f \in F \cup {[run |-> x, status |-> s]}} = {f.run : f \in F} \cup {x}
<1> DEFINE e == [run |-> x, status |-> s]
<1>1. e.run = x
  OBVIOUS
<1> HIDE DEF e
<1>2. {f.run : f \in F \cup {e}} = {f.run : f \in F} \cup {x}
  BY <1>1
<1>3. QED
  BY <1>2 DEF e

(* A list in the making keeps account of every run in the registry. *)
LEMMA ListKeeps ==
    ASSUME ServerInv, NEW l \in Listers, ListCall(l)
    PROVE  ListsFresh' /\ ListSeesAll'
<1>1. UNCHANGED registry /\ \A k \in Listers \ {l} : list'[k] = list[k]
  BY DEF ListCall, ListLock, Filter, Summarise, ListUnlock, ServerInv, TypeOK, CallsTyped
<1>2. list'[l].at # "idle"
  BY ListEffect
<1>3. ListsFresh'
  BY <1>1, <1>2 DEF ServerInv, ListsFresh
<1>4. ASSUME list[l].at \in {"walking", "matched"}
      PROVE  /\ list[l].todo \subseteq registry
             /\ list[l].filter = "unspecified" =>
                   registry = list[l].todo \cup {f.run : f \in list[l].found}
                              \cup (IF list[l].at = "matched" THEN {list[l].run} ELSE {})
  BY <1>4 DEF ServerInv, ListSeesAll
<1>5. ASSUME list'[l].at \in {"walking", "matched"}
      PROVE  /\ list'[l].todo \subseteq registry
             /\ list'[l].filter = "unspecified" =>
                   registry = list'[l].todo \cup {f.run : f \in list'[l].found}
                              \cup (IF list'[l].at = "matched" THEN {list'[l].run} ELSE {})
  <2>1. CASE ListBegins(l)
    BY <2>1 DEF ListBegins, ServerInv, ListsFresh
  <2>2. CASE ListTakes(l)
    <3>1. PICK r \in list[l].todo :
            /\ list'[l].todo = list[l].todo \ {r} /\ list'[l].run = r
            /\ list[l].filter = "unspecified" => list'[l].at = "matched"
      BY <2>2 DEF ListTakes
    <3>2. QED
      BY <1>4, <2>2, <3>1 DEF ListTakes
  <2>3. CASE ListAdds(l)
    <3>1. PICK s :
            list'[l].found = list[l].found \cup {[run |-> list[l].run, status |-> s]}
      BY <2>3, Zenon DEF ListAdds
    <3>2. {f.run : f \in list'[l].found} = {f.run : f \in list[l].found} \cup {list[l].run}
      <4>1. {f.run : f \in list[l].found \cup {[run |-> list[l].run, status |-> s]}}
              = {f.run : f \in list[l].found} \cup {list[l].run}
        BY FoundRuns, Zenon
      <4>2. QED
        BY <3>1, <4>1, Zenon
    <3>3. QED
      BY <1>4, <2>3, <3>2 DEF ListAdds
  <2>4. CASE list'[l].at = "answered"
    BY <1>5, <2>4
  <2>5. QED
    BY <2>1, <2>2, <2>3, <2>4, ListEffect
<1>6. ListSeesAll'
  BY <1>1, <1>5 DEF ServerInv, ListSeesAll
<1>7. QED
  BY <1>3, <1>6

-----------------------------------------------------------------------------
(* The invariant of the server. *)
THEOREM ServerInvariant == Spec => []ServerInv
<1>1. Init => ServerInv
  BY InitInv
<1>2. ServerInv /\ [Next]_vars => ServerInv'
  <2>1. SUFFICES ASSUME ServerInv, [Next]_vars
                 PROVE  ServerInv'
    OBVIOUS
  <2>2. ASSUME NEW r \in Runs, RunStep(r)
        PROVE  ServerInv'
    <3>1. TypeOK'
      BY <2>1, <2>2, RunTypes DEF ServerInv
    <3>2. QED
      BY <2>1, <2>2, <3>1, RunKeepsFields, RunKeepsCalls DEF ServerInv
  <2>3. CASE PruneOldRuns
    BY <2>1, <2>3, PruningKeeps
  <2>4. CASE CallStep
    <3>1. TypeOK' /\ UNCHANGED <<runVars, registry>>
      BY <2>1, <2>4, CallTypes DEF ServerInv
    <3>2. EndedLate' /\ ActiveRunsKnown' /\ StatusAt' /\ DoneLate'
      BY <2>1, <3>1 DEF ServerInv, EndedLate, ActiveRunsKnown, StatusAt, DoneLate, runVars
    <3>3. CASE \E c \in Cancelers : CancelCall(c)
      <4>1. Refusals' /\ ContextHasCause' /\ list' = list
        BY <2>1, <3>3, CancelKeeps
      <4>2. ListsFresh' /\ ListSeesAll'
        BY <2>1, <3>1, <4>1 DEF ServerInv, ListsFresh, ListSeesAll
      <4>3. QED
        BY <3>1, <3>2, <4>1, <4>2 DEF ServerInv
    <3>4. CASE \E w \in Watchers : WatchCall(w)
      <4>1. UNCHANGED <<ctxDone, cancel, list>>
        BY <3>4 DEF WatchCall, WatchLookup, ReadJobs, ReadStatus
      <4>2. Refusals' /\ ContextHasCause' /\ ListsFresh' /\ ListSeesAll'
        BY <2>1, <3>1, <4>1
        DEF ServerInv, Refusals, ContextHasCause, ListsFresh, ListSeesAll, runVars
      <4>3. QED
        BY <3>1, <3>2, <4>2 DEF ServerInv
    <3>5. CASE \E l \in Listers : ListCall(l)
      <4>1. UNCHANGED <<ctxDone, cancel>>
        BY <3>5 DEF ListCall, ListLock, Filter, Summarise, ListUnlock
      <4>2. Refusals' /\ ContextHasCause'
        BY <2>1, <3>1, <4>1 DEF ServerInv, Refusals, ContextHasCause, runVars
      <4>3. ListsFresh' /\ ListSeesAll'
        BY <2>1, <3>5, ListKeeps
      <4>4. QED
        BY <3>1, <3>2, <4>2, <4>3 DEF ServerInv
    <3>6. QED
      BY <2>4, <3>3, <3>4, <3>5 DEF CallStep
  <2>5. CASE UNCHANGED vars
    BY <2>1, <2>5
    DEF ServerInv, TypeOK, RunsTyped, CallsTyped, EndedLate, ActiveRunsKnown, StatusAt, DoneLate,
        Refusals, ContextHasCause, ListsFresh, ListSeesAll, vars, runVars, callVars
  <2>6. QED
    BY <2>1, <2>2, <2>3, <2>4, <2>5, Steps
<1>3. QED
  BY <1>1, <1>2, PTL DEF Spec

(* Type correctness of the handler's state and of its calls. *)
THEOREM TypeCorrect == Spec => []TypeOK
<1>1. ServerInv => TypeOK
  BY DEF ServerInv
<1>2. QED
  BY <1>1, ServerInvariant, PTL

(* The registry never loses a run with a job that is not over. *)
THEOREM ActiveRunsStay == Spec => []ActiveRunsKnown
<1>1. ServerInv => ActiveRunsKnown
  BY DEF ServerInv
<1>2. QED
  BY <1>1, ServerInvariant, PTL

(* CancelPipeline refuses only what is over. *)
THEOREM RefusalsAreRight == Spec => []RefusedOnlyWhenOver
<1>1. ServerInv => RefusedOnlyWhenOver
  <2>1. SUFFICES ASSUME ServerInv, NEW c \in Cancelers, cancel[c].at = "completed"
                 PROVE  /\ pc[cancel[c].run] \in {"closed", "returned"}
                        /\ status[cancel[c].run] \in Final \/ status[cancel[c].run] = "pending"
    BY DEF RefusedOnlyWhenOver
  <2>2. cancel[c].run \in done /\ cancel[c].run \in Runs
    BY <2>1 DEF ServerInv, Refusals, TypeOK, RunsTyped
  <2>3. QED
    BY <2>1, <2>2 DEF ServerInv, DoneLate, StatusAt
<1>2. QED
  BY <1>1, ServerInvariant, PTL

(* No run's context ends because of another run. *)
THEOREM ContextsHaveCauses == Spec => []ContextHasCause
<1>1. ServerInv => ContextHasCause
  BY DEF ServerInv
<1>2. QED
  BY <1>1, ServerInvariant, PTL

(* An unfiltered list is a snapshot of the registry. *)
THEOREM ListsAreComplete == Spec => []ListSeesAll
<1>1. ServerInv => ListSeesAll
  BY DEF ServerInv
<1>2. QED
  BY <1>1, ServerInvariant, PTL

-----------------------------------------------------------------------------
(* What a status answer may say.                                           *)

(* A pipeline is marked before its first job starts, and is never pending  *)
(* again; a job that a call has found started is of a marked pipeline.     *)
MarkedFirst ==
    \A r \in Runs :
        /\ pc[r] \in {"executing", "jobEnding", "joined", "ended", "chosen", "finished"}
              => status[r] # "pending"
        /\ job[r] # "pending" => status[r] # "pending"

AnswersMarked ==
    \A w \in Watchers :
        /\ watch[w].at # "answered" => watch[w].status = none
        /\ watch[w].at = "jobsRead" /\ watch[w].job # "pending"
              => status[watch[w].run] # "pending"

WatchInv == MarkedFirst /\ AnswersMarked /\ PendingMeansUntouched

(* An answer that reads the jobs before the pipeline's own status, with no *)
(* lock between them, never says pending beside a job that is not.         *)
THEOREM AnswersFit == Spec => []PendingMeansUntouched
<1>1. Init => WatchInv
  BY DEF Init, WatchInv, MarkedFirst, AnswersMarked, PendingMeansUntouched
<1>2. ServerInv /\ WatchInv /\ [Next]_vars => WatchInv'
  <2>1. SUFFICES ASSUME ServerInv, WatchInv, [Next]_vars
                 PROVE  WatchInv'
    OBVIOUS
  <2>2. ASSUME NEW r \in Runs, RunStep(r)
        PROVE  WatchInv'
    <3> USE <2>1 DEF ServerInv, TypeOK, RunsTyped, At, StatusAt, WatchInv, MarkedFirst, Final
    <3>1. UNCHANGED watch
      BY <2>2, RunTypes DEF callVars
    <3>2. MarkedFirst' /\ \A q \in Runs : status[q] # "pending" => status'[q] # "pending"
      <4>1. CASE Handler(r)
        BY <4>1 DEF Handler, Reject, Register, CannotRun, CloseDone, Return
      <4>2. CASE Execute(r) \/ JobStarts(r)
        BY <4>2 DEF Execute, JobStarts
      <4>3. CASE JobOutcome(r) \/ JobEnds(r)
        BY <4>3 DEF JobOutcome, JobEnds
      <4>4. CASE WriteEndedAt(r)
        BY <4>4 DEF WriteEndedAt
      <4>5. CASE Choose(r)
        BY <4>5 DEF Choose
      <4>6. CASE StoreStatus(r) \/ Executed(r)
        BY <4>6 DEF StoreStatus, Executed
      <4>7. CASE Disconnect(r) \/ Ages(r)
        BY <4>7 DEF Disconnect, Ages
      <4>8. QED
        BY <2>2, <4>1, <4>2, <4>3, <4>4, <4>5, <4>6, <4>7 DEF RunStep, Engine
    <3>3. AnswersMarked' /\ PendingMeansUntouched'
      BY <3>1, <3>2 DEF AnswersMarked, PendingMeansUntouched, CallsTyped
    <3>4. QED
      BY <3>2, <3>3
  <2>3. ASSUME UNCHANGED runVars
        PROVE  MarkedFirst'
    BY <2>1, <2>3 DEF WatchInv, MarkedFirst, runVars
  <2>4. CASE PruneOldRuns
    BY <2>1, <2>3, <2>4
    DEF PruneOldRuns, WatchInv, AnswersMarked, PendingMeansUntouched, runVars, callVars
  <2>5. ASSUME NEW w \in Watchers, WatchCall(w)
        PROVE  WatchInv'
    <3>1. UNCHANGED runVars /\ \A x \in Watchers \ {w} : watch'[x] = watch[x]
      BY <2>1, <2>5
      DEF WatchCall, WatchLookup, ReadJobs, ReadStatus, ServerInv, TypeOK, CallsTyped
    <3>2. /\ watch[w] \in WatchCalls /\ watch \in [Watchers -> WatchCalls]
          /\ watch[w].at # "idle" => watch[w].run \in Runs
      BY <2>1 DEF ServerInv, TypeOK, CallsTyped
    <3>3. ASSUME watch'[w].at # "answered" => watch'[w].status = none,
                 watch'[w].at = "jobsRead" /\ watch'[w].job # "pending"
                    => status[watch'[w].run] # "pending",
                 watch'[w].status = "pending" => watch'[w].job = "pending"
          PROVE  WatchInv'
      <4>1. status' = status
        BY <3>1 DEF runVars
      <4>2. \A x \in Watchers :
              /\ watch'[x].at # "answered" => watch'[x].status = none
              /\ watch'[x].at = "jobsRead" /\ watch'[x].job # "pending"
                    => status[watch'[x].run] # "pending"
              /\ watch'[x].status = "pending" => watch'[x].job = "pending"
        BY <2>1, <3>1, <3>3 DEF WatchInv, AnswersMarked, PendingMeansUntouched
      <4>3. QED
        BY <2>3, <3>1, <4>1, <4>2 DEF WatchInv, AnswersMarked, PendingMeansUntouched
    <3>4. none # "pending"
      BY ServerAssumption DEF Answers, Statuses
    <3>5. CASE \E r \in Runs : WatchLookup(w, r)
      <4>1. watch[w].status = none
        BY <2>1, <3>5 DEF WatchLookup, WatchInv, AnswersMarked
      <4>2. watch'[w].at \in {"found", "notFound"} /\ watch'[w].status = none
        BY <3>2, <3>5, <4>1 DEF WatchLookup, WatchCalls
      <4>3. QED
        BY <3>3, <3>4, <4>2
    <3>6. CASE ReadJobs(w)
      <4>1. PICK s \in JobReads(watch[w].run) :
              watch' = [watch EXCEPT ![w].at = "jobsRead", ![w].job = s]
        BY <3>6 DEF ReadJobs
      <4>2. watch[w].status = none /\ watch[w].run \in Runs
        BY <2>1, <3>2, <3>6 DEF ReadJobs, WatchInv, AnswersMarked
      <4>3. /\ watch'[w].at = "jobsRead" /\ watch'[w].status = none
            /\ watch'[w].job = s /\ watch'[w].run = watch[w].run
        BY <3>2, <4>1, <4>2 DEF WatchCalls
      <4>4. s # "pending" => status[watch[w].run] # "pending"
        BY <2>1, <4>1, <4>2 DEF JobReads, Torn, WatchInv, MarkedFirst
      <4>5. QED
        BY <3>3, <3>4, <4>3, <4>4
    <3>7. CASE ReadStatus(w)
      <4>1. PICK s \in StatusReads(watch[w].run) :
              watch' = [watch EXCEPT ![w].at = "answered", ![w].status = s]
        BY <3>7 DEF ReadStatus
      <4>2. /\ watch'[w].at = "answered" /\ watch'[w].status = s
            /\ watch'[w].job = watch[w].job
        BY <3>2, <4>1 DEF WatchCalls
      <4>3. s = "pending" => watch[w].job = "pending"
        BY <2>1, <3>7, <4>1 DEF ReadStatus, StatusReads, Torn, WatchInv, AnswersMarked
      <4>4. QED
        BY <3>3, <4>2, <4>3
    <3>8. QED
      BY <2>5, <3>5, <3>6, <3>7 DEF WatchCall
  <2>6. CASE (\E c \in Cancelers : CancelCall(c)) \/ (\E l \in Listers : ListCall(l))
    <3>1. UNCHANGED <<runVars, watch>>
      BY <2>6 DEF CancelCall, CancelLookup, CancelSelect, CancelContext,
                  ListCall, ListLock, Filter, Summarise, ListUnlock
    <3>2. QED
      BY <2>1, <2>3, <3>1 DEF WatchInv, AnswersMarked, PendingMeansUntouched, runVars
  <2>7. CASE UNCHANGED vars
    BY <2>1, <2>3, <2>7 DEF WatchInv, AnswersMarked, PendingMeansUntouched, vars, runVars, callVars
  <2>8. QED
    BY <2>1, <2>2, <2>4, <2>5, <2>6, <2>7, Steps DEF CallStep
<1>3. WatchInv => PendingMeansUntouched
  BY DEF WatchInv
<1>4. QED
  BY <1>1, <1>2, <1>3, ServerInvariant, PTL DEF Spec
=============================================================================
