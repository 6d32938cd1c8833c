---------------------------- MODULE Engine_proofs ----------------------------
(***************************************************************************)
(* Proofs about Engine: type correctness, that EngineInv is inductive and  *)
(* that each safety property of the runs follows, what the trace of a job  *)
(* may look like by where its goroutine is, that Engine implements         *)
(* PipelineContract, and that the goroutines neither all wait for one      *)
(* another nor go round in circles.                                        *)
(***************************************************************************)
EXTENDS Engine, FiniteSetTheorems, WellFoundedInduction, TLAPS

(* Every action of a goroutine other than j leaves the trace a sequence of *)
(* entries: appending an entry to one job's trace keeps the type.          *)
LEMMA LogType ==
    ASSUME trace \in [Jobs -> Seq(Entries)],
           NEW j \in Jobs, NEW type \in EntryTypes, NEW step \in Nat,
           NEW status \in Statuses, Log(j, type, step, status)
    PROVE  trace' \in [Jobs -> Seq(Entries)]
<1>1. Entry(type, step, status) \in Entries
  BY DEF Entry, Entries
<1>2. Append(trace[j], Entry(type, step, status)) \in Seq(Entries)
  BY <1>1
<1>. QED
  BY <1>2 DEF Log

LEMMA TypeInit == Init => TypeOK
<1>. SUFFICES ASSUME Init PROVE TypeOK
  OBVIOUS
<1>. USE DEF Init
<1>1. jobStatus \in [Jobs -> Statuses]
  BY DEF Statuses, Terminal
<1>2. \A j \in Jobs : stepStatus[j] \in [StepNumbers(j) -> Statuses]
  BY DEF Statuses, Terminal
<1>3. \A j \in Jobs : stepIdx[j] <= NumSteps[j] + 1
  BY StepsAssumption
<1>4. pc \in [Jobs -> Pcs] /\ trace \in [Jobs -> Seq(Entries)]
  BY DEF Pcs
<1>5. ctxErr \in BOOLEAN /\ lateStarts \in [Jobs -> Nat]
  OBVIOUS
<1>6. depIdx \in [Jobs -> Nat \ {0}] /\ stepIdx \in [Jobs -> Nat \ {0}]
  OBVIOUS
<1>7. jobResults \in [Jobs -> Terminal \cup {"none", "pending", "running"}]
  OBVIOUS
<1>8. /\ DOMAIN stepStatus = Jobs
      /\ failedJobs \subseteq Jobs
      /\ pipelineEvents \in Seq({"PipelineStarted", "PipelineFinished"})
      /\ mainPc \in {"begin", "schedule", "wait", "finish", "returned"}
      /\ pipelineStatus \in {"pending", "running", "success", "failed", "canceled"}
      /\ dependsOn \in Graphs
      /\ \A j \in Jobs : pc[j] \in {"stepStart", "stepRun"} => stepIdx[j] <= NumSteps[j]
  OBVIOUS
<1>. QED
  BY <1>1, <1>2, <1>3, <1>4, <1>5, <1>6, <1>7, <1>8, Zenon DEF TypeOK

(* The type invariant is kept by the goroutine's part outside executeJob.  *)
LEMMA TypeWrapper ==
    ASSUME TypeOK, NEW j \in Jobs, Wrapper(j)
    PROVE  TypeOK'
<1>. USE DEF TypeOK, Pcs, jobVars, mainVars, maps, Goto
<1>1. CASE DepDone(j)
  BY <1>1 DEF DepDone
<1>2. CASE DepsDone(j)
  BY <1>2 DEF DepsDone
<1>3. CASE AwaitCanceled(j)
  BY <1>3 DEF AwaitCanceled, GiveUp, Terminal, Statuses
<1>4. CASE CtxCanceled(j)
  BY <1>4 DEF CtxCanceled, GiveUp, Terminal, Statuses
<1>5. CASE CtxAlive(j)
  BY <1>5 DEF CtxAlive
<1>6. CASE SkipJob(j)
  <2>1. trace' \in [Jobs -> Seq(Entries)]
    BY <1>6, LogType DEF SkipJob, EntryTypes, Statuses, Terminal
  <2>2. jobStatus' \in [Jobs -> Statuses]
    BY <1>6 DEF SkipJob, Statuses, Terminal
  <2>. QED
    BY <1>6, <2>1, <2>2 DEF SkipJob
<1>7. CASE SkipMark(j)
  BY <1>7 DEF SkipMark
<1>8. CASE SkipRecord(j)
  BY <1>8 DEF SkipRecord, Statuses, Terminal
<1>9. CASE DontSkip(j)
  BY <1>9 DEF DontSkip
<1>10. CASE Record(j)
  BY <1>10 DEF Record, Statuses, Terminal
<1>11. CASE Mark(j)
  BY <1>11 DEF Mark
<1>12. CASE CloseDone(j)
  BY <1>12 DEF CloseDone
<1>13. CASE WgDone(j)
  BY <1>13 DEF WgDone
<1>. QED
  BY <1>1, <1>2, <1>3, <1>4, <1>5, <1>6, <1>7, <1>8, <1>9, <1>10, <1>11, <1>12, <1>13
  DEF Wrapper

(* So it is by executeJob: the step index stays within the loop.           *)
LEMMA TypeExecuteJob ==
    ASSUME TypeOK, NEW j \in Jobs, ExecuteJob(j)
    PROVE  TypeOK'
<1>. USE DEF TypeOK, Pcs, Goto, jobVars, mainVars, maps
<1>a. /\ {"running", "failed", "success", "canceled"} \subseteq Statuses
      /\ 0 \in Nat /\ stepIdx[j] \in Nat
  BY DEF Statuses, Terminal
<1>b. EntryTypes = {"JobStarted", "JobSkipped", "JobFinished", "StepStarted",
                    "StepFinished", "Setup", "Teardown"}
  BY DEF EntryTypes
<1>c. ASSUME NEW status \in Statuses, SetStep(j, status), stepIdx[j] \in StepNumbers(j)
      PROVE  /\ DOMAIN stepStatus' = Jobs
             /\ \A i \in Jobs : stepStatus'[i] \in [StepNumbers(i) -> Statuses]
  BY <1>c DEF SetStep
<1>1. CASE StartJob(j)
  <2>1. trace' \in [Jobs -> Seq(Entries)]
    BY <1>1, <1>a, <1>b, LogType DEF StartJob
  <2>2. lateStarts' \in [Jobs -> Nat]
    BY <1>1 DEF StartJob, Count
  <2>. QED
    BY <1>1, <1>a, <2>1, <2>2 DEF StartJob
<1>2. CASE SetupOk(j)
  <2>1. trace' \in [Jobs -> Seq(Entries)]
    BY <1>2, <1>a, <1>b, LogType DEF SetupOk
  <2>. QED
    BY <1>2, <2>1 DEF SetupOk
<1>3. CASE SetupErr(j)
  <2>1. trace' \in [Jobs -> Seq(Entries)]
    BY <1>3, <1>a, <1>b, LogType DEF SetupErr
  <2>. QED
    BY <1>3, <1>a, <2>1 DEF SetupErr
<1>4. CASE SetupTeardown(j)
  <2>1. trace' \in [Jobs -> Seq(Entries)]
    BY <1>4, <1>a, <1>b, LogType DEF SetupTeardown
  <2>. QED
    BY <1>4, <2>1 DEF SetupTeardown
<1>5. CASE SetupFinish(j)
  <2>1. trace' \in [Jobs -> Seq(Entries)]
    BY <1>5, <1>a, <1>b, LogType DEF SetupFinish
  <2>. QED
    BY <1>5, <2>1 DEF SetupFinish
<1>6. CASE StepCanceled(j)
  BY <1>6, <1>a, <1>c DEF StepCanceled
<1>7. CASE StepAlive(j)
  <2>1. \A i \in Jobs : pc'[i] \in {"stepStart", "stepRun"} => stepIdx'[i] <= NumSteps[i]
    BY <1>7, StepsAssumption DEF StepAlive, StepNumbers
  <2>. QED
    BY <1>7, <2>1 DEF StepAlive
<1>8. CASE StepsDone(j)
  BY <1>8 DEF StepsDone
<1>9. CASE StartStep(j)
  <2>1. stepIdx[j] \in StepNumbers(j)
    BY <1>9, <1>a, StepsAssumption DEF StartStep, StepNumbers
  <2>2. trace' \in [Jobs -> Seq(Entries)]
    BY <1>9, <1>a, <1>b, LogType DEF StartStep
  <2>3. lateStarts' \in [Jobs -> Nat]
    BY <1>9 DEF StartStep, Count
  <2>4. /\ DOMAIN stepStatus' = Jobs
        /\ \A i \in Jobs : stepStatus'[i] \in [StepNumbers(i) -> Statuses]
    BY <1>9, <1>a, <1>c, <2>1 DEF StartStep
  <2>. QED
    BY <1>9, <2>2, <2>3, <2>4 DEF StartStep
<1>10. CASE StepOk(j)
  <2>1. stepIdx[j] \in StepNumbers(j)
    BY <1>10, <1>a, StepsAssumption DEF StepOk, StepNumbers
  <2>2. trace' \in [Jobs -> Seq(Entries)]
    BY <1>10, <1>a, <1>b, LogType DEF StepOk
  <2>3. /\ DOMAIN stepStatus' = Jobs
        /\ \A i \in Jobs : stepStatus'[i] \in [StepNumbers(i) -> Statuses]
    BY <1>10, <1>a, <1>c, <2>1 DEF StepOk
  <2>4. /\ stepIdx' \in [Jobs -> Nat \ {0}]
        /\ \A i \in Jobs : stepIdx'[i] <= NumSteps[i] + 1
    <3>1. pc[j] = "stepRun" /\ stepIdx' = [stepIdx EXCEPT ![j] = @ + 1]
      BY <1>10 DEF StepOk
    <3>2. stepIdx[j] <= NumSteps[j] /\ NumSteps[j] \in Nat /\ stepIdx[j] \in Nat
      BY <3>1, StepsAssumption
    <3>3. \A i \in Jobs : stepIdx'[i] = IF i = j THEN stepIdx[j] + 1 ELSE stepIdx[i]
      BY <3>1
    <3>4. stepIdx[j] + 1 \in Nat \ {0} /\ stepIdx[j] + 1 <= NumSteps[j] + 1
      BY <3>2
    <3>. QED
      BY <3>1, <3>3, <3>4
  <2>5. \A i \in Jobs : pc'[i] \in {"stepStart", "stepRun"} => stepIdx'[i] <= NumSteps[i]
    BY <1>10 DEF StepOk
  <2>. QED
    BY <1>10, <2>2, <2>3, <2>4, <2>5 DEF StepOk
<1>11. CASE StepFails(j)
  <2>1. stepIdx[j] \in StepNumbers(j)
    BY <1>11, <1>a, StepsAssumption DEF StepFails, StepNumbers
  <2>2. trace' \in [Jobs -> Seq(Entries)]
    BY <1>11, <1>a, <1>b, LogType DEF StepFails
  <2>3. /\ DOMAIN stepStatus' = Jobs
        /\ \A i \in Jobs : stepStatus'[i] \in [StepNumbers(i) -> Statuses]
    BY <1>11, <1>a, <1>c, <2>1 DEF StepFails
  <2>. QED
    BY <1>11, <2>2, <2>3 DEF StepFails
<1>12. CASE FinishJob(j)
  <2>. DEFINE outcome == IF AnyStepFailed(j) THEN "failed" ELSE "success"
  <2>1. outcome \in Statuses
    BY <1>a
  <2>2. Log(j, "JobFinished", 0, outcome) /\ jobStatus' = [jobStatus EXCEPT ![j] = outcome]
    BY <1>12 DEF FinishJob
  <2>3. trace' \in [Jobs -> Seq(Entries)]
    BY <2>1, <2>2, <1>a, <1>b, LogType
  <2>. HIDE DEF outcome
  <2>4. jobStatus' \in [Jobs -> Statuses] /\ pc' = [pc EXCEPT ![j] = "teardown"]
    BY <1>12, <2>1, <2>2 DEF FinishJob
  <2>. QED
    BY <1>12, <2>3, <2>4 DEF FinishJob
<1>13. CASE Teardown(j)
  <2>1. trace' \in [Jobs -> Seq(Entries)]
    BY <1>13, <1>a, <1>b, LogType DEF Teardown
  <2>. QED
    BY <1>13, <2>1 DEF Teardown
<1>. QED
  BY <1>1, <1>2, <1>3, <1>4, <1>5, <1>6, <1>7, <1>8, <1>9, <1>10, <1>11, <1>12, <1>13
  DEF ExecuteJob

(* The main goroutine and the caller.                                      *)
LEMMA TypeMain ==
    ASSUME TypeOK, Main \/ Cancel \/ UNCHANGED vars
    PROVE  TypeOK'
<1>. USE DEF TypeOK, jobVars, mainVars, maps
<1>1. CASE Begin
  BY <1>1 DEF Begin
<1>2. CASE ScheduleError
  BY <1>2 DEF ScheduleError
<1>3. CASE Spawn
  BY <1>3 DEF Spawn, Pcs
<1>4. CASE Decide
  <2>1. pipelineStatus' \in {"pending", "running", "success", "failed", "canceled"}
    BY <1>4 DEF Decide, FinalStatus
  <2>. QED
    BY <1>4, <2>1 DEF Decide
<1>5. CASE Finish
  BY <1>5 DEF Finish
<1>6. CASE Cancel
  BY <1>6 DEF Cancel
<1>7. CASE UNCHANGED vars
  BY <1>7 DEF vars, StepNumbers
<1>. QED
  BY <1>1, <1>2, <1>3, <1>4, <1>5, <1>6, <1>7 DEF Main

(* Type correctness of the engine: whatever the jobs, their steps and the  *)
(* graphs, every variable keeps its type, and no goroutine runs a step     *)
(* beyond its job's last one.                                              *)
THEOREM TypeCorrect == Spec => []TypeOK
<1>1. TypeOK /\ [Next]_vars => TypeOK'
  BY TypeWrapper, TypeExecuteJob, TypeMain DEF Next, Job, Returned
<1>. QED
  BY TypeInit, <1>1, PTL DEF Spec

-----------------------------------------------------------------------------
(* EngineInv.                                                              *)

(* What a step of goroutine j leaves alone, and what it can never undo: a  *)
(* closed channel stays closed, an outcome stays, and a job is canceled    *)
(* only under a canceled context.                                          *)
LEMMA Frame ==
    ASSUME TypeOK, EngineInv, NEW j \in Jobs, Job(j)
    PROVE  /\ UNCHANGED <<dependsOn, ctxErr, mainVars>>
           /\ pc[j] \notin {"unspawned", "exited"} /\ pc'[j] # "unspawned"
           /\ \A i \in Jobs \ {j} :
                 /\ pc'[i] = pc[i] /\ jobStatus'[i] = jobStatus[i]
                 /\ depIdx'[i] = depIdx[i] /\ jobResults'[i] = jobResults[i]
                 /\ i \in failedJobs' <=> i \in failedJobs
           /\ jobStatus[j] \in Terminal => jobStatus'[j] = jobStatus[j]
           /\ DoneClosed(j) => DoneClosed(j)'
<1>. USE DEF TypeOK, Goto, DoneClosed
<1>1. PcStatus(j)
  BY DEF EngineInv
<1>2. CASE Wrapper(j)
  <2>. USE <1>1 DEF PcStatus, Terminal, NotBegun
  <2>1. CASE DepDone(j)   BY <2>1 DEF DepDone, maps
  <2>2. CASE DepsDone(j)  BY <2>2 DEF DepsDone, maps
  <2>3. CASE AwaitCanceled(j)  BY <2>3 DEF AwaitCanceled, GiveUp
  <2>4. CASE CtxCanceled(j)  BY <2>4 DEF CtxCanceled, GiveUp
  <2>5. CASE CtxAlive(j)  BY <2>5 DEF CtxAlive, maps
  <2>6. CASE SkipJob(j)  BY <2>6 DEF SkipJob, maps
  <2>7. CASE SkipMark(j)  BY <2>7 DEF SkipMark
  <2>8. CASE SkipRecord(j)  BY <2>8 DEF SkipRecord
  <2>9. CASE DontSkip(j)  BY <2>9 DEF DontSkip, maps
  <2>10. CASE Record(j)  BY <2>10 DEF Record
  <2>11. CASE Mark(j)  BY <2>11 DEF Mark
  <2>12. CASE CloseDone(j)  BY <2>12 DEF CloseDone, maps
  <2>13. CASE WgDone(j)  BY <2>13 DEF WgDone, maps
  <2>. QED
    BY <1>2, <2>1, <2>2, <2>3, <2>4, <2>5, <2>6, <2>7, <2>8, <2>9, <2>10, <2>11, <2>12, <2>13
    DEF Wrapper
<1>3. CASE ExecuteJob(j)
  <2>. USE <1>1 DEF PcStatus, Terminal, NotBegun, InJob, maps
  <2>1. CASE StartJob(j)  BY <2>1 DEF StartJob
  <2>2. CASE SetupOk(j)  BY <2>2 DEF SetupOk
  <2>3. CASE SetupErr(j)  BY <2>3 DEF SetupErr
  <2>4. CASE SetupTeardown(j)  BY <2>4 DEF SetupTeardown
  <2>5. CASE SetupFinish(j)  BY <2>5 DEF SetupFinish
  <2>6. CASE StepCanceled(j)  BY <2>6 DEF StepCanceled
  <2>7. CASE StepAlive(j)  BY <2>7 DEF StepAlive
  <2>8. CASE StepsDone(j)  BY <2>8 DEF StepsDone
  <2>9. CASE StartStep(j)  BY <2>9 DEF StartStep
  <2>10. CASE StepOk(j)  BY <2>10 DEF StepOk
  <2>11. CASE StepFails(j)  BY <2>11 DEF StepFails
  <2>12. CASE FinishJob(j)  BY <2>12 DEF FinishJob
  <2>13. CASE Teardown(j)  BY <2>13 DEF Teardown
  <2>. QED
    BY <1>3, <2>1, <2>2, <2>3, <2>4, <2>5, <2>6, <2>7, <2>8, <2>9, <2>10, <2>11, <2>12, <2>13
    DEF ExecuteJob
<1>. QED
  BY <1>2, <1>3 DEF Job

(* A goroutine that has been spawned depends on jobs only.                 *)
LEMMA DepsAreJobs ==
    ASSUME TypeOK, EngineInv, NEW i \in Jobs, NEW j \in Jobs, pc[j] # "unspawned"
    PROVE  /\ DepsOf(i) \subseteq Jobs
           /\ dependsOn[i] \in Seq(Names)
           /\ \A k \in 1 .. Len(dependsOn[i]) : dependsOn[i][k] \in DepsOf(i)
<1>1. dependsOn[i] \in Seq(Names)
  BY GraphsAssumption DEF TypeOK
<1>. QED
  BY <1>1 DEF EngineInv, MainAt, Spawned, DepsOf

(* The other goroutines' conjuncts survive a step of j.                    *)
LEMMA OthersKept ==
    ASSUME TypeOK, EngineInv, NEW j \in Jobs, Job(j), NEW i \in Jobs, i # j
    PROVE  PcStatus(i)' /\ MapsWritten(i)' /\ Waited(i)'
<1>1. /\ UNCHANGED <<dependsOn, ctxErr>>
      /\ pc[j] # "unspawned"
      /\ pc'[i] = pc[i] /\ jobStatus'[i] = jobStatus[i]
      /\ depIdx'[i] = depIdx[i] /\ jobResults'[i] = jobResults[i]
      /\ i \in failedJobs' <=> i \in failedJobs
  BY Frame
<1>2. \A d \in Jobs : DoneClosed(d) => DoneClosed(d)' /\ jobStatus'[d] = jobStatus[d]
  <2>1. \A d \in Jobs : DoneClosed(d) => jobStatus[d] \in Terminal
    BY DEF EngineInv, PcStatus, DoneClosed, Leaving
  <2>. QED
    BY <2>1, Frame DEF DoneClosed
<1>3. PcStatus(i) /\ MapsWritten(i) /\ Waited(i)
  BY DEF EngineInv
<1>4. PcStatus(i)'
  BY <1>1, <1>3 DEF PcStatus
<1>5. MapsWritten(i)'
  BY <1>1, <1>3 DEF MapsWritten
<1>6. DepsOf(i)' = DepsOf(i) /\ DepsOf(i) \subseteq Jobs
  BY <1>1, DepsAreJobs DEF DepsOf
<1>7. Waited(i)'
  <2>1. \A k \in 1 .. Len(dependsOn[i]) : dependsOn[i][k] \in Jobs
    BY <1>1, <1>6, DepsAreJobs
  <2>2. (\A k \in 1 .. Len(dependsOn[i]) : k < depIdx[i] => DoneClosed(dependsOn[i][k]))'
    BY <1>1, <1>2, <1>3, <2>1 DEF Waited
  <2>3. (pc[i] \notin {"unspawned", "await"} /\ jobStatus[i] # "canceled" =>
            \A d \in DepsOf(i) : DoneClosed(d))'
    BY <1>1, <1>2, <1>3, <1>6 DEF Waited
  <2>4. (pc[i] = "checkDeps" => \A d \in DepsOf(i) : jobStatus[d] # "canceled")'
    BY <1>1, <1>2, <1>3, <1>6 DEF Waited, PcStatus, NotBegun
  <2>5. (pc[i] = "execute" \/ Started(i) => \A d \in DepsOf(i) : jobStatus[d] = "success")'
    BY <1>1, <1>2, <1>3, <1>6 DEF Waited, PcStatus, NotBegun, Started
  <2>. QED
    BY <2>2, <2>3, <2>4, <2>5 DEF Waited
<1>. QED
  BY <1>4, <1>5, <1>7

(* The stepping goroutine's own status and map entries.                    *)
LEMMA OwnStatus ==
    ASSUME TypeOK, EngineInv, NEW j \in Jobs, Job(j)
    PROVE  PcStatus(j)' /\ MapsWritten(j)'
<1>1. PcStatus(j) /\ MapsWritten(j)
  BY DEF EngineInv
<1>. USE <1>1 DEF PcStatus, MapsWritten, TypeOK, Goto, Terminal, NotBegun, InJob, Leaving, maps
<1>2. CASE Wrapper(j)
  <2>1. CASE DepDone(j)  BY <2>1 DEF DepDone
  <2>2. CASE DepsDone(j)  BY <2>2 DEF DepsDone
  <2>3. CASE AwaitCanceled(j)  BY <2>3 DEF AwaitCanceled, GiveUp
  <2>4. CASE CtxCanceled(j)  BY <2>4 DEF CtxCanceled, GiveUp
  <2>5. CASE CtxAlive(j)  BY <2>5 DEF CtxAlive
  <2>6. CASE SkipJob(j)  BY <2>6 DEF SkipJob
  <2>7. CASE SkipMark(j)  BY <2>7 DEF SkipMark
  <2>8. CASE SkipRecord(j)  BY <2>8 DEF SkipRecord
  <2>9. CASE DontSkip(j)  BY <2>9 DEF DontSkip
  <2>10. CASE Record(j)  BY <2>10 DEF Record
  <2>11. CASE Mark(j)  BY <2>11 DEF Mark
  <2>12. CASE CloseDone(j)  BY <2>12 DEF CloseDone
  <2>13. CASE WgDone(j)  BY <2>13 DEF WgDone
  <2>. QED
    BY <1>2, <2>1, <2>2, <2>3, <2>4, <2>5, <2>6, <2>7, <2>8, <2>9, <2>10, <2>11, <2>12, <2>13
    DEF Wrapper
<1>3. CASE ExecuteJob(j)
  <2>1. CASE StartJob(j)  BY <2>1 DEF StartJob
  <2>2. CASE SetupOk(j)  BY <2>2 DEF SetupOk
  <2>3. CASE SetupErr(j)  BY <2>3 DEF SetupErr
  <2>4. CASE SetupTeardown(j)  BY <2>4 DEF SetupTeardown
  <2>5. CASE SetupFinish(j)  BY <2>5 DEF SetupFinish
  <2>6. CASE StepCanceled(j)  BY <2>6 DEF StepCanceled
  <2>7. CASE StepAlive(j)  BY <2>7 DEF StepAlive
  <2>8. CASE StepsDone(j)  BY <2>8 DEF StepsDone
  <2>9. CASE StartStep(j)  BY <2>9 DEF StartStep
  <2>10. CASE StepOk(j)  BY <2>10 DEF StepOk
  <2>11. CASE StepFails(j)  BY <2>11 DEF StepFails
  <2>12. CASE FinishJob(j)  BY <2>12 DEF FinishJob
  <2>13. CASE Teardown(j)  BY <2>13 DEF Teardown
  <2>. QED
    BY <1>3, <2>1, <2>2, <2>3, <2>4, <2>5, <2>6, <2>7, <2>8, <2>9, <2>10, <2>11, <2>12, <2>13
    DEF ExecuteJob
<1>. QED
  BY <1>2, <1>3 DEF Job

(* What the stepping goroutine knows of its dependencies.  Two steps learn *)
(* something: the look at the context, by which no closed dependency can   *)
(* have been canceled, and the look at failedJobs, by which the others     *)
(* have succeeded.                                                         *)
LEMMA OwnWaited ==
    ASSUME TypeOK, EngineInv, NEW j \in Jobs, Job(j)
    PROVE  Waited(j)'
<1>1. PcStatus(j) /\ MapsWritten(j) /\ Waited(j)
  BY DEF EngineInv
<1>2. /\ UNCHANGED <<dependsOn, ctxErr>>
      /\ pc[j] # "unspawned"
  BY Frame
<1>3. \A d \in Jobs : DoneClosed(d) => DoneClosed(d)' /\ jobStatus'[d] = jobStatus[d]
  <2>1. \A d \in Jobs : DoneClosed(d) => jobStatus[d] \in Terminal
    BY DEF EngineInv, PcStatus, DoneClosed, Leaving
  <2>. QED
    BY <2>1, Frame DEF DoneClosed
<1>4. /\ DepsOf(j)' = DepsOf(j) /\ DepsOf(j) \subseteq Jobs
      /\ \A k \in 1 .. Len(dependsOn[j]) : dependsOn[j][k] \in DepsOf(j)
  BY <1>2, DepsAreJobs DEF DepsOf
<1>. DEFINE Closed == \A d \in DepsOf(j) : DoneClosed(d)
            Succeeded == \A d \in DepsOf(j) : jobStatus[d] = "success"
            NotCanceled == \A d \in DepsOf(j) : jobStatus[d] # "canceled"
            Prefix == \A k \in 1 .. Len(dependsOn[j]) :
                          k < depIdx[j] => DoneClosed(dependsOn[j][k])
<1>5. Closed => Closed'
  BY <1>3, <1>4
<1>6. (Closed /\ Succeeded => Succeeded') /\ (Closed /\ NotCanceled => NotCanceled')
  BY <1>3, <1>4
<1>7. Prefix /\ depIdx'[j] = depIdx[j] => Prefix'
  BY <1>2, <1>3, <1>4
<1>8. SUFFICES /\ Prefix'
               /\ pc'[j] # "await" /\ jobStatus'[j] # "canceled" => Closed'
               /\ pc'[j] = "checkDeps" => NotCanceled'
               /\ pc'[j] = "execute" \/ Started(j)' => Succeeded'
  BY DEF Waited
<1>9. /\ Prefix
      /\ pc[j] # "await" /\ jobStatus[j] # "canceled" => Closed
      /\ pc[j] = "checkDeps" => NotCanceled
      /\ pc[j] = "execute" \/ Started(j) => Succeeded
  BY <1>1, <1>2 DEF Waited
<1>10. CASE DepDone(j)
  <2>1. /\ pc[j] = "await" /\ pc' = pc /\ jobStatus' = jobStatus
        /\ DoneClosed(dependsOn[j][depIdx[j]])
        /\ depIdx' = [depIdx EXCEPT ![j] = @ + 1]
        /\ jobStatus[j] = "pending"
    BY <1>1, <1>10 DEF DepDone, PcStatus, NotBegun
  <2>2. \A k \in 1 .. Len(dependsOn[j]) : k < depIdx'[j] => DoneClosed(dependsOn[j][k])
    <3>1. depIdx[j] \in Nat /\ depIdx'[j] = depIdx[j] + 1
      BY <2>1 DEF TypeOK
    <3>2. \A k \in Nat : k < depIdx'[j] => k < depIdx[j] \/ k = depIdx[j]
      BY <3>1
    <3>. QED
      BY <1>9, <2>1, <3>2
  <2>3. Prefix'
    BY <1>2, <1>3, <1>4, <2>2
  <2>. QED
    BY <2>1, <2>3 DEF Started
<1>11. CASE DepsDone(j)
  <2>1. /\ pc[j] = "await" /\ pc'[j] = "checkCtx" /\ jobStatus' = jobStatus
        /\ depIdx[j] > Len(dependsOn[j]) /\ depIdx' = depIdx
        /\ jobStatus[j] = "pending"
    BY <1>1, <1>11 DEF DepsDone, PcStatus, NotBegun, Goto, TypeOK
  <2>2. \A d \in DepsOf(j) : \E k \in 1 .. Len(dependsOn[j]) : d = dependsOn[j][k]
    BY <1>2, DepsAreJobs DEF DepsOf
  <2>3. depIdx[j] \in Nat /\ Len(dependsOn[j]) \in Nat
    BY <1>2, DepsAreJobs DEF TypeOK
  <2>4. Closed
    BY <1>9, <2>1, <2>2, <2>3
  <2>. QED
    BY <1>5, <1>7, <1>9, <2>1, <2>4 DEF Started
<1>12. CASE AwaitCanceled(j) \/ CtxCanceled(j)
  BY <1>7, <1>9, <1>12 DEF AwaitCanceled, CtxCanceled, GiveUp, Goto, TypeOK, Started
<1>13. CASE CtxAlive(j)
  <2>1. /\ pc[j] = "checkCtx" /\ pc'[j] = "checkDeps" /\ ~ctxErr
        /\ UNCHANGED <<jobStatus, depIdx>> /\ jobStatus[j] = "pending"
    BY <1>1, <1>13 DEF CtxAlive, Goto, TypeOK, PcStatus, NotBegun
  <2>2. \A d \in Jobs : jobStatus[d] # "canceled"
    BY <2>1 DEF EngineInv, MapsWritten
  <2>. QED
    BY <1>4, <1>5, <1>6, <1>7, <1>9, <2>1, <2>2 DEF Started
<1>14. CASE DontSkip(j)
  <2>1. /\ pc[j] = "checkDeps" /\ pc'[j] = "execute" /\ DepsOf(j) \cap failedJobs = {}
        /\ UNCHANGED <<jobStatus, depIdx>> /\ jobStatus[j] = "pending"
    BY <1>1, <1>14 DEF DontSkip, ShouldSkip, Goto, TypeOK, PcStatus, NotBegun
  <2>2. Closed /\ NotCanceled
    BY <1>9, <2>1
  <2>3. \A d \in DepsOf(j) : jobStatus[d] \in Terminal \ {"failed", "skipped"}
    BY <1>4, <2>1, <2>2 DEF EngineInv, PcStatus, MapsWritten, DoneClosed, Leaving
  <2>4. Succeeded
    BY <2>2, <2>3 DEF Terminal
  <2>. QED
    BY <1>5, <1>6, <1>7, <1>9, <2>1, <2>2, <2>4
<1>15. CASE StartJob(j)
  <2>1. /\ pc[j] = "execute" /\ pc'[j] = "setup" /\ depIdx' = depIdx
        /\ jobStatus[j] = "pending"
    BY <1>1, <1>15 DEF StartJob, Goto, TypeOK, PcStatus, NotBegun
  <2>2. Closed /\ Succeeded
    BY <1>9, <2>1
  <2>. QED
    BY <1>5, <1>6, <1>7, <1>9, <2>1, <2>2
<1>16. CASE SkipJob(j)
  BY <1>1, <1>5, <1>7, <1>9, <1>16
  DEF SkipJob, Goto, TypeOK, PcStatus, NotBegun, Started
<1>. DEFINE Quiet == /\ depIdx'[j] = depIdx[j]
                     /\ pc[j] \notin {"await", "checkCtx", "checkDeps", "execute"}
                     /\ pc'[j] \notin {"await", "checkCtx", "checkDeps", "execute"}
                     /\ jobStatus'[j] # "canceled" => jobStatus[j] # "canceled"
                     /\ Started(j)' => Started(j)
                     /\ Started(j) => jobStatus[j] # "canceled"
<1>17. CASE Quiet
  BY <1>5, <1>6, <1>7, <1>9, <1>17 DEF Started
<1>18. ASSUME SkipMark(j) \/ SkipRecord(j) \/ Record(j) \/ Mark(j) \/ CloseDone(j) \/ WgDone(j)
       PROVE  Quiet
  BY <1>18 DEF SkipMark, SkipRecord, Record, Mark, CloseDone, WgDone, Goto, TypeOK, Started
<1>19. ASSUME ExecuteJob(j), ~StartJob(j)
       PROVE  Quiet
  <2>. USE <1>1 DEF Goto, TypeOK, PcStatus, InJob, Started
  <2>2. CASE SetupOk(j)  BY <2>2 DEF SetupOk
  <2>3. CASE SetupErr(j)  BY <2>3 DEF SetupErr
  <2>4. CASE SetupTeardown(j)  BY <2>4 DEF SetupTeardown
  <2>5. CASE SetupFinish(j)  BY <2>5 DEF SetupFinish
  <2>6. CASE StepCanceled(j)  BY <2>6 DEF StepCanceled
  <2>7. CASE StepAlive(j)  BY <2>7 DEF StepAlive
  <2>8. CASE StepsDone(j)  BY <2>8 DEF StepsDone
  <2>9. CASE StartStep(j)  BY <2>9 DEF StartStep
  <2>10. CASE StepOk(j)  BY <2>10 DEF StepOk
  <2>11. CASE StepFails(j)  BY <2>11 DEF StepFails
  <2>12. CASE FinishJob(j)  BY <2>12 DEF FinishJob
  <2>13. CASE Teardown(j)  BY <2>13 DEF Teardown
  <2>. QED
    BY <1>19, <2>2, <2>3, <2>4, <2>5, <2>6, <2>7, <2>8, <2>9, <2>10, <2>11, <2>12, <2>13
    DEF ExecuteJob
<1>. QED
  BY <1>10, <1>11, <1>12, <1>13, <1>14, <1>15, <1>16, <1>17, <1>18, <1>19
  DEF Job, Wrapper

(* The main goroutine and the caller: spawning opens every goroutine with  *)
(* nothing awaited, and Decide waits for all of them.                      *)
LEMMA MainKept ==
    ASSUME TypeOK, EngineInv, Main \/ Cancel \/ UNCHANGED vars
    PROVE  EngineInv'
<1>. USE DEF EngineInv, TypeOK, mainVars, jobVars, maps
<1>1. CASE Spawn
  <2>1. MainAt'
    BY <1>1 DEF Spawn, MainAt, Spawned, Schedulable, DepsOf
  <2>2. ~Spawned /\ \A j \in Jobs : pc[j] = "unspawned" /\ jobStatus[j] = "pending"
    BY <1>1 DEF Spawn, MainAt, Spawned, PcStatus, NotBegun
  <2>3. \A j \in Jobs : PcStatus(j)' /\ MapsWritten(j)'
    BY <1>1, <2>2
    DEF Spawn, PcStatus, MapsWritten, NotBegun, InJob, Leaving
  <2>4. \A j \in Jobs : Waited(j)'
    <3>1. /\ \A j \in Jobs : DepsOf(j) \subseteq Jobs /\ dependsOn[j] \in Seq(Names)
          /\ \A j \in Jobs : pc'[j] = "await"
          /\ UNCHANGED <<dependsOn, depIdx, jobStatus>>
      BY <1>1, GraphsAssumption DEF Spawn, Schedulable
    <3>2. \A j \in Jobs : \A k \in 1 .. Len(dependsOn[j]) : dependsOn[j][k] \in Jobs
      BY <3>1 DEF DepsOf
    <3>3. \A j \in Jobs : \A k \in 1 .. Len(dependsOn[j]) : ~(k < depIdx[j])
      BY <2>2, <3>2 DEF Waited, DoneClosed
    <3>. QED
      BY <2>2, <3>1, <3>3 DEF Waited, Started
  <2>. QED
    BY <2>1, <2>3, <2>4
<1>2. ASSUME UNCHANGED <<dependsOn, jobVars, maps>>, ctxErr => ctxErr', MainAt'
      PROVE  EngineInv'
  BY <1>2 DEF PcStatus, MapsWritten, Waited, DoneClosed, DepsOf, Started
<1>3. CASE Begin
  BY <1>2, <1>3 DEF Begin, MainAt, Spawned, DepsOf, AllExited
<1>4. CASE ScheduleError
  BY <1>2, <1>4 DEF ScheduleError, MainAt, Spawned, DepsOf, AllExited
<1>5. CASE Decide
  <2>1. /\ mainPc = "wait" /\ mainPc' = "finish" /\ AllExited
        /\ UNCHANGED <<dependsOn, pc>>
    BY <1>5 DEF Decide
  <2>2. MainAt'
    BY <2>1 DEF MainAt, Spawned, DepsOf, AllExited
  <2>. QED
    BY <1>2, <1>5, <2>2 DEF Decide
<1>6. CASE Finish
  BY <1>2, <1>6 DEF Finish, MainAt, Spawned, DepsOf, AllExited
<1>7. CASE Cancel
  BY <1>2, <1>7 DEF Cancel, MainAt, Spawned, DepsOf, AllExited
<1>8. CASE UNCHANGED vars
  <2>1. UNCHANGED <<dependsOn, ctxErr, mainPc, pipelineStatus, pc, jobVars, maps>>
    BY <1>8 DEF vars
  <2>2. MainAt'
    <3>1. MainAt
      OBVIOUS
    <3>. HIDE DEF EngineInv, TypeOK
    <3>. QED
      BY <2>1, <3>1 DEF MainAt, Spawned, DepsOf, AllExited
  <2>. QED
    BY <1>2, <2>1, <2>2
<1>. HIDE DEF EngineInv, TypeOK
<1>. QED
  BY <1>1, <1>3, <1>4, <1>5, <1>6, <1>7, <1>8 DEF Main

LEMMA MainAtKept ==
    ASSUME TypeOK, EngineInv, NEW j \in Jobs, Job(j)
    PROVE  MainAt'
<1>1. UNCHANGED <<dependsOn, mainPc, pipelineStatus>> /\ pc[j] \notin {"unspawned", "exited"}
      /\ pc'[j] # "unspawned" /\ \A i \in Jobs \ {j} : pc'[i] = pc[i]
  BY Frame DEF mainVars
<1>. QED
  BY <1>1 DEF EngineInv, MainAt, Spawned, AllExited, DepsOf

LEMMA EngineInvInit == Init => EngineInv
  BY DEF Init, EngineInv, MainAt, Spawned, PcStatus, MapsWritten, Waited, NotBegun,
         InJob, Leaving, Started, DoneClosed

(* EngineInv holds in every reachable state.                               *)
THEOREM EngineInvariant == Spec => []EngineInv
<1>1. TypeOK /\ EngineInv /\ [Next]_vars => EngineInv'
  <2>1. ASSUME TypeOK, EngineInv, NEW j \in Jobs, Job(j) PROVE EngineInv'
    BY <2>1, OthersKept, OwnStatus, OwnWaited, MainAtKept DEF EngineInv
  <2>. QED
    BY <2>1, MainKept DEF Next, Returned
<1>. QED
  BY EngineInvInit, TypeCorrect, <1>1, PTL DEF Spec

(* The promise of depends_on: whatever the graph and the interleaving, a   *)
(* job runs only after each of its dependencies has succeeded and left its *)
(* goroutine's body.                                                       *)
THEOREM DependencySafety == Spec => []StartOnlyAfterSuccess
<1>1. TypeOK /\ EngineInv => StartOnlyAfterSuccess
  <2>1. ASSUME TypeOK, EngineInv, NEW j \in Jobs, Started(j), NEW d \in DepsOf(j)
        PROVE  d \in Jobs /\ jobStatus[d] = "success" /\ DoneClosed(d)
    <3>1. PcStatus(j) /\ Waited(j)
      BY <2>1 DEF EngineInv
    <3>2. pc[j] \notin {"unspawned", "await"} /\ jobStatus[j] # "canceled"
      BY <2>1, <3>1 DEF PcStatus, NotBegun, Started
    <3>. QED
      BY <2>1, <3>1, <3>2, DepsAreJobs DEF Waited
  <2>. QED
    BY <2>1 DEF StartOnlyAfterSuccess
<1>. QED
  BY TypeCorrect, EngineInvariant, <1>1, PTL

-----------------------------------------------------------------------------
(* The other properties, from TypeOK and EngineInv.                        *)

(* An outcome is final: no later branch of a goroutine overwrites it.      *)
THEOREM OutcomesAreFinal == Spec => OutcomeIsFinal
<1>1. ASSUME TypeOK, EngineInv, [Next]_vars
      PROVE  \A j \in Jobs : jobStatus[j] \in Terminal => jobStatus'[j] = jobStatus[j]
  <2>1. ASSUME NEW j \in Jobs, Job(j)
        PROVE  \A i \in Jobs : jobStatus[i] \in Terminal => jobStatus'[i] = jobStatus[i]
    BY <1>1, <2>1, Frame
  <2>2. CASE Main \/ Cancel \/ UNCHANGED vars
    BY <2>2 DEF Main, Begin, ScheduleError, Spawn, Decide, Finish, Cancel, vars, jobVars
  <2>. QED
    BY <1>1, <2>1, <2>2 DEF Next, Returned
<1>. QED
  BY TypeCorrect, EngineInvariant, <1>1, PTL DEF Spec, OutcomeIsFinal

(* PipelineFinished is the last event of a run: when Execute has returned  *)
(* no goroutine is left that could log anything.                           *)
THEOREM FinishedIsLast == Spec => NothingAfterFinished
<1>1. ASSUME TypeOK, EngineInv, [Next]_vars, mainPc = "returned"
      PROVE  UNCHANGED <<trace, pipelineEvents>>
  <2>1. ASSUME NEW j \in Jobs, Job(j) PROVE FALSE
    <3>1. pc[j] \notin {"unspawned", "exited"}
      BY <1>1, <2>1, Frame
    <3>. QED
      BY <1>1, <3>1 DEF EngineInv, MainAt, Spawned, AllExited
  <2>2. CASE Main \/ Cancel \/ UNCHANGED vars
    BY <1>1, <2>2
    DEF Main, Begin, ScheduleError, Spawn, Decide, Finish, Cancel, vars, jobVars, mainVars
  <2>. QED
    BY <1>1, <2>1, <2>2 DEF Next, Returned
<1>. QED
  BY TypeCorrect, EngineInvariant, <1>1, PTL DEF Spec, NothingAfterFinished

(* Each job has its result, and it is an outcome, once Execute decides.    *)
LEMMA AllRecorded ==
    ASSUME TypeOK, EngineInv, AllExited
    PROVE  \A j \in Jobs : jobResults[j] = jobStatus[j] /\ jobStatus[j] \in Terminal
  BY DEF EngineInv, PcStatus, MapsWritten, AllExited, Leaving

THEOREM ResultsAreComplete == Spec => []ResultsComplete
<1>1. TypeOK /\ EngineInv => ResultsComplete
  BY AllRecorded DEF ResultsComplete, Decided, EngineInv, MainAt
<1>. QED
  BY TypeCorrect, EngineInvariant, <1>1, PTL

(* A skip can be traced back, through dependencies only, to a failure.     *)
THEOREM SkipsAreCaused == Spec => []SkipHasFailedAncestor
<1>1. Init => SkipHasFailedAncestor
  BY DEF Init, SkipHasFailedAncestor
<1>2. TypeOK /\ EngineInv /\ SkipHasFailedAncestor /\ [Next]_vars => SkipHasFailedAncestor'
  <2>. SUFFICES ASSUME TypeOK, EngineInv, SkipHasFailedAncestor, [Next]_vars
                PROVE  SkipHasFailedAncestor'
    OBVIOUS
  <2>1. CASE Main \/ Cancel \/ UNCHANGED vars
    BY <2>1 DEF SkipHasFailedAncestor, DepsOf, Main, Begin, ScheduleError, Spawn, Decide,
                Finish, Cancel, vars, jobVars
  <2>2. ASSUME NEW j \in Jobs, Job(j) PROVE SkipHasFailedAncestor'
    <3>1. /\ dependsOn' = dependsOn
          /\ \A i \in Jobs \ {j} : jobStatus'[i] = jobStatus[i]
          /\ jobStatus[j] \in Terminal => jobStatus'[j] = jobStatus[j]
      BY <2>2, Frame
    <3>. SUFFICES ASSUME NEW S \in SUBSET Jobs, \A i \in S : DepsOf(i) \subseteq S,
                         NEW k \in S, jobStatus'[k] = "skipped"
                  PROVE  \E i \in S : jobStatus'[i] = "failed"
      BY <3>1 DEF SkipHasFailedAncestor, DepsOf
    <3>2. CASE jobStatus[k] = "skipped"
      <4>1. PICK i \in S : jobStatus[i] = "failed"
        BY <3>2 DEF SkipHasFailedAncestor
      <4>. QED
        BY <4>1, <3>1 DEF Terminal
    <3>3. CASE jobStatus[k] # "skipped"
      <4>1. k = j
        BY <3>1, <3>3
      <4>2. SkipJob(j)
        <5>1. jobStatus'[j] = "skipped" /\ jobStatus[j] # "skipped"
          BY <4>1, <3>3
        <5>2. CASE Wrapper(j)
          BY <5>1, <5>2 DEF Wrapper, DepDone, DepsDone, AwaitCanceled, CtxCanceled, GiveUp,
             CtxAlive, SkipMark, SkipRecord, DontSkip, Record, Mark, CloseDone, WgDone, TypeOK
        <5>3. CASE ExecuteJob(j)
          BY <5>1, <5>3 DEF ExecuteJob, StartJob, SetupOk, SetupErr, SetupTeardown,
             SetupFinish, StepCanceled, StepAlive, StepsDone, StartStep, StepOk, StepFails,
             FinishJob, Teardown, TypeOK
        <5>. QED
          BY <2>2, <5>2, <5>3 DEF Job
      <4>3. PICK d \in DepsOf(j) : d \in failedJobs
        BY <4>2 DEF SkipJob, ShouldSkip
      <4>4. d \in S /\ jobStatus[d] \in {"failed", "skipped"}
        BY <4>1, <4>3 DEF EngineInv, MapsWritten, TypeOK
      <4>5. PICK i \in S : jobStatus[i] = "failed"
        BY <4>4 DEF SkipHasFailedAncestor
      <4>. QED
        BY <4>5, <3>1 DEF Terminal
    <3>. QED
      BY <3>2, <3>3
  <2>. QED
    BY <2>1, <2>2 DEF Next, Returned
<1>. QED
  BY TypeCorrect, EngineInvariant, <1>1, <1>2, PTL DEF Spec

(* The pipeline's status agrees with its jobs'.  The hard case is success: *)
(* a skipped job would need a failed ancestor, which Decide would have     *)
(* seen among the results.                                                 *)
THEOREM FinalStatusAgrees == Spec => []FinalStatusSound
<1>1. Init => FinalStatusSound
  BY DEF Init, FinalStatusSound, Decided
<1>2. TypeOK /\ EngineInv /\ SkipHasFailedAncestor /\ FinalStatusSound /\ [Next]_vars
         => FinalStatusSound'
  <2>. SUFFICES ASSUME TypeOK, EngineInv, SkipHasFailedAncestor, FinalStatusSound, [Next]_vars,
                       Decided'
                PROVE  FinalStatusSound'
    BY DEF FinalStatusSound
  <2>1. CASE Decide
    <3>1. /\ \A j \in Jobs : jobResults[j] = jobStatus[j] /\ jobStatus[j] \in Terminal
          /\ pipelineStatus' = FinalStatus /\ jobStatus' = jobStatus /\ ctxErr' = ctxErr
      BY <2>1, AllRecorded DEF Decide, jobVars
    <3>2. \A j \in Jobs : DepsOf(j) \subseteq Jobs
      BY <2>1, DepsAreJobs DEF Decide, AllExited
    <3>3. (\E j \in Jobs : jobStatus[j] = "skipped") => \E j \in Jobs : jobStatus[j] = "failed"
      BY <3>2 DEF SkipHasFailedAncestor
    <3>4. \A j \in Jobs : jobStatus[j] = "canceled" => ctxErr
      BY DEF EngineInv, MapsWritten
    <3>. QED
      BY <3>1, <3>3, <3>4 DEF FinalStatusSound, FinalStatus, Terminal
  <2>2. ASSUME NEW j \in Jobs, Job(j) PROVE FALSE
    <3>1. mainPc' = mainPc /\ pc[j] \notin {"unspawned", "exited"}
      BY <2>2, Frame DEF mainVars
    <3>2. mainPc \in {"finish", "returned"} /\ Spawned
      BY <3>1 DEF Decided, Spawned
    <3>. QED
      BY <3>1, <3>2 DEF EngineInv, MainAt, AllExited
  <2>3. CASE Begin \/ ScheduleError \/ Spawn
    BY <2>3 DEF Begin, ScheduleError, Spawn, Decided, Spawned, EngineInv, MainAt, jobVars
  <2>4. CASE Finish \/ Cancel \/ UNCHANGED vars
    BY <2>4 DEF Finish, Cancel, vars, Decided, Spawned, jobVars, mainVars, FinalStatusSound
  <2>. QED
    BY <2>1, <2>2, <2>3, <2>4 DEF Next, Main, Returned
<1>. QED
  BY TypeCorrect, EngineInvariant, SkipsAreCaused, <1>1, <1>2, PTL DEF Spec

-----------------------------------------------------------------------------
(* Cancellation.                                                           *)

(* Where a goroutine has seen the context alive since its last start, or   *)
(* has not started anything, it has made no late start.                    *)
NotLateYet == {"unspawned", "await", "checkCtx", "checkDeps", "skipMark", "skipRecord",
               "execute", "stepStart"}

LateInv ==
    \A j \in Jobs :
        /\ lateStarts[j] \in {0, 1}
        /\ lateStarts[j] = 1 => ctxErr /\ pc[j] \notin NotLateYet

(* A goroutine may start one job or step after the cancellation, the one   *)
(* it had checked the context for before, and no second one.               *)
THEOREM CancellationIsBounded == Spec => []CancellationBounded
<1>1. Init => LateInv
  BY DEF Init, LateInv
<1>2. TypeOK /\ EngineInv /\ LateInv /\ [Next]_vars => LateInv'
  <2>. SUFFICES ASSUME TypeOK, EngineInv, LateInv, [Next]_vars
                PROVE  LateInv'
    OBVIOUS
  <2>1. ASSUME NEW j \in Jobs, Job(j) PROVE LateInv'
    <3>1. /\ ctxErr' = ctxErr
          /\ \A i \in Jobs \ {j} : lateStarts'[i] = lateStarts[i] /\ pc'[i] = pc[i]
      <4>1. CASE Wrapper(j)
        BY <4>1 DEF Wrapper, DepDone, DepsDone, AwaitCanceled, CtxCanceled, GiveUp, CtxAlive,
           SkipJob, SkipMark, SkipRecord, DontSkip, Record, Mark, CloseDone, WgDone, Goto, TypeOK
      <4>2. CASE ExecuteJob(j)
        BY <4>2 DEF ExecuteJob, StartJob, SetupOk, SetupErr, SetupTeardown, SetupFinish,
           StepCanceled, StepAlive, StepsDone, StartStep, StepOk, StepFails, FinishJob,
           Teardown, Count, Goto, TypeOK
      <4>. QED
        BY <2>1, <4>1, <4>2 DEF Job
    <3>2. /\ lateStarts'[j] \in {0, 1}
          /\ lateStarts'[j] = 1 => ctxErr /\ pc'[j] \notin NotLateYet
      <4>1. CASE Wrapper(j)
        BY <4>1 DEF Wrapper, DepDone, DepsDone, AwaitCanceled, CtxCanceled, GiveUp, CtxAlive,
           SkipJob, SkipMark, SkipRecord, DontSkip, Record, Mark, CloseDone, WgDone, Goto, TypeOK,
           LateInv, NotLateYet
      <4>2. CASE StartJob(j) \/ StartStep(j)
        BY <4>2 DEF StartJob, StartStep, Count, Goto, TypeOK, LateInv, NotLateYet
      <4>3. CASE ExecuteJob(j) /\ ~(StartJob(j) \/ StartStep(j))
        BY <4>3 DEF ExecuteJob, SetupOk, SetupErr, SetupTeardown, SetupFinish,
           StepCanceled, StepAlive, StepsDone, StepOk, StepFails, FinishJob,
           Teardown, Goto, TypeOK, LateInv, NotLateYet
      <4>. QED
        BY <2>1, <4>1, <4>2, <4>3 DEF Job
    <3>. QED
      BY <3>1, <3>2 DEF LateInv
  <2>2. CASE Spawn
    <3>1. \A j \in Jobs : lateStarts[j] = 0
      BY <2>2 DEF Spawn, EngineInv, MainAt, Spawned, LateInv, NotLateYet
    <3>. QED
      BY <2>2, <3>1 DEF Spawn, LateInv
  <2>3. CASE Cancel \/ Begin \/ ScheduleError \/ Decide \/ Finish \/ UNCHANGED vars
    BY <2>3 DEF LateInv, Cancel, Begin, ScheduleError, Decide, Finish, vars, jobVars
  <2>. QED
    BY <2>1, <2>2, <2>3 DEF Next, Main, Returned
<1>3. LateInv => CancellationBounded
  BY DEF LateInv, CancellationBounded
<1>. QED
  BY TypeCorrect, EngineInvariant, <1>1, <1>2, <1>3, PTL DEF Spec

-----------------------------------------------------------------------------
(* The trace of a job.                                                     *)

Opened(T) == Len(T) > 1 /\ T[1].type = "JobStarted" /\ T[2].type = "Setup"

(* Past the second entry, up to the m-th, each step is started and then    *)
(* finished before the next entry.                                         *)
StepsUpTo(T, m) ==
    \A i \in 3 .. m :
        \/ T[i].type = "StepFinished"
        \/ /\ T[i].type = "StepStarted" /\ i < m
           /\ T[i + 1].type = "StepFinished" /\ T[i + 1].step = T[i].step

Skipped(T) == Len(T) = 1 /\ T[1].type = "JobSkipped"

SetupFailed(T) ==
    /\ Len(T) = 4 /\ Opened(T) /\ T[3].type = "Teardown"
    /\ T[4].type = "JobFinished" /\ T[4].status = "failed"

RanToEnd(T, status) ==
    /\ Len(T) > 3 /\ Opened(T) /\ StepsUpTo(T, Len(T) - 2)
    /\ T[Len(T) - 1].type = "JobFinished" /\ T[Len(T) - 1].status = status
    /\ T[Len(T)].type = "Teardown"

(* The trace of a goroutine that has left executeJob, or never entered it. *)
Told(T, status) ==
    \/ T = <<>> /\ status = "canceled"
    \/ Skipped(T) /\ status = "skipped"
    \/ SetupFailed(T) /\ status = "failed"
    \/ RanToEnd(T, status) /\ status \in {"success", "failed"}

(* The trace of a goroutine by where it is.                                *)
TraceFits(T, at, status, step) ==
    /\ at \in NotBegun => T = <<>>
    /\ at \in {"skipMark", "skipRecord"} => Skipped(T)
    /\ at = "setup" => Len(T) = 1 /\ T[1].type = "JobStarted"
    /\ at = "setupTeardown" => Len(T) = 2 /\ Opened(T)
    /\ at = "setupFinish" => Len(T) = 3 /\ Opened(T) /\ T[3].type = "Teardown"
    /\ at \in {"stepCheck", "stepStart", "finishJob"} => Opened(T) /\ StepsUpTo(T, Len(T))
    /\ at = "stepRun" =>
          /\ Opened(T) /\ Len(T) > 2 /\ StepsUpTo(T, Len(T) - 1)
          /\ T[Len(T)].type = "StepStarted" /\ T[Len(T)].step = step
    /\ at = "teardown" =>
          /\ Opened(T) /\ Len(T) > 2 /\ StepsUpTo(T, Len(T) - 1)
          /\ T[Len(T)].type = "JobFinished" /\ T[Len(T)].status = status
    /\ at \in {"record", "mark"} \cup Leaving => Told(T, status)

TraceInv == \A j \in Jobs : TraceFits(trace[j], pc[j], jobStatus[j], stepIdx[j])

(* U is T and one entry more.                                              *)
Longer(T, U, type, step, status) ==
    /\ Len(T) \in Nat /\ Len(U) = Len(T) + 1
    /\ \A i \in 1 .. Len(T) : U[i] = T[i]
    /\ U[Len(T) + 1].type = type /\ U[Len(T) + 1].step = step /\ U[Len(T) + 1].status = status

LEMMA LogIsLonger ==
    ASSUME TypeOK, NEW j \in Jobs, NEW type \in EntryTypes, NEW step \in Nat,
           NEW status \in Statuses, Log(j, type, step, status)
    PROVE  /\ Longer(trace[j], trace'[j], type, step, status)
           /\ \A i \in Jobs \ {j} : trace'[i] = trace[i]
<1>. DEFINE e == Entry(type, step, status)
<1>1. /\ trace[j] \in Seq(Entries) /\ e \in Entries
      /\ e.type = type /\ e.step = step /\ e.status = status
  BY DEF TypeOK, Entry, Entries
<1>2. trace' = [trace EXCEPT ![j] = Append(trace[j], e)] /\ trace \in [Jobs -> Seq(Entries)]
  BY DEF Log, TypeOK
<1>. HIDE DEF e
<1>3. trace'[j] = Append(trace[j], e) /\ \A i \in Jobs \ {j} : trace'[i] = trace[i]
  BY <1>2
<1>4. /\ Len(trace[j]) \in Nat /\ Len(trace'[j]) = Len(trace[j]) + 1
      /\ \A i \in 1 .. Len(trace[j]) : trace'[j][i] = trace[j][i]
      /\ trace'[j][Len(trace[j]) + 1] = e
  BY <1>1, <1>3
<1>. QED
  BY <1>1, <1>3, <1>4 DEF Longer

LEMMA LongerKeeps ==
    ASSUME NEW T, NEW U, NEW type, NEW step, NEW status, Longer(T, U, type, step, status),
           Opened(T)
    PROVE  /\ Opened(U)
           /\ \A m \in 0 .. Len(T) : StepsUpTo(T, m) => StepsUpTo(U, m)
<1>1. Opened(U)
  BY DEF Longer, Opened
<1>2. ASSUME NEW m \in 0 .. Len(T), StepsUpTo(T, m)
      PROVE  StepsUpTo(U, m)
  <2>1. ASSUME NEW i \in 3 .. m
        PROVE  \/ U[i].type = "StepFinished"
               \/ /\ U[i].type = "StepStarted" /\ i < m
                  /\ U[i + 1].type = "StepFinished" /\ U[i + 1].step = U[i].step
    <3>1. i \in 1 .. Len(T) /\ (i < m => i + 1 \in 1 .. Len(T))
      BY DEF Longer
    <3>2. U[i] = T[i] /\ (i < m => U[i + 1] = T[i + 1])
      BY <3>1 DEF Longer
    <3>3. \/ T[i].type = "StepFinished"
          \/ /\ T[i].type = "StepStarted" /\ i < m
             /\ T[i + 1].type = "StepFinished" /\ T[i + 1].step = T[i].step
      BY <1>2 DEF StepsUpTo
    <3>. QED
      BY <3>2, <3>3
  <2>. QED
    BY <2>1 DEF StepsUpTo
<1>. QED
  BY <1>1, <1>2

(* The entry that finishes the step started last.                          *)
LEMMA StepFinishedFits ==
    ASSUME NEW T, NEW U, NEW step, NEW status,
           Longer(T, U, "StepFinished", step, status), Opened(T), Len(T) > 2,
           StepsUpTo(T, Len(T) - 1), T[Len(T)].type = "StepStarted", T[Len(T)].step = step
    PROVE  Opened(U) /\ StepsUpTo(U, Len(U))
<1>. DEFINE n == Len(T)
<1>1. n \in Nat /\ n > 2 /\ Len(U) = n + 1 /\ n - 1 \in 0 .. n
  BY DEF Longer
<1>2. Opened(U) /\ StepsUpTo(U, n - 1)
  BY <1>1, LongerKeeps
<1>3. /\ U[n].type = "StepStarted" /\ U[n].step = step
      /\ U[n + 1].type = "StepFinished" /\ U[n + 1].step = step
  BY <1>1 DEF Longer
<1>. HIDE DEF n
<1>4. ASSUME NEW i \in 3 .. n + 1
      PROVE  \/ U[i].type = "StepFinished"
             \/ /\ U[i].type = "StepStarted" /\ i < n + 1
                /\ U[i + 1].type = "StepFinished" /\ U[i + 1].step = U[i].step
  <2>1. CASE i = n + 1
    BY <1>3, <2>1
  <2>2. CASE i = n
    BY <1>1, <1>3, <2>2
  <2>3. CASE i \in 3 .. n - 1
    BY <1>1, <1>2, <2>3 DEF StepsUpTo
  <2>. QED
    BY <1>1, <2>1, <2>2, <2>3
<1>. QED
  BY <1>1, <1>2, <1>4 DEF StepsUpTo

(* A step of the goroutine outside executeJob.                             *)
LEMMA WrapperFits ==
    ASSUME TypeOK, EngineInv, NEW j \in Jobs, Wrapper(j),
           TraceFits(trace[j], pc[j], jobStatus[j], stepIdx[j])
    PROVE  /\ TraceFits(trace'[j], pc'[j], jobStatus'[j], stepIdx'[j])
           /\ \A i \in Jobs \ {j} : trace'[i] = trace[i] /\ stepIdx'[i] = stepIdx[i]
<1>. USE DEF Goto, TypeOK
<1>1. PcStatus(j)
  BY DEF EngineInv
<1>2. CASE SkipJob(j)
  <2>1. /\ pc[j] = "checkDeps" /\ pc'[j] = "skipMark" /\ Log(j, "JobSkipped", 0, "skipped")
        /\ stepIdx' = stepIdx
    BY <1>2 DEF SkipJob
  <2>2. /\ Longer(trace[j], trace'[j], "JobSkipped", 0, "skipped")
        /\ \A i \in Jobs \ {j} : trace'[i] = trace[i]
    BY <2>1, LogIsLonger DEF EntryTypes, Statuses, Terminal
  <2>3. trace[j] = <<>>
    BY <2>1 DEF TraceFits, NotBegun
  <2>4. Skipped(trace'[j])
    BY <2>2, <2>3 DEF Longer, Skipped
  <2>. QED
    BY <2>1, <2>2, <2>4 DEF TraceFits, NotBegun, Leaving
<1>3. CASE AwaitCanceled(j) \/ CtxCanceled(j)
  <2>1. /\ pc[j] \in NotBegun /\ pc'[j] = "close" /\ jobStatus'[j] = "canceled"
        /\ UNCHANGED <<trace, stepIdx>>
    BY <1>3 DEF AwaitCanceled, CtxCanceled, GiveUp, NotBegun
  <2>2. trace'[j] = <<>>
    BY <2>1 DEF TraceFits
  <2>. QED
    BY <2>1, <2>2 DEF TraceFits, Told, NotBegun, Leaving
<1>4. CASE DepDone(j) \/ DepsDone(j) \/ CtxAlive(j) \/ DontSkip(j)
  <2>1. pc[j] \in NotBegun /\ pc'[j] \in NotBegun /\ UNCHANGED <<trace, stepIdx>>
    BY <1>4 DEF DepDone, DepsDone, CtxAlive, DontSkip, NotBegun
  <2>2. trace'[j] = <<>>
    BY <2>1 DEF TraceFits
  <2>. QED
    BY <2>1, <2>2 DEF TraceFits, NotBegun, Leaving
<1>5. CASE SkipMark(j) \/ SkipRecord(j)
  <2>1. /\ pc[j] \in {"skipMark", "skipRecord"} /\ pc'[j] \in {"skipRecord", "close"}
        /\ UNCHANGED <<trace, stepIdx, jobStatus>> /\ jobStatus[j] = "skipped"
    BY <1>1, <1>5 DEF SkipMark, SkipRecord, PcStatus
  <2>2. Skipped(trace'[j])
    BY <2>1 DEF TraceFits
  <2>. QED
    BY <2>1, <2>2 DEF TraceFits, Told, NotBegun, Leaving
<1>6. CASE Record(j) \/ Mark(j) \/ CloseDone(j) \/ WgDone(j)
  <2>1. /\ pc[j] \in {"record", "mark"} \cup Leaving /\ pc'[j] \in {"mark"} \cup Leaving
        /\ UNCHANGED <<trace, stepIdx, jobStatus>>
    BY <1>6 DEF Record, Mark, CloseDone, WgDone, Leaving
  <2>2. Told(trace'[j], jobStatus'[j])
    BY <2>1 DEF TraceFits
  <2>. QED
    BY <2>1, <2>2 DEF TraceFits, NotBegun, Leaving
<1>. QED
  BY <1>2, <1>3, <1>4, <1>5, <1>6 DEF Wrapper

(* A step of executeJob up to the first look at the steps.                 *)
LEMMA SetupFits ==
    ASSUME TypeOK, EngineInv, NEW j \in Jobs,
           StartJob(j) \/ SetupOk(j) \/ SetupErr(j) \/ SetupTeardown(j) \/ SetupFinish(j),
           TraceFits(trace[j], pc[j], jobStatus[j], stepIdx[j])
    PROVE  /\ TraceFits(trace'[j], pc'[j], jobStatus'[j], stepIdx'[j])
           /\ \A i \in Jobs \ {j} : trace'[i] = trace[i] /\ stepIdx'[i] = stepIdx[i]
<1>. USE DEF Goto, TypeOK
<1>1. CASE StartJob(j)
  <2>1. /\ pc[j] = "execute" /\ pc'[j] = "setup" /\ Log(j, "JobStarted", 0, "running")
        /\ stepIdx' = stepIdx
    BY <1>1 DEF StartJob
  <2>2. /\ Longer(trace[j], trace'[j], "JobStarted", 0, "running")
        /\ \A i \in Jobs \ {j} : trace'[i] = trace[i]
    BY <2>1, LogIsLonger DEF EntryTypes, Statuses
  <2>3. trace[j] = <<>>
    BY <2>1 DEF TraceFits, NotBegun
  <2>4. Len(trace'[j]) = 1 /\ trace'[j][1].type = "JobStarted"
    BY <2>2, <2>3 DEF Longer
  <2>. QED
    BY <2>1, <2>2, <2>4 DEF TraceFits, NotBegun, Leaving
<1>2. CASE SetupOk(j) \/ SetupErr(j)
  <2>1. /\ pc[j] = "setup" /\ pc'[j] \in {"stepCheck", "setupTeardown"} /\ stepIdx' = stepIdx
        /\ \E status \in {"success", "failed"} : Log(j, "Setup", 0, status)
    BY <1>2 DEF SetupOk, SetupErr
  <2>2. PICK status \in {"success", "failed"} : Log(j, "Setup", 0, status)
    BY <2>1
  <2>3. /\ Longer(trace[j], trace'[j], "Setup", 0, status)
        /\ \A i \in Jobs \ {j} : trace'[i] = trace[i]
    BY <2>2, LogIsLonger DEF EntryTypes, Statuses, Terminal
  <2>4. Len(trace[j]) = 1 /\ trace[j][1].type = "JobStarted"
    BY <2>1 DEF TraceFits
  <2>5. Len(trace'[j]) = 2 /\ Opened(trace'[j])
    BY <2>3, <2>4 DEF Longer, Opened
  <2>6. StepsUpTo(trace'[j], 2)
    BY DEF StepsUpTo
  <2>. QED
    BY <2>1, <2>3, <2>5, <2>6 DEF TraceFits, NotBegun, Leaving
<1>3. CASE SetupTeardown(j)
  <2>1. /\ pc[j] = "setupTeardown" /\ pc'[j] = "setupFinish" /\ stepIdx' = stepIdx
        /\ Log(j, "Teardown", 0, jobStatus[j])
    BY <1>3 DEF SetupTeardown
  <2>2. /\ Longer(trace[j], trace'[j], "Teardown", 0, jobStatus[j])
        /\ \A i \in Jobs \ {j} : trace'[i] = trace[i]
    BY <2>1, LogIsLonger DEF EntryTypes
  <2>3. Len(trace[j]) = 2 /\ Opened(trace[j])
    BY <2>1 DEF TraceFits
  <2>4. Opened(trace'[j])
    BY <2>2, <2>3, LongerKeeps
  <2>5. Len(trace'[j]) = 3 /\ trace'[j][3].type = "Teardown"
    BY <2>2, <2>3 DEF Longer
  <2>. QED
    BY <2>1, <2>2, <2>4, <2>5 DEF TraceFits, NotBegun, Leaving
<1>4. CASE SetupFinish(j)
  <2>1. /\ pc[j] = "setupFinish" /\ pc'[j] = "record" /\ UNCHANGED <<stepIdx, jobStatus>>
        /\ Log(j, "JobFinished", 0, "failed")
    BY <1>4 DEF SetupFinish
  <2>2. /\ Longer(trace[j], trace'[j], "JobFinished", 0, "failed")
        /\ \A i \in Jobs \ {j} : trace'[i] = trace[i]
    BY <2>1, LogIsLonger DEF EntryTypes, Statuses, Terminal
  <2>3. Len(trace[j]) = 3 /\ Opened(trace[j]) /\ trace[j][3].type = "Teardown"
    BY <2>1 DEF TraceFits
  <2>4. Opened(trace'[j])
    BY <2>2, <2>3, LongerKeeps
  <2>5. /\ Len(trace'[j]) = 4 /\ trace'[j][3].type = "Teardown"
        /\ trace'[j][4].type = "JobFinished" /\ trace'[j][4].status = "failed"
    BY <2>2, <2>3 DEF Longer
  <2>6. SetupFailed(trace'[j])
    BY <2>4, <2>5 DEF SetupFailed
  <2>7. jobStatus'[j] = "failed"
    BY <2>1 DEF EngineInv, PcStatus
  <2>. QED
    BY <2>1, <2>2, <2>6, <2>7 DEF TraceFits, Told, NotBegun, Leaving
<1>. QED
  BY <1>1, <1>2, <1>3, <1>4

(* A step of executeJob from the first look at the steps on.               *)
LEMMA StepsFit ==
    ASSUME TypeOK, EngineInv, NEW j \in Jobs, ExecuteJob(j),
           ~(StartJob(j) \/ SetupOk(j) \/ SetupErr(j) \/ SetupTeardown(j) \/ SetupFinish(j)),
           TraceFits(trace[j], pc[j], jobStatus[j], stepIdx[j])
    PROVE  /\ TraceFits(trace'[j], pc'[j], jobStatus'[j], stepIdx'[j])
           /\ \A i \in Jobs \ {j} : trace'[i] = trace[i] /\ stepIdx'[i] = stepIdx[i]
<1>. USE DEF Goto, TypeOK
<1>1. CASE StepCanceled(j) \/ StepAlive(j) \/ StepsDone(j)
  <2>1. /\ pc[j] = "stepCheck" /\ pc'[j] \in {"stepStart", "finishJob"}
        /\ UNCHANGED <<trace, stepIdx>>
    BY <1>1 DEF StepCanceled, StepAlive, StepsDone
  <2>. QED
    BY <2>1 DEF TraceFits, NotBegun, Leaving
<1>2. CASE StartStep(j)
  <2>1. /\ pc[j] = "stepStart" /\ pc'[j] = "stepRun" /\ stepIdx' = stepIdx
        /\ Log(j, "StepStarted", stepIdx[j], "running") /\ stepIdx[j] \in Nat
    BY <1>2 DEF StartStep
  <2>2. /\ Longer(trace[j], trace'[j], "StepStarted", stepIdx[j], "running")
        /\ \A i \in Jobs \ {j} : trace'[i] = trace[i]
    BY <2>1, LogIsLonger DEF EntryTypes, Statuses
  <2>3. Opened(trace[j]) /\ StepsUpTo(trace[j], Len(trace[j]))
    BY <2>1 DEF TraceFits
  <2>4. Len(trace[j]) \in Nat /\ Len(trace[j]) > 1 /\ Len(trace'[j]) = Len(trace[j]) + 1
    BY <2>2, <2>3 DEF Longer, Opened
  <2>5. Opened(trace'[j]) /\ StepsUpTo(trace'[j], Len(trace'[j]) - 1)
    BY <2>2, <2>3, <2>4, LongerKeeps
  <2>6. /\ trace'[j][Len(trace'[j])].type = "StepStarted"
        /\ trace'[j][Len(trace'[j])].step = stepIdx'[j]
    BY <2>1, <2>2, <2>4 DEF Longer
  <2>. QED
    BY <2>1, <2>2, <2>4, <2>5, <2>6 DEF TraceFits, NotBegun, Leaving
<1>3. CASE StepOk(j) \/ StepFails(j)
  <2>1. /\ pc[j] = "stepRun" /\ pc'[j] \in {"stepCheck", "finishJob"} /\ stepIdx[j] \in Nat
        /\ \E status \in {"success", "failed"} : Log(j, "StepFinished", stepIdx[j], status)
        /\ \A i \in Jobs \ {j} : stepIdx'[i] = stepIdx[i]
    BY <1>3 DEF StepOk, StepFails
  <2>2. PICK status \in {"success", "failed"} : Log(j, "StepFinished", stepIdx[j], status)
    BY <2>1
  <2>3. /\ Longer(trace[j], trace'[j], "StepFinished", stepIdx[j], status)
        /\ \A i \in Jobs \ {j} : trace'[i] = trace[i]
    BY <2>1, <2>2, LogIsLonger DEF EntryTypes, Statuses, Terminal
  <2>4. /\ Opened(trace[j]) /\ Len(trace[j]) > 2 /\ StepsUpTo(trace[j], Len(trace[j]) - 1)
        /\ trace[j][Len(trace[j])].type = "StepStarted"
        /\ trace[j][Len(trace[j])].step = stepIdx[j]
    BY <2>1 DEF TraceFits
  <2>5. Opened(trace'[j]) /\ StepsUpTo(trace'[j], Len(trace'[j]))
    BY <2>3, <2>4, StepFinishedFits
  <2>. QED
    BY <2>1, <2>3, <2>5 DEF TraceFits, NotBegun, Leaving
<1>4. CASE FinishJob(j)
  <2>1. /\ pc[j] = "finishJob" /\ pc'[j] = "teardown" /\ stepIdx' = stepIdx
        /\ jobStatus'[j] \in {"success", "failed"}
        /\ Log(j, "JobFinished", 0, jobStatus'[j])
    BY <1>4 DEF FinishJob
  <2>2. /\ Longer(trace[j], trace'[j], "JobFinished", 0, jobStatus'[j])
        /\ \A i \in Jobs \ {j} : trace'[i] = trace[i]
    BY <2>1, LogIsLonger DEF EntryTypes, Statuses, Terminal
  <2>3. Opened(trace[j]) /\ StepsUpTo(trace[j], Len(trace[j]))
    BY <2>1 DEF TraceFits
  <2>4. Len(trace[j]) \in Nat /\ Len(trace[j]) > 1 /\ Len(trace'[j]) = Len(trace[j]) + 1
    BY <2>2, <2>3 DEF Longer, Opened
  <2>5. Opened(trace'[j]) /\ StepsUpTo(trace'[j], Len(trace'[j]) - 1)
    BY <2>2, <2>3, <2>4, LongerKeeps
  <2>6. /\ trace'[j][Len(trace'[j])].type = "JobFinished"
        /\ trace'[j][Len(trace'[j])].status = jobStatus'[j]
    BY <2>2, <2>4 DEF Longer
  <2>. QED
    BY <2>1, <2>2, <2>4, <2>5, <2>6 DEF TraceFits, NotBegun, Leaving
<1>5. CASE Teardown(j)
  <2>. DEFINE n == Len(trace[j])
  <2>1. /\ pc[j] = "teardown" /\ pc'[j] = "record" /\ UNCHANGED <<stepIdx, jobStatus>>
        /\ Log(j, "Teardown", 0, jobStatus[j]) /\ jobStatus[j] \in {"success", "failed"}
    BY <1>5 DEF Teardown, EngineInv, PcStatus
  <2>2. /\ Longer(trace[j], trace'[j], "Teardown", 0, jobStatus[j])
        /\ \A i \in Jobs \ {j} : trace'[i] = trace[i]
    BY <2>1, LogIsLonger DEF EntryTypes
  <2>3. /\ Opened(trace[j]) /\ n > 2 /\ StepsUpTo(trace[j], n - 1)
        /\ trace[j][n].type = "JobFinished" /\ trace[j][n].status = jobStatus[j]
    BY <2>1 DEF TraceFits
  <2>4. n \in Nat /\ Len(trace'[j]) = n + 1 /\ n - 1 \in 0 .. n /\ Len(trace'[j]) - 2 = n - 1
    BY <2>2, <2>3 DEF Longer
  <2>5. Opened(trace'[j]) /\ StepsUpTo(trace'[j], Len(trace'[j]) - 2)
    BY <2>2, <2>3, <2>4, LongerKeeps
  <2>6. /\ trace'[j][n] = trace[j][n] /\ trace'[j][n + 1].type = "Teardown"
    BY <2>2, <2>3, <2>4 DEF Longer
  <2>7. RanToEnd(trace'[j], jobStatus'[j])
    BY <2>1, <2>3, <2>4, <2>5, <2>6 DEF RanToEnd
  <2>. QED
    BY <2>1, <2>2, <2>7 DEF TraceFits, Told, NotBegun, Leaving
<1>. QED
  BY <1>1, <1>2, <1>3, <1>4, <1>5 DEF ExecuteJob

LEMMA TraceInvariant == Spec => []TraceInv
<1>1. Init => TraceInv
  BY DEF Init, TraceInv, TraceFits, NotBegun, Leaving
<1>2. TypeOK /\ EngineInv /\ TraceInv /\ [Next]_vars => TraceInv'
  <2>. SUFFICES ASSUME TypeOK, EngineInv, TraceInv, [Next]_vars
                PROVE  TraceInv'
    OBVIOUS
  <2>1. ASSUME NEW j \in Jobs, Job(j) PROVE TraceInv'
    <3>1. TraceFits(trace[j], pc[j], jobStatus[j], stepIdx[j])
      BY DEF TraceInv
    <3>2. /\ TraceFits(trace'[j], pc'[j], jobStatus'[j], stepIdx'[j])
          /\ \A i \in Jobs \ {j} : trace'[i] = trace[i] /\ stepIdx'[i] = stepIdx[i]
      BY <2>1, <3>1, WrapperFits, SetupFits, StepsFit DEF Job
    <3>3. \A i \in Jobs \ {j} : pc'[i] = pc[i] /\ jobStatus'[i] = jobStatus[i]
      BY <2>1, Frame
    <3>. QED
      BY <3>2, <3>3 DEF TraceInv
  <2>2. CASE Spawn
    <3>1. \A j \in Jobs : pc[j] = "unspawned" /\ pc'[j] = "await"
      BY <2>2 DEF Spawn, EngineInv, MainAt, Spawned
    <3>2. \A j \in Jobs : trace'[j] = <<>>
      BY <2>2, <3>1 DEF Spawn, TraceInv, TraceFits, NotBegun
    <3>. QED
      BY <3>1, <3>2 DEF TraceInv, TraceFits, NotBegun, Leaving
  <2>3. CASE Cancel \/ Begin \/ ScheduleError \/ Decide \/ Finish \/ UNCHANGED vars
    BY <2>3 DEF TraceInv, Cancel, Begin, ScheduleError, Decide, Finish, vars, jobVars
  <2>. QED
    BY <2>1, <2>2, <2>3 DEF Next, Main, Returned
<1>. QED
  BY TypeCorrect, EngineInvariant, <1>1, <1>2, PTL DEF Spec

(* The pairs in the trace of one job.                                      *)
PairedOf(j) ==
    /\ Cardinality(Positions(j, "JobStarted")) = Cardinality(Positions(j, "JobFinished"))
    /\ Cardinality(Positions(j, "Setup")) = Cardinality(Positions(j, "Teardown"))
    /\ \A i \in Positions(j, "StepStarted") :
          /\ i + 1 \in Positions(j, "StepFinished")
          /\ trace[j][i + 1].step = trace[j][i].step
    /\ \A i \in Positions(j, "Teardown"), k \in DOMAIN trace[j] :
          k > i => trace[j][k].type = "JobFinished"
    /\ \A i \in Positions(j, "JobFinished") : trace[j][i].status = jobStatus[j]

(* A job that ran to its end.                                              *)
LEMMA RanIsPaired ==
    ASSUME TypeOK, NEW j \in Jobs, RanToEnd(trace[j], jobStatus[j])
    PROVE  PairedOf(j)
<1>. DEFINE T == trace[j]
            n == Len(trace[j])
<1>1. n \in Nat /\ DOMAIN T = 1 .. n
  BY DEF TypeOK
<1>2. /\ n > 3 /\ T[1].type = "JobStarted" /\ T[2].type = "Setup"
      /\ T[n - 1].type = "JobFinished" /\ T[n - 1].status = jobStatus[j]
      /\ T[n].type = "Teardown"
  BY DEF RanToEnd, Opened
<1>3. \A i \in 3 .. n - 2 :
          \/ T[i].type = "StepFinished"
          \/ /\ T[i].type = "StepStarted" /\ i < n - 2
             /\ T[i + 1].type = "StepFinished" /\ T[i + 1].step = T[i].step
  BY DEF RanToEnd, StepsUpTo
<1>. HIDE DEF n
<1>4. \A i \in 1 .. n : i = 1 \/ i = 2 \/ i \in 3 .. n - 2 \/ i = n - 1 \/ i = n
  BY <1>1, <1>2
<1>. HIDE DEF T
<1>5. /\ {i \in 1 .. n : T[i].type = "JobStarted"} = {1}
      /\ {i \in 1 .. n : T[i].type = "Setup"} = {2}
      /\ {i \in 1 .. n : T[i].type = "JobFinished"} = {n - 1}
      /\ {i \in 1 .. n : T[i].type = "Teardown"} = {n}
  BY <1>1, <1>2, <1>3, <1>4
<1>6. /\ Positions(j, "JobStarted") = {1} /\ Positions(j, "JobFinished") = {n - 1}
      /\ Positions(j, "Setup") = {2} /\ Positions(j, "Teardown") = {n}
  BY <1>1, <1>5 DEF Positions, T
<1>7. \A x : Cardinality({x}) = 1
  BY FS_Singleton
<1>8. ASSUME NEW i \in Positions(j, "StepStarted")
      PROVE  i + 1 \in Positions(j, "StepFinished") /\ T[i + 1].step = T[i].step
  <2>1. i \in 1 .. n /\ T[i].type = "StepStarted"
    BY <1>1, <1>8 DEF Positions, T
  <2>2. i \in 3 .. n - 2
    BY <1>2, <1>4, <2>1
  <2>3. i + 1 \in 1 .. n /\ T[i + 1].type = "StepFinished" /\ T[i + 1].step = T[i].step
    BY <1>1, <1>3, <2>1, <2>2
  <2>. QED
    BY <1>1, <2>3 DEF Positions, T
<1>9. \A i \in Positions(j, "Teardown"), k \in 1 .. n : ~(k > i)
  BY <1>1, <1>6
<1>10. \A i \in Positions(j, "JobFinished") : T[i].status = jobStatus[j]
  BY <1>2, <1>6
<1>. QED
  BY <1>1, <1>6, <1>7, <1>8, <1>9, <1>10 DEF PairedOf, T

(* A job whose Setup failed.                                               *)
LEMMA FailedSetupIsPaired ==
    ASSUME TypeOK, NEW j \in Jobs, SetupFailed(trace[j]), jobStatus[j] = "failed"
    PROVE  PairedOf(j)
<1>. DEFINE T == trace[j]
<1>1. /\ DOMAIN T = 1 .. 4 /\ T[1].type = "JobStarted" /\ T[2].type = "Setup"
      /\ T[3].type = "Teardown" /\ T[4].type = "JobFinished" /\ T[4].status = "failed"
  BY DEF TypeOK, SetupFailed, Opened
<1>. HIDE DEF T
<1>2. /\ {i \in 1 .. 4 : T[i].type = "JobStarted"} = {1}
      /\ {i \in 1 .. 4 : T[i].type = "Setup"} = {2}
      /\ {i \in 1 .. 4 : T[i].type = "Teardown"} = {3}
      /\ {i \in 1 .. 4 : T[i].type = "JobFinished"} = {4}
      /\ {i \in 1 .. 4 : T[i].type = "StepStarted"} = {}
  BY <1>1
<1>3. /\ Positions(j, "JobStarted") = {1} /\ Positions(j, "JobFinished") = {4}
      /\ Positions(j, "Setup") = {2} /\ Positions(j, "Teardown") = {3}
      /\ Positions(j, "StepStarted") = {}
  BY <1>1, <1>2 DEF Positions, T
<1>4. \A x : Cardinality({x}) = 1
  BY FS_Singleton
<1>5. \A i \in Positions(j, "Teardown"), k \in 1 .. 4 : k > i => T[k].type = "JobFinished"
  BY <1>1, <1>3
<1>6. \A i \in Positions(j, "JobFinished") : T[i].status = jobStatus[j]
  BY <1>1, <1>3
<1>7. /\ Cardinality(Positions(j, "JobStarted")) = Cardinality(Positions(j, "JobFinished"))
      /\ Cardinality(Positions(j, "Setup")) = Cardinality(Positions(j, "Teardown"))
  BY <1>3, <1>4
<1>8. \A i \in Positions(j, "StepStarted") :
          i + 1 \in Positions(j, "StepFinished") /\ T[i + 1].step = T[i].step
  BY <1>3
<1>. QED
  BY <1>1, <1>5, <1>6, <1>7, <1>8 DEF PairedOf, T

(* A job that never started.                                               *)
LEMMA UnstartedIsPaired ==
    ASSUME TypeOK, NEW j \in Jobs, trace[j] = <<>> \/ Skipped(trace[j])
    PROVE  PairedOf(j)
<1>1. \A i \in DOMAIN trace[j] : trace[j][i].type = "JobSkipped"
  BY DEF TypeOK, Skipped
<1>2. \A type \in {"JobStarted", "JobFinished", "Setup", "Teardown", "StepStarted"} :
          Positions(j, type) = {}
  BY <1>1 DEF Positions
<1>. QED
  BY <1>2 DEF PairedOf

(* A job that has a JobStarted event is started, and its dependencies,     *)
(* which succeeded before, have their JobFinished and their Teardown.      *)
LEMMA StartIsCaused ==
    ASSUME TypeOK, EngineInv, TraceInv, NEW j \in Jobs, Positions(j, "JobStarted") # {},
           NEW d \in DepsOf(j), StartOnlyAfterSuccess
    PROVE  /\ \E i \in Positions(d, "JobFinished") : trace[d][i].status = "success"
           /\ Positions(d, "Teardown") # {}
<1>1. PICK i \in DOMAIN trace[j] : trace[j][i].type = "JobStarted"
  BY DEF Positions
<1>2. trace[j] # <<>> /\ ~Skipped(trace[j])
  BY <1>1 DEF TypeOK, Skipped
<1>3. /\ TraceFits(trace[j], pc[j], jobStatus[j], stepIdx[j])
      /\ PcStatus(j) /\ pc[j] \in Pcs /\ jobStatus[j] \in Statuses
  BY DEF TraceInv, EngineInv, TypeOK
<1>4. Started(j)
  BY <1>2, <1>3 DEF TraceFits, PcStatus, Told, RanToEnd, Started, Pcs, NotBegun, InJob, Leaving
<1>5. d \in Jobs /\ jobStatus[d] = "success" /\ DoneClosed(d)
  BY <1>4 DEF StartOnlyAfterSuccess
<1>. DEFINE n == Len(trace[d])
<1>6. RanToEnd(trace[d], "success")
  BY <1>5 DEF TraceInv, TraceFits, DoneClosed, Leaving, Told
<1>7. /\ n \in Nat /\ n > 3 /\ DOMAIN trace[d] = 1 .. n
      /\ trace[d][n - 1].type = "JobFinished" /\ trace[d][n - 1].status = "success"
      /\ trace[d][n].type = "Teardown"
  BY <1>5, <1>6 DEF TypeOK, RanToEnd
<1>. HIDE DEF n
<1>8. n - 1 \in Positions(d, "JobFinished") /\ n \in Positions(d, "Teardown")
  BY <1>7 DEF Positions
<1>. QED
  BY <1>7, <1>8

(* What an EventHandler and a Runner see is well told: every start has its *)
(* finish, every Setup its Teardown, whichever branch the goroutine leaves *)
(* by, and no event of a job overtakes those of its dependencies.          *)
THEOREM TraceIsWellTold == Spec => []TraceWellTold
<1>1. TypeOK /\ TraceInv => Paired
  <2>1. ASSUME TypeOK, TraceInv, NEW j \in Jobs, pc[j] = "exited"
        PROVE  PairedOf(j)
    <3>1. Told(trace[j], jobStatus[j])
      BY <2>1 DEF TraceInv, TraceFits, Leaving
    <3>. QED
      BY <2>1, <3>1, RanIsPaired, FailedSetupIsPaired, UnstartedIsPaired DEF Told
  <2>. QED
    BY <2>1 DEF Paired, PairedOf
<1>2. TypeOK /\ EngineInv /\ TraceInv /\ StartOnlyAfterSuccess => Caused
  BY StartIsCaused DEF Caused
<1>. QED
  BY TypeCorrect, EngineInvariant, TraceInvariant, DependencySafety, <1>1, <1>2, PTL
     DEF TraceWellTold

-----------------------------------------------------------------------------
(* Engine implements PipelineContract.                                     *)

(* A job steps only while the pipeline is running.                         *)
LEMMA RunningWhileStepping ==
    ASSUME TypeOK, EngineInv, NEW j \in Jobs, Job(j)
    PROVE  /\ pipelineStatus = "running"
           /\ UNCHANGED <<dependsOn, ctxErr, pipelineStatus>>
<1>1. UNCHANGED <<dependsOn, ctxErr, mainVars>> /\ pc[j] \notin {"unspawned", "exited"}
  BY Frame
<1>2. mainPc = "wait"
  BY <1>1 DEF EngineInv, MainAt, Spawned, AllExited, TypeOK
<1>. QED
  BY <1>1, <1>2 DEF EngineInv, MainAt, mainVars

(* Each step of a goroutine is a step of the contract, or changes nothing  *)
(* the contract speaks of.                                                 *)
LEMMA JobRefines ==
    ASSUME TypeOK, EngineInv, NEW j \in Jobs, Job(j)
    PROVE  \/ Contract!Start(j) \/ Contract!Succeed(j) \/ Contract!Fail(j)
           \/ Contract!Skip(j) \/ Contract!Abandon(j)
           \/ UNCHANGED <<dependsOn, ctxErr, jobStatus, pipelineStatus>>
<1>1. /\ pipelineStatus = "running"
      /\ UNCHANGED <<dependsOn, ctxErr, pipelineStatus>>
  BY RunningWhileStepping
<1>2. PcStatus(j) /\ MapsWritten(j) /\ Waited(j) /\ pc[j] # "unspawned"
  BY Frame DEF EngineInv
<1>3. DepsOf(j) \subseteq Jobs /\ Contract!DepsOf(j) = DepsOf(j)
  BY <1>2, DepsAreJobs DEF DepsOf, Contract!DepsOf
<1>4. CASE UNCHANGED jobStatus
  BY <1>1, <1>4
<1>5. CASE AwaitCanceled(j) \/ CtxCanceled(j)
  BY <1>1, <1>2, <1>5 DEF AwaitCanceled, CtxCanceled, GiveUp, Goto, PcStatus, NotBegun,
     Contract!Abandon, Contract!Move
<1>6. CASE SkipJob(j)
  <2>1. PICK d \in DepsOf(j) : d \in failedJobs
    BY <1>6 DEF SkipJob, ShouldSkip
  <2>2. d \in Jobs /\ jobStatus[d] \in {"failed", "skipped"}
    BY <2>1, <1>3 DEF EngineInv, MapsWritten
  <2>. QED
    BY <1>1, <1>2, <1>3, <1>6, <2>1, <2>2
    DEF SkipJob, Goto, PcStatus, NotBegun, Contract!Skip, Contract!Move
<1>7. CASE StartJob(j)
  BY <1>1, <1>2, <1>3, <1>7 DEF StartJob, Goto, PcStatus, NotBegun, Waited,
     Contract!Start, Contract!Move
<1>8. CASE SetupErr(j)
  BY <1>1, <1>2, <1>8 DEF SetupErr, Goto, PcStatus, InJob, Contract!Fail, Contract!Move
<1>9. CASE FinishJob(j)
  BY <1>1, <1>2, <1>9 DEF FinishJob, Goto, PcStatus, InJob,
     Contract!Fail, Contract!Succeed, Contract!Move
<1>10. CASE Wrapper(j) /\ ~(AwaitCanceled(j) \/ CtxCanceled(j) \/ SkipJob(j))
  BY <1>4, <1>10 DEF Wrapper, DepDone, DepsDone, CtxAlive, SkipMark, SkipRecord, DontSkip,
     Record, Mark, CloseDone, WgDone
<1>11. CASE ExecuteJob(j) /\ ~(StartJob(j) \/ SetupErr(j) \/ FinishJob(j))
  BY <1>4, <1>11 DEF ExecuteJob, SetupOk, SetupTeardown, SetupFinish, StepCanceled,
     StepAlive, StepsDone, StartStep, StepOk, StepFails, Teardown
<1>. QED
  BY <1>5, <1>6, <1>7, <1>8, <1>9, <1>10, <1>11 DEF Job

(* What Execute promises its callers: every behaviour of the goroutines is *)
(* one the contract allows.                                                *)
THEOREM Refinement == Spec => ContractSpec
<1>1. Init => Contract!Init
  BY GraphsAssumption DEF Init, Contract!Init
<1>2. TypeOK /\ EngineInv /\ FinalStatusSound' /\ EngineInv' /\ [Next]_vars
         => [Contract!Next]_(Contract!vars)
  <2>. SUFFICES ASSUME TypeOK, EngineInv, FinalStatusSound', EngineInv', [Next]_vars
                PROVE  [Contract!Next]_(Contract!vars)
    OBVIOUS
  <2>1. ASSUME NEW j \in Jobs, Job(j) PROVE [Contract!Next]_(Contract!vars)
    BY <2>1, JobRefines DEF Contract!Next, Contract!vars
  <2>2. CASE Begin
    BY <2>2 DEF Begin, EngineInv, MainAt, Contract!Next, Contract!Begin, jobVars
  <2>3. CASE ScheduleError
    BY <2>3 DEF ScheduleError, EngineInv, MainAt, Spawned, PcStatus, NotBegun,
       Contract!Next, Contract!Reject, jobVars
  <2>4. CASE Spawn
    BY <2>4 DEF Spawn, Contract!vars
  <2>5. CASE Decide
    <3>1. /\ \A j \in Jobs : jobStatus[j] \in Contract!Outcomes
          /\ UNCHANGED <<dependsOn, ctxErr, jobStatus>> /\ pipelineStatus = "running"
      BY <2>5, AllRecorded
      DEF Decide, EngineInv, MainAt, jobVars, Terminal, Contract!Outcomes
    <3>2. CASE Decided'
      <4>1. pipelineStatus' \in {"success", "failed", "canceled"}
        BY <2>5 DEF Decide, FinalStatus
      <4>2. /\ pipelineStatus' = "success" => \A j \in Jobs : jobStatus[j] = "success"
            /\ pipelineStatus' = "failed" => \E j \in Jobs : jobStatus[j] = "failed"
            /\ pipelineStatus' = "canceled" => ctxErr
        BY <3>1, <3>2 DEF FinalStatusSound
      <4>. QED
        BY <3>1, <4>1, <4>2 DEF Contract!Next, Contract!Finish
    <3>3. CASE ~Decided'
      <4>1. Jobs = {}
        BY <2>5, <3>3 DEF Decide, Decided, Spawned, AllExited, jobVars
      <4>. QED
        BY <2>5, <3>1, <4>1 DEF Decide, FinalStatus, Contract!Next, Contract!Finish
    <3>. QED
      BY <3>2, <3>3
  <2>6. CASE Finish
    BY <2>6 DEF Finish, Contract!vars, jobVars
  <2>7. CASE Cancel
    BY <2>7 DEF Cancel, Contract!Next, Contract!Cancel, jobVars, mainVars
  <2>8. CASE UNCHANGED vars
    BY <2>8 DEF vars, Contract!vars, jobVars, mainVars
  <2>. QED
    BY <2>1, <2>2, <2>3, <2>4, <2>5, <2>6, <2>7, <2>8 DEF Next, Main, Returned
<1>. QED
  BY TypeCorrect, EngineInvariant, FinalStatusAgrees, <1>1, <1>2, PTL
  DEF Spec, ContractSpec, Contract!Spec

-----------------------------------------------------------------------------
(* Progress: what of Termination is about steps.                           *)

(* Only a graph that can be ordered is run, and no goroutine waits for     *)
(* more dependencies than its job has.                                     *)
WaitInv ==
    /\ mainPc = "wait" => Acyclic
    /\ \A j \in Jobs : depIdx[j] <= Len(dependsOn[j]) + 1

(* The moves along the code.                                               *)
Moves ==
    {<<"await", "checkCtx">>, <<"await", "close">>,
     <<"checkCtx", "close">>, <<"checkCtx", "checkDeps">>,
     <<"checkDeps", "skipMark">>, <<"skipMark", "skipRecord">>, <<"skipRecord", "close">>,
     <<"checkDeps", "execute">>, <<"execute", "setup">>, <<"setup", "stepCheck">>,
     <<"setup", "setupTeardown">>, <<"setupTeardown", "setupFinish">>,
     <<"setupFinish", "record">>, <<"stepCheck", "finishJob">>, <<"stepCheck", "stepStart">>,
     <<"stepStart", "stepRun">>, <<"stepRun", "finishJob">>, <<"finishJob", "teardown">>,
     <<"teardown", "record">>, <<"record", "mark">>, <<"mark", "close">>,
     <<"close", "wgDone">>, <<"wgDone", "exited">>}

(* Each of them leads nearer to the end.                                   *)
LEMMA MovesDescend ==
    ASSUME NEW s \in Nat, NEW d \in Nat, NEW from, NEW to, <<from, to>> \in Moves
    PROVE  /\ WorkOf(from, s, d) \in Nat /\ WorkOf(to, s, d) \in Nat
           /\ WorkOf(to, s, d) < WorkOf(from, s, d)
<1>1. Distance(from) \in Nat /\ Distance(to) \in Nat /\ Distance(to) < Distance(from)
  <2>1. /\ Distance("exited") = 0 /\ Distance("wgDone") = 1 /\ Distance("close") = 2
        /\ Distance("mark") = 3 /\ Distance("skipRecord") = 3
        /\ Distance("record") = 4 /\ Distance("skipMark") = 4
        /\ Distance("teardown") = 5 /\ Distance("setupFinish") = 5
        /\ Distance("finishJob") = 6 /\ Distance("setupTeardown") = 6
        /\ Distance("stepRun") = 7 /\ Distance("stepStart") = 8
        /\ Distance("stepCheck") = 9 /\ Distance("setup") = 10
        /\ Distance("execute") = 11 /\ Distance("checkDeps") = 12
        /\ Distance("checkCtx") = 13 /\ Distance("await") = 14
    BY DEF Distance
  <2>. QED
    BY <2>1 DEF Moves
<1>2. /\ to \in BeforeSteps => from \in BeforeSteps
      /\ to \notin {"unspawned", "await"}
  BY DEF Moves, BeforeSteps, NotBegun
<1>. QED
  BY <1>1, <1>2 DEF WorkOf

(* So do one dependency less to wait for, one step less to run, and the   *)
(* spawning of the goroutine.                                              *)
LEMMA WaitsAndSteps ==
    ASSUME NEW s \in Nat, NEW d \in Nat
    PROVE  /\ d - 1 \in Nat =>
                 /\ WorkOf("await", s, d) \in Nat /\ WorkOf("await", s, d - 1) \in Nat
                 /\ WorkOf("await", s, d - 1) < WorkOf("await", s, d)
           /\ s - 1 \in Nat =>
                 /\ WorkOf("stepRun", s, d) \in Nat /\ WorkOf("stepCheck", s - 1, d) \in Nat
                 /\ WorkOf("stepCheck", s - 1, d) < WorkOf("stepRun", s, d)
           /\ WorkOf("await", s, d) \in Nat /\ WorkOf("unspawned", s, d) \in Nat
           /\ WorkOf("await", s, d) < WorkOf("unspawned", s, d)
  BY DEF WorkOf, Distance, BeforeSteps, NotBegun

(* What is left of a loop over a items of which b is the next.             *)
LEMMA LeftOf ==
    ASSUME NEW a \in Nat, NEW b \in Nat, b <= a + 1
    PROVE  /\ a + 1 - b \in Nat
           /\ b <= a => (a + 1 - b) - 1 \in Nat
           /\ a + 1 - (b + 1) = (a + 1 - b) - 1
  OBVIOUS

(* What is left is counted in natural numbers.                             *)
LEMMA LeftType ==
    ASSUME TypeOK, WaitInv, NEW j \in Jobs
    PROVE  /\ StepsLeft(j) \in Nat /\ DepsLeft(j) \in Nat
           /\ pc[j] \in {"stepStart", "stepRun"} => StepsLeft(j) - 1 \in Nat
           /\ NumSteps[j] \in Nat /\ stepIdx[j] \in Nat /\ depIdx[j] \in Nat
           /\ Len(dependsOn[j]) \in Nat /\ pc[j] \in Pcs
<1>1. /\ NumSteps[j] \in Nat /\ stepIdx[j] \in Nat /\ depIdx[j] \in Nat
      /\ stepIdx[j] <= NumSteps[j] + 1 /\ depIdx[j] <= Len(dependsOn[j]) + 1
      /\ pc[j] \in {"stepStart", "stepRun"} => stepIdx[j] <= NumSteps[j]
      /\ pc[j] \in Pcs
  BY StepsAssumption DEF TypeOK, WaitInv
<1>2. Len(dependsOn[j]) \in Nat
  <2>1. dependsOn[j] \in Seq(Names)
    BY GraphsAssumption DEF TypeOK
  <2>. QED
    BY <2>1
<1>3. NumSteps[j] + 1 - stepIdx[j] \in Nat
  BY <1>1, LeftOf
<1>4. pc[j] \in {"stepStart", "stepRun"} => (NumSteps[j] + 1 - stepIdx[j]) - 1 \in Nat
  BY <1>1, LeftOf
<1>5. Len(dependsOn[j]) + 1 - depIdx[j] \in Nat
  BY <1>1, <1>2, LeftOf
<1>. QED
  BY <1>1, <1>2, <1>3, <1>4, <1>5 DEF StepsLeft, DepsLeft

(* A move of a goroutine is one less.                                      *)
LEMMA JobMoves ==
    ASSUME TypeOK, WaitInv, NEW j \in Jobs, Job(j)
    PROVE  Work(j) \in Nat /\ Work(j)' \in Nat /\ Work(j)' < Work(j)
<1>. DEFINE s == StepsLeft(j)
            d == DepsLeft(j)
<1>1. /\ s \in Nat /\ d \in Nat
      /\ pc[j] \in {"stepStart", "stepRun"} => s - 1 \in Nat
      /\ NumSteps[j] \in Nat /\ stepIdx[j] \in Nat /\ depIdx[j] \in Nat
      /\ Len(dependsOn[j]) \in Nat
  BY LeftType
<1>4. pc \in [Jobs -> Pcs] /\ depIdx \in [Jobs -> Nat \ {0}] /\ stepIdx \in [Jobs -> Nat \ {0}]
  BY DEF TypeOK
<1>5. Work(j) = WorkOf(pc[j], s, d) /\ Work(j)' = WorkOf(pc'[j], s', d')
  BY DEF Work
\* A move along the code, with the same dependencies and steps left.
<1>6. ASSUME NEW from, NEW to, <<from, to>> \in Moves, Goto(j, from, to),
             UNCHANGED <<dependsOn, depIdx, stepIdx>>
      PROVE  Work(j) \in Nat /\ Work(j)' \in Nat /\ Work(j)' < Work(j)
  <2>1. pc[j] = from /\ pc'[j] = to
    BY <1>4, <1>6 DEF Goto
  <2>2. s' = s /\ d' = d
    BY <1>6 DEF StepsLeft, DepsLeft
  <2>. HIDE DEF s, d
  <2>. QED
    BY <1>1, <1>5, <1>6, <2>1, <2>2, MovesDescend
<1>7. CASE DepDone(j)
  <2>1. /\ pc[j] = "await" /\ pc' = pc /\ depIdx[j] <= Len(dependsOn[j])
        /\ UNCHANGED <<dependsOn, stepIdx>> /\ depIdx'[j] = depIdx[j] + 1
        /\ pc'[j] = "await" /\ depIdx[j] <= Len(dependsOn[j]) + 1
    BY <1>1, <1>4, <1>7 DEF DepDone
  <2>2. /\ (Len(dependsOn[j]) + 1 - depIdx[j]) - 1 \in Nat
        /\ Len(dependsOn[j]) + 1 - (depIdx[j] + 1) = (Len(dependsOn[j]) + 1 - depIdx[j]) - 1
    BY <1>1, <2>1, LeftOf
  <2>3. s' = s /\ d' = d - 1 /\ d - 1 \in Nat
    BY <2>1, <2>2 DEF StepsLeft, DepsLeft
  <2>. HIDE DEF s, d
  <2>4. Work(j) = WorkOf("await", s, d) /\ Work(j)' = WorkOf("await", s, d - 1)
    BY <1>5, <2>1, <2>3
  <2>. QED
    BY <1>1, <2>3, <2>4, WaitsAndSteps
<1>8. CASE StepOk(j)
  <2>1. /\ pc[j] = "stepRun" /\ pc'[j] = "stepCheck" /\ UNCHANGED <<dependsOn, depIdx>>
        /\ stepIdx'[j] = stepIdx[j] + 1
    BY <1>4, <1>8 DEF StepOk, Goto
  <2>2. NumSteps[j] + 1 - (stepIdx[j] + 1) = (NumSteps[j] + 1 - stepIdx[j]) - 1
    BY <1>1
  <2>3. s' = s - 1 /\ d' = d /\ s - 1 \in Nat
    BY <1>1, <2>1, <2>2 DEF StepsLeft, DepsLeft
  <2>. HIDE DEF s, d
  <2>4. Work(j) = WorkOf("stepRun", s, d) /\ Work(j)' = WorkOf("stepCheck", s - 1, d)
    BY <1>5, <2>1, <2>3
  <2>. QED
    BY <1>1, <2>3, <2>4, WaitsAndSteps
<1>. HIDE DEF s, d
<1>9. CASE Wrapper(j) /\ ~DepDone(j)
  <2>. USE <1>6 DEF Moves
  <2>1. CASE DepsDone(j)  BY <2>1 DEF DepsDone
  <2>2. CASE AwaitCanceled(j)  BY <2>2 DEF AwaitCanceled, GiveUp
  <2>3. CASE CtxCanceled(j)  BY <2>3 DEF CtxCanceled, GiveUp
  <2>4. CASE CtxAlive(j)  BY <2>4 DEF CtxAlive
  <2>5. CASE SkipJob(j)  BY <2>5 DEF SkipJob
  <2>6. CASE SkipMark(j)  BY <2>6 DEF SkipMark
  <2>7. CASE SkipRecord(j)  BY <2>7 DEF SkipRecord
  <2>8. CASE DontSkip(j)  BY <2>8 DEF DontSkip
  <2>9. CASE Record(j)  BY <2>9 DEF Record
  <2>10. CASE Mark(j)  BY <2>10 DEF Mark
  <2>11. CASE CloseDone(j)  BY <2>11 DEF CloseDone
  <2>12. CASE WgDone(j)  BY <2>12 DEF WgDone
  <2>. QED
    BY <1>9, <2>1, <2>2, <2>3, <2>4, <2>5, <2>6, <2>7, <2>8, <2>9, <2>10, <2>11, <2>12
    DEF Wrapper
<1>10. CASE ExecuteJob(j) /\ ~StepOk(j)
  <2>. USE <1>6 DEF Moves
  <2>1. CASE StartJob(j)  BY <2>1 DEF StartJob
  <2>2. CASE SetupOk(j)  BY <2>2 DEF SetupOk
  <2>3. CASE SetupErr(j)  BY <2>3 DEF SetupErr
  <2>4. CASE SetupTeardown(j)  BY <2>4 DEF SetupTeardown
  <2>5. CASE SetupFinish(j)  BY <2>5 DEF SetupFinish
  <2>6. CASE StepCanceled(j)  BY <2>6 DEF StepCanceled
  <2>7. CASE StepAlive(j)  BY <2>7 DEF StepAlive
  <2>8. CASE StepsDone(j)  BY <2>8 DEF StepsDone
  <2>9. CASE StartStep(j)  BY <2>9 DEF StartStep
  <2>10. CASE StepFails(j)  BY <2>10 DEF StepFails
  <2>11. CASE FinishJob(j)  BY <2>11 DEF FinishJob
  <2>12. CASE Teardown(j)  BY <2>12 DEF Teardown
  <2>. QED
    BY <1>10, <2>1, <2>2, <2>3, <2>4, <2>5, <2>6, <2>7, <2>8, <2>9, <2>10, <2>11, <2>12
    DEF ExecuteJob
<1>. QED
  BY <1>7, <1>8, <1>9, <1>10 DEF Job

(* WaitInv holds at the start and every step keeps it.                     *)
LEMMA WaitInvInit == Init => WaitInv
<1>. SUFFICES ASSUME Init PROVE WaitInv
  OBVIOUS
<1>1. \A j \in Jobs : Len(dependsOn[j]) \in Nat
  <2>1. \A j \in Jobs : dependsOn[j] \in Seq(Names)
    BY GraphsAssumption DEF Init
  <2>. QED
    BY <2>1
<1>. QED
  BY <1>1 DEF Init, WaitInv

LEMMA WaitInvKept == TypeOK /\ EngineInv /\ WaitInv /\ [Next]_vars => WaitInv'
<1>. SUFFICES ASSUME TypeOK, EngineInv, WaitInv, [Next]_vars PROVE WaitInv'
  OBVIOUS
<1>1. ASSUME NEW j \in Jobs, Job(j) PROVE WaitInv'
  <2>1. /\ UNCHANGED <<dependsOn, mainPc>>
        /\ \A i \in Jobs \ {j} : depIdx'[i] = depIdx[i]
    BY <1>1, Frame DEF mainVars
  <2>2. depIdx'[j] <= Len(dependsOn[j]) + 1
    <3>1. CASE DepDone(j)
      <4>1. /\ depIdx[j] <= Len(dependsOn[j]) /\ depIdx'[j] = depIdx[j] + 1
            /\ depIdx[j] \in Nat /\ Len(dependsOn[j]) \in Nat
        BY <3>1, LeftType DEF DepDone, TypeOK
      <4>. QED
        BY <4>1
    <3>2. CASE ~DepDone(j)
      BY <1>1, <3>2
      DEF Job, Wrapper, ExecuteJob, WaitInv, DepsDone, AwaitCanceled, GiveUp, CtxCanceled,
          CtxAlive, SkipJob, SkipMark, SkipRecord, DontSkip, Record, Mark, CloseDone, WgDone,
          StartJob, SetupOk, SetupErr, SetupTeardown, SetupFinish, StepCanceled, StepAlive,
          StepsDone, StartStep, StepOk, StepFails, FinishJob, Teardown
    <3>. QED
      BY <3>1, <3>2
  <2>. QED
    BY <2>1, <2>2 DEF WaitInv, Acyclic, DepsOf
<1>2. ASSUME Main \/ Cancel \/ UNCHANGED vars PROVE WaitInv'
  <2>1. UNCHANGED <<dependsOn, depIdx>> /\ (mainPc' = "wait" => mainPc = "wait" \/ Schedulable)
    BY <1>2 DEF Main, Begin, ScheduleError, Spawn, Decide, Finish, Cancel, vars, mainVars, jobVars
  <2>. QED
    BY <2>1 DEF WaitInv, Schedulable, Acyclic, DepsOf
<1>. QED
  BY <1>1, <1>2 DEF Next, Returned

(* The goroutines never all wait for one another, whatever graph Schedule  *)
(* has let through: one that waits has a dependency that comes before it.  *)
THEOREM SomebodyAlwaysRuns == Spec => []SomebodyRuns
<1>1. TypeOK /\ EngineInv /\ WaitInv => SomebodyRuns
  <2>1. SUFFICES ASSUME TypeOK, EngineInv, WaitInv, mainPc = "wait", ~AllExited,
                        \A j \in Jobs : pc[j] # "exited" => Waits(j)
                 PROVE  FALSE
    BY DEF SomebodyRuns
  <2>2. PICK rank \in [Jobs -> 1 .. Cardinality(Jobs)] :
            \A j \in Jobs : \A d \in DepsOf(j) : rank[d] < rank[j]
    BY <2>1 DEF WaitInv, Acyclic
  <2>3. \A j \in Jobs : rank[j] \in Nat
    <3>1. Cardinality(Jobs) \in Nat
      BY JobsAssumption, FS_CardinalityType
    <3>. QED
      BY <2>2, <3>1
  <2>. DEFINE Left == {j \in Jobs : pc[j] # "exited"}
              Ranks == {rank[j] : j \in Left}
  <2>4. PICK low \in Ranks : \A r \in Ranks : ~(<<r, low>> \in OpToRel(<, Nat))
    <3>1. Ranks \subseteq Nat /\ Ranks # {}
      BY <2>1, <2>3 DEF AllExited
    <3>. QED
      BY <3>1, WFMin, NatLessThanWellFounded
  <2>5. PICK j \in Left : low = rank[j]
    OBVIOUS
  <2>6. \A i \in Left : ~(rank[i] < rank[j])
    BY <2>3, <2>4, <2>5 DEF OpToRel
  <2>7. /\ pc[j] = "await" /\ depIdx[j] <= Len(dependsOn[j])
        /\ ~DoneClosed(dependsOn[j][depIdx[j]])
    BY <2>1, <2>5 DEF Waits
  <2>8. dependsOn[j][depIdx[j]] \in DepsOf(j) /\ DepsOf(j) \subseteq Jobs
    <3>1. /\ depIdx[j] \in Nat \ {0} /\ Len(dependsOn[j]) \in Nat
      BY <2>1, <2>5, LeftType DEF TypeOK
    <3>2. depIdx[j] \in 1 .. Len(dependsOn[j])
      BY <2>7, <3>1
    <3>. QED
      BY <2>1, <2>5, <2>7, <3>2, DepsAreJobs
  <2>9. dependsOn[j][depIdx[j]] \in Left
    BY <2>7, <2>8 DEF DoneClosed
  <2>. QED
    BY <2>2, <2>5, <2>6, <2>8, <2>9
<1>. QED
  BY <1>1, WaitInvInit, WaitInvKept, TypeCorrect, EngineInvariant, PTL DEF Spec

(* No goroutine goes round in circles: whatever the runner answers and     *)
(* whenever the context is canceled, a move brings it nearer to its end.   *)
THEOREM RunsWindDown == Spec => EveryMoveCounts
<1>1. ASSUME TypeOK, EngineInv, WaitInv, [Next]_vars, NEW j \in Jobs
      PROVE  \/ UNCHANGED <<pc[j], depIdx[j]>>
             \/ Work(j) \in Nat /\ Work(j)' \in Nat /\ Work(j)' < Work(j)
  <2>1. CASE Job(j)
    BY <1>1, <2>1, JobMoves
  <2>2. ASSUME NEW i \in Jobs, i # j, Job(i) PROVE UNCHANGED <<pc[j], depIdx[j]>>
    BY <1>1, <2>2, Frame
  <2>3. CASE Spawn
    <3>1. ~Spawned /\ pc'[j] = "await" /\ UNCHANGED <<dependsOn, depIdx, stepIdx>>
      BY <1>1, <2>3 DEF Spawn, EngineInv, MainAt
    <3>2. pc[j] = "unspawned"
      BY <3>1 DEF Spawned
    <3>3. StepsLeft(j)' = StepsLeft(j) /\ DepsLeft(j)' = DepsLeft(j)
      BY <3>1 DEF StepsLeft, DepsLeft
    <3>4. /\ Work(j) = WorkOf("unspawned", StepsLeft(j), DepsLeft(j))
          /\ Work(j)' = WorkOf("await", StepsLeft(j), DepsLeft(j))
      BY <3>1, <3>2, <3>3 DEF Work
    <3>5. StepsLeft(j) \in Nat /\ DepsLeft(j) \in Nat
      BY <1>1, LeftType
    <3>. QED
      BY <3>4, <3>5, WaitsAndSteps
  <2>4. CASE Begin \/ ScheduleError \/ Decide \/ Finish \/ Cancel \/ UNCHANGED vars
    BY <2>4 DEF Begin, ScheduleError, Decide, Finish, Cancel, vars, jobVars
  <2>. QED
    BY <1>1, <2>1, <2>2, <2>3, <2>4 DEF Next, Main, Returned
<1>2. TypeOK /\ EngineInv /\ WaitInv /\ [Next]_vars =>
        \A j \in Jobs : \/ UNCHANGED <<pc[j], depIdx[j]>>
                        \/ Work(j) \in Nat /\ Work(j)' \in Nat /\ Work(j)' < Work(j)
  BY <1>1
<1>. QED
  BY <1>2, WaitInvInit, WaitInvKept, TypeCorrect, EngineInvariant, PTL DEF Spec, EveryMoveCounts
=============================================================================
