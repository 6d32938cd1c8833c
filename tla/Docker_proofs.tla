---------------------------- MODULE Docker_proofs ----------------------------
(***************************************************************************)
(* Proofs about the Docker runner, for any number of jobs, of steps and of  *)
(* calls that fail.                                                         *)
(***************************************************************************)
EXTENDS Docker, TLAPS

(* A container that has been started is one the job's goroutine will remove. *)
InHand(j) == pc[j] \in {"wait", "drain", "kill", "close", "remove"}
BoxInHand == \A j \in Jobs : box[j] \in {"running", "exited"} => InHand(j)

(* The container has exited when its output is waited for, and when a step *)
(* has been run with success.                                              *)
ExitedFirst ==
    \A j \in Jobs :
        pc[j] = "drain" \/ (pc[j] \in {"kill", "close", "remove"} /\ ~failed[j])
            => box[j] = "exited"

(* A copier that has come to the end of the output has handed all of it on. *)
CopierAtWork ==
    \A j \in Jobs : pc[j] \in {"wait", "drain"} =>
        /\ copier[j] # "none"
        /\ copier[j] = "done" => box[j] = "exited" /\ ~unread[j]

(* Where the goroutine of a job is says what there is of it, as long as     *)
(* nothing has gone wrong but a command or the reading of the source.       *)
Quiet == ~canceled /\ faults = 0 /\ ~raced
Tidy ==
    Quiet => \A j \in Jobs :
        /\ volume[j] => pc[j] \notin {"pull", "volume", "deleting", "over"}
        /\ helper[j] => pc[j] \in {"copy", "unhelp"}
        /\ box[j] # "none" => pc[j] \in {"attach", "start"} \/ InHand(j)
        /\ j \notin refused
        /\ j \in known <=> pc[j] \notin {"pull", "volume", "writing", "over"}

RunnerInv ==
    /\ TypeOK
    /\ BoxInHand /\ ExitedFirst /\ CopierAtWork /\ OutputIsWhole
    /\ Tidy

-----------------------------------------------------------------------------
LEMMA InitRunner == Init => RunnerInv
<1> SUFFICES ASSUME Init PROVE RunnerInv
  OBVIOUS
<1>1. TypeOK
  BY DEF Init, TypeOK, Pcs
<1>2. QED
  BY <1>1
  DEF Init, RunnerInv, BoxInHand, InHand, ExitedFirst, CopierAtWork, OutputIsWhole, Tidy, Quiet

(* Faults are counted. *)
LEMMA FaultsCounted ==
    ASSUME TypeOK, Succeeds \/ Fails \/ Fault \/ UNCHANGED faults
    PROVE  faults' \in Nat
  BY DEF TypeOK, Succeeds, Fails, Fault

(* The calls and accesses of Setup and of Teardown, and executeJob's loop. *)
LEMMA SetupKeeps ==
    ASSUME RunnerInv, NEW j \in Jobs, Setup(j) \/ Teardown(j) \/ NextStep(j)
                                      \/ LookUp(j, "reading", "create", "looking")
    PROVE  RunnerInv'
<1>t. TypeOK
  BY DEF RunnerInv
<1> USE DEF RunnerInv, TypeOK, At, Goto, GiveUp, Set, control, daemon
<1>1. CASE PullImage(j)
  <2>1. TypeOK'
    BY <1>1, FaultsCounted DEF PullImage, Pcs
  <2>2. BoxInHand'
    BY <1>1 DEF PullImage, BoxInHand, InHand
  <2>3. ExitedFirst'
    BY <1>1 DEF PullImage, BoxInHand, InHand, ExitedFirst
  <2>4. CopierAtWork'
    BY <1>1 DEF PullImage, CopierAtWork
  <2>5. OutputIsWhole'
    BY <1>1 DEF PullImage, OutputIsWhole, CopierAtWork, ExitedFirst, BoxInHand, InHand
  <2>6. Tidy'
    BY <1>1 DEF PullImage, Tidy, Quiet, InHand, Fault, Succeeds, Fails
  <2>7. QED
    BY <2>1, <2>2, <2>3, <2>4, <2>5, <2>6
<1>2. CASE CreateVolume(j)
  <2>1. TypeOK'
    <3>1. faults' \in Nat
      BY <1>2, FaultsCounted DEF CreateVolume
    <3> HIDE DEF RunnerInv
    <3>2. volume' \in [Jobs -> BOOLEAN] /\ failed' \in [Jobs -> BOOLEAN]
      BY <1>t, <1>2 DEF CreateVolume
    <3>3. pc' \in [Jobs -> Pcs]
      BY <1>t, <1>2 DEF CreateVolume, Pcs
    <3>4. QED
      BY <1>t, <1>2, <3>1, <3>2, <3>3 DEF CreateVolume
  <2>2. BoxInHand'
    BY <1>2 DEF CreateVolume, BoxInHand, InHand
  <2>3. ExitedFirst'
    BY <1>2 DEF CreateVolume, BoxInHand, InHand, ExitedFirst
  <2>4. CopierAtWork'
    BY <1>2 DEF CreateVolume, CopierAtWork
  <2>5. OutputIsWhole'
    BY <1>2 DEF CreateVolume, OutputIsWhole, CopierAtWork, ExitedFirst, BoxInHand, InHand
  <2>6. Tidy'
    BY <1>2 DEF CreateVolume, Tidy, Quiet, InHand, Fault, Succeeds, Fails
  <2>7. QED
    BY <2>1, <2>2, <2>3, <2>4, <2>5, <2>6
<1>3. CASE WriteVolume(j)
  <2>1. TypeOK'
    BY <1>3, FaultsCounted DEF WriteVolume, Pcs
  <2>2. BoxInHand'
    BY <1>3 DEF WriteVolume, BoxInHand, InHand
  <2>3. ExitedFirst'
    BY <1>3 DEF WriteVolume, BoxInHand, InHand, ExitedFirst
  <2>4. CopierAtWork'
    BY <1>3 DEF WriteVolume, CopierAtWork
  <2>5. OutputIsWhole'
    BY <1>3 DEF WriteVolume, OutputIsWhole, CopierAtWork, ExitedFirst, BoxInHand, InHand
  <2>6. Tidy'
    BY <1>3 DEF WriteVolume, Tidy, Quiet, InHand, Fault, Succeeds, Fails
  <2>7. QED
    BY <2>1, <2>2, <2>3, <2>4, <2>5, <2>6
<1>4. CASE CreateHelper(j)
  <2>1. TypeOK'
    <3>1. faults' \in Nat
      BY <1>4, FaultsCounted DEF CreateHelper
    <3> HIDE DEF RunnerInv
    <3>2. helper' \in [Jobs -> BOOLEAN] /\ failed' \in [Jobs -> BOOLEAN]
      BY <1>t, <1>4 DEF CreateHelper
    <3>3. pc' \in [Jobs -> Pcs]
      BY <1>t, <1>4 DEF CreateHelper, Pcs
    <3>4. QED
      BY <1>t, <1>4, <3>1, <3>2, <3>3 DEF CreateHelper
  <2>2. BoxInHand'
    BY <1>4 DEF CreateHelper, BoxInHand, InHand
  <2>3. ExitedFirst'
    BY <1>4 DEF CreateHelper, BoxInHand, InHand, ExitedFirst
  <2>4. CopierAtWork'
    BY <1>4 DEF CreateHelper, CopierAtWork
  <2>5. OutputIsWhole'
    BY <1>4 DEF CreateHelper, OutputIsWhole, CopierAtWork, ExitedFirst, BoxInHand, InHand
  <2>6. Tidy'
    BY <1>4 DEF CreateHelper, Tidy, Quiet, InHand, Fault, Succeeds, Fails
  <2>7. QED
    BY <2>1, <2>2, <2>3, <2>4, <2>5, <2>6
<1>5. CASE CopySource(j)
  <2>1. TypeOK'
    BY <1>5, FaultsCounted DEF CopySource, Pcs
  <2>2. BoxInHand'
    BY <1>5 DEF CopySource, BoxInHand, InHand
  <2>3. ExitedFirst'
    BY <1>5 DEF CopySource, BoxInHand, InHand, ExitedFirst
  <2>4. CopierAtWork'
    BY <1>5 DEF CopySource, CopierAtWork
  <2>5. OutputIsWhole'
    BY <1>5 DEF CopySource, OutputIsWhole, CopierAtWork, ExitedFirst, BoxInHand, InHand
  <2>6. Tidy'
    BY <1>5 DEF CopySource, Tidy, Quiet, InHand, Fault, Succeeds, Fails
  <2>7. QED
    BY <2>1, <2>2, <2>3, <2>4, <2>5, <2>6
<1>6. CASE RemoveHelper(j)
  <2>1. TypeOK'
    BY <1>6, FaultsCounted DEF RemoveHelper, Pcs
  <2>2. BoxInHand'
    BY <1>6 DEF RemoveHelper, BoxInHand, InHand
  <2>3. ExitedFirst'
    BY <1>6 DEF RemoveHelper, BoxInHand, InHand, ExitedFirst
  <2>4. CopierAtWork'
    BY <1>6 DEF RemoveHelper, CopierAtWork
  <2>5. OutputIsWhole'
    BY <1>6 DEF RemoveHelper, OutputIsWhole, CopierAtWork, ExitedFirst, BoxInHand, InHand
  <2>6. Tidy'
    BY <1>6 DEF RemoveHelper, Tidy, Quiet, InHand, Fault, Succeeds, Fails
  <2>7. QED
    BY <2>1, <2>2, <2>3, <2>4, <2>5, <2>6
<1>7. CASE NextStep(j)
  <2>1. TypeOK'
    BY <1>7, FaultsCounted DEF NextStep, Pcs
  <2>2. BoxInHand'
    BY <1>7 DEF NextStep, BoxInHand, InHand
  <2>3. ExitedFirst'
    BY <1>7 DEF NextStep, BoxInHand, InHand, ExitedFirst
  <2>4. CopierAtWork'
    BY <1>7 DEF NextStep, CopierAtWork
  <2>5. OutputIsWhole'
    BY <1>7 DEF NextStep, OutputIsWhole, CopierAtWork, ExitedFirst, BoxInHand, InHand
  <2>6. Tidy'
    BY <1>7 DEF NextStep, Tidy, Quiet, InHand, Fault, Succeeds, Fails
  <2>7. QED
    BY <2>1, <2>2, <2>3, <2>4, <2>5, <2>6
<1>8. CASE LookUp(j, "reading", "create", "looking")
  <2>1. TypeOK'
    BY <1>8, FaultsCounted DEF LookUp, Pcs
  <2>2. BoxInHand'
    BY <1>8 DEF LookUp, BoxInHand, InHand
  <2>3. ExitedFirst'
    BY <1>8 DEF LookUp, BoxInHand, InHand, ExitedFirst
  <2>4. CopierAtWork'
    BY <1>8 DEF LookUp, CopierAtWork
  <2>5. OutputIsWhole'
    BY <1>8 DEF LookUp, OutputIsWhole, CopierAtWork, ExitedFirst, BoxInHand, InHand
  <2>6. Tidy'
    BY <1>8 DEF LookUp, Tidy, Quiet, InHand, Fault, Succeeds, Fails
  <2>7. QED
    BY <2>1, <2>2, <2>3, <2>4, <2>5, <2>6
<1>9. CASE LookUp(j, "looking", "unvolume", "over")
  <2>1. TypeOK'
    BY <1>9, FaultsCounted DEF LookUp, Pcs
  <2>2. BoxInHand'
    BY <1>9 DEF LookUp, BoxInHand, InHand
  <2>3. ExitedFirst'
    BY <1>9 DEF LookUp, BoxInHand, InHand, ExitedFirst
  <2>4. CopierAtWork'
    BY <1>9 DEF LookUp, CopierAtWork
  <2>5. OutputIsWhole'
    BY <1>9 DEF LookUp, OutputIsWhole, CopierAtWork, ExitedFirst, BoxInHand, InHand
  <2>6. Tidy'
    BY <1>9 DEF LookUp, Tidy, Quiet, InHand, Fault, Succeeds, Fails
  <2>7. QED
    BY <2>1, <2>2, <2>3, <2>4, <2>5, <2>6
<1>10. CASE RemoveVolume(j)
  <2>1. TypeOK'
    BY <1>10, FaultsCounted DEF RemoveVolume, Held, Pcs
  <2>2. BoxInHand'
    BY <1>10 DEF RemoveVolume, Held, BoxInHand, InHand
  <2>3. ExitedFirst'
    BY <1>10 DEF RemoveVolume, Held, BoxInHand, InHand, ExitedFirst
  <2>4. CopierAtWork'
    BY <1>10 DEF RemoveVolume, Held, CopierAtWork
  <2>5. OutputIsWhole'
    BY <1>10 DEF RemoveVolume, Held, OutputIsWhole, CopierAtWork, ExitedFirst, BoxInHand, InHand
  <2>6. Tidy'
    BY <1>10 DEF RemoveVolume, Held, Tidy, Quiet, InHand, Fault, Succeeds, Fails
  <2>7. QED
    BY <2>1, <2>2, <2>3, <2>4, <2>5, <2>6
<1>11. CASE DeleteVolume(j)
  <2>1. TypeOK'
    BY <1>11, FaultsCounted DEF DeleteVolume, Pcs
  <2>2. BoxInHand'
    BY <1>11 DEF DeleteVolume, BoxInHand, InHand
  <2>3. ExitedFirst'
    BY <1>11 DEF DeleteVolume, BoxInHand, InHand, ExitedFirst
  <2>4. CopierAtWork'
    BY <1>11 DEF DeleteVolume, CopierAtWork
  <2>5. OutputIsWhole'
    BY <1>11 DEF DeleteVolume, OutputIsWhole, CopierAtWork, ExitedFirst, BoxInHand, InHand
  <2>6. Tidy'
    BY <1>11 DEF DeleteVolume, Tidy, Quiet, InHand, Fault, Succeeds, Fails
  <2>7. QED
    BY <2>1, <2>2, <2>3, <2>4, <2>5, <2>6
<1>12. QED
  BY <1>1, <1>2, <1>3, <1>4, <1>5, <1>6, <1>7, <1>8, <1>9, <1>10, <1>11 DEF Setup, Teardown

(* The calls of RunContainer. *)
LEMMA ContainerKeeps ==
    ASSUME RunnerInv, NEW j \in Jobs,
           \/ CreateContainer(j) \/ Attach(j) \/ StartContainer(j)
           \/ WaitExit(j) \/ WaitCanceled(j) \/ WaitFails(j) \/ Drain(j)
           \/ Kill(j) \/ CloseAttach(j) \/ RemoveContainer(j)
    PROVE  RunnerInv'
<1> USE DEF RunnerInv, TypeOK, At, Goto, GiveUp, Set, control, daemon
<1>1. CASE CreateContainer(j)
  <2>1. TypeOK'
    <3>1. box' \in [Jobs -> {"none", "created", "running", "exited"}]
      BY <1>1 DEF CreateContainer
    <3>2. faults' \in Nat
      BY <1>1, FaultsCounted DEF CreateContainer
    <3>3. pc' \in [Jobs -> Pcs] /\ failed' \in [Jobs -> BOOLEAN]
      BY <1>1 DEF CreateContainer, Pcs
    <3>4. QED
      BY <1>1, <3>1, <3>2, <3>3 DEF CreateContainer
  <2>2. BoxInHand'
    BY <1>1 DEF CreateContainer, BoxInHand, InHand
  <2>3. ExitedFirst'
    BY <1>1 DEF CreateContainer, BoxInHand, InHand, ExitedFirst
  <2>4. CopierAtWork'
    BY <1>1 DEF CreateContainer, CopierAtWork
  <2>5. OutputIsWhole'
    BY <1>1 DEF CreateContainer, OutputIsWhole, CopierAtWork, ExitedFirst, BoxInHand, InHand
  <2>6. Tidy'
    BY <1>1 DEF CreateContainer, Tidy, Quiet, InHand, Fault, Succeeds, Fails
  <2>7. QED
    BY <2>1, <2>2, <2>3, <2>4, <2>5, <2>6
<1>2. CASE Attach(j)
  <2>1. TypeOK'
    BY <1>2, FaultsCounted DEF Attach, Pcs
  <2>2. BoxInHand'
    BY <1>2 DEF Attach, BoxInHand, InHand
  <2>3. ExitedFirst'
    BY <1>2 DEF Attach, BoxInHand, InHand, ExitedFirst
  <2>4. CopierAtWork'
    BY <1>2 DEF Attach, CopierAtWork
  <2>5. OutputIsWhole'
    BY <1>2 DEF Attach, OutputIsWhole, CopierAtWork, ExitedFirst, BoxInHand, InHand
  <2>6. Tidy'
    BY <1>2 DEF Attach, Tidy, Quiet, InHand, Fault, Succeeds, Fails
  <2>7. QED
    BY <2>1, <2>2, <2>3, <2>4, <2>5, <2>6
<1>3. CASE StartContainer(j)
  <2>1. TypeOK'
    <3>1. box' \in [Jobs -> {"none", "created", "running", "exited"}]
      BY <1>3 DEF StartContainer
    <3>2. faults' \in Nat
      BY <1>3, FaultsCounted DEF StartContainer
    <3>3. pc' \in [Jobs -> Pcs] /\ failed' \in [Jobs -> BOOLEAN]
      BY <1>3 DEF StartContainer, Pcs
    <3>4. QED
      BY <1>3, <3>1, <3>2, <3>3 DEF StartContainer
  <2>2. BoxInHand'
    BY <1>3 DEF StartContainer, BoxInHand, InHand
  <2>3. ExitedFirst'
    BY <1>3 DEF StartContainer, BoxInHand, InHand, ExitedFirst
  <2>4. CopierAtWork'
    BY <1>3 DEF StartContainer, CopierAtWork
  <2>5. OutputIsWhole'
    BY <1>3 DEF StartContainer, OutputIsWhole, CopierAtWork, ExitedFirst, BoxInHand, InHand
  <2>6. Tidy'
    BY <1>3 DEF StartContainer, Tidy, Quiet, InHand, Fault, Succeeds, Fails
  <2>7. QED
    BY <2>1, <2>2, <2>3, <2>4, <2>5, <2>6
<1>4. CASE WaitExit(j)
  <2>1. TypeOK'
    BY <1>4, FaultsCounted DEF WaitExit, Pcs
  <2>2. BoxInHand'
    BY <1>4 DEF WaitExit, BoxInHand, InHand
  <2>3. ExitedFirst'
    BY <1>4 DEF WaitExit, BoxInHand, InHand, ExitedFirst
  <2>4. CopierAtWork'
    BY <1>4 DEF WaitExit, CopierAtWork
  <2>5. OutputIsWhole'
    BY <1>4 DEF WaitExit, OutputIsWhole, CopierAtWork, ExitedFirst, BoxInHand, InHand
  <2>6. Tidy'
    BY <1>4 DEF WaitExit, Tidy, Quiet, InHand, Fault, Succeeds, Fails
  <2>7. QED
    BY <2>1, <2>2, <2>3, <2>4, <2>5, <2>6
<1>5. CASE WaitCanceled(j)
  <2>1. TypeOK'
    BY <1>5, FaultsCounted DEF WaitCanceled, Pcs
  <2>2. BoxInHand'
    BY <1>5 DEF WaitCanceled, BoxInHand, InHand
  <2>3. ExitedFirst'
    BY <1>5 DEF WaitCanceled, BoxInHand, InHand, ExitedFirst
  <2>4. CopierAtWork'
    BY <1>5 DEF WaitCanceled, CopierAtWork
  <2>5. OutputIsWhole'
    BY <1>5 DEF WaitCanceled, OutputIsWhole, CopierAtWork, ExitedFirst, BoxInHand, InHand
  <2>6. Tidy'
    BY <1>5 DEF WaitCanceled, Tidy, Quiet, InHand, Fault, Succeeds, Fails
  <2>7. QED
    BY <2>1, <2>2, <2>3, <2>4, <2>5, <2>6
<1>6. CASE WaitFails(j)
  <2>1. TypeOK'
    BY <1>6, FaultsCounted DEF WaitFails, Pcs
  <2>2. BoxInHand'
    BY <1>6 DEF WaitFails, BoxInHand, InHand
  <2>3. ExitedFirst'
    BY <1>6 DEF WaitFails, BoxInHand, InHand, ExitedFirst
  <2>4. CopierAtWork'
    BY <1>6 DEF WaitFails, CopierAtWork
  <2>5. OutputIsWhole'
    BY <1>6 DEF WaitFails, OutputIsWhole, CopierAtWork, ExitedFirst, BoxInHand, InHand
  <2>6. Tidy'
    BY <1>6 DEF WaitFails, Tidy, Quiet, InHand, Fault, Succeeds, Fails
  <2>7. QED
    BY <2>1, <2>2, <2>3, <2>4, <2>5, <2>6
<1>7. CASE Drain(j)
  <2>1. TypeOK'
    BY <1>7, FaultsCounted DEF Drain, Pcs
  <2>2. BoxInHand'
    BY <1>7 DEF Drain, BoxInHand, InHand
  <2>3. ExitedFirst'
    BY <1>7 DEF Drain, BoxInHand, InHand, ExitedFirst
  <2>4. CopierAtWork'
    BY <1>7 DEF Drain, CopierAtWork
  <2>5. OutputIsWhole'
    BY <1>7 DEF Drain, OutputIsWhole, CopierAtWork, ExitedFirst, BoxInHand, InHand
  <2>6. Tidy'
    BY <1>7 DEF Drain, Tidy, Quiet, InHand, Fault, Succeeds, Fails
  <2>7. QED
    BY <2>1, <2>2, <2>3, <2>4, <2>5, <2>6
<1>8. CASE Kill(j)
  <2>1. TypeOK'
    BY <1>8, FaultsCounted DEF Kill, Pcs
  <2>2. BoxInHand'
    BY <1>8 DEF Kill, BoxInHand, InHand
  <2>3. ExitedFirst'
    BY <1>8 DEF Kill, BoxInHand, InHand, ExitedFirst
  <2>4. CopierAtWork'
    BY <1>8 DEF Kill, CopierAtWork
  <2>5. OutputIsWhole'
    BY <1>8 DEF Kill, OutputIsWhole, CopierAtWork, ExitedFirst, BoxInHand, InHand
  <2>6. Tidy'
    BY <1>8 DEF Kill, Tidy, Quiet, InHand, Fault, Succeeds, Fails
  <2>7. QED
    BY <2>1, <2>2, <2>3, <2>4, <2>5, <2>6
<1>9. CASE CloseAttach(j)
  <2>1. TypeOK'
    BY <1>9, FaultsCounted DEF CloseAttach, Pcs
  <2>2. BoxInHand'
    BY <1>9 DEF CloseAttach, BoxInHand, InHand
  <2>3. ExitedFirst'
    BY <1>9 DEF CloseAttach, BoxInHand, InHand, ExitedFirst
  <2>4. CopierAtWork'
    BY <1>9 DEF CloseAttach, CopierAtWork
  <2>5. OutputIsWhole'
    BY <1>9 DEF CloseAttach, OutputIsWhole, CopierAtWork, ExitedFirst, BoxInHand, InHand
  <2>6. Tidy'
    BY <1>9 DEF CloseAttach, Tidy, Quiet, InHand, Fault, Succeeds, Fails
  <2>7. QED
    BY <2>1, <2>2, <2>3, <2>4, <2>5, <2>6
<1>10. CASE RemoveContainer(j)
  <2>1. TypeOK'
    BY <1>10, FaultsCounted DEF RemoveContainer, Pcs
  <2>2. BoxInHand'
    BY <1>10 DEF RemoveContainer, BoxInHand, InHand
  <2>3. ExitedFirst'
    BY <1>10 DEF RemoveContainer, BoxInHand, InHand, ExitedFirst
  <2>4. CopierAtWork'
    BY <1>10 DEF RemoveContainer, CopierAtWork
  <2>5. OutputIsWhole'
    BY <1>10 DEF RemoveContainer, OutputIsWhole, CopierAtWork, ExitedFirst, BoxInHand, InHand
  <2>6. Tidy'
    BY <1>10 DEF RemoveContainer, Tidy, Quiet, InHand, Fault, Succeeds, Fails
  <2>7. QED
    BY <2>1, <2>2, <2>3, <2>4, <2>5, <2>6
<1>11. QED
  BY <1>1, <1>2, <1>3, <1>4, <1>5, <1>6, <1>7, <1>8, <1>9, <1>10

(* What goes on beside the jobs' goroutines. *)
LEMMA BesideKeeps ==
    ASSUME RunnerInv,
           \/ \E j \in Jobs : Copy(j) \/ CopyEnds(j) \/ CopyFails(j) \/ Writes(j) \/ Exits(j)
           \/ Cancel \/ Crash \/ UNCHANGED vars
    PROVE  RunnerInv'
<1> USE DEF RunnerInv, TypeOK, At, Goto, GiveUp, Set, control, daemon
<1>1. ASSUME NEW j \in Jobs, Copy(j) PROVE RunnerInv'
  <2>1. TypeOK'
    BY <1>1, FaultsCounted DEF Copy, Pcs
  <2>2. BoxInHand'
    BY <1>1 DEF Copy, BoxInHand, InHand
  <2>3. ExitedFirst'
    BY <1>1 DEF Copy, BoxInHand, InHand, ExitedFirst
  <2>4. CopierAtWork'
    BY <1>1 DEF Copy, CopierAtWork
  <2>5. OutputIsWhole'
    BY <1>1 DEF Copy, OutputIsWhole, CopierAtWork, ExitedFirst, BoxInHand, InHand
  <2>6. Tidy'
    BY <1>1 DEF Copy, Tidy, Quiet, InHand, Fault, Succeeds, Fails
  <2>7. QED
    BY <2>1, <2>2, <2>3, <2>4, <2>5, <2>6
<1>2. ASSUME NEW j \in Jobs, CopyEnds(j) PROVE RunnerInv'
  <2>1. TypeOK'
    BY <1>2, FaultsCounted DEF CopyEnds, Copying, Attached, Pcs
  <2>2. BoxInHand'
    BY <1>2 DEF CopyEnds, Copying, Attached, BoxInHand, InHand
  <2>3. ExitedFirst'
    BY <1>2 DEF CopyEnds, Copying, Attached, BoxInHand, InHand, ExitedFirst
  <2>4. CopierAtWork'
    BY <1>2 DEF CopyEnds, Copying, Attached, CopierAtWork
  <2>5. OutputIsWhole'
    BY <1>2
    DEF CopyEnds, Copying, Attached, OutputIsWhole, CopierAtWork, ExitedFirst, BoxInHand, InHand
  <2>6. Tidy'
    BY <1>2 DEF CopyEnds, Copying, Attached, Tidy, Quiet, InHand, Fault, Succeeds, Fails
  <2>7. QED
    BY <2>1, <2>2, <2>3, <2>4, <2>5, <2>6
<1>3. ASSUME NEW j \in Jobs, CopyFails(j) PROVE RunnerInv'
  <2>1. TypeOK'
    BY <1>3, FaultsCounted DEF CopyFails, Copying, Pcs
  <2>2. BoxInHand'
    BY <1>3 DEF CopyFails, Copying, BoxInHand, InHand
  <2>3. ExitedFirst'
    BY <1>3 DEF CopyFails, Copying, BoxInHand, InHand, ExitedFirst
  <2>4. CopierAtWork'
    BY <1>3 DEF CopyFails, Copying, CopierAtWork
  <2>5. OutputIsWhole'
    BY <1>3 DEF CopyFails, Copying, OutputIsWhole, CopierAtWork, ExitedFirst, BoxInHand, InHand
  <2>6. Tidy'
    BY <1>3 DEF CopyFails, Copying, Tidy, Quiet, InHand, Fault, Succeeds, Fails
  <2>7. QED
    BY <2>1, <2>2, <2>3, <2>4, <2>5, <2>6
<1>4. ASSUME NEW j \in Jobs, Writes(j) PROVE RunnerInv'
  <2>1. TypeOK'
    BY <1>4, FaultsCounted DEF Writes, Pcs
  <2>2. BoxInHand'
    BY <1>4 DEF Writes, BoxInHand, InHand
  <2>3. ExitedFirst'
    BY <1>4 DEF Writes, BoxInHand, InHand, ExitedFirst
  <2>4. CopierAtWork'
    BY <1>4 DEF Writes, CopierAtWork
  <2>5. OutputIsWhole'
    BY <1>4 DEF Writes, OutputIsWhole, CopierAtWork, ExitedFirst, BoxInHand, InHand
  <2>6. Tidy'
    BY <1>4 DEF Writes, Tidy, Quiet, InHand, Fault, Succeeds, Fails
  <2>7. QED
    BY <2>1, <2>2, <2>3, <2>4, <2>5, <2>6
<1>5. ASSUME NEW j \in Jobs, Exits(j) PROVE RunnerInv'
  <2>1. TypeOK'
    BY <1>5, FaultsCounted DEF Exits, Pcs
  <2>2. BoxInHand'
    BY <1>5 DEF Exits, BoxInHand, InHand
  <2>3. ExitedFirst'
    BY <1>5 DEF Exits, BoxInHand, InHand, ExitedFirst
  <2>4. CopierAtWork'
    BY <1>5 DEF Exits, CopierAtWork
  <2>5. OutputIsWhole'
    BY <1>5 DEF Exits, OutputIsWhole, CopierAtWork, ExitedFirst, BoxInHand, InHand
  <2>6. Tidy'
    BY <1>5 DEF Exits, Tidy, Quiet, InHand, Fault, Succeeds, Fails
  <2>7. QED
    BY <2>1, <2>2, <2>3, <2>4, <2>5, <2>6
<1>6. CASE Cancel
  <2>1. TypeOK'
    BY <1>6, FaultsCounted DEF Cancel, Pcs
  <2>2. BoxInHand'
    BY <1>6 DEF Cancel, BoxInHand, InHand
  <2>3. ExitedFirst'
    BY <1>6 DEF Cancel, BoxInHand, InHand, ExitedFirst
  <2>4. CopierAtWork'
    BY <1>6 DEF Cancel, CopierAtWork
  <2>5. OutputIsWhole'
    BY <1>6 DEF Cancel, OutputIsWhole, CopierAtWork, ExitedFirst, BoxInHand, InHand
  <2>6. Tidy'
    BY <1>6 DEF Cancel, Tidy, Quiet, InHand, Fault, Succeeds, Fails
  <2>7. QED
    BY <2>1, <2>2, <2>3, <2>4, <2>5, <2>6
<1>7. CASE Crash
  <2>1. TypeOK'
    BY <1>7, FaultsCounted DEF Crash, Pcs
  <2>2. BoxInHand'
    BY <1>7 DEF Crash, BoxInHand, InHand
  <2>3. ExitedFirst'
    BY <1>7 DEF Crash, BoxInHand, InHand, ExitedFirst
  <2>4. CopierAtWork'
    BY <1>7 DEF Crash, CopierAtWork
  <2>5. OutputIsWhole'
    BY <1>7 DEF Crash, OutputIsWhole, CopierAtWork, ExitedFirst, BoxInHand, InHand
  <2>6. Tidy'
    BY <1>7 DEF Crash, Tidy, Quiet, InHand, Fault, Succeeds, Fails
  <2>7. QED
    BY <2>1, <2>2, <2>3, <2>4, <2>5, <2>6
<1>8. CASE UNCHANGED vars
  <2>1. TypeOK'
    BY <1>8, FaultsCounted DEF vars, Pcs
  <2>2. BoxInHand'
    BY <1>8 DEF vars, BoxInHand, InHand
  <2>3. ExitedFirst'
    BY <1>8 DEF vars, BoxInHand, InHand, ExitedFirst
  <2>4. CopierAtWork'
    BY <1>8 DEF vars, CopierAtWork
  <2>5. OutputIsWhole'
    BY <1>8 DEF vars, OutputIsWhole, CopierAtWork, ExitedFirst, BoxInHand, InHand
  <2>6. Tidy'
    BY <1>8 DEF vars, Tidy, Quiet, InHand, Fault, Succeeds, Fails
  <2>7. QED
    BY <2>1, <2>2, <2>3, <2>4, <2>5, <2>6
<1>9. QED
  BY <1>1, <1>2, <1>3, <1>4, <1>5, <1>6, <1>7, <1>8

LEMMA RunnerInvariant == Spec => []RunnerInv
<1>1. RunnerInv /\ [Next]_vars => RunnerInv'
  BY SetupKeeps, ContainerKeeps, BesideKeeps DEF Next, JobStep, RunStep
<1>2. QED
  BY <1>1, InitRunner, PTL DEF Spec

-----------------------------------------------------------------------------
(* The runner's state and the daemon's have their types. *)
THEOREM TypeCorrect == Spec => []TypeOK
<1>1. RunnerInv => TypeOK
  BY DEF RunnerInv
<1>2. QED
  BY <1>1, RunnerInvariant, PTL

(* A container that may have been started is removed, however its step ends. *)
THEOREM StartedContainersGo == Spec => []StartedAreRemoved
<1>1. RunnerInv => StartedAreRemoved
  BY DEF RunnerInv, TypeOK, BoxInHand, InHand, StartedAreRemoved
<1>2. QED
  BY <1>1, RunnerInvariant, PTL

(* A job leaves nothing, if it is not canceled, raced or failed by the daemon. *)
THEOREM JobsLeaveNothing == Spec => []LeavesNothing
<1>1. RunnerInv => LeavesNothing
  BY DEF RunnerInv, Tidy, Quiet, InHand, Held, LeavesNothing
<1>2. QED
  BY <1>1, RunnerInvariant, PTL

(* A step's success comes after all of its output that was not lost. *)
THEOREM OutputStaysWhole == Spec => []OutputIsWhole
<1>1. RunnerInv => OutputIsWhole
  BY DEF RunnerInv
<1>2. QED
  BY <1>1, RunnerInvariant, PTL
=============================================================================
