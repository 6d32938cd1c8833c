---------------------------- MODULE RunText_proofs ----------------------------
(***************************************************************************)
(* Proofs about the text that goes into a run and the text that comes out   *)
(* of it: the dialog's reader of YAML, for any text, and the way of a log   *)
(* line to the viewer, for any jobs that write any text.                    *)
(***************************************************************************)
EXTENDS YamlMeaning, LogView, FiniteSetTheorems, SequenceTheorems, WellFoundedInduction, TLAPS

ReaderInv == TypeOK /\ NeverThrows

AreJobs(js) ==
    /\ DOMAIN js \in SUBSET Texts
    /\ js \in [DOMAIN js -> JobRecords]

-----------------------------------------------------------------------------
(* A line that has been reached is one of the text's. *)
LEMMA LineType ==
    ASSUME TypeOK, Turn
    PROVE  /\ line \in Lines
           /\ pos' \in 1 .. Len(doc'.lines) + 1
           /\ doc'.lines \in Seq(Lines)
           /\ pipeline' # NotYet => IsPipeline(pipeline')
  BY DEF TypeOK, Turn, line, IsPipeline

(* Replacing a job by a job leaves the others and the names. *)
LEMMA JobReplaced ==
    ASSUME NEW js, AreJobs(js), NEW j \in DOMAIN js, NEW v \in JobRecords
    PROVE  /\ AreJobs([js EXCEPT ![j] = v])
           /\ DOMAIN [js EXCEPT ![j] = v] = DOMAIN js
           /\ [js EXCEPT ![j] = v][j] = v
  BY DEF AreJobs

(* A heading adds a job that is empty. *)
LEMMA JobAdded ==
    ASSUME NEW js, AreJobs(js), NEW j \in Texts
    PROVE  AreJobs([k \in DOMAIN js \cup {j} |-> IF k = j THEN EmptyJob ELSE js[k]])
<1>1. <<>> \in Seq(StepRecords) /\ <<>> \in Seq(Texts)
  OBVIOUS
<1>2. ASSUME NEW ds \in Seq(Texts), NEW ss \in Seq(StepRecords)
      PROVE  [image |-> Unset, dependsOn |-> ds, env |-> {}, steps |-> ss] \in JobRecords
  BY TextsAssumption DEF JobRecords
<1>3. EmptyJob \in JobRecords
  BY <1>1, <1>2, Zenon DEF EmptyJob
<1>4. QED
  BY <1>3 DEF AreJobs

(* A job with other dependencies, or with other steps, is a job. *)
LEMMA JobWith ==
    ASSUME NEW j \in JobRecords, NEW ds \in Seq(Texts), NEW ss \in Seq(StepRecords)
    PROVE  /\ [j EXCEPT !.dependsOn = ds] \in JobRecords
           /\ [j EXCEPT !.steps = ss] \in JobRecords
           /\ [j EXCEPT !.steps = ss].steps = ss
  BY DEF JobRecords

(* The step that the keys and the variables of a step go to. *)
LEMMA StepReplaced ==
    ASSUME NEW j \in JobRecords, NEW k \in 1 .. Len(j.steps), NEW s \in StepRecords
    PROVE  /\ [j EXCEPT !.steps[k] = s] \in JobRecords
           /\ Len([j EXCEPT !.steps[k] = s].steps) = Len(j.steps)
<1>1. j.steps \in Seq(StepRecords)
  BY DEF JobRecords
<1>2. /\ [j.steps EXCEPT ![k] = s] \in Seq(StepRecords)
      /\ Len([j.steps EXCEPT ![k] = s]) = Len(j.steps)
  BY <1>1
<1>3. QED
  BY <1>1, <1>2 DEF JobRecords

-----------------------------------------------------------------------------
LEMMA InitReader == ReaderInit => ReaderInv
<1>1. ASSUME ReaderInit PROVE TypeOK
  <2>1. doc.lines \in Seq(Lines)
    BY <1>1, DocumentsAssumption DEF ReaderInit
  <2>2. AreJobs(jobs)
    BY <1>1 DEF ReaderInit, AreJobs
  <2>3. pos \in 1 .. Len(doc.lines) + 1
    BY <1>1, <2>1 DEF ReaderInit
  <2>4. /\ context \in Contexts /\ currentJob \in Texts /\ currentStep \in Nat
        /\ name \in Texts /\ env \in SUBSET Texts /\ pipeline = NotYet
    BY <1>1, TextsAssumption DEF ReaderInit, Contexts
  <2>5. QED
    BY <2>1, <2>2, <2>3, <2>4 DEF TypeOK, AreJobs
<1>2. ASSUME ReaderInit PROVE NeverThrows
  BY <1>2 DEF ReaderInit, NeverThrows, InJob
<1>3. QED
  BY <1>1, <1>2 DEF ReaderInv

(* Every branch of the loop keeps the types, and finds the job and the step *)
(* it indexes.                                                              *)
LEMMA StepReader == ReaderInv /\ [ReaderNext]_readerVars => ReaderInv'
<1> SUFFICES ASSUME ReaderInv, [ReaderNext]_readerVars PROVE ReaderInv'
  OBVIOUS
<1>1. TypeOK /\ NeverThrows /\ AreJobs(jobs)
  BY DEF ReaderInv, TypeOK, AreJobs
<1>2. InJob => jobs[currentJob] \in JobRecords
  BY <1>1 DEF NeverThrows, AreJobs
\* What a turn has to show.
<1>3. ASSUME Turn, context' \in Contexts, currentJob' \in Texts, currentStep' \in Nat,
             name' \in Texts, env' \in SUBSET Texts, AreJobs(jobs'), NeverThrows'
      PROVE  ReaderInv'
  <2>1. /\ pos' \in 1 .. Len(doc'.lines) + 1
        /\ doc'.lines \in Seq(Lines)
        /\ pipeline' # NotYet => IsPipeline(pipeline')
    BY <1>1, <1>3, LineType
  <2>2. QED
    BY <1>3, <2>1 DEF ReaderInv, TypeOK, AreJobs
<1>4. CASE RootLine
  <2>1. line \in Lines /\ Turn
    BY <1>1, <1>4, LineType DEF RootLine, Written
  <2>2. NeverThrows'
    BY <1>1, <1>4 DEF RootLine, NeverThrows, InJob
  <2>3. QED
    BY <1>1, <1>3, <1>4, <2>1, <2>2 DEF RootLine, Lines, TypeOK, Contexts
<1>5. CASE EnvLine
  <2>1. line \in Lines /\ Turn
    BY <1>1, <1>5, LineType DEF EnvLine, Written
  <2>2. NeverThrows'
    BY <1>1, <1>5 DEF EnvLine, NeverThrows, InJob, progress
  <2>3. QED
    BY <1>1, <1>3, <1>5, <2>1, <2>2 DEF EnvLine, Lines, TypeOK, progress
<1>6. CASE JobHeading
  <2>1. line \in Lines /\ Turn
    BY <1>1, <1>6, LineType DEF JobHeading, Written
  <2>2. line.text \in Texts
    BY <2>1 DEF Lines
  <2>3. AreJobs(jobs') /\ currentJob' \in DOMAIN jobs'
    BY <1>1, <1>6, <2>2, JobAdded DEF JobHeading
  <2>4. NeverThrows'
    BY <1>6, <2>3 DEF JobHeading, NeverThrows, InJob
  <2>5. QED
    BY <1>1, <1>3, <1>6, <2>1, <2>2, <2>3, <2>4 DEF JobHeading, TypeOK, Contexts
<1>7. CASE JobKey
  <2>1. line \in Lines /\ Turn
    BY <1>1, <1>7, LineType DEF JobKey, Written
  <2>2. InJob /\ currentJob \in DOMAIN jobs /\ line.text \in Texts
    BY <1>1, <1>7, <2>1 DEF JobKey, At, InJob, NeverThrows, Lines
  <2>3. AreJobs(jobs') /\ DOMAIN jobs' = DOMAIN jobs
    <3>1. CASE line.kind = "image"
      <4>1. [jobs[currentJob] EXCEPT !.image = line.text] \in JobRecords
        BY <1>2, <2>2 DEF JobRecords
      <4>2. jobs' = [jobs EXCEPT ![currentJob] = [jobs[currentJob] EXCEPT !.image = line.text]]
        BY <1>7, <3>1 DEF JobKey
      <4>3. QED
        BY <1>1, <2>2, <4>1, <4>2, JobReplaced
    <3>2. CASE line.kind = "item"
      <4> DEFINE ds == Append(jobs[currentJob].dependsOn, line.text)
                 v == [jobs[currentJob] EXCEPT !.dependsOn = ds]
      <4>1. v \in JobRecords
        <5>1. ds \in Seq(Texts)
          BY <1>2, <2>2 DEF JobRecords
        <5>2. <<>> \in Seq(StepRecords)
          OBVIOUS
        <5> HIDE DEF ds
        <5>3. QED
          BY <1>2, <2>2, <5>1, <5>2, JobWith
      <4>2. jobs' = [jobs EXCEPT ![currentJob] = v]
        BY <1>7, <3>2 DEF JobKey
      <4>3. QED
        BY <1>1, <2>2, <4>1, <4>2, JobReplaced
    <3>3. CASE line.kind \notin {"image", "item"}
      BY <1>1, <1>7, <3>3 DEF JobKey
    <3>4. QED
      BY <3>1, <3>2, <3>3
  <2>4. NeverThrows'
    BY <1>7, <2>2, <2>3 DEF JobKey, At, NeverThrows, InJob
  <2>5. QED
    BY <1>1, <1>3, <1>7, <2>1, <2>3, <2>4 DEF JobKey, TypeOK, Contexts
<1>8. CASE JobEnvLine
  <2>1. line \in Lines /\ Turn
    BY <1>1, <1>8, LineType DEF JobEnvLine, Written
  <2>2. InJob /\ currentJob \in DOMAIN jobs /\ line.text \in Texts
    BY <1>1, <1>8, <2>1 DEF JobEnvLine, At, InJob, NeverThrows, Lines
  <2> DEFINE v == [jobs[currentJob] EXCEPT !.env = @ \cup {line.text}]
  <2>3. v \in JobRecords
    BY <1>2, <2>2 DEF JobRecords
  <2>4. jobs' = [jobs EXCEPT ![currentJob] = v]
    BY <1>8 DEF JobEnvLine
  <2>5. AreJobs(jobs') /\ DOMAIN jobs' = DOMAIN jobs
    BY <1>1, <2>2, <2>3, <2>4, JobReplaced
  <2>6. NeverThrows'
    BY <1>8, <2>2, <2>5 DEF JobEnvLine, At, NeverThrows, InJob, progress
  <2>7. QED
    BY <1>1, <1>3, <1>8, <2>1, <2>5, <2>6 DEF JobEnvLine, TypeOK, progress
<1>9. CASE EndOfJobEnv
  <2>1. Turn
    BY <1>9 DEF EndOfJobEnv, Written
  <2>2. NeverThrows'
    BY <1>1, <1>9 DEF EndOfJobEnv, NeverThrows, InJob, found
  <2>3. QED
    BY <1>1, <1>3, <1>9, <2>1, <2>2 DEF EndOfJobEnv, TypeOK, Contexts, found
<1>10. CASE StepHeading
  <2>1. line \in Lines /\ Turn
    BY <1>1, <1>10, LineType DEF StepHeading, Written
  <2>2. InJob /\ currentJob \in DOMAIN jobs /\ line.text \in Texts
    BY <1>1, <1>10, <2>1 DEF StepHeading, InJob, NeverThrows, Lines
  <2> DEFINE ss == Append(jobs[currentJob].steps, NewStepNamed(line.text))
             v == [jobs[currentJob] EXCEPT !.steps = ss]
  <2>3. jobs[currentJob].steps \in Seq(StepRecords) /\ NewStepNamed(line.text) \in StepRecords
    <3>1. <<>> \in Seq(Texts)
      OBVIOUS
    <3>2. QED
      BY <1>2, <2>2, <3>1 DEF JobRecords, StepRecords, NewStepNamed
  <2>4. v \in JobRecords /\ v.steps = ss /\ Len(v.steps) = Len(jobs[currentJob].steps) + 1
    <3>1. ss \in Seq(StepRecords) /\ Len(ss) = Len(jobs[currentJob].steps) + 1
      BY <2>3
    <3>2. <<>> \in Seq(Texts)
      OBVIOUS
    <3> HIDE DEF ss
    <3>3. QED
      BY <1>2, <2>2, <3>1, <3>2, JobWith
  <2>5. jobs' = [jobs EXCEPT ![currentJob] = v]
    BY <1>10 DEF StepHeading
  <2>6. AreJobs(jobs') /\ DOMAIN jobs' = DOMAIN jobs /\ jobs'[currentJob] = v
    BY <1>1, <2>2, <2>4, <2>5, JobReplaced
  <2>7. currentStep' = Len(v.steps) /\ currentStep' \in Nat \ {0} /\ currentJob' = currentJob
    BY <1>10, <2>3, <2>4 DEF StepHeading
  <2>8. NeverThrows'
    <3>1. Len(v.steps) \in 1 .. Len(v.steps)
      BY <2>7
    <3> HIDE DEF v
    <3>2. QED
      BY <2>2, <2>6, <2>7, <3>1 DEF NeverThrows
  <2>9. QED
    BY <1>1, <1>3, <1>10, <2>1, <2>6, <2>7, <2>8 DEF StepHeading, TypeOK, Contexts
<1>11. CASE StepKey
  <2>1. line \in Lines /\ Turn
    BY <1>1, <1>11, LineType DEF StepKey, Written
  <2>2. /\ InJob /\ currentJob \in DOMAIN jobs /\ line.text \in Texts
        /\ currentStep \in 1 .. Len(jobs[currentJob].steps)
    BY <1>1, <1>11, <2>1 DEF StepKey, At, InJob, NeverThrows, Lines
  <2> DEFINE step == jobs[currentJob].steps[currentStep]
             v(cmd) == [jobs[currentJob] EXCEPT !.steps[currentStep] = [step EXCEPT !.run = cmd]]
  <2>3. jobs[currentJob].steps \in Seq(StepRecords) /\ step \in StepRecords
    <3>1. jobs[currentJob].steps \in Seq(StepRecords)
      BY <1>2, <2>2 DEF JobRecords
    <3>2. QED
      BY <2>2, <3>1
  <2>cmd. step.run \in Seq(Texts)
    BY <2>3 DEF StepRecords
  <2>4. jobs' = jobs \/ \E cmd \in Seq(Texts) : jobs' = [jobs EXCEPT ![currentJob] = v(cmd)]
    <3>1. CASE line.kind = "run"
      <4>1. jobs' = [jobs EXCEPT ![currentJob] = v(<<line.text>>)]
        BY <1>11, <3>1 DEF StepKey
      <4>2. <<line.text>> \in Seq(Texts)
        BY <2>2
      <4>3. QED
        BY <4>1, <4>2
    <3>2. CASE line.kind = "block"
      <4>1. jobs' = [jobs EXCEPT ![currentJob] = v(<<>>)]
        BY <1>11, <3>2 DEF StepKey
      <4>2. <<>> \in Seq(Texts)
        OBVIOUS
      <4>3. QED
        BY <4>1, <4>2
    <3>3. CASE line.kind \in {"env", "item", "step"}
      BY <1>11, <3>3 DEF StepKey
    <3>4. CASE line.kind \notin {"run", "block", "env", "item", "step"}
      <4>1. jobs' = [jobs EXCEPT ![currentJob] = v(Append(step.run, line.text))]
        BY <1>11, <3>4 DEF StepKey
      <4>2. Append(step.run, line.text) \in Seq(Texts)
        BY <2>2, <2>cmd
      <4>3. QED
        BY <4>1, <4>2
    <3>5. QED
      BY <3>1, <3>2, <3>3, <3>4
  <2>5. ASSUME NEW cmd \in Seq(Texts)
        PROVE  v(cmd) \in JobRecords /\ Len(v(cmd).steps) = Len(jobs[currentJob].steps)
    <3>1. [step EXCEPT !.run = cmd] \in StepRecords
      BY <2>3 DEF StepRecords
    <3>2. QED
      BY <1>2, <2>2, <3>1, StepReplaced
  <2>6. /\ AreJobs(jobs') /\ DOMAIN jobs' = DOMAIN jobs
        /\ Len(jobs'[currentJob].steps) = Len(jobs[currentJob].steps)
    <3>1. CASE jobs' = jobs
      BY <1>1, <3>1
    <3>2. CASE jobs' # jobs
      <4>1. PICK cmd \in Seq(Texts) : jobs' = [jobs EXCEPT ![currentJob] = v(cmd)]
        BY <2>4, <3>2
      <4>2. v(cmd) \in JobRecords /\ Len(v(cmd).steps) = Len(jobs[currentJob].steps)
        BY <2>5
      <4> HIDE DEF v
      <4>3. QED
        BY <1>1, <2>2, <4>1, <4>2, JobReplaced
    <3>3. QED
      BY <3>1, <3>2
  <2>7. NeverThrows'
    BY <1>11, <2>2, <2>6 DEF StepKey, NeverThrows
  <2>8. QED
    BY <1>1, <1>3, <1>11, <2>1, <2>6, <2>7 DEF StepKey, TypeOK, Contexts
<1>12. CASE StepEnvLine
  <2>1. line \in Lines /\ Turn
    BY <1>1, <1>12, LineType DEF StepEnvLine, Written
  <2>2. /\ InJob /\ currentJob \in DOMAIN jobs /\ line.text \in Texts
        /\ currentStep \in 1 .. Len(jobs[currentJob].steps)
    BY <1>1, <1>12, <2>1 DEF StepEnvLine, At, InJob, NeverThrows, Lines
  <2> DEFINE step == jobs[currentJob].steps[currentStep]
             new == [step EXCEPT !.env = @ \cup {line.text}]
             v == [jobs[currentJob] EXCEPT !.steps[currentStep] = new]
  <2>3. jobs[currentJob].steps \in Seq(StepRecords) /\ step \in StepRecords
    <3>1. jobs[currentJob].steps \in Seq(StepRecords)
      BY <1>2, <2>2 DEF JobRecords
    <3>2. QED
      BY <2>2, <3>1
  <2>new. new \in StepRecords
    BY <2>2, <2>3 DEF StepRecords
  <2>4. v \in JobRecords /\ Len(v.steps) = Len(jobs[currentJob].steps)
    BY <1>2, <2>2, <2>new, StepReplaced
  <2>5. jobs' = [jobs EXCEPT ![currentJob] = v]
    BY <1>12 DEF StepEnvLine
  <2>6. AreJobs(jobs') /\ DOMAIN jobs' = DOMAIN jobs /\ jobs'[currentJob] = v
    <3> HIDE DEF v
    <3>1. QED
      BY <1>1, <2>2, <2>4, <2>5, JobReplaced
  <2>7. NeverThrows'
    <3>1. currentJob' = currentJob /\ currentStep' = currentStep
      BY <1>12 DEF StepEnvLine, progress
    <3>2. currentStep' \in 1 .. Len(jobs'[currentJob'].steps)
      BY <2>2, <2>4, <2>6, <3>1
    <3>3. QED
      BY <2>2, <2>6, <3>1, <3>2 DEF NeverThrows
  <2>8. QED
    BY <1>1, <1>3, <1>12, <2>1, <2>6, <2>7 DEF StepEnvLine, TypeOK, progress
<1>13. CASE OtherLine
  <2>1. NeverThrows'
    BY <1>1, <1>13 DEF OtherLine, NeverThrows, InJob, progress, found
  <2>2. QED
    BY <1>1, <1>3, <1>13, <2>1 DEF OtherLine, TypeOK, progress, found
<1>14. CASE Create
  <2>1. UNCHANGED <<doc, pos, progress, found>>
    BY <1>14 DEF Create
  <2>2. IsPipeline(pipeline')
    <3>1. /\ pipeline'.name \in {name, "untitled"}
          /\ pipeline'.env = env
          /\ pipeline'.jobs = jobs
      BY <1>14 DEF Create
    <3>2. QED
      BY <1>1, <3>1, TextsAssumption DEF IsPipeline, TypeOK
  <2>3. QED
    BY <1>1, <2>1, <2>2 DEF ReaderInv, TypeOK, NeverThrows, InJob, progress, found
<1>15. CASE UNCHANGED readerVars
  BY <1>1, <1>15 DEF readerVars, ReaderInv, TypeOK, NeverThrows, InJob, progress, found, IsPipeline
<1>16. QED
  BY <1>4, <1>5, <1>6, <1>7, <1>8, <1>9, <1>10, <1>11, <1>12, <1>13, <1>14, <1>15 DEF ReaderNext

-----------------------------------------------------------------------------
(* What the reader knows has its type, and what the dialog submits is a    *)
(* PipelineDefinition, for any text.                                       *)
THEOREM ReadsPipelines == ReaderSpec => []TypeOK
<1>1. ReaderInv => TypeOK
  BY DEF ReaderInv
<1>2. QED
  BY <1>1, InitReader, StepReader, PTL DEF ReaderSpec

(* Reading never throws: every job and every step that the reader indexes  *)
(* is there, for any text.                                                 *)
THEOREM ReadingIsTotal == ReaderSpec => []NeverThrows
<1>1. ReaderInv => NeverThrows
  BY DEF ReaderInv
<1>2. QED
  BY <1>1, InitReader, StepReader, PTL DEF ReaderSpec

-----------------------------------------------------------------------------
(* The reader is where the last line of the first column put it, and knows *)
(* the jobs that the lines it has read name.                               *)
ReadSoFar ==
    /\ doc \in Documents
    /\ context = "jobs" \/ InJob <=> UnderJobs(doc.lines, pos)
    /\ DOMAIN jobs = JobsNamed(doc.lines, pos - 1)
    /\ Submitted => DOMAIN pipeline.jobs = JobsNamed(doc.lines, Len(doc.lines))

FoundInv == ReaderInv /\ ReadSoFar

(* What the next line does to the section, and to the jobs that are named. *)
LEMMA OneLineFurther ==
    ASSUME NEW ls \in Seq(Lines), NEW p \in 1 .. Len(ls)
    PROVE  /\ ls[p].indent # 0 \/ ls[p].kind = "blank"
                => (UnderJobs(ls, p + 1) <=> UnderJobs(ls, p))
           /\ ls[p].indent = 0 /\ ls[p].kind = "jobs" => UnderJobs(ls, p + 1)
           /\ ls[p].indent = 0 /\ ls[p].kind \notin {"blank", "jobs"} => ~UnderJobs(ls, p + 1)
           /\ ls[p].indent = 2 /\ ls[p].kind \in Headings /\ UnderJobs(ls, p)
                => JobsNamed(ls, p) = JobsNamed(ls, p - 1) \cup {ls[p].text}
           /\ ~(ls[p].indent = 2 /\ ls[p].kind \in Headings /\ UnderJobs(ls, p))
                => JobsNamed(ls, p) = JobsNamed(ls, p - 1)
<1>1. p \in Nat /\ p >= 1 /\ (p + 1) - 1 = p
  OBVIOUS
<1>2. ASSUME ls[p].indent # 0 \/ ls[p].kind = "blank"
      PROVE  UnderJobs(ls, p + 1) <=> UnderJobs(ls, p)
  <2>1. ASSUME UnderJobs(ls, p) PROVE UnderJobs(ls, p + 1)
    <3>1. PICK k \in 1 .. p - 1 :
              /\ ls[k].indent = 0 /\ ls[k].kind = "jobs"
              /\ \A m \in k + 1 .. p - 1 : ls[m].indent = 0 => ls[m].kind = "blank"
      BY <2>1 DEF UnderJobs
    <3>2. \A m \in k + 1 .. p : ls[m].indent = 0 => ls[m].kind = "blank"
      <4>1. \A m \in k + 1 .. p : m = p \/ m \in k + 1 .. p - 1
        BY <1>1
      <4>. QED
        BY <1>2, <3>1, <4>1
    <3>3. k \in 1 .. (p + 1) - 1
      BY <1>1
    <3>. QED
      BY <1>1, <3>1, <3>2, <3>3 DEF UnderJobs
  <2>2. ASSUME UnderJobs(ls, p + 1) PROVE UnderJobs(ls, p)
    <3>1. PICK k \in 1 .. p :
              /\ ls[k].indent = 0 /\ ls[k].kind = "jobs"
              /\ \A m \in k + 1 .. p : ls[m].indent = 0 => ls[m].kind = "blank"
      BY <1>1, <2>2 DEF UnderJobs
    <3>2. k # p
      BY <1>2, <3>1
    <3>3. k \in 1 .. p - 1 /\ \A m \in k + 1 .. p - 1 : m \in k + 1 .. p
      BY <1>1, <3>2
    <3>. QED
      BY <3>1, <3>3 DEF UnderJobs
  <2>. QED
    BY <2>1, <2>2
<1>3. ASSUME ls[p].indent = 0, ls[p].kind = "jobs" PROVE UnderJobs(ls, p + 1)
  <2>1. p \in 1 .. (p + 1) - 1 /\ \A m \in p + 1 .. (p + 1) - 1 : FALSE
    BY <1>1
  <2>. QED
    BY <1>3, <2>1 DEF UnderJobs
<1>4. ASSUME ls[p].indent = 0, ls[p].kind \notin {"blank", "jobs"} PROVE ~UnderJobs(ls, p + 1)
  <2>1. SUFFICES ASSUME UnderJobs(ls, p + 1) PROVE FALSE
    OBVIOUS
  <2>2. PICK k \in 1 .. p :
            /\ ls[k].indent = 0 /\ ls[k].kind = "jobs"
            /\ \A m \in k + 1 .. p : ls[m].indent = 0 => ls[m].kind = "blank"
    BY <1>1, <2>1 DEF UnderJobs
  <2>3. k # p
    BY <1>4, <2>2
  <2>4. p \in k + 1 .. p
    BY <1>1, <2>3
  <2>. QED
    BY <1>4, <2>2, <2>4
<1>5. \A k : k \in 1 .. p <=> k \in 1 .. p - 1 \/ k = p
  BY <1>1
<1>. DEFINE Names1(k) == ls[k].indent = 2 /\ ls[k].kind \in Headings /\ UnderJobs(ls, k)
<1>6. \A n : JobsNamed(ls, n) = {ls[i].text : i \in {k \in 1 .. n : Names1(k)}}
  BY DEF JobsNamed
<1>. HIDE DEF Names1
<1>7. Names1(p) => JobsNamed(ls, p) = JobsNamed(ls, p - 1) \cup {ls[p].text}
  BY <1>5, <1>6
<1>8. ~Names1(p) => JobsNamed(ls, p) = JobsNamed(ls, p - 1)
  BY <1>5, <1>6
<1>. QED
  BY <1>2, <1>3, <1>4, <1>7, <1>8 DEF Names1

(* A key of the first column is one of the reader's, or that of a text of   *)
(* the documented form, where no section begins.                            *)
LEMMA RootKey ==
    ASSUME NEW d \in Documents, NEW p \in 1 .. Len(d.lines),
           d.lines[p].indent = 0, d.lines[p].kind # "blank",
           d.lines[p].kind \notin {"name", "env", "jobs"}
    PROVE  \A i \in 1 .. Len(d.lines) + 1 : ~UnderJobs(d.lines, i) /\ ~UnderEnv(d.lines, i)
<1>1. Wrapped(d.lines)
  BY RootKeysAssumption
<1>2. \A k \in 1 .. Len(d.lines) : d.lines[k].indent = 0 => d.lines[k].kind \notin {"env", "jobs"}
  BY <1>1, RootKeysAssumption
<1>3. \A i \in 1 .. Len(d.lines) + 1 : 1 .. i - 1 \subseteq 1 .. Len(d.lines)
  BY DocumentsAssumption, LenProperties
<1>. QED
  BY <1>2, <1>3 DEF UnderJobs, UnderEnv

(* Before the first line nothing is read.                                  *)
LEMMA InitFound == ReaderInit => ReadSoFar
<1>. SUFFICES ASSUME ReaderInit PROVE ReadSoFar
  OBVIOUS
<1>1. doc \in Documents /\ pos = 1 /\ context = "root" /\ DOMAIN jobs = {} /\ pipeline = NotYet
  BY DEF ReaderInit
<1>2. ~UnderJobs(doc.lines, 1) /\ JobsNamed(doc.lines, 0) = {}
  BY DEF UnderJobs, JobsNamed
<1>. QED
  BY <1>1, <1>2 DEF ReadSoFar, InJob, Submitted

(* Every branch takes a line for a job just where it names one.            *)
LEMMA StepFound == ReaderInv /\ ReadSoFar /\ [ReaderNext]_readerVars => ReadSoFar'
<1>. SUFFICES ASSUME ReaderInv, ReadSoFar, [ReaderNext]_readerVars PROVE ReadSoFar'
  OBVIOUS
<1>. DEFINE ls == doc.lines
<1>0. /\ ls \in Seq(Lines) /\ pos \in 1 .. Len(ls) + 1 /\ doc \in Documents
      /\ context = "jobs" \/ InJob <=> UnderJobs(ls, pos)
      /\ DOMAIN jobs = JobsNamed(ls, pos - 1)
      /\ Submitted => DOMAIN pipeline.jobs = JobsNamed(ls, Len(ls))
      /\ context \in Contexts
      /\ InJob => currentJob \in DOMAIN jobs
  BY DEF ReaderInv, TypeOK, NeverThrows, ReadSoFar
<1>a. line = ls[pos]
  BY DEF line
\* What a turn has to show.
<1>turn. ASSUME Turn,
                (context = "jobs" \/ InJob)' <=> UnderJobs(ls, pos + 1),
                DOMAIN jobs' = JobsNamed(ls, pos)
         PROVE  ReadSoFar'
  <2>1. pos \in 1 .. Len(ls) /\ pos' = pos + 1 /\ doc' = doc /\ pipeline' = pipeline
    BY <1>0, <1>turn DEF Turn
  <2>2. pos' - 1 = pos
    BY <2>1
  <2>. QED
    BY <1>0, <1>turn, <2>1, <2>2 DEF ReadSoFar, Submitted
<1>next. ASSUME Turn
         PROVE  /\ pos \in 1 .. Len(ls)
                /\ line.indent # 0 \/ line.kind = "blank"
                     => (UnderJobs(ls, pos + 1) <=> UnderJobs(ls, pos))
                /\ line.indent = 0 /\ line.kind = "jobs" => UnderJobs(ls, pos + 1)
                /\ line.indent = 0 /\ line.kind \notin {"blank", "jobs"} => ~UnderJobs(ls, pos + 1)
                /\ line.indent = 2 /\ line.kind \in Headings /\ UnderJobs(ls, pos)
                     => JobsNamed(ls, pos) = JobsNamed(ls, pos - 1) \cup {line.text}
                /\ ~(line.indent = 2 /\ line.kind \in Headings /\ UnderJobs(ls, pos))
                     => JobsNamed(ls, pos) = JobsNamed(ls, pos - 1)
  <2>1. pos \in 1 .. Len(ls)
    BY <1>0, <1>next DEF Turn
  <2>. QED
    BY <1>0, <1>a, <2>1, OneLineFurther
\* A line that names no job and stays in its section.
<1>same. ASSUME Turn, line.indent # 0 \/ line.kind = "blank",
                ~(line.indent = 2 /\ line.kind \in Headings /\ (context = "jobs" \/ InJob)),
                (context = "jobs" \/ InJob)' <=> (context = "jobs" \/ InJob),
                DOMAIN jobs' = DOMAIN jobs
         PROVE  ReadSoFar'
  BY <1>0, <1>same, <1>next, <1>turn
<1>1. CASE RootLine
  <2>1. /\ Turn /\ line.kind # "blank" /\ line.indent = 0 /\ jobs' = jobs
        /\ context' = CASE line.kind = "name" -> "root"
                        [] line.kind = "env"  -> "env"
                        [] line.kind = "jobs" -> "jobs"
                        [] OTHER              -> context
    BY <1>1 DEF RootLine, Written
  <2>2. pos \in 1 .. Len(ls)
    BY <1>next, <2>1
  <2>3. line.kind \notin {"name", "env", "jobs"} => ~(context = "jobs" \/ InJob)
    BY <1>0, <1>a, <2>1, <2>2, RootKey
  <2>4. DOMAIN jobs' = JobsNamed(ls, pos)
    BY <1>0, <1>next, <2>1
  <2>5. (context = "jobs" \/ InJob)' <=> line.kind = "jobs"
    BY <2>1, <2>3 DEF InJob
  <2>. QED
    BY <1>next, <1>turn, <2>1, <2>4, <2>5
<1>2. CASE EnvLine
  BY <1>2, <1>same DEF EnvLine, Written, At, InJob, progress
<1>3. CASE JobHeading
  <2>1. /\ Turn /\ line.indent = 2 /\ line.kind \in Headings /\ (context = "jobs" \/ InJob)
        /\ DOMAIN jobs' = DOMAIN jobs \cup {line.text} /\ context' = "job"
    BY <1>3 DEF JobHeading, Written
  <2>2. UnderJobs(ls, pos) /\ UnderJobs(ls, pos + 1)
    BY <1>0, <1>next, <2>1
  <2>. QED
    BY <1>0, <1>next, <1>turn, <2>1, <2>2 DEF InJob
<1>4. CASE JobKey
  <2>1. DOMAIN jobs' = DOMAIN jobs
    BY <1>4 DEF JobKey
  <2>. QED
    BY <1>4, <1>same, <2>1 DEF JobKey, Written, At, InJob
<1>5. CASE JobEnvLine
  BY <1>5, <1>same DEF JobEnvLine, Written, At, InJob, progress
<1>6. CASE EndOfJobEnv
  BY <1>6, <1>same DEF EndOfJobEnv, Written, InJob, found
<1>7. CASE StepHeading
  BY <1>7, <1>same DEF StepHeading, Written, InJob
<1>8. CASE StepKey
  <2>1. DOMAIN jobs' = DOMAIN jobs
    BY <1>8 DEF StepKey
  <2>. QED
    BY <1>8, <1>same, <2>1 DEF StepKey, Written, At, InJob
<1>9. CASE StepEnvLine
  BY <1>9, <1>same DEF StepEnvLine, Written, At, InJob, progress
<1>10. CASE OtherLine
  <2>1. Turn /\ UNCHANGED <<context, jobs>> /\ (line.kind = "blank" \/ ~Handled)
    BY <1>10 DEF OtherLine, progress, found
  <2>2. "blank" \notin Headings
    BY DEF Headings
  <2>3. ~Handled => /\ line.indent # 0
                  /\ ~(line.indent = 2 /\ line.kind \in Headings /\ (context = "jobs" \/ InJob))
    BY DEF Handled
  <2>. QED
    BY <1>same, <2>1, <2>2, <2>3 DEF InJob
<1>11. CASE Create
  <2>1. /\ pos > Len(ls) /\ UNCHANGED <<doc, pos, context, jobs>> /\ pipeline'.jobs = jobs
    BY <1>11 DEF Create, progress, found
  <2>2. Len(ls) \in Nat /\ pos - 1 = Len(ls)
    BY <1>0, <2>1
  <2>. QED
    BY <1>0, <2>1, <2>2 DEF ReadSoFar, InJob
<1>12. CASE UNCHANGED readerVars
  BY <1>0, <1>12 DEF readerVars, progress, found, ReadSoFar, InJob, Submitted
<1>. QED
  BY <1>1, <1>2, <1>3, <1>4, <1>5, <1>6, <1>7, <1>8, <1>9, <1>10, <1>11, <1>12 DEF ReaderNext

(* A line is taken for a job where YAML takes it for one and nowhere else,  *)
(* for any text that starts with its keys, however its jobs are named and    *)
(* whatever stands under them; in a text of the form that the documentation *)
(* gives for .seedee.yml, with all of it below "pipeline:", no line is.      *)
THEOREM FindsEveryJob == ReaderSpec => []JobsFound
<1>1. FoundInv => JobsFound
  <2>1. SUFFICES ASSUME FoundInv, Submitted
                 PROVE  DOMAIN pipeline.jobs =
                            IF Wrapped(doc.lines) THEN {} ELSE DOMAIN doc.means.jobs
    BY DEF JobsFound
  <2>2. doc \in Documents /\ DOMAIN pipeline.jobs = JobsNamed(doc.lines, Len(doc.lines))
    BY <2>1 DEF FoundInv, ReadSoFar
  <2>3. CASE Wrapped(doc.lines)
    <3>1. PICK p \in 1 .. Len(doc.lines) :
              doc.lines[p].indent = 0 /\ doc.lines[p].kind = "pipeline"
      BY <2>3 DEF Wrapped
    <3>2. \A i \in 1 .. Len(doc.lines) + 1 : ~UnderJobs(doc.lines, i)
      BY <2>2, <3>1, RootKey
    <3>3. 1 .. Len(doc.lines) \subseteq 1 .. Len(doc.lines) + 1
      BY <2>2, DocumentsAssumption, LenProperties
    <3>4. JobsNamed(doc.lines, Len(doc.lines)) = {}
      BY <3>2, <3>3 DEF JobsNamed
    <3>. QED
      BY <2>2, <2>3, <3>4
  <2>4. CASE ~Wrapped(doc.lines)
    BY <2>2, <2>4, MeaningAssumption
  <2>. QED
    BY <2>3, <2>4
<1>2. ReaderInit => FoundInv
  BY InitReader, InitFound DEF FoundInv
<1>3. FoundInv /\ [ReaderNext]_readerVars => FoundInv'
  BY StepReader, StepFound DEF FoundInv
<1>. QED
  BY <1>1, <1>2, <1>3, PTL DEF ReaderSpec

-----------------------------------------------------------------------------
(* What the next line does to the job and the step the reader is in.       *)
LEMMA OneLineFurtherInside ==
    ASSUME NEW ls \in Seq(Lines), NEW p \in 1 .. Len(ls), NEW j, NEW s
    PROVE  /\ UnderJob(ls, p, j) /\ Inside(ls[p]) => UnderJob(ls, p + 1, j)
           /\ TitleLine(ls[p]) /\ UnderJobs(ls, p) => UnderJob(ls, p + 1, ls[p].text)
           /\ UnderStep(ls, p, j, s) /\ Inside(ls[p]) /\ ~StepLine(ls[p])
                => UnderStep(ls, p + 1, j, s)
           /\ StepLine(ls[p]) /\ UnderJob(ls, p, j) => UnderStep(ls, p + 1, j, ls[p].text)
<1>1. p \in Nat /\ p + 1 - 1 = p /\ p \in 1 .. p /\ p + 1 .. p = {}
  BY LenProperties
<1>2. 1 .. p - 1 \subseteq 1 .. p
  BY <1>1
<1>3. ASSUME NEW k \in 1 .. p - 1, NEW m \in k + 1 .. p PROVE m \in k + 1 .. p - 1 \/ m = p
  BY <1>1
<1>4. ASSUME UnderJob(ls, p, j), Inside(ls[p]) PROVE UnderJob(ls, p + 1, j)
  <2>1. PICK k \in 1 .. p - 1 :
            /\ TitleLine(ls[k]) /\ ls[k].text = j /\ UnderJobs(ls, k)
            /\ \A m \in k + 1 .. p - 1 : Inside(ls[m])
    BY <1>4 DEF UnderJob
  <2>2. \A m \in k + 1 .. p : Inside(ls[m])
    BY <1>3, <1>4, <2>1
  <2>. QED
    BY <1>1, <1>2, <2>1, <2>2 DEF UnderJob
<1>5. ASSUME TitleLine(ls[p]), UnderJobs(ls, p) PROVE UnderJob(ls, p + 1, ls[p].text)
  BY <1>1, <1>5 DEF UnderJob
<1>6. ASSUME UnderStep(ls, p, j, s), Inside(ls[p]), ~StepLine(ls[p])
      PROVE  UnderStep(ls, p + 1, j, s)
  <2>1. PICK k \in 1 .. p - 1 :
            /\ StepLine(ls[k]) /\ ls[k].text = s /\ UnderJob(ls, k, j)
            /\ \A m \in k + 1 .. p - 1 : Inside(ls[m]) /\ ~StepLine(ls[m])
    BY <1>6 DEF UnderStep
  <2>2. \A m \in k + 1 .. p : Inside(ls[m]) /\ ~StepLine(ls[m])
    BY <1>3, <1>6, <2>1
  <2>. QED
    BY <1>1, <1>2, <2>1, <2>2 DEF UnderStep
<1>7. ASSUME StepLine(ls[p]), UnderJob(ls, p, j) PROVE UnderStep(ls, p + 1, j, ls[p].text)
  BY <1>1, <1>7 DEF UnderStep
<1>. QED
  BY <1>4, <1>5, <1>6, <1>7

(* A job without anything has nothing of another.                          *)
LEMMA EmptyIsOwn == ASSUME NEW ls, NEW j PROVE OwnJob(ls, j, EmptyJob)
<1>1. /\ EmptyJob.image = Unset /\ EmptyJob.dependsOn = <<>> /\ EmptyJob.env = {}
      /\ EmptyJob.steps = <<>>
  BY DEF EmptyJob
<1>. QED
  BY <1>1 DEF OwnJob

(* An appended sequence has the elements it had, and the new one.          *)
LEMMA AppendedElement ==
    ASSUME NEW S, NEW s \in Seq(S), NEW e \in S, NEW n \in 1 .. Len(Append(s, e))
    PROVE  Append(s, e)[n] = e \/ (n \in 1 .. Len(s) /\ Append(s, e)[n] = s[n])
<1>1. Len(s) \in Nat /\ Len(Append(s, e)) = Len(s) + 1 /\ Append(s, e)[Len(s) + 1] = e
  BY AppendProperties, LenProperties
<1>2. n \in 1 .. Len(s) \/ n = Len(s) + 1
  BY <1>1
<1>3. n \in 1 .. Len(s) => Append(s, e)[n] = s[n]
  BY AppendProperties
<1>4. n = Len(s) + 1 => Append(s, e)[n] = e
  BY <1>1, Zenon
<1>. QED
  BY <1>2, <1>3, <1>4

(* A value written in a job may be given to it.                            *)
LEMMA GivenIsOwn ==
    ASSUME NEW ls, NEW j, NEW r \in JobRecords, OwnJob(ls, j, r), NEW t \in Texts
    PROVE  /\ WrittenInJob(ls, j, 4, {"image"}, t) => OwnJob(ls, j, [r EXCEPT !.image = t])
           /\ WrittenInJob(ls, j, 4, {"item"}, t)
                => OwnJob(ls, j, [r EXCEPT !.dependsOn = Append(@, t)])
           /\ WrittenInJob(ls, j, 6, STRING, t)
                => OwnJob(ls, j, [r EXCEPT !.env = @ \cup {t}])
           /\ WrittenInJob(ls, j, 6, {"step"}, t)
                => OwnJob(ls, j, [r EXCEPT !.steps = Append(@, NewStepNamed(t))])
<1>0. /\ r.dependsOn \in Seq(Texts) /\ r.steps \in Seq(StepRecords)
      /\ Len(r.dependsOn) \in Nat /\ Len(r.steps) \in Nat
  BY DEF JobRecords
<1>1. ASSUME WrittenInJob(ls, j, 4, {"image"}, t)
      PROVE  OwnJob(ls, j, [r EXCEPT !.image = t])
  <2>1. /\ [r EXCEPT !.image = t].image = t
        /\ [r EXCEPT !.image = t].dependsOn = r.dependsOn
        /\ [r EXCEPT !.image = t].env = r.env /\ [r EXCEPT !.image = t].steps = r.steps
    BY DEF JobRecords
  <2>. QED
    BY <1>1, <2>1 DEF OwnJob
<1>2. ASSUME WrittenInJob(ls, j, 4, {"item"}, t)
      PROVE  OwnJob(ls, j, [r EXCEPT !.dependsOn = Append(@, t)])
  <2>. DEFINE q == [r EXCEPT !.dependsOn = Append(@, t)]
  <2>1. /\ q.image = r.image /\ q.dependsOn = Append(r.dependsOn, t)
        /\ q.env = r.env /\ q.steps = r.steps
    BY DEF JobRecords
  <2>. HIDE DEF q
  <2>2. ASSUME NEW n \in 1 .. Len(q.dependsOn)
        PROVE  q.dependsOn[n] = t \/ (n \in 1 .. Len(r.dependsOn) /\ q.dependsOn[n] = r.dependsOn[n])
    BY <1>0, <2>1, AppendedElement
  <2>3. \A n \in 1 .. Len(q.dependsOn) : WrittenInJob(ls, j, 4, {"item"}, q.dependsOn[n])
    BY <1>2, <2>2 DEF OwnJob
  <2>. QED
    BY <2>1, <2>3 DEF OwnJob, q
<1>3. ASSUME WrittenInJob(ls, j, 6, STRING, t)
      PROVE  OwnJob(ls, j, [r EXCEPT !.env = @ \cup {t}])
  <2>. DEFINE q == [r EXCEPT !.env = @ \cup {t}]
  <2>1. /\ q.image = r.image /\ q.dependsOn = r.dependsOn
        /\ q.env = r.env \cup {t} /\ q.steps = r.steps
    BY DEF JobRecords
  <2>. HIDE DEF q
  <2>. QED
    BY <1>3, <2>1 DEF OwnJob, q
<1>4. ASSUME WrittenInJob(ls, j, 6, {"step"}, t)
      PROVE  OwnJob(ls, j, [r EXCEPT !.steps = Append(@, NewStepNamed(t))])
  <2>. DEFINE new == NewStepNamed(t)
              q == [r EXCEPT !.steps = Append(@, new)]
  <2>1. /\ q.image = r.image /\ q.dependsOn = r.dependsOn
        /\ q.env = r.env /\ q.steps = Append(r.steps, new)
    BY DEF JobRecords
  <2>2. new.name = t /\ OwnStep(ls, j, new)
    BY DEF NewStepNamed, OwnStep
  <2>a. new \in StepRecords
    BY DEF NewStepNamed, StepRecords
  <2>. HIDE DEF q, new
  <2>3. ASSUME NEW n \in 1 .. Len(q.steps)
        PROVE  q.steps[n] = new \/ (n \in 1 .. Len(r.steps) /\ q.steps[n] = r.steps[n])
    BY <1>0, <2>1, <2>a, AppendedElement
  <2>4. \A n \in 1 .. Len(q.steps) : /\ WrittenInJob(ls, j, 6, {"step"}, q.steps[n].name)
                                     /\ OwnStep(ls, j, q.steps[n])
    BY <1>4, <2>2, <2>3 DEF OwnJob
  <2>. QED
    BY <2>1, <2>4 DEF OwnJob, q, new
<1>. QED
  BY <1>1, <1>2, <1>3, <1>4

(* So may a value written in a step to that step.                          *)
LEMMA GivenToStep ==
    ASSUME NEW ls, NEW j, NEW r \in JobRecords, OwnJob(ls, j, r), NEW k \in 1 .. Len(r.steps),
           NEW s \in StepRecords, s.name = r.steps[k].name, OwnStep(ls, j, s)
    PROVE  OwnJob(ls, j, [r EXCEPT !.steps[k] = s])
<1>. DEFINE q == [r EXCEPT !.steps[k] = s]
<1>0. r.steps \in Seq(StepRecords)
  BY DEF JobRecords
<1>1. /\ q.image = r.image /\ q.dependsOn = r.dependsOn
      /\ q.env = r.env /\ q.steps = [r.steps EXCEPT ![k] = s]
  BY DEF JobRecords
<1>. HIDE DEF q
<1>2. /\ Len(q.steps) = Len(r.steps)
      /\ \A n \in 1 .. Len(r.steps) : q.steps[n] = IF n = k THEN s ELSE r.steps[n]
  BY <1>0, <1>1
<1>3. \A n \in 1 .. Len(q.steps) : /\ WrittenInJob(ls, j, 6, {"step"}, q.steps[n].name)
                                   /\ OwnStep(ls, j, q.steps[n])
  BY <1>2 DEF OwnJob
<1>. QED
  BY <1>1, <1>3 DEF OwnJob, q

(* A job with what it is given is a job.                                   *)
LEMMA JobGiven ==
    ASSUME NEW r \in JobRecords, NEW t \in Texts
    PROVE  /\ [r EXCEPT !.dependsOn = Append(@, t)] \in JobRecords
           /\ [r EXCEPT !.steps = Append(@, NewStepNamed(t))] \in JobRecords
           /\ [r EXCEPT !.steps = Append(@, NewStepNamed(t))].steps
                = Append(r.steps, NewStepNamed(t))
<1>1. r.dependsOn \in Seq(Texts) /\ r.steps \in Seq(StepRecords)
  BY DEF JobRecords
<1>2. Append(r.dependsOn, t) \in Seq(Texts)
  BY <1>1
<1>3. NewStepNamed(t) \in StepRecords
  <2>1. <<>> \in Seq(Texts)
    OBVIOUS
  <2>. QED
    BY <2>1 DEF NewStepNamed, StepRecords
<1>4. Append(r.steps, NewStepNamed(t)) \in Seq(StepRecords)
  BY <1>1, <1>3, AppendProperties
<1>. QED
  BY <1>1, <1>2, <1>4, JobWith

(* So is a job with another step in the place of one of its steps.         *)
LEMMA StepGiven ==
    ASSUME NEW r \in JobRecords, NEW k \in 1 .. Len(r.steps), NEW s \in StepRecords
    PROVE  [r EXCEPT !.steps[k] = s] \in JobRecords /\ [r EXCEPT !.steps[k] = s].steps[k] = s
<1>1. r.steps \in Seq(StepRecords)
  BY DEF JobRecords
<1>2. [r EXCEPT !.steps[k] = s].steps = [r.steps EXCEPT ![k] = s]
  BY DEF JobRecords
<1>3. [r.steps EXCEPT ![k] = s][k] = s
  BY <1>1
<1>. QED
  BY <1>2, <1>3, StepReplaced

(* Where the reader is, and that what it has read so far is in its place.  *)
OwnSoFar ==
    /\ InJob => UnderJob(doc.lines, pos, currentJob)
    /\ context \in {"step", "step-env"} =>
          UnderStep(doc.lines, pos, currentJob, jobs[currentJob].steps[currentStep].name)
    /\ \A j \in DOMAIN jobs : OwnJob(doc.lines, j, jobs[j])
    /\ OnlyItsOwn

OwnInv == FoundInv /\ OwnSoFar

(* At the start nothing is given to any job.                               *)
LEMMA InitOwn == ReaderInit => OwnSoFar
<1>. SUFFICES ASSUME ReaderInit PROVE OwnSoFar
  OBVIOUS
<1>1. context = "root" /\ DOMAIN jobs = {} /\ pipeline = NotYet
  BY DEF ReaderInit
<1>. QED
  BY <1>1 DEF OwnSoFar, InJob, OnlyItsOwn, Submitted

(* No branch gives a job, or a step, what is written in another.           *)
LEMMA StepOwn == OwnInv /\ [ReaderNext]_readerVars => OwnSoFar'
<1>. SUFFICES ASSUME OwnInv, [ReaderNext]_readerVars PROVE OwnSoFar'
  OBVIOUS
<1>. DEFINE ls == doc.lines
            job == jobs[currentJob]
            step == job.steps[currentStep]
            InStep == context \in {"step", "step-env"}
<1>0. /\ ls \in Seq(Lines) /\ pos \in 1 .. Len(ls) + 1 /\ doc \in Documents
      /\ context = "jobs" \/ InJob <=> UnderJobs(ls, pos)
      /\ InJob => currentJob \in DOMAIN jobs /\ job \in JobRecords
      /\ InStep => InJob /\ currentStep \in 1 .. Len(job.steps)
      /\ AreJobs(jobs)
  BY DEF OwnInv, FoundInv, ReaderInv, TypeOK, NeverThrows, ReadSoFar, AreJobs, InJob
<1>1. /\ InJob => UnderJob(ls, pos, currentJob)
      /\ InStep => UnderStep(ls, pos, currentJob, step.name)
      /\ \A j \in DOMAIN jobs : OwnJob(ls, j, jobs[j])
      /\ OnlyItsOwn
  BY DEF OwnInv, OwnSoFar
<1>a. line = ls[pos]
  BY DEF line
<1>b. ASSUME Turn PROVE pos \in 1 .. Len(ls) /\ line \in Lines /\ line.text \in Texts
  <2>1. pos \in 1 .. Len(ls)
    BY <1>0, <1>b DEF Turn
  <2>2. ls[pos] \in Lines
    BY <1>0, <2>1
  <2>. QED
    BY <1>a, <2>1, <2>2 DEF Lines
\* What a turn has to show.
<1>turn. ASSUME Turn,
                InJob' => UnderJob(ls, pos + 1, currentJob'),
                InStep' => UnderStep(ls, pos + 1, currentJob',
                                     jobs'[currentJob'].steps[currentStep'].name),
                \A j \in DOMAIN jobs' : OwnJob(ls, j, jobs'[j])
         PROVE  OwnSoFar'
  <2>1. pos' = pos + 1 /\ doc' = doc /\ pipeline' = pipeline
    BY <1>turn DEF Turn
  <2>. QED
    BY <1>1, <1>turn, <2>1 DEF OwnSoFar, OnlyItsOwn, Submitted
\* A line that opens nothing leaves the reader in its job and in its step.
<1>inside. ASSUME Turn, Inside(line)
           PROVE  /\ InJob => UnderJob(ls, pos + 1, currentJob)
                  /\ InStep /\ ~StepLine(line) => UnderStep(ls, pos + 1, currentJob, step.name)
  BY <1>0, <1>1, <1>a, <1>b, <1>inside, OneLineFurtherInside
\* It may change the current job.
<1>given. ASSUME Turn, Inside(line), InJob, currentJob' = currentJob,
                 NEW r \in JobRecords, OwnJob(ls, currentJob, r),
                 jobs' = [jobs EXCEPT ![currentJob] = r],
                 InStep' => UnderStep(ls, pos + 1, currentJob, r.steps[currentStep'].name)
          PROVE  OwnSoFar'
  <2>1. /\ DOMAIN jobs' = DOMAIN jobs /\ jobs'[currentJob] = r
        /\ \A j \in DOMAIN jobs : j # currentJob => jobs'[j] = jobs[j]
    BY <1>0, <1>given DEF AreJobs
  <2>2. \A j \in DOMAIN jobs' : OwnJob(ls, j, jobs'[j])
    BY <1>1, <1>given, <2>1
  <2>3. jobs'[currentJob'].steps[currentStep'].name = r.steps[currentStep'].name
    BY <1>given, <2>1
  <2>. QED
    BY <1>inside, <1>turn, <1>given, <2>2, <2>3
\* Or nothing.
<1>same. ASSUME Turn, Inside(line), jobs' = jobs, currentJob' = currentJob,
                InJob' => InJob, InStep' => InStep /\ ~StepLine(line) /\ currentStep' = currentStep
         PROVE  OwnSoFar'
  <2>1. InStep' => jobs'[currentJob'].steps[currentStep'].name = step.name
    BY <1>same
  <2>. QED
    BY <1>1, <1>inside, <1>turn, <1>same, <2>1
\* Where a value is written.
<1>here. ASSUME Turn
         PROVE  /\ InJob => \A K : line.kind \in K =>
                      WrittenInJob(ls, currentJob, line.indent, K, line.text)
                /\ InStep => WrittenInStep(ls, currentJob, step.name, line.indent, line.text)
  BY <1>1, <1>a, <1>b, <1>here DEF WrittenInJob, WrittenInStep
<1>2. CASE RootLine
  <2>1. /\ Turn /\ line.kind # "blank" /\ line.indent = 0 /\ jobs' = jobs
        /\ context' = CASE line.kind = "name" -> "root"
                        [] line.kind = "env"  -> "env"
                        [] line.kind = "jobs" -> "jobs"
                        [] OTHER              -> context
    BY <1>2 DEF RootLine, Written
  <2>2. line.kind \notin {"name", "env", "jobs"} => ~InJob
    BY <1>0, <1>a, <1>b, <2>1, RootKey
  <2>3. ~InJob'
    BY <2>1, <2>2 DEF InJob
  <2>. QED
    BY <1>1, <1>turn, <2>1, <2>3 DEF InJob
<1>3. CASE EnvLine
  <2>1. Turn /\ context = "env" /\ UNCHANGED <<context, jobs>>
    BY <1>3 DEF EnvLine, Written, At, progress
  <2>. QED
    BY <1>1, <1>turn, <2>1 DEF InJob
<1>4. CASE JobHeading
  <2>1. /\ Turn /\ TitleLine(line) /\ UnderJobs(ls, pos)
        /\ currentJob' = line.text /\ context' = "job"
        /\ jobs' = [j \in DOMAIN jobs \cup {line.text} |->
                        IF j = line.text THEN EmptyJob ELSE jobs[j]]
    BY <1>0, <1>4 DEF JobHeading, Written, TitleLine
  <2>2. UnderJob(ls, pos + 1, line.text)
    BY <1>0, <1>a, <1>b, <2>1, OneLineFurtherInside
  <2>3. \A j \in DOMAIN jobs' : OwnJob(ls, j, jobs'[j])
    BY <1>1, <2>1, EmptyIsOwn
  <2>. QED
    BY <1>turn, <2>1, <2>2, <2>3
<1>5. CASE JobKey
  <2>1. /\ Turn /\ context = "job" /\ line.indent = 4 /\ currentJob' = currentJob
        /\ context' \in {"job", "job-env", "job-steps"}
    BY <1>5 DEF JobKey, Written, At
  <2>2. InJob /\ Inside(line) /\ ~InStep'
    BY <2>1 DEF InJob, Inside, TitleLine
  <2>3. CASE line.kind = "image"
    <3>. DEFINE r == [job EXCEPT !.image = line.text]
    <3>1. jobs' = [jobs EXCEPT ![currentJob] = r]
      BY <1>5, <2>3 DEF JobKey
    <3>2. OwnJob(ls, currentJob, r) /\ r \in JobRecords
      <4>1. WrittenInJob(ls, currentJob, 4, {"image"}, line.text)
        BY <1>here, <2>1, <2>2, <2>3
      <4>2. r \in JobRecords
        BY <1>0, <1>b, <2>1, <2>2 DEF JobRecords
      <4>. QED
        BY <1>0, <1>1, <1>b, <2>1, <2>2, <4>1, <4>2, GivenIsOwn
    <3>. HIDE DEF r
    <3>. QED
      BY <1>given, <2>1, <2>2, <3>1, <3>2
  <2>4. CASE line.kind = "item"
    <3>. DEFINE r == [job EXCEPT !.dependsOn = Append(@, line.text)]
    <3>1. jobs' = [jobs EXCEPT ![currentJob] = r]
      BY <1>5, <2>4 DEF JobKey
    <3>2. OwnJob(ls, currentJob, r) /\ r \in JobRecords
      <4>1. WrittenInJob(ls, currentJob, 4, {"item"}, line.text)
        BY <1>here, <2>1, <2>2, <2>4
      <4>2. r \in JobRecords
        BY <1>0, <1>b, <2>1, <2>2, JobGiven
      <4>. QED
        BY <1>0, <1>1, <1>b, <2>1, <2>2, <4>1, <4>2, GivenIsOwn
    <3>. HIDE DEF r
    <3>. QED
      BY <1>given, <2>1, <2>2, <3>1, <3>2
  <2>5. CASE line.kind \notin {"image", "item"}
    <3>1. jobs' = jobs
      BY <1>5, <2>5 DEF JobKey
    <3>. QED
      BY <1>same, <2>1, <2>2, <3>1
  <2>. QED
    BY <2>3, <2>4, <2>5
<1>6. CASE JobEnvLine
  <2>1. /\ Turn /\ context = "job-env" /\ line.indent = 6 /\ currentJob' = currentJob
        /\ context' = context
    BY <1>6 DEF JobEnvLine, Written, At, progress
  <2>2. InJob /\ Inside(line) /\ ~InStep'
    BY <2>1 DEF InJob, Inside, TitleLine
  <2>. DEFINE r == [job EXCEPT !.env = @ \cup {line.text}]
  <2>3. jobs' = [jobs EXCEPT ![currentJob] = r]
    BY <1>6 DEF JobEnvLine
  <2>4. OwnJob(ls, currentJob, r) /\ r \in JobRecords
    <3>1. WrittenInJob(ls, currentJob, 6, STRING, line.text)
      BY <1>here, <1>b, <2>1, <2>2 DEF Lines
    <3>2. r \in JobRecords
      BY <1>0, <1>b, <2>1, <2>2 DEF JobRecords
    <3>. QED
      BY <1>0, <1>1, <1>b, <2>1, <2>2, <3>1, <3>2, GivenIsOwn
  <2>. HIDE DEF r
  <2>. QED
    BY <1>given, <2>1, <2>2, <2>3, <2>4
<1>7. CASE EndOfJobEnv
  <2>1. /\ Turn /\ context = "job-env" /\ line.indent \in 1 .. 4 /\ ~TitleLine(line)
        /\ currentJob' = currentJob /\ context' = "job" /\ jobs' = jobs
    BY <1>7 DEF EndOfJobEnv, Written, TitleLine, found
  <2>2. InJob /\ Inside(line) /\ ~InStep'
    BY <2>1 DEF InJob, Inside
  <2>. QED
    BY <1>same, <2>1, <2>2
<1>8. CASE StepHeading
  <2>1. /\ Turn /\ context \in {"job-steps", "step", "step-env"} /\ StepLine(line)
        /\ line.indent = 6 /\ line.kind = "step"
        /\ currentJob' = currentJob /\ context' = "step"
        /\ currentStep' = Len(job.steps) + 1
    BY <1>8 DEF StepHeading, Written, StepLine
  <2>2. InJob /\ Inside(line)
    BY <2>1 DEF InJob, Inside, TitleLine
  <2>. DEFINE new == NewStepNamed(line.text)
              r == [job EXCEPT !.steps = Append(@, new)]
  <2>3. jobs' = [jobs EXCEPT ![currentJob] = r]
    BY <1>8 DEF StepHeading
  <2>4. OwnJob(ls, currentJob, r) /\ r \in JobRecords /\ r.steps[currentStep'].name = line.text
    <3>1. WrittenInJob(ls, currentJob, 6, {"step"}, line.text)
      BY <1>here, <2>1, <2>2
    <3>2. r \in JobRecords /\ r.steps = Append(job.steps, new)
      BY <1>0, <1>b, <2>1, <2>2, JobGiven
    <3>3. new.name = line.text
      BY DEF NewStepNamed
    <3>4. job.steps \in Seq(StepRecords)
      BY <1>0, <2>2 DEF JobRecords
    <3>5. Append(job.steps, new)[Len(job.steps) + 1] = new
      <4>. HIDE DEF new, job
      <4>. QED
        BY <3>4, AppendProperties
    <3>6. OwnJob(ls, currentJob, r)
      BY <1>0, <1>1, <1>b, <2>1, <2>2, <3>1, GivenIsOwn
    <3>. HIDE DEF r, new
    <3>. QED
      BY <2>1, <3>2, <3>3, <3>5, <3>6
  <2>5. UnderStep(ls, pos + 1, currentJob, line.text)
    BY <1>0, <1>1, <1>a, <1>b, <2>1, <2>2, OneLineFurtherInside
  <2>. HIDE DEF r
  <2>. QED
    BY <1>given, <2>1, <2>2, <2>3, <2>4, <2>5
<1>9. CASE StepKey
  <2>1. /\ Turn /\ context = "step" /\ line.indent = 8 /\ currentJob' = currentJob
        /\ currentStep' = currentStep /\ context' \in {"step", "step-env"}
    BY <1>9 DEF StepKey, Written, At
  <2>2. InJob /\ Inside(line) /\ InStep /\ ~StepLine(line)
    BY <2>1 DEF InJob, Inside, TitleLine, StepLine
  <2>3. step \in StepRecords /\ OwnStep(ls, currentJob, step)
    <3>1. job.steps \in Seq(StepRecords)
      BY <1>0, <2>2 DEF JobRecords
    <3>2. step \in StepRecords
      BY <1>0, <2>2, <3>1
    <3>. QED
      BY <1>0, <1>1, <2>2, <3>2 DEF OwnJob
  <2>4. WrittenInStep(ls, currentJob, step.name, 8, line.text)
    BY <1>here, <2>1, <2>2
  \* The command may be set to lines of the step.
  <2>5. ASSUME NEW cmd \in Seq(Texts),
               \A m \in 1 .. Len(cmd) : WrittenInStep(ls, currentJob, step.name, 8, cmd[m]),
               jobs' = [jobs EXCEPT ![currentJob] =
                           [job EXCEPT !.steps[currentStep] = [step EXCEPT !.run = cmd]]]
        PROVE  OwnSoFar'
    <3>. DEFINE s == [step EXCEPT !.run = cmd]
                r == [job EXCEPT !.steps[currentStep] = s]
    <3>1. /\ s \in StepRecords /\ s.name = step.name /\ s.run = cmd /\ s.env = step.env
      BY <2>3 DEF StepRecords
    <3>. HIDE DEF s
    <3>2. OwnStep(ls, currentJob, s)
      BY <2>3, <2>5, <3>1 DEF OwnStep
    <3>3. r \in JobRecords /\ OwnJob(ls, currentJob, r) /\ r.steps[currentStep].name = step.name
      BY <1>0, <1>1, <2>2, <3>1, <3>2, StepGiven, GivenToStep
    <3>4. jobs' = [jobs EXCEPT ![currentJob] = r]
      BY <2>5 DEF s
    <3>. HIDE DEF r
    <3>. QED
      BY <1>given, <1>inside, <2>1, <2>2, <3>3, <3>4
  <2>6. CASE line.kind = "run"
    <3>1. <<line.text>> \in Seq(Texts) /\ Len(<<line.text>>) = 1 /\ <<line.text>>[1] = line.text
      BY <1>b, <2>1
    <3>2. jobs' = [jobs EXCEPT ![currentJob] =
                      [job EXCEPT !.steps[currentStep] = [step EXCEPT !.run = <<line.text>>]]]
      BY <1>9, <2>6 DEF StepKey
    <3>3. \A m \in 1 .. Len(<<line.text>>) :
             WrittenInStep(ls, currentJob, step.name, 8, <<line.text>>[m])
      BY <2>4, <3>1
    <3>. QED
      BY <2>5, <3>1, <3>2, <3>3
  <2>7. CASE line.kind = "block"
    <3>1. <<>> \in Seq(Texts) /\ 1 .. Len(<<>>) = {}
      OBVIOUS
    <3>2. jobs' = [jobs EXCEPT ![currentJob] =
                      [job EXCEPT !.steps[currentStep] = [step EXCEPT !.run = <<>>]]]
      BY <1>9, <2>7 DEF StepKey
    <3>. QED
      BY <2>5, <3>1, <3>2
  <2>8. CASE line.kind \in {"env", "item", "step"}
    <3>1. jobs' = jobs
      BY <1>9, <2>8 DEF StepKey
    <3>. QED
      BY <1>same, <2>1, <2>2, <3>1
  <2>9. CASE line.kind \notin {"run", "block", "env", "item", "step"}
    <3>. DEFINE cmd == Append(step.run, line.text)
    <3>1. step.run \in Seq(Texts)
      BY <2>3 DEF StepRecords
    <3>2. cmd \in Seq(Texts)
      BY <1>b, <2>1, <3>1, AppendProperties
    <3>3. jobs' = [jobs EXCEPT ![currentJob] =
                      [job EXCEPT !.steps[currentStep] = [step EXCEPT !.run = cmd]]]
      BY <1>9, <2>9 DEF StepKey
    <3>4. ASSUME NEW m \in 1 .. Len(cmd)
          PROVE  WrittenInStep(ls, currentJob, step.name, 8, cmd[m])
      <4>1. line.text \in Texts
        BY <1>b, <2>1
      <4>2. cmd[m] = line.text \/ (m \in 1 .. Len(step.run) /\ cmd[m] = step.run[m])
        <5>1. m \in 1 .. Len(Append(step.run, line.text))
          OBVIOUS
        <5>. HIDE DEF step
        <5>. QED
          BY <3>1, <4>1, <5>1, AppendedElement
      <4>. QED
        BY <2>3, <2>4, <4>2 DEF OwnStep
    <3>. HIDE DEF cmd
    <3>. QED
      BY <2>5, <3>2, <3>3, <3>4
  <2>. QED
    BY <2>6, <2>7, <2>8, <2>9
<1>10. CASE StepEnvLine
  <2>1. /\ Turn /\ context = "step-env" /\ line.indent = 10 /\ currentJob' = currentJob
        /\ currentStep' = currentStep /\ context' = context
    BY <1>10 DEF StepEnvLine, Written, At, progress
  <2>2. InJob /\ Inside(line) /\ InStep /\ ~StepLine(line)
    BY <2>1 DEF InJob, Inside, TitleLine, StepLine
  <2>3. step \in StepRecords /\ OwnStep(ls, currentJob, step)
    <3>1. job.steps \in Seq(StepRecords)
      BY <1>0, <2>2 DEF JobRecords
    <3>2. step \in StepRecords
      BY <1>0, <2>2, <3>1
    <3>. QED
      BY <1>0, <1>1, <2>2, <3>2 DEF OwnJob
  <2>4. WrittenInStep(ls, currentJob, step.name, 10, line.text)
    BY <1>here, <2>1, <2>2
  <2>. DEFINE s == [step EXCEPT !.env = @ \cup {line.text}]
              r == [job EXCEPT !.steps[currentStep] = s]
  <2>5. /\ s \in StepRecords /\ s.name = step.name /\ s.run = step.run
        /\ s.env = step.env \cup {line.text}
    BY <1>b, <2>1, <2>3 DEF StepRecords
  <2>6. jobs' = [jobs EXCEPT ![currentJob] = r]
    BY <1>10 DEF StepEnvLine
  <2>. HIDE DEF s
  <2>7. OwnStep(ls, currentJob, s)
    BY <2>3, <2>4, <2>5 DEF OwnStep
  <2>8. r \in JobRecords /\ OwnJob(ls, currentJob, r) /\ r.steps[currentStep].name = step.name
    BY <1>0, <1>1, <2>2, <2>5, <2>7, StepGiven, GivenToStep
  <2>. HIDE DEF r
  <2>. QED
    BY <1>given, <1>inside, <2>1, <2>2, <2>6, <2>8
<1>11. CASE OtherLine
  <2>1. /\ Turn /\ UNCHANGED <<context, currentJob, currentStep, jobs>>
        /\ line.kind = "blank" \/ ~Handled
    BY <1>11 DEF OtherLine, progress, found
  <2>2. line.indent \in Nat /\ "blank" \notin Headings
    BY <1>b, <2>1 DEF Lines, Headings
  <2>3. InJob => Inside(line)
    BY <2>1, <2>2 DEF Handled, At, InJob, Inside, TitleLine
  <2>4. InStep /\ line.kind # "blank" => ~StepLine(line)
    BY <2>1, <2>2 DEF Handled, At, InJob, StepLine
  <2>5. line.kind = "blank" => ~StepLine(line)
    BY DEF StepLine
  <2>6. CASE InJob
    BY <1>same, <2>1, <2>3, <2>4, <2>5, <2>6 DEF InJob
  <2>7. CASE ~InJob
    <3>1. ~InStep' /\ ~InJob'
      BY <2>1, <2>7 DEF InJob
    <3>. QED
      BY <1>1, <1>turn, <2>1, <3>1
  <2>. QED
    BY <2>6, <2>7
<1>12. CASE Create
  <2>1. UNCHANGED <<doc, pos, context, currentJob, currentStep, jobs>> /\ pipeline'.jobs = jobs
    BY <1>12 DEF Create, progress, found
  <2>. QED
    BY <1>1, <2>1 DEF OwnSoFar, OnlyItsOwn, InJob
<1>13. CASE UNCHANGED readerVars
  BY <1>1, <1>13 DEF readerVars, progress, found, OwnSoFar, OnlyItsOwn, InJob, Submitted
<1>. QED
  BY <1>2, <1>3, <1>4, <1>5, <1>6, <1>7, <1>8, <1>9, <1>10, <1>11, <1>12, <1>13 DEF ReaderNext

(* No value goes astray: whatever the text, with the top-level keys the     *)
(* reader was written for, what the dialog submits for a job or a step is   *)
(* on lines of that job or step.                                            *)
THEOREM KeepsToTheText == ReaderSpec => []OnlyItsOwn
<1>1. OwnInv => OnlyItsOwn
  BY DEF OwnInv, OwnSoFar
<1>2. ReaderInit => OwnInv
  BY InitReader, InitFound, InitOwn DEF OwnInv, FoundInv
<1>3. OwnInv /\ [ReaderNext]_readerVars => OwnInv'
  BY StepReader, StepFound, StepOwn DEF OwnInv, FoundInv
<1>. QED
  BY <1>1, <1>2, <1>3, PTL DEF ReaderSpec

-----------------------------------------------------------------------------
(* Induction over numbers and over sequences, told with sets.              *)
LEMMA NumberInduction ==
    ASSUME NEW T \in SUBSET Nat, 0 \in T, \A n \in T : n + 1 \in T
    PROVE  T = Nat
<1>1. SUFFICES ASSUME Nat \ T # {} PROVE FALSE
  OBVIOUS
<1>2. PICK x \in Nat \ T : \A y \in Nat \ T : ~(<<y, x>> \in OpToRel(<, Nat))
  BY <1>1, WFMin, NatLessThanWellFounded
<1>3. \A y \in Nat \ T : ~(y < x)
  BY <1>2 DEF OpToRel
<1>4. x \in Nat /\ x # 0
  BY <1>2
<1>5. x - 1 \in Nat /\ x - 1 < x /\ (x - 1) + 1 = x
  BY <1>4
<1>6. x - 1 \in T
  BY <1>3, <1>5
<1>7. (x - 1) + 1 \in T
  BY <1>6
<1>. QED
  BY <1>2, <1>5, <1>7

(* So does a set of sequences that holds the empty one and whatever is appended. *)
LEMMA SequenceInduction ==
    ASSUME NEW S, NEW T \in SUBSET Seq(S), <<>> \in T,
           \A s \in T, e \in S : Append(s, e) \in T
    PROVE  T = Seq(S)
<1>. DEFINE U == {n \in Nat : \A s \in Seq(S) : Len(s) = n => s \in T}
<1>1. 0 \in U
  BY EmptySeq
<1>2. ASSUME NEW n \in U PROVE n + 1 \in U
  <2>1. SUFFICES ASSUME NEW s \in Seq(S), Len(s) = n + 1 PROVE s \in T
    BY <1>2
  <2>2. s # <<>>
    BY <1>2, <2>1, EmptySeq
  <2>3. PICK r \in Seq(S), e \in S : s = Append(r, e)
    BY <2>2, SequenceEmptyOrAppend
  <2>4. Len(r) = n
    BY <1>2, <2>1, <2>3, AppendProperties, LenProperties
  <2>. QED
    BY <1>2, <2>3, <2>4
<1>3. U = Nat
  <2>. HIDE DEF U
  <2>. QED
    BY <1>1, <1>2, NumberInduction, U \in SUBSET Nat DEF U
<1>. QED
  BY <1>3, LenProperties

-----------------------------------------------------------------------------
(* Flattening.                                                             *)
Flatten(ss, f) == f = [i \in 1 .. Len(ss) |-> IF i = 1 THEN ss[i] ELSE f[i - 1] \o ss[i]]

(* The sums of a sequence of sequences exist. *)
LEMMA FlattenExists ==
    ASSUME NEW S, NEW ss \in Seq(Seq(S))
    PROVE  \E f : Flatten(ss, f)
<1>. DEFINE P(n) == \E f : f = [i \in 1 .. n |-> IF i = 1 THEN ss[i] ELSE f[i - 1] \o ss[i]]
            T == {n \in Nat : P(n)}
<1>1. 0 \in T
  <2>. DEFINE f == [i \in 1 .. 0 |-> ss[i]]
  <2>1. f = [i \in 1 .. 0 |-> IF i = 1 THEN ss[i] ELSE f[i - 1] \o ss[i]]
    OBVIOUS
  <2>2. P(0)
    BY <2>1
  <2>. QED
    BY <2>2
<1>2. ASSUME NEW n \in T PROVE n + 1 \in T
  <2>1. PICK f : f = [i \in 1 .. n |-> IF i = 1 THEN ss[i] ELSE f[i - 1] \o ss[i]]
    BY <1>2
  <2>. DEFINE last == IF n + 1 = 1 THEN ss[n + 1] ELSE f[n] \o ss[n + 1]
              g == [i \in 1 .. n + 1 |-> IF i = n + 1 THEN last ELSE f[i]]
  <2>2. \A i \in 1 .. n + 1 : g[i] = IF i = 1 THEN ss[i] ELSE g[i - 1] \o ss[i]
    <3>1. TAKE i \in 1 .. n + 1
    <3>2. CASE i = n + 1
      BY <1>2, <3>2
    <3>3. CASE i # n + 1
      <4>1. i \in 1 .. n /\ (i # 1 => i - 1 \in 1 .. n)
        BY <1>2, <3>3
      <4>2. f[i] = IF i = 1 THEN ss[i] ELSE f[i - 1] \o ss[i]
        BY <2>1, <4>1
      <4>3. g[i] = f[i] /\ (i # 1 => g[i - 1] = f[i - 1])
        BY <1>2, <3>3, <4>1
      <4>. QED
        BY <4>2, <4>3
    <3>. QED
      BY <3>2, <3>3
  <2>3. g = [i \in 1 .. n + 1 |-> IF i = 1 THEN ss[i] ELSE g[i - 1] \o ss[i]]
    <3>. HIDE DEF last
    <3>. QED
      BY <2>2
  <2>4. P(n + 1)
    <3>. HIDE DEF g
    <3>. QED
      BY <2>3
  <2>5. n + 1 \in Nat
    BY <1>2
  <2>. HIDE DEF P
  <2>. QED
    BY <2>4, <2>5
<1>3. T = Nat
  <2>. HIDE DEF T
  <2>. QED
    BY <1>1, <1>2, NumberInduction, T \in SUBSET Nat DEF T
<1>4. P(Len(ss))
  <2>1. Len(ss) \in T
    BY <1>3, LenProperties
  <2>. QED
    BY <2>1
<1>. QED
  BY <1>4 DEF Flatten

(* FlattenSeq is the last of the sums. *)
LEMMA FlattenBy ==
    ASSUME NEW S, NEW ss \in Seq(Seq(S)), ss # <<>>
    PROVE  \E f : Flatten(ss, f) /\ FlattenSeq(ss) = f[Len(ss)]
<1>1. Len(ss) # 0
  BY EmptySeq
<1>2. \E f : f = [i \in 1 .. Len(ss) |-> IF i = 1 THEN ss[i] ELSE f[i - 1] \o ss[i]]
  BY FlattenExists DEF Flatten
<1>. DEFINE f == CHOOSE f : f = [i \in 1 .. Len(ss) |-> IF i = 1 THEN ss[i] ELSE f[i - 1] \o ss[i]]
<1>3. f = [i \in 1 .. Len(ss) |-> IF i = 1 THEN ss[i] ELSE f[i - 1] \o ss[i]]
  BY <1>2
<1>4. FlattenSeq(ss) = f[Len(ss)]
  BY <1>1, Zenon DEF FlattenSeq
<1>. HIDE DEF f
<1>. QED
  BY <1>3, <1>4 DEF Flatten

(* Nothing flattens to nothing. *)
LEMMA FlattenEmpty == FlattenSeq(<<>>) = <<>>
  BY DEF FlattenSeq

(* What is appended comes last. *)
LEMMA FlattenAppend ==
    ASSUME NEW S, NEW ss \in Seq(Seq(S)), NEW s \in Seq(S), FlattenSeq(ss) \in Seq(S)
    PROVE  FlattenSeq(Append(ss, s)) = FlattenSeq(ss) \o s
<1>. DEFINE tt == Append(ss, s)
            n == Len(ss)
<1>1. /\ tt \in Seq(Seq(S)) /\ tt # <<>> /\ n \in Nat /\ Len(tt) = n + 1
      /\ tt[n + 1] = s /\ \A i \in 1 .. n : tt[i] = ss[i]
  BY AppendProperties, LenProperties
<1>2. PICK g : Flatten(tt, g) /\ FlattenSeq(tt) = g[Len(tt)]
  <2>. HIDE DEF tt
  <2>. QED
    BY <1>1, FlattenBy
<1>3. \A i \in 1 .. n + 1 : g[i] = IF i = 1 THEN tt[i] ELSE g[i - 1] \o tt[i]
  <2>. HIDE DEF tt, n
  <2>. QED
    BY <1>1, <1>2 DEF Flatten
<1>. HIDE DEF tt
<1>4. CASE ss = <<>>
  <2>1. n = 0
    BY <1>4, EmptySeq
  <2>2. g[1] = s
    BY <1>1, <1>3, <2>1
  <2>3. FlattenSeq(ss) \o s = s
    BY <1>4, FlattenEmpty, ConcatEmptySeq
  <2>. QED
    BY <1>1, <1>2, <2>1, <2>2, <2>3 DEF tt
<1>5. CASE ss # <<>>
  <2>0. n # 0
    BY <1>5, EmptySeq
  <2>1. PICK f : Flatten(ss, f) /\ FlattenSeq(ss) = f[Len(ss)]
    BY <1>5, FlattenBy
  <2>2. \A i \in 1 .. n : f[i] = IF i = 1 THEN ss[i] ELSE f[i - 1] \o ss[i]
    BY <2>1 DEF Flatten
  <2>. DEFINE T == {k \in Nat : k + 1 \in 1 .. n => f[k + 1] = g[k + 1]}
  <2>. HIDE DEF n
  <2>3. 0 \in T
    BY <1>1, <1>3, <2>2
  <2>4. ASSUME NEW k \in T PROVE k + 1 \in T
    <3>1. SUFFICES ASSUME (k + 1) + 1 \in 1 .. n PROVE f[(k + 1) + 1] = g[(k + 1) + 1]
      BY <2>4
    <3>2. k \in Nat /\ k + 1 \in 1 .. n /\ ((k + 1) + 1) - 1 = k + 1 /\ (k + 1) + 1 # 1
      BY <1>1, <2>4, <3>1
    <3>3. f[k + 1] = g[k + 1]
      BY <2>4, <3>2
    <3>4. f[(k + 1) + 1] = f[k + 1] \o ss[(k + 1) + 1]
      BY <2>2, <3>1, <3>2
    <3>5. g[(k + 1) + 1] = g[k + 1] \o tt[(k + 1) + 1]
      <4>1. (k + 1) + 1 \in 1 .. n + 1
        BY <1>1, <3>1
      <4>. QED
        BY <1>3, <3>2, <4>1
    <3>. QED
      BY <1>1, <3>1, <3>3, <3>4, <3>5
  <2>5. T = Nat
    <3>. HIDE DEF T
    <3>. QED
      BY <2>3, <2>4, NumberInduction, T \in SUBSET Nat DEF T
  <2>6. f[n] = g[n]
    <3>1. n - 1 \in Nat /\ (n - 1) + 1 = n /\ n \in 1 .. n
      BY <1>1, <2>0
    <3>2. n - 1 \in T
      BY <2>5, <3>1
    <3>. QED
      BY <3>1, <3>2
  <2>7. g[n + 1] = g[n] \o s
    <3>1. n + 1 \in 1 .. n + 1 /\ n + 1 # 1 /\ (n + 1) - 1 = n
      BY <1>1, <2>0
    <3>. QED
      BY <1>1, <1>3, <3>1
  <2>. QED
    BY <1>1, <1>2, <2>1, <2>6, <2>7 DEF tt, n
<1>. QED
  BY <1>4, <1>5

(* Sequences over a set flatten to a sequence over it. *)
LEMMA FlattenType ==
    ASSUME NEW S
    PROVE  \A ss \in Seq(Seq(S)) : FlattenSeq(ss) \in Seq(S)
<1>. DEFINE T == {ss \in Seq(Seq(S)) : FlattenSeq(ss) \in Seq(S)}
<1>1. <<>> \in T
  BY FlattenEmpty, EmptySeq
<1>2. ASSUME NEW ss \in T, NEW s \in Seq(S) PROVE Append(ss, s) \in T
  <2>1. FlattenSeq(Append(ss, s)) = FlattenSeq(ss) \o s
    BY FlattenAppend
  <2>2. Append(ss, s) \in Seq(Seq(S))
    BY AppendProperties
  <2>. QED
    BY <2>1, <2>2, ConcatProperties
<1>3. T = Seq(Seq(S))
  <2>1. T \in SUBSET Seq(Seq(S))
    OBVIOUS
  <2>. HIDE DEF T
  <2>. QED
    BY <1>1, <1>2, <2>1, SequenceInduction
<1>. QED
  BY <1>3

(* Flattening goes through concatenation. *)
LEMMA FlattenConcat ==
    ASSUME NEW S, NEW ss \in Seq(Seq(S))
    PROVE  \A tt \in Seq(Seq(S)) : FlattenSeq(ss \o tt) = FlattenSeq(ss) \o FlattenSeq(tt)
<1>. DEFINE T == {tt \in Seq(Seq(S)) : FlattenSeq(ss \o tt) = FlattenSeq(ss) \o FlattenSeq(tt)}
<1>0. FlattenSeq(ss) \in Seq(S)
  BY FlattenType
<1>1. <<>> \in T
  BY <1>0, FlattenEmpty, EmptySeq, ConcatEmptySeq
<1>2. ASSUME NEW tt \in T, NEW t \in Seq(S) PROVE Append(tt, t) \in T
  <2>1. FlattenSeq(tt) \in Seq(S) /\ FlattenSeq(Append(tt, t)) = FlattenSeq(tt) \o t
    BY FlattenType, FlattenAppend
  <2>2. ss \o Append(tt, t) = Append(ss \o tt, t)
    <3>1. <<t>> \in Seq(Seq(S)) /\ ss \o tt \in Seq(Seq(S))
      BY ConcatProperties
    <3>2. Append(tt, t) = tt \o <<t>> /\ Append(ss \o tt, t) = (ss \o tt) \o <<t>>
      BY <3>1, AppendIsConcat
    <3>. QED
      BY <3>1, <3>2, ConcatAssociative
  <2>3. ss \o tt \in Seq(Seq(S))
    BY ConcatProperties
  <2>4. FlattenSeq(Append(ss \o tt, t)) = FlattenSeq(ss \o tt) \o t
    <3>. FlattenSeq(ss \o tt) \in Seq(S)
      BY <2>3, FlattenType
    <3>. QED
      BY <2>3, FlattenAppend
  <2>5. (FlattenSeq(ss) \o FlattenSeq(tt)) \o t = FlattenSeq(ss) \o (FlattenSeq(tt) \o t)
    <3>. DEFINE a == FlattenSeq(ss)
                b == FlattenSeq(tt)
    <3>1. a \in Seq(S) /\ b \in Seq(S)
      BY <1>0, <2>1
    <3>. HIDE DEF a, b
    <3>2. (a \o b) \o t = a \o (b \o t)
      BY <3>1, ConcatAssociative, SMTT(30)
    <3>. QED
      BY <3>2 DEF a, b
  <2>6. Append(tt, t) \in Seq(Seq(S))
    BY AppendProperties
  <2>. QED
    BY <1>2, <2>1, <2>2, <2>4, <2>5, <2>6
<1>3. T = Seq(Seq(S))
  <2>1. T \in SUBSET Seq(Seq(S))
    OBVIOUS
  <2>. HIDE DEF T
  <2>. QED
    BY <1>1, <1>2, <2>1, SequenceInduction
<1>. QED
  BY <1>3

(* One sequence flattens to itself. *)
LEMMA FlattenOne ==
    ASSUME NEW S, NEW s \in Seq(S)
    PROVE  FlattenSeq(<<s>>) = s
<1>1. <<>> \in Seq(Seq(S)) /\ FlattenSeq(<<>>) = <<>> /\ <<>> \in Seq(S)
  BY EmptySeq, FlattenEmpty
<1>2. Append(<<>>, s) = <<s>>
  OBVIOUS
<1>3. FlattenSeq(Append(<<>>, s)) = <<>> \o s
  BY <1>1, FlattenAppend, Zenon
<1>. QED
  BY <1>2, <1>3, ConcatEmptySeq

(* Nothing but empty sequences flatten to nothing.                         *)
LEMMA FlattenNothing ==
    ASSUME NEW S
    PROVE  \A ss \in Seq(Seq(S)) : (\A i \in 1 .. Len(ss) : ss[i] = <<>>) => FlattenSeq(ss) = <<>>
<1>. DEFINE T == {ss \in Seq(Seq(S)) : (\A i \in 1 .. Len(ss) : ss[i] = <<>>) => FlattenSeq(ss) = <<>>}
<1>1. <<>> \in T
  BY FlattenEmpty, EmptySeq
<1>2. ASSUME NEW ss \in T, NEW s \in Seq(S) PROVE Append(ss, s) \in T
  <2>1. Append(ss, s) \in Seq(Seq(S))
    BY AppendProperties
  <2>2. SUFFICES ASSUME \A i \in 1 .. Len(Append(ss, s)) : Append(ss, s)[i] = <<>>
                 PROVE  FlattenSeq(Append(ss, s)) = <<>>
    BY <2>1
  <2>3. s = <<>> /\ \A i \in 1 .. Len(ss) : ss[i] = <<>>
    BY <2>2, AppendProperties, LenProperties
  <2>4. FlattenSeq(ss) = <<>>
    BY <1>2, <2>3
  <2>5. FlattenSeq(Append(ss, s)) = FlattenSeq(ss) \o s
    BY FlattenType, FlattenAppend
  <2>. QED
    BY <2>3, <2>4, <2>5, ConcatEmptySeq
<1>3. T = Seq(Seq(S))
  <2>1. T \in SUBSET Seq(Seq(S))
    OBVIOUS
  <2>. HIDE DEF T
  <2>. QED
    BY <1>1, <1>2, <2>1, SequenceInduction
<1>. QED
  BY <1>3

-----------------------------------------------------------------------------
(* What the next line does to the job the reader is in, the other way      *)
(* round: who is in a job was in it before, or has just read its heading.   *)
LEMMA JobOneLineBefore ==
    ASSUME NEW ls \in Seq(Lines), NEW p \in 1 .. Len(ls), NEW j, UnderJob(ls, p + 1, j)
    PROVE  \/ UnderJob(ls, p, j) /\ Inside(ls[p])
           \/ TitleLine(ls[p]) /\ UnderJobs(ls, p) /\ ls[p].text = j
<1>1. p \in Nat /\ p + 1 - 1 = p
  BY LenProperties
<1>2. PICK k \in 1 .. p :
          /\ TitleLine(ls[k]) /\ ls[k].text = j /\ UnderJobs(ls, k)
          /\ \A m \in k + 1 .. p : Inside(ls[m])
  BY <1>1 DEF UnderJob
<1>3. CASE k = p
  BY <1>2, <1>3
<1>4. CASE k # p
  <2>1. k \in 1 .. p - 1 /\ p \in k + 1 .. p /\ k + 1 .. p - 1 \subseteq k + 1 .. p
    BY <1>1, <1>4
  <2>. QED
    BY <1>2, <2>1 DEF UnderJob
<1>. QED
  BY <1>3, <1>4

(* The same for a key of a job.                                            *)
LEMMA KeyOneLineFurther ==
    ASSUME NEW ls \in Seq(Lines), NEW p \in 1 .. Len(ls), NEW j, NEW key
    PROVE  UnderKey(ls, p + 1, j, key)
             <=> \/ UnderKey(ls, p, j, key) /\ BelowKey(ls[p])
                 \/ p \in KeyLines(ls, j, {key})
<1>0. \A k \in KeyLines(ls, j, {key}) : k \in Nat
  BY DEF KeyLines
<1>1. p \in Nat /\ p + 1 - 1 = p
  BY LenProperties
<1>2. ASSUME UnderKey(ls, p + 1, j, key), p \notin KeyLines(ls, j, {key})
      PROVE  UnderKey(ls, p, j, key) /\ BelowKey(ls[p])
  <2>1. PICK k \in KeyLines(ls, j, {key}) : k < p + 1 /\ \A m \in k + 1 .. p : BelowKey(ls[m])
    BY <1>1, <1>2 DEF UnderKey
  <2>2. k \in Nat /\ k # p
    BY <1>0, <1>2, <2>1
  <2>3. k < p /\ p \in k + 1 .. p /\ k + 1 .. p - 1 \subseteq k + 1 .. p
    BY <1>1, <2>1, <2>2
  <2>. QED
    BY <2>1, <2>3 DEF UnderKey
<1>3. ASSUME UnderKey(ls, p, j, key), BelowKey(ls[p]) PROVE UnderKey(ls, p + 1, j, key)
  <2>1. PICK k \in KeyLines(ls, j, {key}) : k < p /\ \A m \in k + 1 .. p - 1 : BelowKey(ls[m])
    BY <1>3 DEF UnderKey
  <2>2. k \in Nat
    BY <1>0
  <2>3. k < p + 1 /\ \A m \in k + 1 .. p : m = p \/ m \in k + 1 .. p - 1
    BY <1>1, <2>1, <2>2
  <2>. QED
    BY <1>1, <1>3, <2>1, <2>3 DEF UnderKey
<1>4. ASSUME p \in KeyLines(ls, j, {key}) PROVE UnderKey(ls, p + 1, j, key)
  <2>1. p < p + 1 /\ p + 1 .. p = {}
    BY <1>1
  <2>. QED
    BY <1>1, <1>4, <2>1 DEF UnderKey
<1>. QED
  BY <1>2, <1>3, <1>4

(* A line under a key of a job is in the job, and under no other key.       *)
LEMMA KeyOfJob ==
    ASSUME NEW ls \in Seq(Lines), NEW p \in 1 .. Len(ls) + 1, NEW j, NEW key, UnderKey(ls, p, j, key)
    PROVE  UnderJob(ls, p, j)
<1>1. PICK k \in KeyLines(ls, j, {key}) : k < p /\ \A m \in k + 1 .. p - 1 : BelowKey(ls[m])
  BY DEF UnderKey
<1>2. k \in 1 .. Len(ls) /\ ls[k].indent = 4 /\ UnderJob(ls, k, j) /\ Len(ls) \in Nat /\ p \in Nat
  BY LenProperties DEF KeyLines
<1>3. PICK h \in 1 .. k - 1 :
          /\ TitleLine(ls[h]) /\ ls[h].text = j /\ UnderJobs(ls, h)
          /\ \A m \in h + 1 .. k - 1 : Inside(ls[m])
  BY <1>2 DEF UnderJob
<1>4. ASSUME NEW m \in h + 1 .. p - 1 PROVE Inside(ls[m])
  <2>1. m \in h + 1 .. k - 1 \/ m = k \/ m \in k + 1 .. p - 1
    BY <1>2, <1>3
  <2>2. Inside(ls[k])
    BY <1>2 DEF Inside, TitleLine
  <2>3. ASSUME BelowKey(ls[m]) PROVE Inside(ls[m])
    <3>1. m \in 1 .. Len(ls)
      BY <1>2, <1>3
    <3>2. ls[m] \in Lines
      BY <3>1, ElementOfSeq
    <3>. QED
      BY <2>3, <3>2 DEF BelowKey, Inside, TitleLine, Lines
  <2>. QED
    BY <1>1, <1>3, <2>1, <2>2, <2>3
<1>5. h \in 1 .. p - 1
  BY <1>1, <1>2, <1>3
<1>. QED
  BY <1>3, <1>4, <1>5 DEF UnderJob

PartKeys == {"depends_on", "env", "steps"}

LEMMA OneKey ==
    ASSUME NEW ls \in Seq(Lines), NEW p \in 1 .. Len(ls) + 1, NEW j,
           NEW k1 \in PartKeys, NEW k2 \in PartKeys,
           UnderKey(ls, p, j, k1), UnderKey(ls, p, j, k2)
    PROVE  k1 = k2
<1>0. p \in Nat /\ Len(ls) \in Nat
  BY LenProperties
<1>1. PICK a \in KeyLines(ls, j, {k1}) : a < p /\ \A m \in a + 1 .. p - 1 : BelowKey(ls[m])
  BY DEF UnderKey
<1>2. PICK b \in KeyLines(ls, j, {k2}) : b < p /\ \A m \in b + 1 .. p - 1 : BelowKey(ls[m])
  BY DEF UnderKey
<1>3. /\ a \in Nat /\ ls[a].indent = 4 /\ ls[a].kind = k1
      /\ b \in Nat /\ ls[b].indent = 4 /\ ls[b].kind = k2
  BY DEF KeyLines
<1>4. ~BelowKey(ls[a]) /\ ~BelowKey(ls[b])
  BY <1>3 DEF BelowKey, PartKeys
<1>5. a = b
  <2>1. ~(a < b) /\ ~(b < a)
    BY <1>0, <1>1, <1>2, <1>3, <1>4
  <2>. QED
    BY <1>3, <2>1
<1>. QED
  BY <1>3, <1>5

(* Nothing is under a key before the line of the key.                      *)
LEMMA NothingBeforeKey ==
    ASSUME NEW ls \in Seq(Lines), NEW j, UniqueKeys(ls, j), NEW key \in PartKeys,
           NEW p \in KeyLines(ls, j, {key}), NEW i \in 1 .. p
    PROVE  ~UnderKey(ls, i, j, key)
<1>. SUFFICES ASSUME UnderKey(ls, i, j, key) PROVE FALSE
  OBVIOUS
<1>1. PICK k \in KeyLines(ls, j, {key}) : k < i
  BY DEF UnderKey
<1>2. p \in Nat /\ k \in Nat
  BY DEF KeyLines
<1>3. \E kinds \in {{"env"}, {"steps"}, {"depends_on", "flow"}} : key \in kinds
  BY DEF PartKeys
<1>4. PICK kinds \in {{"env"}, {"steps"}, {"depends_on", "flow"}} : key \in kinds
  BY <1>3
<1>5. p \in KeyLines(ls, j, kinds) /\ k \in KeyLines(ls, j, kinds)
  BY <1>4 DEF KeyLines
<1>6. p = k
  BY <1>5 DEF UniqueKeys
<1>. QED
  BY <1>1, <1>2, <1>6

-----------------------------------------------------------------------------
(* What members of a set of positions stand for, in their order.           *)
Collected(v, n, S) == FlattenSeq([i \in 1 .. n |-> IF i \in S THEN <<v[i]>> ELSE <<>>])

LEMMA CollectedShape ==
    ASSUME NEW T, NEW v \in Seq(T), NEW S, NEW n \in 0 .. Len(v)
    PROVE  /\ [i \in 1 .. n |-> IF i \in S THEN <<v[i]>> ELSE <<>>] \in Seq(Seq(T))
           /\ Len([i \in 1 .. n |-> IF i \in S THEN <<v[i]>> ELSE <<>>]) = n
<1>. DEFINE e(i) == IF i \in S THEN <<v[i]>> ELSE <<>>
<1>0. Len(v) \in Nat
  BY LenProperties
<1>1. \A i \in 1 .. n : e(i) \in Seq(T)
  <2>1. TAKE i \in 1 .. n
  <2>2. v[i] \in T
    BY <1>0, ElementOfSeq
  <2>3. <<v[i]>> \in Seq(T) /\ <<>> \in Seq(T)
    BY <2>2
  <2>. QED
    BY <2>3
<1>. HIDE DEF e
<1>2. [i \in 1 .. n |-> e(i)] \in Seq(Seq(T)) /\ Len([i \in 1 .. n |-> e(i)]) = n
  BY <1>0, <1>1
<1>. QED
  BY <1>2 DEF e

LEMMA CollectedNext ==
    ASSUME NEW T, NEW v \in Seq(T), NEW S, NEW p \in 1 .. Len(v)
    PROVE  /\ Collected(v, p - 1, S) \in Seq(T)
           /\ p \in S => Collected(v, p, S) = Append(Collected(v, p - 1, S), v[p])
           /\ p \notin S => Collected(v, p, S) = Collected(v, p - 1, S)
<1>. DEFINE e(i) == IF i \in S THEN <<v[i]>> ELSE <<>>
            L(n) == [i \in 1 .. n |-> e(i)]
<1>1. p \in Nat /\ p - 1 \in 0 .. Len(v) /\ p \in 0 .. Len(v) /\ p - 1 + 1 = p /\ v[p] \in T
  BY LenProperties, ElementOfSeq
<1>2. /\ L(p - 1) \in Seq(Seq(T)) /\ Len(L(p - 1)) = p - 1
      /\ L(p) \in Seq(Seq(T)) /\ Len(L(p)) = p
  BY <1>1, CollectedShape
<1>3. e(p) \in Seq(T) /\ e(p) = IF p \in S THEN <<v[p]>> ELSE <<>>
  <2>1. <<v[p]>> \in Seq(T) /\ <<>> \in Seq(T)
    BY <1>1
  <2>. QED
    BY <2>1
<1>4. \A n : Collected(v, n, S) = FlattenSeq(L(n))
  BY DEF Collected
<1>5. L(p) = Append(L(p - 1), e(p))
  <2>. HIDE DEF e
  <2>. QED
    BY <1>1, <1>2
<1>. HIDE DEF L, e
<1>6. FlattenSeq(L(p - 1)) \in Seq(T)
  BY <1>2, FlattenType
<1>7. FlattenSeq(L(p)) = FlattenSeq(L(p - 1)) \o e(p)
  BY <1>2, <1>3, <1>5, <1>6, FlattenAppend
<1>8. p \in S => FlattenSeq(L(p - 1)) \o e(p) = Append(FlattenSeq(L(p - 1)), v[p])
  <2>1. \A f \in Seq(T) : f \o <<v[p]>> = Append(f, v[p])
    BY <1>1
  <2>. QED
    BY <1>3, <1>6, <2>1
<1>9. p \notin S => FlattenSeq(L(p - 1)) \o e(p) = FlattenSeq(L(p - 1))
  BY <1>3, <1>6, ConcatEmptySeq
<1>. QED
  BY <1>4, <1>6, <1>7, <1>8, <1>9

(* Positions that are no members add nothing.                              *)
LEMMA CollectedWhole ==
    ASSUME NEW T, NEW v \in Seq(T), NEW S, NEW n \in 0 .. Len(v),
           \A i \in S : i \notin n + 1 .. Len(v)
    PROVE  Collected(v, Len(v), S) = Collected(v, n, S)
<1>. DEFINE e(i) == IF i \in S THEN <<v[i]>> ELSE <<>>
            L(k) == [i \in 1 .. k |-> e(i)]
            m == Len(v)
            rest == [i \in 1 .. m - n |-> <<>>]
<1>0. m \in Nat /\ m \in 0 .. Len(v)
  BY LenProperties
<1>1. /\ L(n) \in Seq(Seq(T)) /\ Len(L(n)) = n
      /\ L(m) \in Seq(Seq(T)) /\ Len(L(m)) = m
  BY <1>0, CollectedShape
<1>2. m - n \in Nat /\ <<>> \in Seq(T)
  BY <1>0
<1>3. rest \in Seq(Seq(T)) /\ Len(rest) = m - n /\ \A i \in 1 .. Len(rest) : rest[i] = <<>>
  BY <1>2
<1>4. \A i \in n + 1 .. m : e(i) = <<>>
  OBVIOUS
<1>5. L(m) = L(n) \o rest
  <2>. HIDE DEF e
  <2>. QED
    BY <1>0, <1>1, <1>3, <1>4
<1>6. \A k : Collected(v, k, S) = FlattenSeq(L(k))
  BY DEF Collected
<1>. HIDE DEF L, e, rest
<1>7. FlattenSeq(L(n) \o rest) = FlattenSeq(L(n)) \o FlattenSeq(rest)
  BY <1>1, <1>3, FlattenConcat
<1>8. FlattenSeq(rest) = <<>> /\ FlattenSeq(L(n)) \in Seq(T)
  BY <1>1, <1>3, FlattenNothing, FlattenType
<1>. QED
  BY <1>5, <1>6, <1>7, <1>8, ConcatEmptySeq

(* The same for the texts of lines.                                        *)
TextOf(ls) == [i \in 1 .. Len(ls) |-> ls[i].text]

LEMMA ListedIsCollected ==
    ASSUME NEW ls \in Seq(Lines)
    PROVE  /\ TextOf(ls) \in Seq(Texts) /\ Len(TextOf(ls)) = Len(ls)
           /\ \A S : \A n \in 0 .. Len(ls) : Listed(ls, n, S) = Collected(TextOf(ls), n, S)
<1>1. \A i \in 1 .. Len(ls) : ls[i] \in Lines
  BY ElementOfSeq
<1>2. \A i \in 1 .. Len(ls) : ls[i].text \in Texts
  BY <1>1 DEF Lines
<1>3. Len(ls) \in Nat
  BY LenProperties
<1>4. ASSUME NEW S, NEW n \in 0 .. Len(ls)
      PROVE  Listed(ls, n, S) = Collected(TextOf(ls), n, S)
  <2>1. \A i \in 1 .. n : TextOf(ls)[i] = ls[i].text
    BY <1>3 DEF TextOf
  <2>2. [i \in 1 .. n |-> IF i \in S THEN <<TextOf(ls)[i]>> ELSE <<>>]
          = [i \in 1 .. n |-> IF i \in S THEN <<ls[i].text>> ELSE <<>>]
    BY <2>1
  <2>. QED
    BY <2>2 DEF Listed, Collected
<1>5. TextOf(ls) \in Seq(Texts) /\ Len(TextOf(ls)) = Len(ls)
  BY <1>2, <1>3 DEF TextOf
<1>. QED
  BY <1>4, <1>5

LEMMA ListedNext ==
    ASSUME NEW ls \in Seq(Lines), NEW S, NEW p \in 1 .. Len(ls)
    PROVE  /\ Listed(ls, p - 1, S) \in Seq(Texts)
           /\ p \in S => Listed(ls, p, S) = Append(Listed(ls, p - 1, S), ls[p].text)
           /\ p \notin S => Listed(ls, p, S) = Listed(ls, p - 1, S)
<1>1. p - 1 \in 0 .. Len(ls) /\ p \in 0 .. Len(ls) /\ TextOf(ls)[p] = ls[p].text
  BY LenProperties DEF TextOf
<1>2. /\ Listed(ls, p - 1, S) = Collected(TextOf(ls), p - 1, S)
      /\ Listed(ls, p, S) = Collected(TextOf(ls), p, S)
  BY <1>1, ListedIsCollected
<1>3. TextOf(ls) \in Seq(Texts) /\ Len(TextOf(ls)) = Len(ls)
  BY ListedIsCollected
<1>4. /\ Collected(TextOf(ls), p - 1, S) \in Seq(Texts)
      /\ p \in S => Collected(TextOf(ls), p, S)
                       = Append(Collected(TextOf(ls), p - 1, S), TextOf(ls)[p])
      /\ p \notin S => Collected(TextOf(ls), p, S) = Collected(TextOf(ls), p - 1, S)
  BY <1>3, CollectedNext
<1>. QED
  BY <1>1, <1>2, <1>4

LEMMA ListedWhole ==
    ASSUME NEW ls \in Seq(Lines), NEW S, NEW n \in 0 .. Len(ls),
           \A i \in S : i \notin n + 1 .. Len(ls)
    PROVE  Listed(ls, n, S) = Listed(ls, Len(ls), S)
<1>1. Len(ls) \in 0 .. Len(ls)
  BY LenProperties
<1>2. /\ Listed(ls, n, S) = Collected(TextOf(ls), n, S)
      /\ Listed(ls, Len(ls), S) = Collected(TextOf(ls), Len(ls), S)
  BY <1>1, ListedIsCollected
<1>3. TextOf(ls) \in Seq(Texts) /\ Len(TextOf(ls)) = Len(ls)
  BY ListedIsCollected
<1>4. Collected(TextOf(ls), Len(ls), S) = Collected(TextOf(ls), n, S)
  BY <1>3, CollectedWhole
<1>. QED
  BY <1>2, <1>4

LEMMA ListedNone ==
    ASSUME NEW ls, NEW n \in Nat, NEW S, S \cap 1 .. n = {}
    PROVE  Listed(ls, n, S) = <<>>
<1>. DEFINE L == [i \in 1 .. n |-> IF i \in S THEN <<ls[i].text>> ELSE <<>>]
<1>1. \A i \in 1 .. n : L[i] = <<>> /\ <<>> \in Seq(Texts)
  OBVIOUS
<1>2. L = [i \in 1 .. n |-> <<>>]
  BY <1>1
<1>3. L \in Seq(Seq(Texts)) /\ Len(L) = n
  BY <1>1, <1>2
<1>. HIDE DEF L
<1>4. FlattenSeq(L) = <<>>
  BY <1>1, <1>3, FlattenNothing
<1>. QED
  BY <1>4 DEF Listed, L

-----------------------------------------------------------------------------
(* The parts of a job that come whole: its dependencies, its variables and *)
(* its steps' names.  Each has lines under a key of its own, and contexts  *)
(* in which the reader takes them.                                         *)
PartLines(lines, j, key) ==
    CASE key = "depends_on" -> Items(lines, j, 4)
      [] key = "env"        -> EnvLines(lines, j)
      [] key = "steps"      -> StepLinesOf(lines, j)

Part(job, key) ==
    CASE key = "depends_on" -> job.dependsOn
      [] key = "env"        -> job.env
      [] key = "steps"      -> NamesOf(job.steps)

Nothing(key) == IF key = "env" THEN {} ELSE <<>>
Taken(v, key, t) == IF key = "env" THEN v \cup {t} ELSE Append(v, t)
UpTo(lines, n, j, key) ==
    IF key = "env" THEN {lines[i].text : i \in PartLines(lines, j, key) \cap 1 .. n}
                   ELSE Listed(lines, n, PartLines(lines, j, key))

Takes(c, key) ==
    CASE key = "depends_on" -> c = "job"
      [] key = "env"        -> c = "job-env"
      [] key = "steps"      -> c \in {"job-steps", "step", "step-env"}

(* Before line p, a job has what the lines of a part carry, or nothing of  *)
(* it; which of the two is known while the lines of the part are read.     *)
PartRead(lines, p, j, job, c, key) ==
    /\ Part(job, key) \in {Nothing(key), UpTo(lines, p - 1, j, key)}
    /\ UnderKey(lines, p, j, key) =>
          Part(job, key) = IF Takes(c, key) THEN UpTo(lines, p - 1, j, key) ELSE Nothing(key)

(* The lines of a part are under its key, and do not end it.               *)
LEMMA PartLinesUnderKey ==
    ASSUME NEW ls \in Seq(Lines), NEW j, NEW key \in PartKeys, NEW p \in PartLines(ls, j, key)
    PROVE  p \in 1 .. Len(ls) /\ UnderKey(ls, p, j, key) /\ BelowKey(ls[p])
  BY DEF PartKeys, PartLines, Items, EnvLines, StepLinesOf, StepLine, BelowKey

(* One more line of a part, or a line that is none.                        *)
LEMMA UpToNext ==
    ASSUME NEW ls \in Seq(Lines), NEW p \in 1 .. Len(ls), NEW j, NEW key \in PartKeys
    PROVE  /\ p \in PartLines(ls, j, key)
                => UpTo(ls, p, j, key) = Taken(UpTo(ls, p - 1, j, key), key, ls[p].text)
           /\ p \notin PartLines(ls, j, key) => UpTo(ls, p, j, key) = UpTo(ls, p - 1, j, key)
<1>1. \A i : i \in 1 .. p <=> i \in 1 .. p - 1 \/ i = p
  BY LenProperties
<1>2. CASE key = "env"
  BY <1>1, <1>2 DEF UpTo, Taken
<1>3. CASE key # "env"
  BY <1>3, ListedNext DEF UpTo, Taken
<1>. QED
  BY <1>2, <1>3

(* Before the line of its key, a part has no lines.                        *)
LEMMA UpToKey ==
    ASSUME NEW ls \in Seq(Lines), NEW j, UniqueKeys(ls, j), NEW key \in PartKeys,
           NEW p \in KeyLines(ls, j, {key})
    PROVE  UpTo(ls, p - 1, j, key) = Nothing(key) /\ p \notin PartLines(ls, j, key)
<1>1. p \in Nat /\ p >= 1 /\ p - 1 \in Nat
  BY LenProperties DEF KeyLines
<1>2. \A i \in PartLines(ls, j, key) : UnderKey(ls, i, j, key) /\ i \in Nat /\ i >= 1
  BY PartLinesUnderKey, LenProperties
<1>3. \A i \in 1 .. p : i \notin PartLines(ls, j, key)
  BY <1>2, NothingBeforeKey
<1>4. PartLines(ls, j, key) \cap 1 .. p - 1 = {} /\ p \notin PartLines(ls, j, key)
  BY <1>1, <1>3
<1>5. Listed(ls, p - 1, PartLines(ls, j, key)) = <<>>
  BY <1>1, <1>4, ListedNone
<1>. QED
  BY <1>4, <1>5 DEF UpTo, Nothing

(* What a line has to do to a part.                                        *)
LEMMA PartOneLineFurther ==
    ASSUME NEW ls \in Seq(Lines), NEW p \in 1 .. Len(ls), NEW j, UniqueKeys(ls, j),
           NEW key \in PartKeys, NEW r, NEW r2, NEW c, NEW c2,
           PartRead(ls, p, j, r, c, key),
           p \in PartLines(ls, j, key) /\ Takes(c, key)
             => Part(r2, key) = Taken(Part(r, key), key, ls[p].text),
           ~(p \in PartLines(ls, j, key) /\ Takes(c, key)) => Part(r2, key) = Part(r, key),
           UnderKey(ls, p, j, key) /\ BelowKey(ls[p]) => (Takes(c2, key) <=> Takes(c, key))
    PROVE  PartRead(ls, p + 1, j, r2, c2, key)
<1>. DEFINE up == UpTo(ls, p - 1, j, key)
            up2 == UpTo(ls, p, j, key)
            v == Part(r, key)
            v2 == Part(r2, key)
<1>0. p + 1 - 1 = p
  BY LenProperties
<1>1. /\ v \in {Nothing(key), up}
      /\ UnderKey(ls, p, j, key) => v = IF Takes(c, key) THEN up ELSE Nothing(key)
  BY DEF PartRead
<1>2. SUFFICES /\ v2 \in {Nothing(key), up2}
               /\ UnderKey(ls, p + 1, j, key) =>
                     v2 = IF Takes(c2, key) THEN up2 ELSE Nothing(key)
  BY <1>0 DEF PartRead
<1>3. UnderKey(ls, p + 1, j, key)
        => (UnderKey(ls, p, j, key) /\ BelowKey(ls[p])) \/ p \in KeyLines(ls, j, {key})
  BY KeyOneLineFurther
<1>4. CASE p \in PartLines(ls, j, key)
  <2>1. UnderKey(ls, p, j, key) /\ BelowKey(ls[p]) /\ up2 = Taken(up, key, ls[p].text)
    BY <1>4, PartLinesUnderKey, UpToNext
  <2>. HIDE DEF up, up2, v, v2
  <2>2. v2 = IF Takes(c, key) THEN up2 ELSE Nothing(key)
    BY <1>1, <1>4, <2>1 DEF v, v2
  <2>. QED
    BY <2>1, <2>2
<1>5. CASE p \notin PartLines(ls, j, key)
  <2>1. up2 = up /\ v2 = v
    BY <1>5, UpToNext
  <2>2. CASE p \in KeyLines(ls, j, {key})
    <3>1. up = Nothing(key)
      BY <2>2, UpToKey
    <3>. HIDE DEF up, up2, v, v2
    <3>. QED
      BY <1>1, <2>1, <3>1
  <2>3. CASE p \notin KeyLines(ls, j, {key})
    <3>. HIDE DEF up, up2, v, v2
    <3>. QED
      BY <1>1, <1>3, <2>1, <2>3
  <2>. QED
    BY <2>2, <2>3
<1>. QED
  BY <1>4, <1>5

(* What the reader knows of where it is, and the parts of every job so far. *)
PartsSoFar ==
    /\ \A j : UnderJob(doc.lines, pos, j) => InJob /\ currentJob = j
    /\ context = "job-env" => UnderKey(doc.lines, pos, currentJob, "env")
    /\ \A j \in DOMAIN jobs : \A key \in PartKeys :
          PartRead(doc.lines, pos, j, jobs[j], context, key)
    /\ NothingMoved

WholeInv == OwnInv /\ PartsSoFar

LEMMA InitParts == ReaderInit => PartsSoFar
<1>. SUFFICES ASSUME ReaderInit PROVE PartsSoFar
  OBVIOUS
<1>1. context = "root" /\ DOMAIN jobs = {} /\ pipeline = NotYet /\ pos = 1
  BY DEF ReaderInit
<1>2. \A j : ~UnderJob(doc.lines, pos, j)
  BY <1>1 DEF UnderJob
<1>. QED
  BY <1>1, <1>2 DEF PartsSoFar, NothingMoved, Submitted

(* A job that is new has nothing of any part, and it is under no key.       *)
LEMMA NewJobParts ==
    ASSUME NEW ls \in Seq(Lines), NEW p \in 1 .. Len(ls), TitleLine(ls[p]), NEW j, NEW c,
           NEW key \in PartKeys
    PROVE  PartRead(ls, p + 1, j, EmptyJob, c, key)
<1>1. ~BelowKey(ls[p]) /\ p \notin KeyLines(ls, j, {key})
  <2>1. "blank" \notin Headings /\ "item" \notin Headings
    BY DEF Headings
  <2>2. ls[p].indent = 2 /\ ls[p].kind \in Headings
    BY DEF TitleLine
  <2>. QED
    BY <2>1, <2>2 DEF BelowKey, KeyLines
<1>2. ~UnderKey(ls, p + 1, j, key)
  BY <1>1, KeyOneLineFurther
<1>3. NamesOf(<<>>) = <<>>
  BY DEF NamesOf
<1>4. Part(EmptyJob, key) = Nothing(key)
  BY <1>3 DEF Part, Nothing, EmptyJob, PartKeys
<1>. QED
  BY <1>2, <1>4 DEF PartRead

(* The names of steps, with one more step, and with a step that is changed. *)
LEMMA NamesOfAppend ==
    ASSUME NEW ss \in Seq(StepRecords), NEW s \in StepRecords
    PROVE  NamesOf(Append(ss, s)) = Append(NamesOf(ss), s.name)
<1>0. \A n \in 1 .. Len(ss) : ss[n] \in StepRecords
  BY ElementOfSeq
<1>1. \A n \in 1 .. Len(ss) : ss[n].name \in Texts
  BY <1>0 DEF StepRecords
<1>2. NamesOf(ss) \in Seq(Texts) /\ Len(NamesOf(ss)) = Len(ss) /\ Len(ss) \in Nat
  BY <1>1, LenProperties DEF NamesOf
<1>3. s.name \in Texts
  BY DEF StepRecords
<1>4. /\ Append(ss, s) \in Seq(StepRecords) /\ Len(Append(ss, s)) = Len(ss) + 1
      /\ Append(ss, s)[Len(ss) + 1] = s
      /\ \A n \in 1 .. Len(ss) : Append(ss, s)[n] = ss[n]
  BY AppendProperties
<1>. QED
  BY <1>2, <1>3, <1>4 DEF NamesOf

LEMMA NamesOfChanged ==
    ASSUME NEW ss \in Seq(StepRecords), NEW k \in 1 .. Len(ss), NEW s \in StepRecords,
           s.name = ss[k].name
    PROVE  NamesOf([ss EXCEPT ![k] = s]) = NamesOf(ss)
<1>1. Len([ss EXCEPT ![k] = s]) = Len(ss)
  OBVIOUS
<1>. QED
  BY <1>1 DEF NamesOf

(* The texts' meaning is what their lines carry.                           *)
LEMMA WholeParts ==
    ASSUME NEW d \in Documents, NEW j \in JobsNamed(d.lines, Len(d.lines)), NEW r, NEW c, NEW p,
           p - 1 = Len(d.lines),
           \A key \in PartKeys : PartRead(d.lines, p, j, r, c, key)
    PROVE  /\ r.dependsOn \in {<<>>, d.means.jobs[j].dependsOn}
           /\ r.env \in {{}, d.means.jobs[j].env}
           /\ NamesOf(r.steps) \in {<<>>, NamesOf(d.means.jobs[j].steps)}
<1>. DEFINE ls == d.lines
            n == Len(ls)
            meant == d.means.jobs[j]
<1>0. ls \in Seq(Lines) /\ n \in Nat
  BY DocumentsAssumption, LenProperties
<1>1. /\ meant.dependsOn = Listed(ls, n, DepLines(ls, j))
      /\ meant.env = {ls[i].text : i \in EnvLines(ls, j)}
      /\ NamesOf(meant.steps) = Listed(ls, n, StepLinesOf(ls, j))
  BY JobMeaningAssumption
<1>2. UniqueKeys(ls, j) /\ TemplateDepths(ls, j)
  BY ShapeAssumption
<1>3. \A key \in PartKeys : Part(r, key) \in {Nothing(key), UpTo(ls, n, j, key)}
  BY DEF PartRead
<1>4. r.dependsOn \in {<<>>, Listed(ls, n, Items(ls, j, 4))}
  BY <1>3 DEF PartKeys, Part, Nothing, UpTo, PartLines
<1>5. r.env \in {{}, {ls[i].text : i \in EnvLines(ls, j) \cap 1 .. n}}
  BY <1>3 DEF PartKeys, Part, Nothing, UpTo, PartLines
<1>6. NamesOf(r.steps) \in {<<>>, Listed(ls, n, StepLinesOf(ls, j))}
  BY <1>3 DEF PartKeys, Part, Nothing, UpTo, PartLines
<1>7. EnvLines(ls, j) \cap 1 .. n = EnvLines(ls, j)
  BY DEF EnvLines
<1>8. CASE Items(ls, j, 4) = {}
  <2>1. Listed(ls, n, Items(ls, j, 4)) = <<>>
    BY <1>0, <1>8, ListedNone
  <2>. QED
    BY <1>1, <1>4, <1>5, <1>6, <1>7, <2>1
<1>9. CASE Items(ls, j, 4) # {}
  <2>1. PICK i : UnderKey(ls, i, j, "depends_on")
    BY <1>9 DEF Items
  <2>2. PICK k : k \in KeyLines(ls, j, {"depends_on"})
    BY <2>1 DEF UnderKey
  <2>3. KeyLines(ls, j, {"flow"}) = {}
    <3>1. SUFFICES ASSUME NEW f \in KeyLines(ls, j, {"flow"}) PROVE FALSE
      OBVIOUS
    <3>2. f \in KeyLines(ls, j, {"depends_on", "flow"}) /\ k \in KeyLines(ls, j, {"depends_on", "flow"})
      BY <2>2, <3>1 DEF KeyLines
    <3>3. f = k
      BY <1>2, <3>2 DEF UniqueKeys
    <3>. QED
      BY <2>2, <3>1, <3>3 DEF KeyLines
  <2>4. DepLines(ls, j) = Items(ls, j, 4)
    BY <1>2, <1>9, <2>3 DEF DepLines, TemplateDepths
  <2>. QED
    BY <1>1, <1>4, <1>5, <1>6, <1>7, <2>4
<1>. QED
  BY <1>8, <1>9

(* Every branch takes the lines of a part, or none of them, while the part *)
(* lasts.                                                                  *)
LEMMA StepParts == WholeInv /\ [ReaderNext]_readerVars => PartsSoFar'
<1>. SUFFICES ASSUME WholeInv, [ReaderNext]_readerVars PROVE PartsSoFar'
  OBVIOUS
<1>. DEFINE ls == doc.lines
            job == jobs[currentJob]
            InSteps(c) == c \in {"job-steps", "step", "step-env"}
<1>0. /\ ls \in Seq(Lines) /\ pos \in 1 .. Len(ls) + 1 /\ doc \in Documents
      /\ context = "jobs" \/ InJob <=> UnderJobs(ls, pos)
      /\ InJob => currentJob \in DOMAIN jobs /\ job \in JobRecords /\ UnderJob(ls, pos, currentJob)
      /\ context \in {"step", "step-env"} => currentStep \in 1 .. Len(job.steps)
      /\ AreJobs(jobs)
  BY DEF WholeInv, OwnInv, OwnSoFar, FoundInv, ReaderInv, TypeOK, NeverThrows, ReadSoFar, AreJobs,
         InJob
<1>1. /\ \A j : UnderJob(ls, pos, j) => InJob /\ currentJob = j
      /\ context = "job-env" => UnderKey(ls, pos, currentJob, "env")
      /\ \A j \in DOMAIN jobs : \A key \in PartKeys :
            PartRead(ls, pos, j, jobs[j], context, key)
      /\ NothingMoved
  BY DEF WholeInv, PartsSoFar
<1>2. DOMAIN jobs = JobsNamed(ls, pos - 1)
  BY <1>0 DEF WholeInv, OwnInv, FoundInv, ReadSoFar
<1>3. DOMAIN jobs \subseteq JobsNamed(ls, Len(ls))
  <2>1. 1 .. pos - 1 \subseteq 1 .. Len(ls)
    BY <1>0, LenProperties
  <2>. QED
    BY <1>2, <2>1 DEF JobsNamed
<1>4. \A j \in DOMAIN jobs : UniqueKeys(ls, j) /\ TemplateDepths(ls, j)
  BY <1>0, <1>3, ShapeAssumption
<1>a. line = ls[pos]
  BY DEF line
<1>b. ASSUME Turn PROVE pos \in 1 .. Len(ls) /\ line \in Lines
  <2>1. pos \in 1 .. Len(ls)
    BY <1>0, <1>b DEF Turn
  <2>. QED
    BY <1>0, <1>a, <2>1, ElementOfSeq
\* What a turn has to show.
<1>turn. ASSUME Turn,
                \A j : UnderJob(ls, pos + 1, j) => InJob' /\ currentJob' = j,
                context' = "job-env" => UnderKey(ls, pos + 1, currentJob', "env"),
                \A j \in DOMAIN jobs' : \A key \in PartKeys :
                   PartRead(ls, pos + 1, j, jobs'[j], context', key)
         PROVE  PartsSoFar'
  <2>1. pos' = pos + 1 /\ doc' = doc /\ pipeline' = pipeline
    BY <1>turn DEF Turn
  <2>. QED
    BY <1>1, <1>turn, <2>1 DEF PartsSoFar, NothingMoved, Submitted
\* A line that is of no part, and ends the parts that are being read.
<1>other. ASSUME Turn, NEW j \in DOMAIN jobs, NEW c2, NEW key \in PartKeys,
                 pos \notin PartLines(ls, j, key), ~(UnderKey(ls, pos, j, key) /\ BelowKey(line))
          PROVE  PartRead(ls, pos + 1, j, jobs[j], c2, key)
  BY <1>0, <1>1, <1>4, <1>a, <1>b, <1>other, PartOneLineFurther
\* Which parts a line of the current job belongs to.
<1>where. ASSUME Turn, InJob
          PROVE  /\ pos \in PartLines(ls, currentJob, "depends_on")
                      <=> line.indent = 4 /\ line.kind = "item"
                 /\ pos \in PartLines(ls, currentJob, "steps") <=> StepLine(line)
                 /\ pos \in PartLines(ls, currentJob, "env")
                      <=> /\ line.kind # "blank" /\ line.indent = 6
                          /\ UnderKey(ls, pos, currentJob, "env")
                 /\ line.indent = 4 /\ line.kind = "item"
                      => UnderKey(ls, pos, currentJob, "depends_on")
                 /\ StepLine(line) => UnderKey(ls, pos, currentJob, "steps")
  <2>1. pos \in 1 .. Len(ls) /\ currentJob \in DOMAIN jobs /\ UnderJob(ls, pos, currentJob)
    BY <1>0, <1>b, <1>where
  <2>2. TemplateDepths(ls, currentJob)
    BY <1>4, <2>1
  <2>3. line.indent = 4 /\ line.kind = "item" => UnderKey(ls, pos, currentJob, "depends_on")
    BY <1>a, <2>1, <2>2 DEF TemplateDepths, KeyLines
  <2>4. StepLine(line) => UnderKey(ls, pos, currentJob, "steps")
    BY <1>a, <2>1, <2>2 DEF TemplateDepths
  <2>. QED
    BY <1>a, <2>1, <2>3, <2>4 DEF PartLines, Items, EnvLines, StepLinesOf
\* No two keys at a time.
<1>one. \A k1, k2 \in PartKeys :
           UnderKey(ls, pos, currentJob, k1) /\ UnderKey(ls, pos, currentJob, k2) => k1 = k2
  BY <1>0, OneKey
\* A line inside the current job that may change it.
<1>. DEFINE Fits(r, c2, key) ==
              /\ pos \in PartLines(ls, currentJob, key) /\ Takes(context, key)
                   => Part(r, key) = Taken(Part(job, key), key, line.text)
              /\ ~(pos \in PartLines(ls, currentJob, key) /\ Takes(context, key))
                   => Part(r, key) = Part(job, key)
              /\ UnderKey(ls, pos, currentJob, key) /\ BelowKey(line)
                   => (Takes(c2, key) <=> Takes(context, key))
<1>given. ASSUME Turn, Inside(line), InJob, InJob', currentJob' = currentJob,
                 context' = "job-env" => UnderKey(ls, pos + 1, currentJob, "env"),
                 NEW r, jobs' = [jobs EXCEPT ![currentJob] = r],
                 NEW c2, c2 = context', \A key \in PartKeys : Fits(r, c2, key)
          PROVE  PartsSoFar'
  <2>1. ASSUME NEW j, UnderJob(ls, pos + 1, j) PROVE InJob' /\ currentJob' = j
    <3>1. ~TitleLine(line)
      BY <1>given DEF Inside, TitleLine, Headings
    <3>2. UnderJob(ls, pos, j)
      BY <1>0, <1>a, <1>b, <1>given, <2>1, <3>1, JobOneLineBefore
    <3>. QED
      BY <1>1, <1>given, <3>2
  <2>2. /\ DOMAIN jobs' = DOMAIN jobs /\ jobs'[currentJob] = r
        /\ \A j \in DOMAIN jobs : j # currentJob => jobs'[j] = jobs[j]
    BY <1>0, <1>given DEF AreJobs
  <2>3. ASSUME NEW j \in DOMAIN jobs, NEW key \in PartKeys
        PROVE  PartRead(ls, pos + 1, j, jobs'[j], c2, key)
    <3>1. CASE j = currentJob
      <4>1. /\ PartRead(ls, pos, j, job, context, key) /\ UniqueKeys(ls, j)
            /\ pos \in 1 .. Len(ls) /\ ls \in Seq(Lines)
        BY <1>0, <1>1, <1>4, <1>b, <1>given, <2>3, <3>1
      <4>2. Fits(r, c2, key)
        BY <1>given, <2>3
      <4>3. PartRead(ls, pos + 1, j, r, c2, key)
        BY <1>a, <3>1, <4>1, <4>2, PartOneLineFurther
      <4>. QED
        BY <2>2, <3>1, <4>3
    <3>2. CASE j # currentJob
      <4>1. ~UnderKey(ls, pos, j, key)
        BY <1>0, <1>1, <3>2, KeyOfJob
      <4>2. pos \notin PartLines(ls, j, key)
        BY <1>0, <4>1, PartLinesUnderKey
      <4>3. PartRead(ls, pos + 1, j, jobs[j], c2, key)
        BY <1>other, <1>given, <4>1, <4>2
      <4>. QED
        BY <2>2, <3>2, <4>3
    <3>. QED
      BY <3>1, <3>2
  <2>4. \A j \in DOMAIN jobs' : \A key \in PartKeys :
           PartRead(ls, pos + 1, j, jobs'[j], context', key)
    BY <1>given, <2>2, <2>3
  <2>. QED
    BY <1>given, <1>turn, <2>1, <2>4
\* A line inside the current job that changes no part of it.
<1>quiet. ASSUME Turn, Inside(line), InJob, InJob', currentJob' = currentJob,
                 context' = "job-env" => UnderKey(ls, pos + 1, currentJob, "env"),
                 NEW r, jobs' = [jobs EXCEPT ![currentJob] = r],
                 r.dependsOn = job.dependsOn, r.env = job.env, NamesOf(r.steps) = NamesOf(job.steps),
                 \A key \in PartKeys :
                    /\ ~(pos \in PartLines(ls, currentJob, key) /\ Takes(context, key))
                    /\ UnderKey(ls, pos, currentJob, key) /\ BelowKey(line)
                         => (Takes(context', key) <=> Takes(context, key))
          PROVE  PartsSoFar'
  <2>1. \A key \in PartKeys : Part(r, key) = Part(job, key)
    BY <1>quiet DEF Part
  <2>2. PICK c2 : c2 = context'
    OBVIOUS
  <2>3. \A key \in PartKeys : Fits(r, c2, key)
    BY <1>quiet, <2>1, <2>2
  <2>. HIDE DEF Fits
  <2>. QED
    BY <1>quiet, <1>given, <2>2, <2>3
<1>same. jobs' = jobs /\ InJob => jobs' = [jobs EXCEPT ![currentJob] = job]
  BY <1>0 DEF AreJobs
<1>. HIDE DEF Fits
<1>5. CASE RootLine
  <2>1. /\ Turn /\ line.kind # "blank" /\ line.indent = 0 /\ jobs' = jobs
        /\ context' = CASE line.kind = "name" -> "root"
                        [] line.kind = "env"  -> "env"
                        [] line.kind = "jobs" -> "jobs"
                        [] OTHER              -> context
    BY <1>5 DEF RootLine, Written
  <2>2. line.kind \notin {"name", "env", "jobs"} => ~InJob
    BY <1>0, <1>a, <1>b, <2>1, RootKey
  <2>3. context' # "job-env"
    BY <2>1, <2>2 DEF InJob
  <2>4. ~Inside(line) /\ ~TitleLine(line) /\ ~BelowKey(line)
    BY <2>1 DEF Inside, TitleLine, BelowKey
  <2>5. \A j : ~UnderJob(ls, pos + 1, j)
    BY <1>0, <1>a, <1>b, <2>1, <2>4, JobOneLineBefore
  <2>6. \A j \in DOMAIN jobs : \A key \in PartKeys : pos \notin PartLines(ls, j, key)
    BY <1>0, <1>a, <2>4, PartLinesUnderKey
  <2>7. \A j \in DOMAIN jobs : \A key \in PartKeys :
           PartRead(ls, pos + 1, j, jobs'[j], context', key)
    BY <1>other, <2>1, <2>4, <2>6
  <2>. QED
    BY <1>turn, <2>1, <2>3, <2>5, <2>7
<1>6. CASE EnvLine
  <2>1. Turn /\ context = "env" /\ context' = "env" /\ jobs' = jobs
    BY <1>6 DEF EnvLine, Written, At, progress
  <2>2. ~InJob /\ ~UnderJobs(ls, pos)
    BY <1>0, <2>1 DEF InJob
  <2>3. \A j : ~UnderJob(ls, pos, j) /\ ~UnderJob(ls, pos + 1, j)
    BY <1>0, <1>1, <1>a, <1>b, <2>1, <2>2, JobOneLineBefore
  <2>4. \A j, key : ~UnderKey(ls, pos, j, key)
    BY <1>0, <2>3, KeyOfJob
  <2>5. \A j \in DOMAIN jobs : \A key \in PartKeys : pos \notin PartLines(ls, j, key)
    BY <1>0, <2>4, PartLinesUnderKey
  <2>6. \A j \in DOMAIN jobs : \A key \in PartKeys :
           PartRead(ls, pos + 1, j, jobs'[j], context', key)
    BY <1>other, <2>1, <2>4, <2>5
  <2>. QED
    BY <1>turn, <2>1, <2>3, <2>6
<1>7. CASE JobHeading
  <2>1. /\ Turn /\ TitleLine(line) /\ currentJob' = line.text /\ context' = "job"
        /\ jobs' = [j \in DOMAIN jobs \cup {line.text} |->
                        IF j = line.text THEN EmptyJob ELSE jobs[j]]
    BY <1>7 DEF JobHeading, Written, TitleLine
  <2>2. InJob' /\ context' # "job-env"
    BY <2>1 DEF InJob
  <2>3. ~Inside(line) /\ ~BelowKey(line)
    <3>1. "blank" \notin Headings /\ "item" \notin Headings
      BY DEF Headings
    <3>. QED
      BY <2>1, <3>1 DEF Inside, TitleLine, BelowKey
  <2>4. \A j : UnderJob(ls, pos + 1, j) => InJob' /\ currentJob' = j
    BY <1>0, <1>a, <1>b, <2>1, <2>2, <2>3, JobOneLineBefore
  <2>5. \A j \in DOMAIN jobs : \A key \in PartKeys : pos \notin PartLines(ls, j, key)
    BY <1>0, <1>a, <2>3, PartLinesUnderKey
  <2>6. ASSUME NEW j \in DOMAIN jobs', NEW key \in PartKeys
        PROVE  PartRead(ls, pos + 1, j, jobs'[j], context', key)
    <3>1. CASE j = line.text
      BY <1>0, <1>a, <1>b, <2>1, <3>1, NewJobParts
    <3>2. CASE j # line.text
      <4>1. j \in DOMAIN jobs /\ jobs'[j] = jobs[j]
        BY <2>1, <2>6, <3>2
      <4>. QED
        BY <1>other, <2>1, <2>3, <2>5, <4>1
    <3>. QED
      BY <3>1, <3>2
  <2>. QED
    BY <1>turn, <2>1, <2>2, <2>4, <2>6
<1>8. CASE JobKey
  <2>1. /\ Turn /\ context = "job" /\ line.indent = 4 /\ line.kind # "blank"
        /\ currentJob' = currentJob
        /\ context' = CASE line.kind = "env"   -> "job-env"
                        [] line.kind = "steps" -> "job-steps"
                        [] OTHER               -> context
    BY <1>8 DEF JobKey, Written, At
  <2>2. InJob /\ InJob' /\ Inside(line) /\ ~StepLine(line)
    BY <2>1 DEF InJob, Inside, TitleLine, StepLine
  <2>3. context' = "job-env" => UnderKey(ls, pos + 1, currentJob, "env")
    <3>1. SUFFICES ASSUME line.kind = "env" PROVE UnderKey(ls, pos + 1, currentJob, "env")
      BY <2>1
    <3>2. pos \in KeyLines(ls, currentJob, {"env"})
      BY <1>0, <1>a, <1>b, <2>1, <2>2, <3>1 DEF KeyLines
    <3>. QED
      BY <1>0, <1>b, <2>1, <3>2, KeyOneLineFurther
  <2>4. CASE line.kind = "item"
    <3>. DEFINE r == [job EXCEPT !.dependsOn = Append(@, line.text)]
    <3>1. jobs' = [jobs EXCEPT ![currentJob] = r]
      BY <1>8, <2>4 DEF JobKey
    <3>2. r.dependsOn = Append(job.dependsOn, line.text) /\ r.env = job.env /\ r.steps = job.steps
      BY <1>0, <2>2 DEF JobRecords
    <3>. HIDE DEF r, job
    <3>3. /\ Part(r, "depends_on") = Taken(Part(job, "depends_on"), "depends_on", line.text)
          /\ Part(r, "env") = Part(job, "env") /\ Part(r, "steps") = Part(job, "steps")
      BY <3>2 DEF Part, Taken
    <3>4. PICK c2 : c2 = context'
      OBVIOUS
    <3>5. c2 = context /\ Takes(context, "depends_on")
      BY <2>1, <2>4, <3>4 DEF Takes
    <3>6. \A key \in PartKeys : Fits(r, c2, key)
      BY <1>where, <2>1, <2>2, <2>4, <3>3, <3>5 DEF PartKeys, Fits
    <3>. QED
      BY <1>given, <2>1, <2>2, <2>3, <3>1, <3>4, <3>6 DEF job
  <2>5. CASE line.kind # "item"
    <3>1. \A key \in PartKeys : pos \notin PartLines(ls, currentJob, key)
      BY <1>where, <2>1, <2>2, <2>5 DEF PartKeys
    <3>2. ~BelowKey(line)
      BY <2>1, <2>5 DEF BelowKey
    <3>3. CASE line.kind = "image"
      <4>. DEFINE r == [job EXCEPT !.image = line.text]
      <4>1. jobs' = [jobs EXCEPT ![currentJob] = r]
        BY <1>8, <3>3 DEF JobKey
      <4>2. r.dependsOn = job.dependsOn /\ r.env = job.env /\ r.steps = job.steps
        BY <1>0, <2>2 DEF JobRecords
      <4>. HIDE DEF r
      <4>. QED
        BY <1>quiet, <2>1, <2>2, <2>3, <3>1, <3>2, <4>1, <4>2
    <3>4. CASE line.kind # "image"
      <4>1. jobs' = jobs
        BY <1>8, <2>5, <3>4 DEF JobKey
      <4>. QED
        BY <1>quiet, <1>same, <2>1, <2>2, <2>3, <3>1, <3>2, <4>1
    <3>. QED
      BY <3>3, <3>4
  <2>. QED
    BY <2>4, <2>5
<1>9. CASE JobEnvLine
  <2>1. /\ Turn /\ context = "job-env" /\ line.indent = 6 /\ line.kind # "blank"
        /\ currentJob' = currentJob /\ context' = context
    BY <1>9 DEF JobEnvLine, Written, At, progress
  <2>2. InJob /\ InJob' /\ Inside(line) /\ BelowKey(line)
    BY <2>1 DEF InJob, Inside, TitleLine, BelowKey
  <2>3. UnderKey(ls, pos, currentJob, "env")
    BY <1>1, <2>1
  <2>4. UnderKey(ls, pos + 1, currentJob, "env")
    BY <1>0, <1>a, <1>b, <2>1, <2>2, <2>3, KeyOneLineFurther
  <2>5. ~StepLine(line)
    BY <1>one, <1>where, <2>1, <2>2, <2>3 DEF PartKeys
  <2>. DEFINE r == [job EXCEPT !.env = @ \cup {line.text}]
  <2>6. jobs' = [jobs EXCEPT ![currentJob] = r]
    BY <1>9 DEF JobEnvLine
  <2>7. r.dependsOn = job.dependsOn /\ r.env = job.env \cup {line.text} /\ r.steps = job.steps
    BY <1>0, <2>2 DEF JobRecords
  <2>. HIDE DEF r, job
  <2>8. /\ Part(r, "env") = Taken(Part(job, "env"), "env", line.text)
        /\ Part(r, "depends_on") = Part(job, "depends_on") /\ Part(r, "steps") = Part(job, "steps")
    BY <2>7 DEF Part, Taken
  <2>9. PICK c2 : c2 = context'
    OBVIOUS
  <2>10. c2 = context /\ Takes(context, "env")
    BY <2>1, <2>9 DEF Takes
  <2>11. \A key \in PartKeys : Fits(r, c2, key)
    BY <1>where, <2>1, <2>2, <2>3, <2>5, <2>8, <2>10 DEF PartKeys, Fits
  <2>. QED
    BY <1>given, <2>1, <2>2, <2>4, <2>6, <2>9, <2>11 DEF job
<1>10. CASE EndOfJobEnv
  <2>1. /\ Turn /\ context = "job-env" /\ line.indent \in 1 .. 4 /\ line.kind # "blank"
        /\ ~TitleLine(line) /\ currentJob' = currentJob /\ context' = "job" /\ jobs' = jobs
    BY <1>10 DEF EndOfJobEnv, Written, TitleLine, found
  <2>2. InJob /\ InJob' /\ Inside(line) /\ ~StepLine(line) /\ line.indent # 6
    BY <2>1 DEF InJob, Inside, StepLine
  <2>3. UnderKey(ls, pos, currentJob, "env")
    BY <1>1, <2>1
  <2>4. ~(line.indent = 4 /\ line.kind = "item")
    BY <1>one, <1>where, <2>1, <2>2, <2>3 DEF PartKeys
  <2>5. \A key \in PartKeys : pos \notin PartLines(ls, currentJob, key)
    BY <1>where, <2>1, <2>2, <2>4 DEF PartKeys
  <2>6. ~BelowKey(line)
    BY <2>1, <2>4 DEF BelowKey
  <2>. QED
    BY <1>quiet, <1>same, <2>1, <2>2, <2>5, <2>6
<1>11. CASE StepHeading
  <2>1. /\ Turn /\ InSteps(context) /\ StepLine(line) /\ line.indent = 6 /\ line.kind = "step"
        /\ currentJob' = currentJob /\ context' = "step"
    BY <1>11 DEF StepHeading, Written, StepLine
  <2>2. InJob /\ InJob' /\ Inside(line)
    BY <2>1 DEF InJob, Inside, TitleLine
  <2>. DEFINE new == NewStepNamed(line.text)
              r == [job EXCEPT !.steps = Append(@, new)]
  <2>3. jobs' = [jobs EXCEPT ![currentJob] = r]
    BY <1>11 DEF StepHeading
  <2>4. r.dependsOn = job.dependsOn /\ r.env = job.env /\ r.steps = Append(job.steps, new)
    BY <1>0, <2>2 DEF JobRecords
  <2>5. NamesOf(r.steps) = Append(NamesOf(job.steps), line.text)
    <3>1. job.steps \in Seq(StepRecords)
      BY <1>0, <2>2 DEF JobRecords
    <3>2. new \in StepRecords /\ new.name = line.text
      <4>1. <<>> \in Seq(Texts) /\ line.text \in Texts
        BY <1>b, <2>1 DEF Lines
      <4>. QED
        BY <4>1 DEF NewStepNamed, StepRecords
    <3>. HIDE DEF new, r, job
    <3>. QED
      BY <2>4, <3>1, <3>2, NamesOfAppend
  <2>. HIDE DEF new, r, job
  <2>6. /\ Part(r, "steps") = Taken(Part(job, "steps"), "steps", line.text)
        /\ Part(r, "depends_on") = Part(job, "depends_on") /\ Part(r, "env") = Part(job, "env")
    BY <2>4, <2>5 DEF Part, Taken
  <2>7. PICK c2 : c2 = context'
    OBVIOUS
  <2>8. \A key \in PartKeys : Takes(context, key) = (key = "steps") /\ Takes(c2, key) = (key = "steps")
    BY <2>1, <2>7 DEF Takes, PartKeys
  <2>9. \A key \in PartKeys : Fits(r, c2, key)
    BY <1>where, <2>1, <2>2, <2>6, <2>8 DEF PartKeys, Fits
  <2>. QED
    BY <1>given, <2>1, <2>2, <2>3, <2>7, <2>9 DEF job
\* The lines of a step change no part of their job.
<1>step. ASSUME Turn, context \in {"step", "step-env"}, context' \in {"step", "step-env"},
                Inside(line), ~StepLine(line), currentJob' = currentJob,
                NEW s \in StepRecords, s.name = job.steps[currentStep].name,
                jobs' = [jobs EXCEPT ![currentJob] = [job EXCEPT !.steps[currentStep] = s]]
         PROVE  PartsSoFar'
  <2>1. InJob /\ InJob' /\ context' # "job-env"
    BY <1>step DEF InJob
  <2>. DEFINE r == [job EXCEPT !.steps[currentStep] = s]
  <2>2. job.steps \in Seq(StepRecords) /\ currentStep \in 1 .. Len(job.steps)
    BY <1>0, <1>step, <2>1 DEF JobRecords
  <2>3. /\ r.dependsOn = job.dependsOn /\ r.env = job.env
        /\ r.steps = [job.steps EXCEPT ![currentStep] = s]
    BY <1>0, <2>1 DEF JobRecords
  <2>4. NamesOf([job.steps EXCEPT ![currentStep] = s]) = NamesOf(job.steps)
    BY <1>step, <2>2, NamesOfChanged
  <2>5. jobs' = [jobs EXCEPT ![currentJob] = r]
    BY <1>step
  <2>. HIDE DEF r
  <2>6. \A key \in PartKeys : /\ ~(pos \in PartLines(ls, currentJob, key) /\ Takes(context, key))
                              /\ Takes(context', key) <=> Takes(context, key)
    BY <1>step, <1>where, <2>1 DEF PartKeys, Takes
  <2>. QED
    BY <1>quiet, <1>step, <2>1, <2>3, <2>4, <2>5, <2>6
<1>12. CASE StepKey
  <2>1. /\ Turn /\ context = "step" /\ line.indent = 8 /\ currentJob' = currentJob
        /\ context' \in {"step", "step-env"}
    BY <1>12 DEF StepKey, Written, At
  <2>2. Inside(line) /\ ~StepLine(line) /\ InJob
    BY <2>1 DEF InJob, Inside, TitleLine, StepLine
  <2>. DEFINE step == job.steps[currentStep]
  <2>3. step \in StepRecords /\ step.run \in Seq(Texts) /\ line.text \in Texts
    <3>1. job.steps \in Seq(StepRecords) /\ currentStep \in 1 .. Len(job.steps)
      BY <1>0, <2>1, <2>2 DEF JobRecords
    <3>2. step \in StepRecords
      BY <3>1, ElementOfSeq
    <3>. QED
      BY <1>b, <2>1, <3>2 DEF StepRecords, Lines
  <2>4. ASSUME NEW cmd \in Seq(Texts),
               jobs' = [jobs EXCEPT ![currentJob] =
                           [job EXCEPT !.steps[currentStep] = [step EXCEPT !.run = cmd]]]
        PROVE  PartsSoFar'
    <3>. DEFINE s == [step EXCEPT !.run = cmd]
    <3>1. s \in StepRecords /\ s.name = step.name
      BY <2>3 DEF StepRecords
    <3>2. jobs' = [jobs EXCEPT ![currentJob] = [job EXCEPT !.steps[currentStep] = s]]
      BY <2>4
    <3>. HIDE DEF s
    <3>. QED
      BY <1>step, <2>1, <2>2, <3>1, <3>2
  <2>5. CASE line.kind = "run"
    <3>1. <<line.text>> \in Seq(Texts)
      BY <2>3
    <3>2. jobs' = [jobs EXCEPT ![currentJob] =
                      [job EXCEPT !.steps[currentStep] = [step EXCEPT !.run = <<line.text>>]]]
      BY <1>12, <2>5 DEF StepKey
    <3>. QED
      BY <2>4, <3>1, <3>2
  <2>6. CASE line.kind = "block"
    <3>1. <<>> \in Seq(Texts)
      OBVIOUS
    <3>2. jobs' = [jobs EXCEPT ![currentJob] =
                      [job EXCEPT !.steps[currentStep] = [step EXCEPT !.run = <<>>]]]
      BY <1>12, <2>6 DEF StepKey
    <3>. QED
      BY <2>4, <3>1, <3>2
  <2>7. CASE line.kind \in {"env", "item", "step"}
    <3>1. jobs' = jobs
      BY <1>12, <2>7 DEF StepKey
    <3>2. InJob' /\ context' # "job-env"
      BY <2>1 DEF InJob
    <3>3. \A key \in PartKeys : /\ ~(pos \in PartLines(ls, currentJob, key) /\ Takes(context, key))
                                /\ Takes(context', key) <=> Takes(context, key)
      BY <1>where, <2>1, <2>2 DEF PartKeys, Takes
    <3>. QED
      BY <1>quiet, <1>same, <2>1, <2>2, <3>1, <3>2, <3>3
  <2>8. CASE line.kind \notin {"run", "block", "env", "item", "step"}
    <3>1. Append(step.run, line.text) \in Seq(Texts)
      <4>. HIDE DEF step
      <4>. QED
        BY <2>3, AppendProperties
    <3>2. jobs' = [jobs EXCEPT ![currentJob] =
                      [job EXCEPT !.steps[currentStep] =
                          [step EXCEPT !.run = Append(step.run, line.text)]]]
      BY <1>12, <2>8 DEF StepKey
    <3>. QED
      BY <2>4, <3>1, <3>2
  <2>. QED
    BY <2>5, <2>6, <2>7, <2>8
<1>13. CASE StepEnvLine
  <2>1. /\ Turn /\ context = "step-env" /\ line.indent = 10 /\ currentJob' = currentJob
        /\ context' = context
    BY <1>13 DEF StepEnvLine, Written, At, progress
  <2>2. Inside(line) /\ ~StepLine(line) /\ InJob
    BY <2>1 DEF InJob, Inside, TitleLine, StepLine
  <2>. DEFINE step == job.steps[currentStep]
              s == [step EXCEPT !.env = @ \cup {line.text}]
  <2>3. step \in StepRecords /\ line.text \in Texts
    <3>1. job.steps \in Seq(StepRecords) /\ currentStep \in 1 .. Len(job.steps)
      BY <1>0, <2>1, <2>2 DEF JobRecords
    <3>2. step \in StepRecords
      BY <3>1, ElementOfSeq
    <3>. QED
      BY <1>b, <2>1, <3>2 DEF Lines
  <2>4. s \in StepRecords /\ s.name = step.name
    BY <2>3 DEF StepRecords
  <2>5. jobs' = [jobs EXCEPT ![currentJob] = [job EXCEPT !.steps[currentStep] = s]]
    BY <1>13 DEF StepEnvLine
  <2>. HIDE DEF s
  <2>. QED
    BY <1>step, <2>1, <2>2, <2>4, <2>5
<1>14. CASE OtherLine
  <2>1. /\ Turn /\ UNCHANGED <<context, currentJob, jobs>>
        /\ line.kind = "blank" \/ ~Handled
    BY <1>14 DEF OtherLine, progress, found
  <2>2. line.indent \in Nat /\ "blank" \notin Headings
    BY <1>b, <2>1 DEF Lines, Headings
  <2>3. CASE InJob
    <3>1. Inside(line)
      BY <2>1, <2>2, <2>3 DEF Handled, At, InJob, Inside, TitleLine
    <3>2. \A key \in PartKeys : ~(pos \in PartLines(ls, currentJob, key) /\ Takes(context, key))
      <4>1. context = "job" => ~(line.indent = 4 /\ line.kind = "item")
        BY <2>1, <2>2 DEF Handled, At, InJob
      <4>2. context = "job-env" => ~(line.kind # "blank" /\ line.indent = 6)
        BY <2>1, <2>2 DEF Handled, At, InJob
      <4>3. InSteps(context) => ~StepLine(line)
        BY <2>1, <2>2 DEF Handled, At, InJob, StepLine
      <4>. QED
        BY <1>where, <2>1, <2>3, <4>1, <4>2, <4>3 DEF PartKeys, Takes
    <3>3. context = "job-env" => BelowKey(line)
      BY <2>1, <2>2 DEF Handled, At, InJob, BelowKey
    <3>4. context' = "job-env" => UnderKey(ls, pos + 1, currentJob, "env")
      BY <1>0, <1>1, <1>a, <1>b, <2>1, <3>3, KeyOneLineFurther
    <3>5. InJob' /\ currentJob' = currentJob /\ context' = context
      BY <2>1, <2>3 DEF InJob
    <3>. QED
      BY <1>quiet, <1>same, <2>1, <2>3, <3>1, <3>2, <3>4, <3>5
  <2>4. CASE ~InJob
    <3>1. context' # "job-env"
      BY <2>1, <2>4 DEF InJob
    <3>2. ~(TitleLine(line) /\ UnderJobs(ls, pos))
      BY <1>0, <2>1, <2>2, <2>4 DEF Handled, At, InJob, TitleLine
    <3>3. \A j : ~UnderJob(ls, pos, j) /\ ~UnderJob(ls, pos + 1, j)
      BY <1>0, <1>1, <1>a, <1>b, <2>1, <2>4, <3>2, JobOneLineBefore
    <3>4. \A j, key : ~UnderKey(ls, pos, j, key)
      BY <1>0, <3>3, KeyOfJob
    <3>5. \A j \in DOMAIN jobs : \A key \in PartKeys : pos \notin PartLines(ls, j, key)
      BY <1>0, <3>4, PartLinesUnderKey
    <3>6. \A j \in DOMAIN jobs : \A key \in PartKeys :
             PartRead(ls, pos + 1, j, jobs'[j], context', key)
      BY <1>other, <2>1, <3>4, <3>5
    <3>. QED
      BY <1>turn, <2>1, <3>1, <3>3, <3>6
  <2>. QED
    BY <2>3, <2>4
<1>15. CASE Create
  <2>1. /\ pos > Len(ls) /\ UNCHANGED <<doc, pos, context, currentJob, jobs>> /\ pipeline'.jobs = jobs
    BY <1>15 DEF Create, progress, found
  <2>2. pos - 1 = Len(ls)
    BY <1>0, <2>1, LenProperties
  <2>3. NothingMoved'
    <3>1. ASSUME NEW j \in DOMAIN jobs
          PROVE  /\ jobs[j].dependsOn \in {<<>>, doc.means.jobs[j].dependsOn}
                 /\ jobs[j].env \in {{}, doc.means.jobs[j].env}
                 /\ NamesOf(jobs[j].steps) \in {<<>>, NamesOf(doc.means.jobs[j].steps)}
      BY <1>0, <1>1, <1>3, <2>2, <3>1, WholeParts
    <3>. QED
      BY <2>1, <3>1 DEF NothingMoved
  <2>. QED
    BY <1>1, <2>1, <2>3 DEF PartsSoFar, InJob
<1>16. CASE UNCHANGED readerVars
  BY <1>1, <1>16 DEF readerVars, progress, found, PartsSoFar, NothingMoved, InJob, Submitted
<1>. QED
  BY <1>5, <1>6, <1>7, <1>8, <1>9, <1>10, <1>11, <1>12, <1>13, <1>14, <1>15, <1>16 DEF ReaderNext

(* A job's dependencies, its variables and its steps come whole or not at   *)
(* all, in their order, for any text that is YAML at the depths of the      *)
(* dialog's template, however its sections are ordered.                     *)
THEOREM SectionsComeWhole == ReaderSpec => []NothingMoved
<1>1. WholeInv => NothingMoved
  BY DEF WholeInv, PartsSoFar
<1>2. ReaderInit => WholeInv
  BY InitReader, InitFound, InitOwn, InitParts DEF WholeInv, OwnInv, FoundInv
<1>3. WholeInv /\ [ReaderNext]_readerVars => WholeInv'
  BY StepReader, StepFound, StepOwn, StepParts DEF WholeInv, OwnInv, FoundInv
<1>. QED
  BY <1>1, <1>2, <1>3, PTL DEF ReaderSpec

-----------------------------------------------------------------------------
LEMMA ListedType ==
    ASSUME NEW ls \in Seq(Lines), NEW S, NEW n \in 0 .. Len(ls)
    PROVE  Listed(ls, n, S) \in Seq(Texts)
<1>. DEFINE v == TextOf(ls)
<1>1. v \in Seq(Texts) /\ Len(v) = Len(ls) /\ Listed(ls, n, S) = Collected(v, n, S)
  BY ListedIsCollected
<1>. HIDE DEF v
<1>. QED
  BY <1>1, CollectedShape, FlattenType DEF Collected

(* The lines of a step end where another step, or another job, begins.      *)
LEMMA BodyOneLineFurther ==
    ASSUME NEW ls \in Seq(Lines), NEW p \in 1 .. Len(ls), NEW k \in 1 .. p - 1,
           \A m \in k + 1 .. p - 1 : Inside(ls[m]) /\ ~StepLine(ls[m])
    PROVE  /\ Inside(ls[p]) /\ ~StepLine(ls[p])
                => /\ p \in StepBody(ls, k)
                   /\ \A m \in k + 1 .. p : Inside(ls[m]) /\ ~StepLine(ls[m])
           /\ ~(Inside(ls[p]) /\ ~StepLine(ls[p])) => \A i \in StepBody(ls, k) : i \in 1 .. p - 1
<1>0. Len(ls) \in Nat /\ p \in Nat /\ k \in Nat
  BY LenProperties
<1>1. \A m \in k + 1 .. p : m \in k + 1 .. p - 1 \/ m = p
  BY <1>0
<1>2. p \in k + 1 .. Len(ls)
  BY <1>0
<1>3. ASSUME NEW i \in StepBody(ls, k), i \notin 1 .. p - 1
      PROVE  Inside(ls[p]) /\ ~StepLine(ls[p])
  <2>1. i \in k + 1 .. Len(ls) /\ \A m \in k + 1 .. i : Inside(ls[m]) /\ ~StepLine(ls[m])
    BY DEF StepBody
  <2>2. p \in k + 1 .. i
    BY <1>0, <1>3, <2>1
  <2>. QED
    BY <2>1, <2>2
<1>. QED
  BY <1>1, <1>2, <1>3 DEF StepBody

(* The step of a line, up to another line.                                 *)
LEMMA StepUpToType ==
    ASSUME NEW ls \in Seq(Lines), NEW k \in 1 .. Len(ls), NEW n \in 0 .. Len(ls)
    PROVE  StepUpTo(ls, n, k) \in StepRecords
<1>1. \A i \in 1 .. Len(ls) : ls[i] \in Lines
  BY ElementOfSeq
<1>2. \A i \in 1 .. Len(ls) : ls[i].text \in Texts
  BY <1>1 DEF Lines
<1>3. Listed(ls, n, KeysOfStep(ls, k, "run")) \in Seq(Texts)
  BY ListedType
<1>4. \A i \in VarLines(ls, k) : i \in 1 .. Len(ls)
  BY LenProperties DEF VarLines, StepBody
<1>. QED
  BY <1>2, <1>3, <1>4 DEF StepUpTo, StepRecords

LEMMA StepUpToNext ==
    ASSUME NEW ls \in Seq(Lines), NEW k \in 1 .. Len(ls), NEW p \in 1 .. Len(ls)
    PROVE  /\ p \notin KeysOfStep(ls, k, "run") /\ p \notin VarLines(ls, k)
                => StepUpTo(ls, p, k) = StepUpTo(ls, p - 1, k)
           /\ p \in KeysOfStep(ls, k, "run") /\ (\A i \in KeysOfStep(ls, k, "run") : i = p)
                => StepUpTo(ls, p, k) = [StepUpTo(ls, p - 1, k) EXCEPT !.run = <<ls[p].text>>]
           /\ p \in VarLines(ls, k)
                => StepUpTo(ls, p, k) = [StepUpTo(ls, p - 1, k) EXCEPT !.env = @ \cup {ls[p].text}]
<1>. DEFINE R == KeysOfStep(ls, k, "run")
            V == VarLines(ls, k)
            E(n) == {ls[i].text : i \in V \cap 1 .. n}
<1>0. p \in Nat /\ p - 1 \in Nat /\ Len(ls) \in Nat /\ \A i : i \in 1 .. p <=> i \in 1 .. p - 1 \/ i = p
  BY LenProperties
<1>1. /\ p \in R => p \notin V
      /\ p \in V => E(p) = E(p - 1) \cup {ls[p].text}
      /\ p \notin V => E(p) = E(p - 1)
  BY <1>0 DEF KeysOfStep, VarLines
<1>2. \A n : StepUpTo(ls, n, k) = [name |-> ls[k].text, run |-> Listed(ls, n, R), env |-> E(n)]
  BY DEF StepUpTo
<1>3. p \notin R => Listed(ls, p, R) = Listed(ls, p - 1, R)
  BY ListedNext
<1>4. ASSUME p \in R, \A i \in R : i = p PROVE Listed(ls, p, R) = <<ls[p].text>>
  <2>1. R \cap 1 .. p - 1 = {}
    BY <1>0, <1>4
  <2>2. Listed(ls, p - 1, R) = <<>>
    BY <1>0, <2>1, ListedNone
  <2>3. Listed(ls, p, R) = Append(<<>>, ls[p].text)
    BY <1>4, <2>2, ListedNext
  <2>. QED
    BY <2>3
<1>. HIDE DEF R, V, E
<1>5. p \notin R /\ p \notin V => StepUpTo(ls, p, k) = StepUpTo(ls, p - 1, k)
  BY <1>1, <1>2, <1>3
<1>6. p \in R /\ (\A i \in R : i = p)
        => StepUpTo(ls, p, k) = [StepUpTo(ls, p - 1, k) EXCEPT !.run = <<ls[p].text>>]
  BY <1>1, <1>2, <1>4
<1>7. p \in V
        => StepUpTo(ls, p, k) = [StepUpTo(ls, p - 1, k) EXCEPT !.env = @ \cup {ls[p].text}]
  BY <1>1, <1>2, <1>3
<1>. QED
  BY <1>5, <1>6, <1>7 DEF R, V

LEMMA StepUpToStart ==
    ASSUME NEW ls \in Seq(Lines), NEW k \in 1 .. Len(ls)
    PROVE  StepUpTo(ls, k, k) = NewStepNamed(ls[k].text)
<1>1. k \in Nat /\ \A i \in StepBody(ls, k) : i \notin 1 .. k
  BY LenProperties DEF StepBody
<1>2. VarLines(ls, k) \cap 1 .. k = {} /\ KeysOfStep(ls, k, "run") \cap 1 .. k = {}
  BY <1>1 DEF VarLines, KeysOfStep
<1>3. Listed(ls, k, KeysOfStep(ls, k, "run")) = <<>>
  BY <1>1, <1>2, ListedNone
<1>. QED
  BY <1>2, <1>3 DEF StepUpTo, NewStepNamed

LEMMA StepIsWhole ==
    ASSUME NEW ls \in Seq(Lines), NEW k \in 1 .. Len(ls), NEW n \in 0 .. Len(ls),
           \A i \in StepBody(ls, k) : i \in 1 .. n
    PROVE  StepUpTo(ls, n, k) = StepUpTo(ls, Len(ls), k)
<1>0. n \in Nat /\ Len(ls) \in Nat
  BY LenProperties
<1>1. \A i \in KeysOfStep(ls, k, "run") : i \notin n + 1 .. Len(ls)
  BY <1>0 DEF KeysOfStep
<1>2. Listed(ls, n, KeysOfStep(ls, k, "run")) = Listed(ls, Len(ls), KeysOfStep(ls, k, "run"))
  BY <1>1, ListedWhole
<1>3. VarLines(ls, k) \cap 1 .. n = VarLines(ls, k) \cap 1 .. Len(ls)
  BY <1>0 DEF VarLines, StepBody
<1>. QED
  BY <1>2, <1>3 DEF StepUpTo

(* The steps of a job, up to a line.                                       *)
LEMMA StepsOfNext ==
    ASSUME NEW ls \in Seq(Lines), NEW p \in 1 .. Len(ls), NEW j
    PROVE  /\ StepsOf(ls, p - 1, j) \in Seq(StepRecords)
           /\ p \in StepLinesOf(ls, j)
                => StepsOf(ls, p, j) = Append(StepsOf(ls, p - 1, j), StepUpTo(ls, Len(ls), p))
           /\ p \notin StepLinesOf(ls, j) => StepsOf(ls, p, j) = StepsOf(ls, p - 1, j)
<1>. DEFINE m == Len(ls)
            v == [i \in 1 .. m |-> StepUpTo(ls, m, i)]
            S == StepLinesOf(ls, j)
<1>0. m \in Nat /\ m \in 0 .. Len(ls)
  BY LenProperties
<1>1. \A i \in 1 .. m : StepUpTo(ls, m, i) \in StepRecords
  BY <1>0, StepUpToType
<1>2. v \in Seq(StepRecords) /\ Len(v) = m /\ \A i \in 1 .. m : v[i] = StepUpTo(ls, m, i)
  <2>. HIDE DEF m
  <2>. QED
    BY <1>0, <1>1
<1>3. ASSUME NEW n \in 0 .. m PROVE StepsOf(ls, n, j) = Collected(v, n, S)
  <2>1. \A i \in 1 .. n : v[i] = StepUpTo(ls, m, i)
    BY <1>0, <1>2
  <2>. HIDE DEF v
  <2>2. [i \in 1 .. n |-> IF i \in S THEN <<v[i]>> ELSE <<>>]
          = [i \in 1 .. n |-> IF i \in S THEN <<StepUpTo(ls, m, i)>> ELSE <<>>]
    BY <2>1
  <2>. QED
    BY <2>2 DEF StepsOf, Collected
<1>4. p \in 0 .. m /\ p - 1 \in 0 .. m /\ p \in 1 .. Len(v)
  BY <1>0, <1>2
<1>. HIDE DEF v
<1>5. /\ Collected(v, p - 1, S) \in Seq(StepRecords)
      /\ p \in S => Collected(v, p, S) = Append(Collected(v, p - 1, S), v[p])
      /\ p \notin S => Collected(v, p, S) = Collected(v, p - 1, S)
  BY <1>2, <1>4, CollectedNext
<1>. QED
  BY <1>2, <1>3, <1>4, <1>5

LEMMA NoStepsYet ==
    ASSUME NEW ls, NEW n \in Nat, NEW j, StepLinesOf(ls, j) \cap 1 .. n = {}
    PROVE  StepsOf(ls, n, j) = <<>>
<1>. DEFINE L == [i \in 1 .. n |-> IF i \in StepLinesOf(ls, j)
                                   THEN <<StepUpTo(ls, Len(ls), i)>> ELSE <<>>]
<1>1. \A i \in 1 .. n : L[i] = <<>> /\ <<>> \in Seq(StepRecords)
  OBVIOUS
<1>2. L = [i \in 1 .. n |-> <<>>]
  BY <1>1
<1>3. L \in Seq(Seq(StepRecords)) /\ Len(L) = n
  BY <1>1, <1>2
<1>. HIDE DEF L
<1>4. FlattenSeq(L) = <<>>
  BY <1>1, <1>3, FlattenNothing
<1>. QED
  BY <1>4 DEF StepsOf, L

(* What the next line does to the variables of the whole pipeline.         *)
LEMMA EnvOneLineFurther ==
    ASSUME NEW ls \in Seq(Lines), NEW p \in 1 .. Len(ls)
    PROVE  UnderEnv(ls, p + 1)
             <=> IF ls[p].indent = 0 /\ ls[p].kind # "blank" THEN ls[p].kind = "env"
                 ELSE UnderEnv(ls, p)
<1>1. p \in Nat /\ p + 1 - 1 = p /\ Len(ls) \in Nat
  BY LenProperties
<1>2. ASSUME ls[p].indent = 0, ls[p].kind = "env" PROVE UnderEnv(ls, p + 1)
  <2>1. p \in 1 .. p /\ p + 1 .. p = {}
    BY <1>1
  <2>. QED
    BY <1>1, <1>2, <2>1 DEF UnderEnv
<1>3. ASSUME UnderEnv(ls, p + 1), ~(ls[p].indent = 0 /\ ls[p].kind = "env")
      PROVE  UnderEnv(ls, p) /\ (ls[p].indent = 0 => ls[p].kind = "blank")
  <2>1. PICK k \in 1 .. p :
            /\ ls[k].indent = 0 /\ ls[k].kind = "env"
            /\ \A m \in k + 1 .. p : ls[m].indent = 0 => ls[m].kind = "blank"
    BY <1>1, <1>3 DEF UnderEnv
  <2>2. k \in 1 .. p - 1 /\ p \in k + 1 .. p /\ k + 1 .. p - 1 \subseteq k + 1 .. p
    BY <1>1, <1>3, <2>1
  <2>. QED
    BY <2>1, <2>2 DEF UnderEnv
<1>4. ASSUME UnderEnv(ls, p), ls[p].indent = 0 => ls[p].kind = "blank" PROVE UnderEnv(ls, p + 1)
  <2>1. PICK k \in 1 .. p - 1 :
            /\ ls[k].indent = 0 /\ ls[k].kind = "env"
            /\ \A m \in k + 1 .. p - 1 : ls[m].indent = 0 => ls[m].kind = "blank"
    BY <1>4 DEF UnderEnv
  <2>2. k \in 1 .. p /\ \A m \in k + 1 .. p : m \in k + 1 .. p - 1 \/ m = p
    BY <1>1
  <2>. QED
    BY <1>1, <1>4, <2>1, <2>2 DEF UnderEnv
<1>. QED
  BY <1>2, <1>3, <1>4

(* The values of a plain job among the first n lines.                      *)
JobRead(lines, n, j, image, r) ==
    /\ r.image = IF \E i \in KeyLines(lines, j, {"image"}) : i <= n THEN image ELSE Unset
    /\ r.dependsOn = Listed(lines, n, Items(lines, j, 4))
    /\ r.env = {}

LEMMA JobReadNext ==
    ASSUME NEW ls \in Seq(Lines), NEW p \in 1 .. Len(ls), NEW j, NEW image, NEW r, NEW r2,
           JobRead(ls, p - 1, j, image, r), r2.env = r.env,
           p \in KeyLines(ls, j, {"image"}) => r2.image = image,
           p \notin KeyLines(ls, j, {"image"}) => r2.image = r.image,
           p \in Items(ls, j, 4) => r2.dependsOn = Append(r.dependsOn, ls[p].text),
           p \notin Items(ls, j, 4) => r2.dependsOn = r.dependsOn
    PROVE  JobRead(ls, p, j, image, r2)
<1>1. \A i \in KeyLines(ls, j, {"image"}) : i \in Nat
  BY DEF KeyLines
<1>2. p \in Nat
  BY LenProperties
<1>3. \A i \in KeyLines(ls, j, {"image"}) : i <= p <=> i <= p - 1 \/ i = p
  BY <1>1, <1>2
<1>4. r2.image = IF \E i \in KeyLines(ls, j, {"image"}) : i <= p THEN image ELSE Unset
  BY <1>2, <1>3 DEF JobRead
<1>5. r2.dependsOn = Listed(ls, p, Items(ls, j, 4))
  BY ListedNext DEF JobRead
<1>. QED
  BY <1>4, <1>5 DEF JobRead

(* The step that is being read, and the steps before it.                   *)
StepInWork(lines, n, j, k, c, steps) ==
    /\ k \in StepLinesOf(lines, j) /\ k \in 1 .. n
    /\ \A m \in k + 1 .. n : Inside(lines[m]) /\ ~StepLine(lines[m])
    /\ c = "step-env" <=> \E m \in KeysOfStep(lines, k, "env") : m <= n
    /\ \E done \in Seq(StepRecords) :
          /\ steps = Append(done, StepUpTo(lines, n, k))
          /\ StepsOf(lines, n, j) = Append(done, StepUpTo(lines, Len(lines), k))

(* A step that ends here is read whole.                                    *)
LEMMA StepEnds ==
    ASSUME NEW ls \in Seq(Lines), NEW p \in 1 .. Len(ls), NEW j, NEW k, NEW c, NEW steps,
           StepInWork(ls, p - 1, j, k, c, steps), ~(Inside(ls[p]) /\ ~StepLine(ls[p]))
    PROVE  steps = StepsOf(ls, p - 1, j)
<1>1. k \in 1 .. p - 1 /\ k \in 1 .. Len(ls) /\ p - 1 \in 0 .. Len(ls)
  BY LenProperties DEF StepInWork, StepLinesOf
<1>2. \A i \in StepBody(ls, k) : i \in 1 .. p - 1
  BY <1>1, BodyOneLineFurther DEF StepInWork
<1>3. StepUpTo(ls, p - 1, k) = StepUpTo(ls, Len(ls), k)
  BY <1>1, <1>2, StepIsWhole
<1>. QED
  BY <1>3 DEF StepInWork

(* The last of some steps is replaced.                                     *)
LEMMA LastReplaced ==
    ASSUME NEW T, NEW s \in Seq(T), NEW x \in T, NEW y \in T
    PROVE  /\ Len(Append(s, x)) = Len(s) + 1 /\ Append(s, x)[Len(s) + 1] = x
           /\ [Append(s, x) EXCEPT ![Len(s) + 1] = y] = Append(s, y)
<1>. DEFINE n == Len(s)
            r == [Append(s, x) EXCEPT ![n + 1] = y]
            t == Append(s, y)
<1>0. n \in Nat
  BY LenProperties
<1>1. /\ Append(s, x) \in Seq(T) /\ Len(Append(s, x)) = n + 1 /\ Append(s, x)[n + 1] = x
      /\ \A i \in 1 .. n : Append(s, x)[i] = s[i]
  BY AppendProperties
<1>2. /\ t \in Seq(T) /\ Len(t) = n + 1 /\ t[n + 1] = y
      /\ \A i \in 1 .. n : t[i] = s[i]
  BY AppendProperties
<1>3. r \in Seq(T) /\ Len(r) = n + 1 /\ \A i \in 1 .. n + 1 : r[i] = IF i = n + 1 THEN y ELSE Append(s, x)[i]
  <2>. DEFINE a == Append(s, x)
  <2>1. a \in Seq(T) /\ n + 1 \in 1 .. Len(a) /\ Len(a) = n + 1 /\ r = [a EXCEPT ![n + 1] = y]
    BY <1>0, <1>1
  <2>. HIDE DEF a, n, r
  <2>2. /\ r \in Seq(T) /\ Len(r) = Len(a)
        /\ \A i \in 1 .. Len(a) : r[i] = IF i = n + 1 THEN y ELSE a[i]
    BY <2>1, ExceptSeq
  <2>. QED
    BY <2>1, <2>2 DEF a
<1>. HIDE DEF r, t, n
<1>4. \A i \in 1 .. n + 1 : r[i] = t[i]
  <2>1. TAKE i \in 1 .. n + 1
  <2>2. CASE i = n + 1
    BY <1>0, <1>2, <1>3, <2>2
  <2>3. CASE i # n + 1
    <3>1. i \in 1 .. n
      BY <1>0, <2>3
    <3>. QED
      BY <1>1, <1>2, <1>3, <2>3, <3>1
  <2>. QED
    BY <2>2, <2>3
<1>5. r = t
  BY <1>2, <1>3, <1>4, SeqEqual
<1>. QED
  BY <1>1, <1>5 DEF r, t, n

(* One more line of the step that is being read.                           *)
LEMMA StepGoesOn ==
    ASSUME NEW ls \in Seq(Lines), NEW p \in 1 .. Len(ls), NEW j, NEW k, NEW c, NEW c2,
           NEW steps, NEW steps2,
           StepInWork(ls, p - 1, j, k, c, steps), Inside(ls[p]), ~StepLine(ls[p]),
           steps2 = [steps EXCEPT ![Len(steps)] = StepUpTo(ls, p, k)],
           c2 = "step-env" <=> c = "step-env" \/ p \in KeysOfStep(ls, k, "env")
    PROVE  /\ StepInWork(ls, p, j, k, c2, steps2)
           /\ Len(steps2) = Len(steps)
<1>0. p \in Nat /\ p + 1 - 1 = p /\ p - 1 \in 0 .. Len(ls) /\ p \in 0 .. Len(ls) /\ Len(ls) \in Nat
      /\ Len(ls) \in 0 .. Len(ls)
  BY LenProperties
<1>1. k \in 1 .. p - 1 /\ k \in 1 .. p /\ k \in 1 .. Len(ls)
  BY <1>0 DEF StepInWork, StepLinesOf
<1>2. \A m \in k + 1 .. p : Inside(ls[m]) /\ ~StepLine(ls[m])
  BY <1>1, BodyOneLineFurther DEF StepInWork
<1>3. c2 = "step-env" <=> \E m \in KeysOfStep(ls, k, "env") : m <= p
  <2>1. \A m \in KeysOfStep(ls, k, "env") : m \in Nat
    BY <1>0, <1>1 DEF KeysOfStep, StepBody
  <2>2. \A m \in KeysOfStep(ls, k, "env") : m <= p <=> m <= p - 1 \/ m = p
    BY <1>0, <2>1
  <2>. QED
    BY <1>0, <2>2 DEF StepInWork
<1>4. PICK done \in Seq(StepRecords) :
          /\ steps = Append(done, StepUpTo(ls, p - 1, k))
          /\ StepsOf(ls, p - 1, j) = Append(done, StepUpTo(ls, Len(ls), k))
  BY DEF StepInWork
<1>5. StepUpTo(ls, p - 1, k) \in StepRecords /\ StepUpTo(ls, p, k) \in StepRecords
  BY <1>0, <1>1, StepUpToType
<1>6. /\ Len(steps) = Len(done) + 1 /\ steps2 = Append(done, StepUpTo(ls, p, k))
      /\ Len(steps2) = Len(done) + 1
  BY <1>4, <1>5, LastReplaced
<1>7. StepsOf(ls, p, j) = StepsOf(ls, p - 1, j)
  BY StepsOfNext DEF StepLinesOf
<1>8. \E d \in Seq(StepRecords) :
         /\ steps2 = Append(d, StepUpTo(ls, p, k))
         /\ StepsOf(ls, p, j) = Append(d, StepUpTo(ls, Len(ls), k))
  BY <1>4, <1>6, <1>7
<1>9. k \in StepLinesOf(ls, j)
  BY DEF StepInWork
<1>. QED
  <2>1. Len(steps2) = Len(steps)
    BY <1>6
  <2>. QED
    BY <1>1, <1>2, <1>3, <1>8, <1>9, <2>1 DEF StepInWork

(* A job is nowhere before the line that opens it.                         *)
LEMMA NothingBeforeTitle ==
    ASSUME NEW ls \in Seq(Lines), NEW j, PlainJobText(ls, j), NEW p \in TitlesOf(ls, j),
           NEW i \in 1 .. p
    PROVE  ~UnderJob(ls, i, j)
<1>. SUFFICES ASSUME UnderJob(ls, i, j) PROVE FALSE
  OBVIOUS
<1>0. p \in 1 .. Len(ls) /\ Len(ls) \in Nat
  BY LenProperties DEF TitlesOf
<1>1. PICK k \in 1 .. i - 1 : TitleLine(ls[k]) /\ ls[k].text = j /\ UnderJobs(ls, k)
  BY DEF UnderJob
<1>2. k \in TitlesOf(ls, j)
  BY <1>0, <1>1 DEF TitlesOf
<1>3. k = p
  BY <1>2 DEF PlainJobText
<1>. QED
  BY <1>0, <1>1, <1>3

LEMMA NewJobRead ==
    ASSUME NEW ls \in Seq(Lines), NEW j, PlainJobText(ls, j), NEW p \in TitlesOf(ls, j), NEW image
    PROVE  /\ JobRead(ls, p, j, image, EmptyJob)
           /\ StepsOf(ls, p, j) = <<>>
           /\ \A kinds : \A i \in KeyLines(ls, j, kinds) : ~(i <= p)
<1>0. p \in 1 .. Len(ls) /\ Len(ls) \in Nat /\ p \in Nat /\ p + 1 - 1 = p
  BY LenProperties DEF TitlesOf
<1>1. \A i \in 1 .. p : ~UnderJob(ls, i, j)
  BY NothingBeforeTitle
<1>2. \A key : \A i \in 1 .. p : ~UnderKey(ls, i, j, key)
  BY <1>0, <1>1, KeyOfJob
<1>3. \A kinds : \A i \in KeyLines(ls, j, kinds) : ~(i <= p)
  <2>1. \A kinds : \A i \in KeyLines(ls, j, kinds) : i \in 1 .. Len(ls) /\ i \notin 1 .. p
    BY <1>1 DEF KeyLines
  <2>. QED
    BY <1>0, <2>1
<1>4. Items(ls, j, 4) \cap 1 .. p = {} /\ StepLinesOf(ls, j) \cap 1 .. p = {}
  BY <1>2 DEF Items, StepLinesOf
<1>5. Listed(ls, p, Items(ls, j, 4)) = <<>> /\ StepsOf(ls, p, j) = <<>>
  BY <1>0, <1>4, ListedNone, NoStepsYet
<1>6. EmptyJob.image = Unset /\ EmptyJob.dependsOn = <<>> /\ EmptyJob.env = {}
  BY DEF EmptyJob
<1>. QED
  BY <1>0, <1>3, <1>5, <1>6 DEF JobRead

-----------------------------------------------------------------------------
(* What the reader has of the whole pipeline before line p.                *)
TopRead(lines, p, c, n, e, means) ==
    /\ c = "env" <=> UnderEnv(lines, p)
    /\ n = IF \E i \in NameLines(lines) : i <= p - 1 THEN means.name ELSE Unset
    /\ e = {lines[i].text : i \in GlobalLines(lines) \cap 1 .. p - 1}

LEMMA TopNext ==
    ASSUME NEW ls \in Seq(Lines), NEW p \in 1 .. Len(ls), NEW c, NEW c2, NEW n, NEW n2, NEW e, NEW e2,
           NEW means, TopRead(ls, p, c, n, e, means),
           c2 = "env" <=> IF ls[p].indent = 0 /\ ls[p].kind # "blank" THEN ls[p].kind = "env"
                          ELSE c = "env",
           p \in NameLines(ls) => n2 = means.name,
           p \notin NameLines(ls) => n2 = n,
           p \in GlobalLines(ls) => e2 = e \cup {ls[p].text},
           p \notin GlobalLines(ls) => e2 = e
    PROVE  TopRead(ls, p + 1, c2, n2, e2, means)
<1>0. p \in Nat /\ p + 1 - 1 = p /\ \A i : i \in 1 .. p <=> i \in 1 .. p - 1 \/ i = p
  BY LenProperties
<1>1. c2 = "env" <=> UnderEnv(ls, p + 1)
  BY EnvOneLineFurther DEF TopRead
<1>2. \A i \in NameLines(ls) : i <= p <=> i <= p - 1 \/ i = p
  BY <1>0 DEF NameLines
<1>3. n2 = IF \E i \in NameLines(ls) : i <= p THEN means.name ELSE Unset
  <2>1. CASE p \in NameLines(ls)
    BY <1>2, <2>1
  <2>2. CASE p \notin NameLines(ls)
    BY <1>2, <2>2 DEF TopRead
  <2>. QED
    BY <2>1, <2>2
<1>4. e2 = {ls[i].text : i \in GlobalLines(ls) \cap 1 .. p}
  <2>1. e = {ls[i].text : i \in GlobalLines(ls) \cap 1 .. p - 1}
    BY DEF TopRead
  <2>2. CASE p \in GlobalLines(ls)
    BY <1>0, <2>1, <2>2
  <2>3. CASE p \notin GlobalLines(ls)
    BY <1>0, <2>1, <2>3
  <2>. QED
    BY <2>2, <2>3
<1>. QED
  BY <1>0, <1>1, <1>3, <1>4 DEF TopRead

(* The plain job j, with the line the reader is at; the step in work is    *)
(* told apart.                                                             *)
InSteps(c) == c \in {"job-steps", "step", "step-env"}
InAStep(c) == c \in {"step", "step-env"}

StepsRead(lines, p, j, c, k, steps) ==
    IF InAStep(c)
    THEN k = Len(steps) /\ \E i \in 1 .. Len(lines) : StepInWork(lines, p - 1, j, i, c, steps)
    ELSE steps = StepsOf(lines, p - 1, j)

PlainSoFar ==
    /\ doc.plain =>
         /\ TopRead(doc.lines, pos, context, name, env, doc.means)
         /\ context # "job-env"
         /\ InJob => (InSteps(context)
                        <=> \E k \in KeyLines(doc.lines, currentJob, {"steps"}) : k <= pos - 1)
         /\ InJob => StepsRead(doc.lines, pos, currentJob, context, currentStep,
                               jobs[currentJob].steps)
         /\ \A j \in DOMAIN jobs :
               /\ JobRead(doc.lines, pos - 1, j, doc.means.jobs[j].image, jobs[j])
               /\ (InJob /\ j = currentJob) \/ jobs[j].steps = StepsOf(doc.lines, pos - 1, j)
    /\ PlainIsExact

PlainInv == WholeInv /\ PlainSoFar

LEMMA InitPlain == ReaderInit => PlainSoFar
<1>. SUFFICES ASSUME ReaderInit PROVE PlainSoFar
  OBVIOUS
<1>1. /\ context = "root" /\ DOMAIN jobs = {} /\ pipeline = NotYet /\ pos = 1
      /\ name = Unset /\ env = {}
  BY DEF ReaderInit
<1>2. ~UnderEnv(doc.lines, 1)
  BY DEF UnderEnv
<1>3. ~\E i \in NameLines(doc.lines) : i <= 1 - 1
  BY DEF NameLines
<1>4. TopRead(doc.lines, pos, context, name, env, doc.means)
  BY <1>1, <1>2, <1>3 DEF TopRead
<1>. QED
  BY <1>1, <1>4 DEF PlainSoFar, PlainIsExact, Submitted, InJob

(* A line that is of no value of a job, and of no step.                    *)
LEMMA JobUntouched ==
    ASSUME NEW ls \in Seq(Lines), NEW p \in 1 .. Len(ls), NEW j, NEW image, NEW r,
           JobRead(ls, p - 1, j, image, r),
           p \notin KeyLines(ls, j, {"image"}), p \notin Items(ls, j, 4)
    PROVE  JobRead(ls, p, j, image, r)
  BY JobReadNext

(* The text has been read to its end.                                      *)
LEMMA PlainJobIsWhole ==
    ASSUME NEW d \in Documents, d.plain, NEW j \in JobsNamed(d.lines, Len(d.lines)),
           NEW r \in JobRecords,
           JobRead(d.lines, Len(d.lines), j, d.means.jobs[j].image, r),
           r.steps = StepsOf(d.lines, Len(d.lines), j)
    PROVE  r = d.means.jobs[j]
<1>. DEFINE ls == d.lines
            n == Len(ls)
            meant == d.means.jobs[j]
<1>0. ls \in Seq(Lines) /\ n \in Nat
  BY DocumentsAssumption, LenProperties
<1>1. /\ PlainJobText(ls, j)
      /\ {ls[i].text : i \in KeyLines(ls, j, {"image"})} = {meant.image}
      /\ meant = [image |-> meant.image, dependsOn |-> meant.dependsOn,
                  env |-> meant.env, steps |-> StepsOf(ls, n, j)]
  BY PlainAssumption
<1>3. /\ meant.dependsOn = Listed(ls, n, DepLines(ls, j))
      /\ meant.env = {ls[i].text : i \in EnvLines(ls, j)}
  BY JobMeaningAssumption
<1>4. /\ KeyLines(ls, j, {"env", "flow"}) = {} /\ Items(ls, j, 6) = {}
  BY <1>1 DEF PlainJobText
<1>5. KeyLines(ls, j, {"flow"}) = {} /\ KeyLines(ls, j, {"env"}) = {}
  BY <1>4 DEF KeyLines
<1>6. meant.dependsOn = Listed(ls, n, Items(ls, j, 4))
  <2>1. DepLines(ls, j) = Items(ls, j, 4)
    BY <1>4, <1>5 DEF DepLines
  <2>. QED
    BY <1>3, <2>1
<1>7. meant.env = {}
  <2>1. EnvLines(ls, j) = {}
    BY <1>5 DEF EnvLines, UnderKey
  <2>. QED
    BY <1>3, <2>1
<1>8. r.image = meant.image
  <2>1. PICK i \in KeyLines(ls, j, {"image"}) : TRUE
    BY <1>1
  <2>2. i <= n
    BY <1>0 DEF KeyLines
  <2>. QED
    BY <2>1, <2>2 DEF JobRead
<1>9. r.dependsOn = meant.dependsOn /\ r.env = meant.env /\ r.steps = StepsOf(ls, n, j)
  BY <1>6, <1>7 DEF JobRead
<1>10. r = [image |-> r.image, dependsOn |-> r.dependsOn, env |-> r.env, steps |-> r.steps]
  BY DEF JobRecords
<1>. QED
  BY <1>1, <1>8, <1>9, <1>10, Zenon
(* Every branch reads a line of a plain text as its place has it.           *)
LEMMA StepPlain == PlainInv /\ [ReaderNext]_readerVars => PlainSoFar'
<1>. SUFFICES ASSUME PlainInv, [ReaderNext]_readerVars PROVE PlainSoFar'
  OBVIOUS
<1>. DEFINE ls == doc.lines
            job == jobs[currentJob]
            Image(j) == doc.means.jobs[j].image
<1>0. /\ ls \in Seq(Lines) /\ pos \in 1 .. Len(ls) + 1 /\ doc \in Documents
      /\ context = "jobs" \/ InJob <=> UnderJobs(ls, pos)
      /\ InJob => currentJob \in DOMAIN jobs /\ job \in JobRecords /\ UnderJob(ls, pos, currentJob)
      /\ context \in {"step", "step-env"} => currentStep \in 1 .. Len(job.steps)
      /\ AreJobs(jobs) /\ context \in Contexts
  BY DEF PlainInv, WholeInv, OwnInv, OwnSoFar, FoundInv, ReaderInv, TypeOK, NeverThrows, ReadSoFar,
         AreJobs, InJob
<1>1. /\ \A j : UnderJob(ls, pos, j) => InJob /\ currentJob = j
      /\ DOMAIN jobs = JobsNamed(ls, pos - 1)
  BY DEF PlainInv, WholeInv, PartsSoFar, OwnInv, FoundInv, ReadSoFar
<1>p. /\ PlainIsExact
      /\ doc.plain =>
           /\ TopRead(ls, pos, context, name, env, doc.means)
           /\ context # "job-env"
           /\ InJob => (InSteps(context) <=> \E k \in KeyLines(ls, currentJob, {"steps"}) : k <= pos - 1)
           /\ InJob => StepsRead(ls, pos, currentJob, context, currentStep, job.steps)
           /\ \A j \in DOMAIN jobs :
                 /\ JobRead(ls, pos - 1, j, Image(j), jobs[j])
                 /\ (InJob /\ j = currentJob) \/ jobs[j].steps = StepsOf(ls, pos - 1, j)
  BY DEF PlainInv, PlainSoFar
<1>3. DOMAIN jobs \subseteq JobsNamed(ls, Len(ls))
  <2>1. 1 .. pos - 1 \subseteq 1 .. Len(ls)
    BY <1>0, LenProperties
  <2>. QED
    BY <1>1, <2>1 DEF JobsNamed
<1>4. doc.plain => \A j \in JobsNamed(ls, Len(ls)) :
         /\ PlainJobText(ls, j) /\ TemplateDepths(ls, j)
         /\ {ls[i].text : i \in KeyLines(ls, j, {"image"})} = {Image(j)}
  <2>1. \A j \in JobsNamed(ls, Len(ls)) : TemplateDepths(ls, j)
    BY <1>0, ShapeAssumption
  <2>2. doc.plain => \A j \in JobsNamed(ls, Len(ls)) :
           /\ PlainJobText(ls, j)
           /\ {ls[i].text : i \in KeyLines(ls, j, {"image"})} = {Image(j)}
    BY <1>0, PlainAssumption
  <2>. QED
    BY <2>1, <2>2
<1>a. line = ls[pos]
  BY DEF line
<1>b. ASSUME Turn PROVE pos \in 1 .. Len(ls) /\ line \in Lines /\ pos \in Nat /\ pos + 1 - 1 = pos
  <2>1. pos \in 1 .. Len(ls)
    BY <1>0, <1>b DEF Turn
  <2>. QED
    BY <1>0, <1>a, <2>1, ElementOfSeq
<1>c. /\ InJob => context # "root" /\ context # "env" /\ context # "jobs"
      /\ InAStep(context) => InSteps(context)
      /\ InSteps(context) => InJob
  BY DEF InJob, InAStep, InSteps
\* What a turn has to show.
<1>turn. ASSUME Turn,
                doc.plain =>
                  /\ TopRead(ls, pos + 1, context', name', env', doc.means)
                  /\ context' # "job-env"
                  /\ InJob' => (InSteps(context')
                                  <=> \E k \in KeyLines(ls, currentJob', {"steps"}) : k <= pos)
                  /\ InJob' => StepsRead(ls, pos + 1, currentJob', context', currentStep',
                                         jobs'[currentJob'].steps)
                  /\ \A j \in DOMAIN jobs' :
                        /\ JobRead(ls, pos, j, Image(j), jobs'[j])
                        /\ (InJob' /\ j = currentJob') \/ jobs'[j].steps = StepsOf(ls, pos, j)
         PROVE  PlainSoFar'
  <2>1. pos' = pos + 1 /\ doc' = doc /\ pipeline' = pipeline /\ pos + 1 - 1 = pos
    BY <1>b, <1>turn DEF Turn
  <2>2. PlainIsExact'
    BY <1>p, <2>1 DEF PlainIsExact, Submitted
  <2>3. pos' - 1 = pos
    BY <1>b, <1>turn, <2>1
  <2>. QED
    BY <1>turn, <2>1, <2>2, <2>3, Zenon DEF PlainSoFar
\* A line that is of the whole pipeline, or of nothing, leaves the values of a job.
<1>apart. ASSUME Turn, doc.plain, NEW j \in DOMAIN jobs,
                 ~UnderJob(ls, pos, j) \/ line.indent \in {0, 2}
          PROVE  /\ JobRead(ls, pos, j, Image(j), jobs[j])
                 /\ StepsOf(ls, pos, j) = StepsOf(ls, pos - 1, j)
  <2>1. pos \notin KeyLines(ls, j, {"image"})
    BY <1>a, <1>apart DEF KeyLines
  <2>2. pos \notin Items(ls, j, 4) /\ pos \notin StepLinesOf(ls, j)
    BY <1>0, <1>a, <1>apart, KeyOfJob DEF Items, StepLinesOf, StepLine
  <2>3. JobRead(ls, pos - 1, j, Image(j), jobs[j])
    BY <1>p, <1>apart
  <2>. QED
    BY <1>0, <1>b, <1>apart, <2>1, <2>2, <2>3, JobUntouched, StepsOfNext
\* The steps before a line that is in none.
<1>done. ASSUME Turn, doc.plain, InJob,
                ~(Inside(line) /\ ~StepLine(line)) \/ ~InAStep(context)
         PROVE  job.steps = StepsOf(ls, pos - 1, currentJob)
  <2>1. StepsRead(ls, pos, currentJob, context, currentStep, job.steps)
    BY <1>p, <1>done
  <2>2. CASE InAStep(context)
    <3>1. PICK k \in 1 .. Len(ls) : StepInWork(ls, pos - 1, currentJob, k, context, job.steps)
      BY <2>1, <2>2 DEF StepsRead
    <3>. QED
      BY <1>0, <1>a, <1>b, <1>done, <2>2, <3>1, StepEnds
  <2>3. CASE ~InAStep(context)
    BY <2>1, <2>3 DEF StepsRead
  <2>. QED
    BY <2>2, <2>3
\* A line in no job, or that ends the one it is in.
<1>out. ASSUME Turn, doc.plain, UNCHANGED jobs, ~InJob', context' # "job-env",
               ~InJob \/ (line.indent = 0 /\ line.kind # "blank"),
               context' = "env" <=> IF line.indent = 0 /\ line.kind # "blank" THEN line.kind = "env"
                                    ELSE context = "env",
               pos \in NameLines(ls) => name' = doc.means.name,
               pos \notin NameLines(ls) => name' = name,
               pos \in GlobalLines(ls) => env' = env \cup {line.text},
               pos \notin GlobalLines(ls) => env' = env
        PROVE  PlainSoFar'
  <2>1. TopRead(ls, pos + 1, context', name', env', doc.means)
    BY <1>0, <1>a, <1>b, <1>p, <1>out, TopNext
  <2>2. ASSUME NEW j \in DOMAIN jobs
        PROVE  /\ JobRead(ls, pos, j, Image(j), jobs[j])
               /\ jobs[j].steps = StepsOf(ls, pos, j)
    <3>1. ~UnderJob(ls, pos, j) \/ line.indent \in {0, 2}
      BY <1>1, <1>out
    <3>2. JobRead(ls, pos, j, Image(j), jobs[j]) /\ StepsOf(ls, pos, j) = StepsOf(ls, pos - 1, j)
      BY <1>apart, <1>out, <3>1
    <3>3. CASE InJob /\ j = currentJob
      <4>1. ~Inside(line)
        BY <1>out, <3>3 DEF Inside
      <4>. QED
        BY <1>done, <1>out, <3>2, <3>3, <4>1
    <3>4. CASE ~(InJob /\ j = currentJob)
      BY <1>p, <1>out, <3>2, <3>4
    <3>. QED
      BY <3>3, <3>4
  <2>. QED
    BY <1>out, <1>turn, <2>1, <2>2
\* A line inside the current job.
<1>in. ASSUME Turn, doc.plain, Inside(line), InJob, InJob', currentJob' = currentJob,
              name' = name, env' = env,
              NEW c2, c2 = context', c2 # "job-env",
              InSteps(c2) <=> InSteps(context) \/ pos \in KeyLines(ls, currentJob, {"steps"}),
              NEW r, jobs' = [jobs EXCEPT ![currentJob] = r],
              JobRead(ls, pos, currentJob, Image(currentJob), r),
              StepsRead(ls, pos + 1, currentJob, c2, currentStep', r.steps)
       PROVE  PlainSoFar'
  <2>1. TopRead(ls, pos + 1, context', name', env', doc.means)
    <3>1. c2 # "env" /\ context # "env"
      BY <1>in DEF InJob
    <3>2. ~(line.indent = 0 /\ line.kind # "blank")
      BY <1>in DEF Inside
    <3>3. pos \notin NameLines(ls)
      BY <1>a, <3>2 DEF NameLines
    <3>4. pos \notin GlobalLines(ls)
      BY <1>p, <1>in, <3>1 DEF GlobalLines, TopRead
    <3>. QED
      BY <1>0, <1>a, <1>b, <1>p, <1>in, <3>1, <3>2, <3>3, <3>4, TopNext
  <2>2. /\ DOMAIN jobs' = DOMAIN jobs /\ jobs'[currentJob] = r
        /\ \A j \in DOMAIN jobs : j # currentJob => jobs'[j] = jobs[j]
    BY <1>0, <1>in DEF AreJobs
  <2>3. ASSUME NEW j \in DOMAIN jobs, j # currentJob
        PROVE  JobRead(ls, pos, j, Image(j), jobs[j]) /\ jobs[j].steps = StepsOf(ls, pos, j)
    <3>1. ~UnderJob(ls, pos, j)
      BY <1>1, <2>3
    <3>. QED
      BY <1>apart, <1>in, <1>p, <2>3, <3>1
  <2>4. InSteps(context') <=> \E k \in KeyLines(ls, currentJob, {"steps"}) : k <= pos
    <3>1. \A k \in KeyLines(ls, currentJob, {"steps"}) : k <= pos <=> k <= pos - 1 \/ k = pos
      BY <1>b, <1>in DEF KeyLines
    <3>. QED
      BY <1>p, <1>in, <3>1
  <2>. HIDE DEF Image, job
  <2>5. \A j \in DOMAIN jobs' :
           /\ JobRead(ls, pos, j, Image(j), jobs'[j])
           /\ (InJob' /\ j = currentJob') \/ jobs'[j].steps = StepsOf(ls, pos, j)
    BY <1>in, <2>2, <2>3
  <2>6. StepsRead(ls, pos + 1, currentJob', context', currentStep', jobs'[currentJob'].steps)
    BY <1>in, <2>2
  <2>. QED
    BY <1>in, <1>turn, <2>1, <2>4, <2>5, <2>6
\* The values of the current job, on a line that has none of them.
<1>vals. ASSUME Turn, doc.plain, InJob, NEW r,
                r.image = job.image, r.dependsOn = job.dependsOn, r.env = job.env,
                line.indent = 4 => line.kind \notin {"image", "item"}
         PROVE  JobRead(ls, pos, currentJob, Image(currentJob), r)
  <2>1. pos \notin KeyLines(ls, currentJob, {"image"}) /\ pos \notin Items(ls, currentJob, 4)
    BY <1>a, <1>vals DEF KeyLines, Items
  <2>2. JobRead(ls, pos - 1, currentJob, Image(currentJob), job)
    BY <1>0, <1>p, <1>vals
  <2>. QED
    BY <1>0, <1>b, <1>vals, <2>1, <2>2, JobReadNext
\* The step that is being read.
<1>body. ASSUME Turn, doc.plain, InAStep(context), Inside(line), ~StepLine(line)
         PROVE  \E k \in 1 .. Len(ls) :
                   /\ StepInWork(ls, pos - 1, currentJob, k, context, job.steps)
                   /\ pos \in StepBody(ls, k) /\ PlainStep(ls, k)
                   /\ currentStep = Len(job.steps)
                   /\ job.steps[currentStep] = StepUpTo(ls, pos - 1, k)
                   /\ context = "step-env" <=> \E m \in KeysOfStep(ls, k, "env") : m < pos
  <2>0. InJob /\ currentJob \in JobsNamed(ls, Len(ls))
    BY <1>0, <1>3, <1>c, <1>body
  <2>1. PICK k \in 1 .. Len(ls) : StepInWork(ls, pos - 1, currentJob, k, context, job.steps)
    BY <1>p, <1>body, <2>0 DEF StepsRead
  <2>2. currentStep = Len(job.steps)
    BY <1>p, <1>body, <2>0 DEF StepsRead
  <2>3. k \in 1 .. pos - 1 /\ k \in StepLinesOf(ls, currentJob)
    BY <2>1 DEF StepInWork
  <2>4. pos \in StepBody(ls, k)
    BY <1>0, <1>a, <1>b, <1>body, <2>1, <2>3, BodyOneLineFurther DEF StepInWork
  <2>5. PlainStep(ls, k)
    BY <1>4, <1>body, <2>0, <2>3 DEF PlainJobText
  <2>6. job.steps[Len(job.steps)] = StepUpTo(ls, pos - 1, k)
    <3>1. PICK done \in Seq(StepRecords) : job.steps = Append(done, StepUpTo(ls, pos - 1, k))
      BY <2>1 DEF StepInWork
    <3>2. StepUpTo(ls, pos - 1, k) \in StepRecords
      <4>1. k \in 1 .. Len(ls) /\ pos - 1 \in 0 .. Len(ls)
        BY <1>b, <1>body, LenProperties
      <4>. QED
        BY <1>0, <4>1, StepUpToType
    <3>. QED
      BY <3>1, <3>2, LastReplaced
  <2>7. context = "step-env" <=> \E m \in KeysOfStep(ls, k, "env") : m < pos
    <3>1. \A m \in KeysOfStep(ls, k, "env") : m \in Nat
      BY <1>0, LenProperties DEF KeysOfStep, StepBody
    <3>2. \A m \in KeysOfStep(ls, k, "env") : m < pos <=> m <= pos - 1
      BY <1>b, <1>body, <3>1
    <3>. QED
      BY <2>1, <3>2 DEF StepInWork
  <2>. QED
    BY <2>1, <2>2, <2>4, <2>5, <2>6, <2>7
\* One line more of that step.
<1>more. ASSUME Turn, doc.plain, InAStep(context), Inside(line), ~StepLine(line),
                NEW k \in 1 .. Len(ls), StepInWork(ls, pos - 1, currentJob, k, context, job.steps),
                currentStep = Len(job.steps), NEW c2, InAStep(c2), NEW steps,
                steps = [job.steps EXCEPT ![currentStep] = StepUpTo(ls, pos, k)],
                c2 = "step-env" <=> context = "step-env" \/ pos \in KeysOfStep(ls, k, "env")
         PROVE  StepsRead(ls, pos + 1, currentJob, c2, currentStep, steps)
  <2>0. /\ ls \in Seq(Lines) /\ pos \in 1 .. Len(ls) /\ Inside(ls[pos]) /\ ~StepLine(ls[pos])
        /\ steps = [job.steps EXCEPT ![Len(job.steps)] = StepUpTo(ls, pos, k)]
    BY <1>0, <1>a, <1>b, <1>more
  <2>. HIDE DEF ls, job
  <2>1. StepInWork(ls, pos, currentJob, k, c2, steps) /\ Len(steps) = Len(job.steps)
    BY <1>more, <2>0, StepGoesOn
  <2>. USE DEF ls, job
  <2>. QED
    BY <1>b, <1>more, <2>1 DEF StepsRead
\* A line of the current job that adds nothing to it.
<1>quiet. ASSUME Turn, doc.plain, Inside(line), InJob, UNCHANGED <<progress, found>>,
                 line.indent = 4 => line.kind \notin {"image", "item", "steps"},
                 pos \notin StepLinesOf(ls, currentJob),
                 InAStep(context) => ~StepLine(line),
                 \A k \in 1 .. Len(ls) :
                    InAStep(context) /\ StepInWork(ls, pos - 1, currentJob, k, context, job.steps)
                      => /\ pos \notin KeysOfStep(ls, k, "run") /\ pos \notin VarLines(ls, k)
                         /\ pos \in KeysOfStep(ls, k, "env") => context = "step-env"
          PROVE  PlainSoFar'
  <2>1. /\ currentJob' = currentJob /\ currentStep' = currentStep /\ context' = context
        /\ name' = name /\ env' = env /\ jobs' = jobs /\ InJob'
    BY <1>quiet DEF progress, found, InJob
  <2>2. jobs' = [jobs EXCEPT ![currentJob] = job]
    BY <1>0, <1>quiet, <2>1 DEF AreJobs
  <2>3. pos \notin KeyLines(ls, currentJob, {"steps"})
    BY <1>a, <1>quiet DEF KeyLines
  <2>4. JobRead(ls, pos, currentJob, Image(currentJob), job)
    BY <1>vals, <1>quiet
  <2>5. CASE InAStep(context)
    <3>1. PICK k \in 1 .. Len(ls) :
             /\ StepInWork(ls, pos - 1, currentJob, k, context, job.steps)
             /\ currentStep = Len(job.steps)
             /\ job.steps[currentStep] = StepUpTo(ls, pos - 1, k)
      BY <1>body, <1>quiet, <2>5
    <3>2. /\ pos \notin KeysOfStep(ls, k, "run") /\ pos \notin VarLines(ls, k)
          /\ pos \in KeysOfStep(ls, k, "env") => context = "step-env"
      BY <1>quiet, <2>5, <3>1
    <3>3. StepUpTo(ls, pos, k) = StepUpTo(ls, pos - 1, k)
      BY <1>0, <1>b, <1>quiet, <3>2, StepUpToNext
    <3>4. job.steps \in Seq(StepRecords)
      BY <1>0, <1>quiet DEF JobRecords
    <3>5. job.steps = [job.steps EXCEPT ![currentStep] = StepUpTo(ls, pos, k)]
      BY <3>1, <3>3, <3>4
    <3>6. StepsRead(ls, pos + 1, currentJob, context, currentStep, job.steps)
      BY <1>more, <1>quiet, <2>5, <3>1, <3>2, <3>5
    <3>. QED
      BY <1>in, <1>p, <1>quiet, <2>1, <2>2, <2>3, <2>4, <3>6
  <2>6. CASE ~InAStep(context)
    <3>1. job.steps = StepsOf(ls, pos, currentJob)
      <4>1. job.steps = StepsOf(ls, pos - 1, currentJob)
        BY <1>done, <1>quiet, <2>6
      <4>. QED
        BY <1>0, <1>b, <1>quiet, <4>1, StepsOfNext
    <3>2. StepsRead(ls, pos + 1, currentJob, context, currentStep, job.steps)
      BY <1>b, <1>quiet, <2>6, <3>1 DEF StepsRead
    <3>. QED
      BY <1>in, <1>p, <1>quiet, <2>1, <2>2, <2>3, <2>4, <3>2
  <2>. QED
    BY <2>5, <2>6
<1>. HIDE DEF Image
<1>5. CASE RootLine
  <2>1. CASE doc.plain
    <3>1. /\ Turn /\ line.kind # "blank" /\ line.indent = 0 /\ UNCHANGED <<env, jobs>>
          /\ name' = IF line.kind = "name" THEN line.text ELSE name
          /\ context' = CASE line.kind = "name" -> "root"
                          [] line.kind = "env"  -> "env"
                          [] line.kind = "jobs" -> "jobs"
                          [] OTHER              -> context
      BY <1>5 DEF RootLine, Written
    <3>2. line.kind \notin {"name", "env", "jobs"} =>
             /\ ~InJob /\ context # "jobs"
             /\ ~UnderEnv(ls, pos)
      BY <1>0, <1>a, <1>b, <3>1, RootKey
    <3>3. context' = "env" <=> line.kind = "env"
      BY <1>p, <2>1, <3>1, <3>2 DEF TopRead
    <3>4. ~InJob' /\ context' # "job-env"
      BY <3>1, <3>2 DEF InJob
    <3>5. pos \in NameLines(ls) => name' = doc.means.name
      <4>1. ASSUME pos \in NameLines(ls) PROVE line.kind = "name" /\ line.text = doc.means.name
        <5>1. {ls[i].text : i \in NameLines(ls)} = {doc.means.name}
          BY <1>0, <2>1, PlainAssumption
        <5>. QED
          BY <1>a, <4>1, <5>1 DEF NameLines
      <4>. QED
        BY <3>1, <4>1
    <3>6. pos \notin NameLines(ls) => name' = name
      BY <1>a, <1>b, <3>1 DEF NameLines
    <3>7. pos \notin GlobalLines(ls)
      BY <1>a, <3>1 DEF GlobalLines
    <3>. QED
      BY <1>out, <2>1, <3>1, <3>3, <3>4, <3>5, <3>6, <3>7
  <2>2. CASE ~doc.plain
    BY <1>5, <1>turn, <2>2 DEF RootLine, Written
  <2>. QED
    BY <2>1, <2>2
<1>6. CASE EnvLine
  <2>1. CASE doc.plain
    <3>1. /\ Turn /\ line.kind # "blank" /\ context = "env" /\ line.indent = 2
          /\ env' = env \cup {line.text} /\ UNCHANGED <<progress, name, jobs>>
      BY <1>6 DEF EnvLine, Written, At
    <3>2. context' = "env" /\ ~InJob /\ ~InJob'
      BY <3>1 DEF progress, InJob
    <3>3. pos \notin NameLines(ls) /\ pos \in GlobalLines(ls)
      BY <1>a, <1>b, <1>p, <2>1, <3>1 DEF NameLines, GlobalLines, TopRead
    <3>. QED
      BY <1>out, <2>1, <3>1, <3>2, <3>3
  <2>2. CASE ~doc.plain
    BY <1>6, <1>turn, <2>2 DEF EnvLine, Written
  <2>. QED
    BY <2>1, <2>2
<1>7. CASE JobHeading
  <2>1. CASE doc.plain
    <3>1. PICK j0 : j0 = line.text
      OBVIOUS
    <3>2. /\ Turn /\ TitleLine(line) /\ line.indent = 2 /\ line.kind # "blank"
          /\ context = "jobs" \/ InJob
          /\ currentJob' = j0 /\ context' = "job" /\ UNCHANGED <<currentStep, name, env>>
          /\ jobs' = [j \in DOMAIN jobs \cup {j0} |-> IF j = j0 THEN EmptyJob ELSE jobs[j]]
      BY <1>7, <3>1 DEF JobHeading, Written, TitleLine
    <3>3. pos \in TitlesOf(ls, j0) /\ j0 \in JobsNamed(ls, Len(ls))
      BY <1>0, <1>a, <1>b, <3>1, <3>2 DEF TitlesOf, JobsNamed, TitleLine
    <3>4. /\ JobRead(ls, pos, j0, Image(j0), EmptyJob) /\ StepsOf(ls, pos, j0) = <<>>
          /\ \A k \in KeyLines(ls, j0, {"steps"}) : ~(k <= pos)
      BY <1>0, <1>4, <2>1, <3>3, NewJobRead
    <3>5. TopRead(ls, pos + 1, context', name', env', doc.means)
      <4>1. context # "env"
        BY <3>2 DEF InJob
      <4>2. pos \notin NameLines(ls) /\ pos \notin GlobalLines(ls)
        BY <1>a, <1>p, <2>1, <3>2, <4>1 DEF NameLines, GlobalLines, TopRead
      <4>. QED
        BY <1>0, <1>a, <1>b, <1>p, <2>1, <3>2, <4>1, <4>2, TopNext
    <3>6. ASSUME NEW j \in DOMAIN jobs
          PROVE  JobRead(ls, pos, j, Image(j), jobs[j]) /\ jobs[j].steps = StepsOf(ls, pos, j)
      <4>1. JobRead(ls, pos, j, Image(j), jobs[j]) /\ StepsOf(ls, pos, j) = StepsOf(ls, pos - 1, j)
        BY <1>apart, <2>1, <3>2 DEF Image
      <4>2. CASE InJob /\ j = currentJob
        <5>1. ~Inside(line)
          BY <3>2 DEF Inside
        <5>. QED
          BY <1>done, <2>1, <3>2, <4>1, <4>2, <5>1
      <4>3. CASE ~(InJob /\ j = currentJob)
        BY <1>p, <2>1, <4>1, <4>3
      <4>. QED
        BY <4>2, <4>3
    <3>7. \A j \in DOMAIN jobs' :
             /\ JobRead(ls, pos, j, Image(j), jobs'[j])
             /\ (InJob' /\ j = currentJob') \/ jobs'[j].steps = StepsOf(ls, pos, j)
      <4>1. \A j \in DOMAIN jobs' :
               j = j0 \/ (j \in DOMAIN jobs /\ jobs'[j] = jobs[j])
        BY <3>2
      <4>2. jobs'[j0] = EmptyJob /\ EmptyJob.steps = <<>>
        BY <3>2 DEF EmptyJob
      <4>. QED
        BY <3>4, <3>6, <4>1, <4>2
    <3>8. StepsRead(ls, pos + 1, currentJob', context', currentStep', jobs'[currentJob'].steps)
      <4>1. jobs'[currentJob'].steps = <<>> /\ pos + 1 - 1 = pos
        BY <1>b, <3>2 DEF EmptyJob
      <4>2. ~InAStep(context')
        BY <3>2 DEF InAStep
      <4>3. jobs'[currentJob'].steps = StepsOf(ls, pos, currentJob')
        BY <3>2, <3>4, <4>1
      <4>. QED
        BY <1>b, <3>2, <4>1, <4>2, <4>3 DEF StepsRead
    <3>9. InSteps(context') <=> \E k \in KeyLines(ls, currentJob', {"steps"}) : k <= pos
      BY <3>2, <3>4 DEF InSteps
    <3>. QED
      BY <1>turn, <3>2, <3>5, <3>7, <3>8, <3>9 DEF Image
  <2>2. CASE ~doc.plain
    BY <1>7, <1>turn, <2>2 DEF JobHeading, Written
  <2>. QED
    BY <2>1, <2>2
<1>8. CASE JobKey
  <2>1. CASE doc.plain
    <3>1. /\ Turn /\ line.kind # "blank" /\ context = "job" /\ line.indent = 4
          /\ jobs' = CASE line.kind = "image" -> [jobs EXCEPT ![currentJob].image = line.text]
                       [] line.kind = "item"  ->
                              [jobs EXCEPT ![currentJob].dependsOn = Append(@, line.text)]
                       [] OTHER               -> jobs
          /\ context' = CASE line.kind = "env"   -> "job-env"
                          [] line.kind = "steps" -> "job-steps"
                          [] OTHER               -> context
          /\ UNCHANGED <<currentJob, name, env>>
      BY <1>8 DEF JobKey, Written, At
    <3>2. /\ InJob /\ ~InAStep(context) /\ ~InSteps(context) /\ Inside(line) /\ ~StepLine(line)
          /\ currentJob \in DOMAIN jobs /\ UnderJob(ls, pos, currentJob)
          /\ currentJob \in JobsNamed(ls, Len(ls)) /\ job \in JobRecords
      <4>1. InJob
        BY <3>1 DEF InJob
      <4>2. ~InAStep(context) /\ ~InSteps(context)
        BY <3>1 DEF InAStep, InSteps
      <4>3. Inside(line) /\ ~StepLine(line)
        BY <3>1 DEF Inside, TitleLine, StepLine
      <4>. QED
        BY <1>0, <1>3, <4>1, <4>2, <4>3
    <3>3. \A kinds : pos \in KeyLines(ls, currentJob, kinds) <=> line.kind \in kinds
      BY <1>a, <1>b, <3>1, <3>2 DEF KeyLines
    <3>4. line.kind # "env"
      BY <1>4, <2>1, <3>2, <3>3 DEF PlainJobText
    <3>5. PICK c2 : c2 = context'
      OBVIOUS
    <3>6. c2 = (IF line.kind = "steps" THEN "job-steps" ELSE "job") /\ InJob'
      BY <3>1, <3>4, <3>5 DEF InJob
    <3>7. /\ c2 # "job-env" /\ ~InAStep(c2)
          /\ InSteps(c2) <=> InSteps(context) \/ pos \in KeyLines(ls, currentJob, {"steps"})
      BY <3>2, <3>3, <3>6 DEF InAStep, InSteps
    <3>8. PICK r : /\ jobs' = [jobs EXCEPT ![currentJob] = r]
                   /\ r.env = job.env /\ r.steps = job.steps
                   /\ r.image = IF line.kind = "image" THEN line.text ELSE job.image
                   /\ r.dependsOn = IF line.kind = "item" THEN Append(job.dependsOn, line.text)
                                                          ELSE job.dependsOn
      <4>1. CASE line.kind = "image"
        <5>1. jobs' = [jobs EXCEPT ![currentJob] = [job EXCEPT !.image = line.text]]
          BY <1>0, <3>1, <3>2, <4>1 DEF AreJobs
        <5>. DEFINE r == [job EXCEPT !.image = line.text]
        <5>2. /\ r.image = line.text /\ r.dependsOn = job.dependsOn /\ r.env = job.env
              /\ r.steps = job.steps
          BY <3>2 DEF JobRecords
        <5>. HIDE DEF r
        <5>. QED
          BY <4>1, <5>1, <5>2 DEF r
      <4>2. CASE line.kind = "item"
        <5>1. jobs' = [jobs EXCEPT ![currentJob] =
                          [job EXCEPT !.dependsOn = Append(job.dependsOn, line.text)]]
          BY <1>0, <3>1, <3>2, <4>2 DEF AreJobs
        <5>. DEFINE r == [job EXCEPT !.dependsOn = Append(job.dependsOn, line.text)]
        <5>2. /\ r.image = job.image /\ r.dependsOn = Append(job.dependsOn, line.text)
              /\ r.env = job.env /\ r.steps = job.steps
          BY <3>2 DEF JobRecords
        <5>. HIDE DEF r
        <5>. QED
          BY <4>2, <5>1, <5>2 DEF r
      <4>3. CASE line.kind \notin {"image", "item"}
        <5>1. jobs' = [jobs EXCEPT ![currentJob] = job]
          BY <1>0, <3>1, <3>2, <4>3 DEF AreJobs
        <5>. QED
          BY <4>3, <5>1
      <4>. QED
        BY <4>1, <4>2, <4>3
    <3>9. pos \in Items(ls, currentJob, 4) <=> line.kind = "item"
      <4>1. line.kind = "item" => UnderKey(ls, pos, currentJob, "depends_on")
        BY <1>4, <2>1, <3>2, <3>3 DEF TemplateDepths
      <4>. QED
        BY <1>a, <1>b, <3>1, <4>1 DEF Items
    <3>10. JobRead(ls, pos, currentJob, Image(currentJob), r)
      <4>1. line.kind = "image" => line.text = Image(currentJob)
        BY <1>4, <1>a, <2>1, <3>2, <3>3
      <4>2. JobRead(ls, pos - 1, currentJob, Image(currentJob), job)
        BY <1>p, <2>1, <3>2 DEF Image
      <4>3. JobRead(ls, pos - 1, currentJob, Image(currentJob), job) /\ r.env = job.env
        BY <3>8, <4>2
      <4>4. /\ pos \in KeyLines(ls, currentJob, {"image"}) => r.image = Image(currentJob)
            /\ pos \notin KeyLines(ls, currentJob, {"image"}) => r.image = job.image
        BY <3>3, <3>8, <4>1
      <4>5. /\ pos \in Items(ls, currentJob, 4) => r.dependsOn = Append(job.dependsOn, ls[pos].text)
            /\ pos \notin Items(ls, currentJob, 4) => r.dependsOn = job.dependsOn
        BY <1>a, <3>8, <3>9
      <4>6. ls \in Seq(Lines) /\ pos \in 1 .. Len(ls)
        BY <1>0, <1>b, <3>1
      <4>. HIDE DEF ls, job
      <4>. QED
        BY <4>3, <4>4, <4>5, <4>6, JobReadNext
    <3>11. StepsRead(ls, pos + 1, currentJob, c2, currentStep', r.steps)
      <4>1. job.steps = StepsOf(ls, pos - 1, currentJob)
        BY <1>done, <2>1, <3>1, <3>2
      <4>2. pos \notin StepLinesOf(ls, currentJob)
        BY <1>a, <3>2 DEF StepLinesOf
      <4>3. r.steps = StepsOf(ls, pos, currentJob) /\ pos + 1 - 1 = pos
        BY <1>0, <1>b, <3>1, <3>8, <4>1, <4>2, StepsOfNext
      <4>. QED
        BY <1>b, <3>1, <3>7, <4>3 DEF StepsRead
    <3>. QED
      BY <1>in, <2>1, <3>1, <3>2, <3>5, <3>6, <3>7, <3>8, <3>10, <3>11 DEF Image
  <2>2. CASE ~doc.plain
    BY <1>8, <1>turn, <2>2 DEF JobKey, Written
  <2>. QED
    BY <2>1, <2>2
<1>9. CASE JobEnvLine
  BY <1>9, <1>p, <1>turn DEF JobEnvLine, Written, At
<1>10. CASE EndOfJobEnv
  BY <1>10, <1>p, <1>turn DEF EndOfJobEnv, Written
<1>11. CASE StepHeading
  <2>1. CASE doc.plain
    <3>1. /\ Turn /\ InSteps(context) /\ StepLine(line) /\ context' = "step"
          /\ jobs' = [jobs EXCEPT ![currentJob].steps = Append(@, NewStepNamed(line.text))]
          /\ currentStep' = Len(job.steps) + 1 /\ UNCHANGED <<currentJob, name, env>>
      BY <1>11 DEF StepHeading, Written, InSteps, StepLine
    <3>2. /\ InJob /\ InJob' /\ InAStep("step") /\ InSteps("step") /\ Inside(line)
          /\ currentJob \in DOMAIN jobs /\ UnderJob(ls, pos, currentJob)
          /\ currentJob \in JobsNamed(ls, Len(ls)) /\ job \in JobRecords
          /\ line.indent # 4
      <4>1. InJob
        BY <1>c, <3>1
      <4>2. InJob' /\ InAStep("step") /\ InSteps("step")
        BY <3>1 DEF InJob, InAStep, InSteps
      <4>3. Inside(line) /\ line.indent # 4
        BY <3>1 DEF Inside, StepLine, TitleLine
      <4>. QED
        BY <1>0, <1>3, <4>1, <4>2, <4>3
    <3>3. pos \in 1 .. Len(ls) /\ pos \in Nat /\ pos + 1 - 1 = pos /\ line.text \in Texts
      BY <1>b, <3>1 DEF Lines
    <3>4. pos \in StepLinesOf(ls, currentJob)
      <4>1. UnderKey(ls, pos, currentJob, "steps")
        BY <1>4, <1>a, <2>1, <3>1, <3>2, <3>3 DEF TemplateDepths
      <4>. QED
        BY <1>a, <3>1, <3>3, <4>1 DEF StepLinesOf
    <3>5. job.steps = StepsOf(ls, pos - 1, currentJob)
      BY <1>done, <2>1, <3>1, <3>2
    <3>6. /\ StepsOf(ls, pos - 1, currentJob) \in Seq(StepRecords)
          /\ StepsOf(ls, pos, currentJob)
               = Append(StepsOf(ls, pos - 1, currentJob), StepUpTo(ls, Len(ls), pos))
      BY <1>0, <3>3, <3>4, StepsOfNext
    <3>7. /\ StepUpTo(ls, pos, pos) = NewStepNamed(line.text)
          /\ StepUpTo(ls, pos, pos) \in StepRecords
      <4>1. pos \in 0 .. Len(ls)
        BY <3>3
      <4>. QED
        BY <1>0, <1>a, <3>3, <4>1, StepUpToStart, StepUpToType
    <3>. DEFINE steps == Append(job.steps, NewStepNamed(line.text))
                r == [job EXCEPT !.steps = steps]
    <3>8. jobs' = [jobs EXCEPT ![currentJob] = r]
      BY <1>0, <3>1, <3>2 DEF AreJobs
    <3>9. /\ r.image = job.image /\ r.dependsOn = job.dependsOn /\ r.env = job.env
          /\ r.steps = steps
      BY <3>2 DEF JobRecords
    <3>. HIDE DEF r
    <3>10. JobRead(ls, pos, currentJob, Image(currentJob), r)
      BY <1>vals, <2>1, <3>1, <3>2, <3>9
    <3>11. StepInWork(ls, pos, currentJob, pos, "step", steps)
      <4>1. \A m \in KeysOfStep(ls, pos, "env") : ~(m <= pos)
        BY <1>0, <3>3, LenProperties DEF KeysOfStep, StepBody
      <4>2. pos \in 1 .. pos /\ pos + 1 .. pos = {}
        BY <3>3
      <4>3. \E done \in Seq(StepRecords) :
               /\ steps = Append(done, StepUpTo(ls, pos, pos))
               /\ StepsOf(ls, pos, currentJob) = Append(done, StepUpTo(ls, Len(ls), pos))
        BY <3>5, <3>6, <3>7
      <4>. QED
        BY <3>4, <4>1, <4>2, <4>3 DEF StepInWork
    <3>12. currentStep' = Len(steps)
      BY <3>1, <3>5, <3>6, <3>7, AppendProperties
    <3>13. StepsRead(ls, pos + 1, currentJob, "step", currentStep', r.steps)
      BY <3>2, <3>3, <3>9, <3>11, <3>12 DEF StepsRead
    <3>. HIDE DEF steps
    <3>14. PICK c2 : c2 = "step" /\ c2 = context'
      BY <3>1
    <3>15. /\ c2 # "job-env" /\ StepsRead(ls, pos + 1, currentJob, c2, currentStep', r.steps)
           /\ InSteps(c2) <=> InSteps(context) \/ pos \in KeyLines(ls, currentJob, {"steps"})
      BY <3>1, <3>2, <3>13, <3>14
    <3>. QED
      BY <1>in, <2>1, <3>1, <3>2, <3>8, <3>10, <3>14, <3>15 DEF Image
  <2>2. CASE ~doc.plain
    BY <1>11, <1>turn, <2>2 DEF StepHeading, Written
  <2>. QED
    BY <2>1, <2>2
\* A line of the step that is being read, which changes the step only.
<1>given. ASSUME Turn, doc.plain, InAStep(context), Inside(line), ~StepLine(line), line.indent \in {8, 10},
                 UNCHANGED <<currentJob, currentStep, name, env>>,
                 NEW k \in 1 .. Len(ls), StepInWork(ls, pos - 1, currentJob, k, context, job.steps),
                 currentStep = Len(job.steps),
                 jobs' = [jobs EXCEPT ![currentJob].steps[currentStep] = StepUpTo(ls, pos, k)],
                 NEW c2, c2 = context', InAStep(c2),
                 c2 = "step-env" <=> context = "step-env" \/ pos \in KeysOfStep(ls, k, "env")
          PROVE  PlainSoFar'
  <2>1. /\ InJob /\ InJob' /\ currentJob \in DOMAIN jobs /\ job \in JobRecords
        /\ InSteps(context) /\ InSteps(c2) /\ c2 # "job-env"
    BY <1>0, <1>c, <1>given DEF InJob, InAStep, InSteps
  <2>. DEFINE steps == [job.steps EXCEPT ![currentStep] = StepUpTo(ls, pos, k)]
              r == [job EXCEPT !.steps = steps]
  <2>2. jobs' = [jobs EXCEPT ![currentJob] = r]
    BY <1>0, <1>given, <2>1 DEF AreJobs
  <2>3. /\ r.image = job.image /\ r.dependsOn = job.dependsOn /\ r.env = job.env
        /\ r.steps = steps
    BY <2>1 DEF JobRecords
  <2>. HIDE DEF r
  <2>4. JobRead(ls, pos, currentJob, Image(currentJob), r)
    BY <1>vals, <1>given, <2>1, <2>3
  <2>5. StepsRead(ls, pos + 1, currentJob, c2, currentStep', r.steps)
    BY <1>more, <1>given, <2>3
  <2>. HIDE DEF steps
  <2>. QED
    BY <1>in, <1>given, <2>1, <2>2, <2>4, <2>5 DEF Image
<1>12. CASE StepKey
  <2>1. CASE doc.plain
    <3>1. /\ Turn /\ line.kind # "blank" /\ context = "step" /\ line.indent = 8
          /\ context' = IF line.kind = "env" THEN "step-env" ELSE context
          /\ UNCHANGED <<currentJob, currentStep, name, env>>
      BY <1>12 DEF StepKey, Written, At
    <3>2. /\ line.kind = "run"
               => jobs' = [jobs EXCEPT ![currentJob].steps[currentStep].run = <<line.text>>]
          /\ line.kind = "env" => jobs' = jobs
      BY <1>12 DEF StepKey
    <3>3. /\ InAStep(context) /\ InJob /\ Inside(line) /\ ~StepLine(line)
          /\ currentJob \in DOMAIN jobs /\ job \in JobRecords
      BY <1>0, <3>1 DEF InAStep, InJob, Inside, StepLine, TitleLine
    <3>4. PICK k \in 1 .. Len(ls) :
             /\ StepInWork(ls, pos - 1, currentJob, k, context, job.steps)
             /\ pos \in StepBody(ls, k) /\ PlainStep(ls, k)
             /\ currentStep = Len(job.steps)
             /\ job.steps[currentStep] = StepUpTo(ls, pos - 1, k)
      BY <1>body, <2>1, <3>1, <3>3
    <3>5. line.kind \in {"run", "env"}
      BY <1>a, <3>1, <3>4 DEF PlainStep
    <3>6. \A kind : pos \in KeysOfStep(ls, k, kind) <=> line.kind = kind
      BY <1>a, <3>1, <3>4 DEF KeysOfStep
    <3>7. pos \notin VarLines(ls, k)
      BY <1>a, <3>1 DEF VarLines
    <3>8. jobs' = [jobs EXCEPT ![currentJob].steps[currentStep] = StepUpTo(ls, pos, k)]
      <4>0. currentStep \in 1 .. Len(job.steps) /\ job.steps \in Seq(StepRecords)
        BY <1>0, <3>1, <3>3 DEF JobRecords
      <4>1. CASE line.kind = "run"
        <5>1. \A i \in KeysOfStep(ls, k, "run") : i = pos
          BY <3>4, <3>6, <4>1 DEF PlainStep
        <5>2. StepUpTo(ls, pos, k) = [StepUpTo(ls, pos - 1, k) EXCEPT !.run = <<line.text>>]
          <6>1. pos \in KeysOfStep(ls, k, "run") /\ pos \in 1 .. Len(ls) /\ ls \in Seq(Lines)
            BY <1>0, <1>b, <3>1, <3>6, <4>1
          <6>. HIDE DEF ls
          <6>2. StepUpTo(ls, pos, k) = [StepUpTo(ls, pos - 1, k) EXCEPT !.run = <<ls[pos].text>>]
            BY <5>1, <6>1, StepUpToNext
          <6>. QED
            BY <1>a, <6>2
        <5>3. StepUpTo(ls, pos, k) = [job.steps[currentStep] EXCEPT !.run = <<line.text>>]
          BY <3>4, <5>2
        <5>. QED
          BY <3>2, <4>1, <5>3
      <4>2. CASE line.kind = "env"
        <5>1. StepUpTo(ls, pos, k) = StepUpTo(ls, pos - 1, k)
          BY <1>0, <1>b, <3>1, <3>6, <3>7, <4>2, StepUpToNext
        <5>2. job.steps = [job.steps EXCEPT ![currentStep] = StepUpTo(ls, pos, k)]
          BY <3>4, <4>0, <5>1
        <5>3. job = [job EXCEPT !.steps = [job.steps EXCEPT ![currentStep] = StepUpTo(ls, pos, k)]]
          BY <3>3, <5>2 DEF JobRecords
        <5>. QED
          BY <1>0, <3>2, <3>3, <4>2, <5>3 DEF AreJobs
      <4>. QED
        BY <3>5, <4>1, <4>2
    <3>9. PICK c2 : c2 = context'
      OBVIOUS
    <3>10. /\ InAStep(c2)
           /\ c2 = "step-env" <=> context = "step-env" \/ pos \in KeysOfStep(ls, k, "env")
      BY <3>1, <3>6, <3>9 DEF InAStep
    <3>. QED
      BY <1>given, <2>1, <3>1, <3>3, <3>4, <3>8, <3>9, <3>10
  <2>2. CASE ~doc.plain
    BY <1>12, <1>turn, <2>2 DEF StepKey, Written
  <2>. QED
    BY <2>1, <2>2
<1>13. CASE StepEnvLine
  <2>1. CASE doc.plain
    <3>1. /\ Turn /\ line.kind # "blank" /\ context = "step-env" /\ line.indent = 10
          /\ jobs' = [jobs EXCEPT ![currentJob].steps[currentStep].env = @ \cup {line.text}]
          /\ UNCHANGED <<progress, name, env>>
      BY <1>13 DEF StepEnvLine, Written, At
    <3>2. /\ InAStep(context) /\ InJob /\ Inside(line) /\ ~StepLine(line)
          /\ currentJob \in DOMAIN jobs /\ job \in JobRecords
      BY <1>0, <3>1 DEF InAStep, InJob, Inside, StepLine, TitleLine
    <3>3. PICK k \in 1 .. Len(ls) :
             /\ StepInWork(ls, pos - 1, currentJob, k, context, job.steps)
             /\ pos \in StepBody(ls, k)
             /\ currentStep = Len(job.steps)
             /\ job.steps[currentStep] = StepUpTo(ls, pos - 1, k)
      BY <1>body, <2>1, <3>1, <3>2
    <3>4. pos \in VarLines(ls, k) /\ pos \notin KeysOfStep(ls, k, "env")
      BY <1>a, <3>1, <3>3 DEF VarLines, KeysOfStep
    <3>5. StepUpTo(ls, pos, k) = [job.steps[currentStep] EXCEPT !.env = @ \cup {line.text}]
      <4>1. StepUpTo(ls, pos, k) = [StepUpTo(ls, pos - 1, k) EXCEPT !.env = @ \cup {line.text}]
        BY <1>0, <1>a, <1>b, <3>1, <3>4, StepUpToNext
      <4>. QED
        BY <3>3, <4>1
    <3>6. jobs' = [jobs EXCEPT ![currentJob].steps[currentStep] = StepUpTo(ls, pos, k)]
      BY <3>1, <3>5
    <3>7. PICK c2 : c2 = context'
      OBVIOUS
    <3>8. /\ InAStep(c2) /\ UNCHANGED <<currentJob, currentStep>>
          /\ c2 = "step-env" <=> context = "step-env" \/ pos \in KeysOfStep(ls, k, "env")
      BY <3>1, <3>7 DEF InAStep, progress
    <3>. QED
      BY <1>given, <2>1, <3>1, <3>2, <3>3, <3>6, <3>7, <3>8
  <2>2. CASE ~doc.plain
    BY <1>13, <1>turn, <2>2 DEF StepEnvLine, Written
  <2>. QED
    BY <2>1, <2>2
<1>14. CASE OtherLine
  <2>1. CASE doc.plain
    <3>1. Turn /\ (line.kind = "blank" \/ ~Handled) /\ UNCHANGED <<progress, found>>
      BY <1>14 DEF OtherLine
    <3>2. /\ context' = context /\ currentJob' = currentJob /\ currentStep' = currentStep
          /\ name' = name /\ env' = env /\ jobs' = jobs /\ InJob' = InJob
      BY <3>1 DEF progress, found, InJob
    <3>3. pos \in 1 .. Len(ls) /\ pos \in Nat
      BY <1>b, <3>1
    <3>4. CASE ~InJob
      <4>1. ~(line.indent = 0 /\ line.kind # "blank")
        BY <3>1, <3>4 DEF Handled, At, InJob
      <4>2. pos \notin NameLines(ls)
        BY <1>a, <4>1 DEF NameLines
      <4>3. ~(context = "env" /\ line.indent = 2 /\ line.kind # "blank")
        BY <3>1, <3>4 DEF Handled, At, InJob
      <4>4. pos \notin GlobalLines(ls)
        BY <1>a, <1>p, <2>1, <4>3 DEF GlobalLines, TopRead
      <4>5. context # "job-env"
        BY <1>p, <2>1
      <4>. QED
        BY <1>out, <2>1, <3>1, <3>2, <3>4, <4>1, <4>2, <4>4, <4>5
    <3>5. CASE InJob
      <4>0. /\ currentJob \in JobsNamed(ls, Len(ls)) /\ UnderJob(ls, pos, currentJob)
            /\ context \in {"job", "job-steps", "step", "step-env"}
        BY <1>0, <1>3, <1>p, <2>1, <3>5 DEF InJob
      \* After its key, a job has nothing but steps.
      <4>1. InSteps(context) => line.indent # 4 \/ line.kind = "blank"
        <5>1. SUFFICES ASSUME InSteps(context) PROVE line.indent # 4 \/ line.kind = "blank"
          OBVIOUS
        <5>2. PICK k \in KeyLines(ls, currentJob, {"steps"}) : k <= pos - 1
          BY <1>p, <2>1, <3>5, <5>1
        <5>3. pos \in k + 1 .. Len(ls)
          BY <3>3, <5>2 DEF KeyLines
        <5>. QED
          BY <1>4, <1>a, <2>1, <4>0, <5>2, <5>3 DEF PlainJobText
      <4>2. line.kind = "blank" \/ line.indent # 4
        BY <3>1, <4>0, <4>1 DEF Handled, At, InJob, InSteps
      <4>3. Inside(line)
        BY <3>1, <3>5, <4>0 DEF Inside, TitleLine, Handled, At, InJob
      <4>4. InSteps(context) => ~StepLine(line)
        BY <3>1, <4>0 DEF StepLine, Handled, At, InJob, InSteps
      <4>5. pos \notin StepLinesOf(ls, currentJob)
        <5>1. SUFFICES ASSUME pos \in StepLinesOf(ls, currentJob) PROVE FALSE
          OBVIOUS
        <5>2. StepLine(line) /\ UnderKey(ls, pos, currentJob, "steps")
          BY <1>a, <5>1 DEF StepLinesOf
        <5>3. PICK k \in KeyLines(ls, currentJob, {"steps"}) : k < pos
          BY <5>2 DEF UnderKey
        <5>4. k <= pos - 1
          BY <3>3, <5>3 DEF KeyLines
        <5>. QED
          BY <1>p, <2>1, <3>5, <4>4, <5>2, <5>4
      <4>6. ASSUME NEW k \in 1 .. Len(ls), InAStep(context),
                   StepInWork(ls, pos - 1, currentJob, k, context, job.steps)
            PROVE  /\ pos \notin KeysOfStep(ls, k, "run") /\ pos \notin VarLines(ls, k)
                   /\ pos \in KeysOfStep(ls, k, "env") => context = "step-env"
        <5>1. k \in StepLinesOf(ls, currentJob) /\ PlainStep(ls, k)
          BY <1>4, <2>1, <4>0, <4>6 DEF PlainJobText, StepInWork
        <5>2. context = "step-env" <=> \E m \in KeysOfStep(ls, k, "env") : m <= pos - 1
          BY <4>6 DEF StepInWork
        <5>3. \A m \in KeysOfStep(ls, k, "env") : m \in Nat /\ (m <= pos - 1 <=> m < pos)
          BY <1>0, <3>3, LenProperties DEF KeysOfStep, StepBody
        <5>4. context \in {"step", "step-env"}
          BY <4>6 DEF InAStep
        <5>5. CASE line.kind = "blank"
          BY <1>a, <5>5 DEF KeysOfStep, VarLines
        <5>6. CASE line.kind # "blank"
          <6>1. line.indent = 8 => context = "step-env"
            BY <3>1, <5>4, <5>6 DEF Handled, At, InJob
          <6>2. line.indent = 10 => context = "step"
            BY <3>1, <5>4, <5>6 DEF Handled, At, InJob
          <6>3. pos \in VarLines(ls, k) => context # "step"
            BY <5>1, <5>2, <5>3 DEF PlainStep
          <6>4. pos \in KeysOfStep(ls, k, "run") => context # "step-env"
            <7>1. \A m \in KeysOfStep(ls, k, "env") :
                     pos \in KeysOfStep(ls, k, "run") => ~(m <= pos - 1)
              BY <3>3, <5>1, <5>3 DEF PlainStep
            <7>. QED
              BY <5>2, <7>1
          <6>. QED
            BY <1>a, <6>1, <6>2, <6>3, <6>4 DEF KeysOfStep, VarLines
        <5>. QED
          BY <5>5, <5>6
      <4>7. InAStep(context) => ~StepLine(line)
        BY <1>c, <4>4
      <4>. QED
        BY <1>quiet, <2>1, <3>1, <3>5, <4>2, <4>3, <4>5, <4>6, <4>7
    <3>. QED
      BY <3>4, <3>5
  <2>2. CASE ~doc.plain
    BY <1>14, <1>turn, <2>2 DEF OtherLine
  <2>. QED
    BY <2>1, <2>2
<1>15. CASE Create
  <2>1. /\ pos > Len(ls) /\ UNCHANGED <<doc, pos, context, currentJob, currentStep, name, env, jobs>>
        /\ pipeline' = [name |-> IF name = Unset THEN "untitled" ELSE name, env |-> env, jobs |-> jobs]
    BY <1>15 DEF Create, progress, found
  <2>2. Len(ls) \in Nat /\ pos - 1 = Len(ls)
    BY <1>0, <2>1, LenProperties
  <2>3. doc.plain => pipeline' = doc.means
    <3>1. SUFFICES ASSUME doc.plain PROVE pipeline' = doc.means
      OBVIOUS
    <3>2. TopRead(ls, pos, context, name, env, doc.means)
      BY <1>p, <3>1
    <3>3. /\ {ls[i].text : i \in NameLines(ls)} = {doc.means.name}
          /\ doc.means.name # Unset
          /\ doc.means = [name |-> doc.means.name,
                          env |-> {ls[i].text : i \in GlobalLines(ls)},
                          jobs |-> [j \in JobsNamed(ls, Len(ls)) |-> doc.means.jobs[j]]]
      BY <1>0, <3>1, PlainAssumption
    <3>4. name = doc.means.name
      <4>1. PICK i \in NameLines(ls) : TRUE
        BY <3>3
      <4>2. i <= pos - 1
        BY <2>2 DEF NameLines
      <4>. QED
        BY <3>2, <4>1, <4>2 DEF TopRead
    <3>5. env = {ls[i].text : i \in GlobalLines(ls)}
      <4>1. GlobalLines(ls) \cap 1 .. pos - 1 = GlobalLines(ls)
        BY <2>2 DEF GlobalLines
      <4>. QED
        BY <3>2, <4>1 DEF TopRead
    <3>6. DOMAIN jobs = JobsNamed(ls, Len(ls))
      BY <1>1, <2>2
    <3>7. ASSUME NEW j \in DOMAIN jobs PROVE jobs[j] = doc.means.jobs[j]
      <4>1. JobRead(ls, Len(ls), j, doc.means.jobs[j].image, jobs[j])
        BY <1>p, <2>2, <3>1, <3>7 DEF Image
      <4>2. jobs[j].steps = StepsOf(ls, Len(ls), j)
        <5>1. CASE InJob /\ j = currentJob
          <6>1. StepsRead(ls, pos, currentJob, context, currentStep, job.steps)
            BY <1>p, <3>1, <5>1
          <6>2. CASE InAStep(context)
            <7>1. PICK k \in 1 .. Len(ls) :
                     StepInWork(ls, Len(ls), currentJob, k, context, job.steps)
              BY <2>2, <6>1, <6>2 DEF StepsRead
            <7>. QED
              BY <5>1, <7>1 DEF StepInWork
          <6>3. CASE ~InAStep(context)
            BY <2>2, <5>1, <6>1, <6>3 DEF StepsRead
          <6>. QED
            BY <6>2, <6>3
        <5>2. CASE ~(InJob /\ j = currentJob)
          BY <1>p, <2>2, <3>1, <5>2, <3>7
        <5>. QED
          BY <5>1, <5>2
      <4>3. jobs[j] \in JobRecords
        BY <1>0, <3>7 DEF AreJobs
      <4>. QED
        BY <1>0, <3>1, <3>6, <3>7, <4>1, <4>2, <4>3, PlainJobIsWhole
    <3>8. jobs = [j \in JobsNamed(ls, Len(ls)) |-> doc.means.jobs[j]]
      BY <1>0, <3>6, <3>7 DEF AreJobs
    <3>. QED
      BY <2>1, <3>3, <3>4, <3>5, <3>8
  <2>4. PlainIsExact'
    BY <2>1, <2>3 DEF PlainIsExact
  <2>. QED
    BY <1>p, <2>1, <2>4 DEF PlainSoFar, InJob, Image
<1>16. CASE UNCHANGED readerVars
  BY <1>p, <1>16 DEF readerVars, progress, found, PlainSoFar, PlainIsExact, InJob, Submitted, Image
<1>. QED
  BY <1>5, <1>6, <1>7, <1>8, <1>9, <1>10, <1>11, <1>12, <1>13, <1>14, <1>15, <1>16 DEF ReaderNext

(* What is submitted for a plain text is what YAML says of it, for every   *)
(* plain text: its name, its variables, and every job with all its values, *)
(* its steps in their order with their commands and variables.             *)
THEOREM PlainTextsAreExact == ReaderSpec => []PlainIsExact
<1>1. PlainInv => PlainIsExact
  BY DEF PlainInv, PlainSoFar
<1>2. ReaderInit => PlainInv
  BY InitReader, InitFound, InitOwn, InitParts, InitPlain
     DEF PlainInv, WholeInv, OwnInv, FoundInv
<1>3. PlainInv /\ [ReaderNext]_readerVars => PlainInv'
  BY StepReader, StepFound, StepOwn, StepParts, StepPlain
     DEF PlainInv, WholeInv, OwnInv, FoundInv
<1>. QED
  BY <1>1, <1>2, <1>3, PTL DEF ReaderSpec

-----------------------------------------------------------------------------
(* What a sequence spells out when each of its members stands for a text.  *)
TextsOf(X, es) == [i \in DOMAIN es |-> X[es[i]]]
Spelled(X, es) == FlattenSeq(TextsOf(X, es))

(* The texts of a sequence, one for each element. *)
LEMMA TextsShape ==
    ASSUME NEW X, NEW es, Len(es) \in Nat, DOMAIN es = 1 .. Len(es)
    PROVE  /\ Len(TextsOf(X, es)) = Len(es)
           /\ \A i \in 1 .. Len(es) : TextsOf(X, es)[i] = X[es[i]]
<1>. DEFINE n == Len(es)
            t == [i \in 1 .. n |-> X[es[i]]]
<1>1. TextsOf(X, es) = t
  BY DEF TextsOf
<1>2. n \in Nat
  OBVIOUS
<1>. HIDE DEF n
<1>3. Len(t) = n /\ \A i \in 1 .. n : t[i] = X[es[i]]
  BY <1>2
<1>. QED
  BY <1>1, <1>3 DEF n

(* They are texts. *)
LEMMA TextsType ==
    ASSUME NEW E, NEW S, NEW X \in [E -> Seq(S)], NEW es \in Seq(E)
    PROVE  TextsOf(X, es) \in Seq(Seq(S))
<1>1. /\ Len(es) \in Nat /\ DOMAIN es = 1 .. Len(es)
      /\ \A i \in 1 .. Len(es) : X[es[i]] \in Seq(S)
  BY LenProperties, ElementOfSeq
<1>2. [i \in 1 .. Len(es) |-> X[es[i]]] \in Seq(Seq(S))
  BY <1>1
<1>. QED
  BY <1>1, <1>2 DEF TextsOf

(* What a sequence spells is a text. *)
LEMMA SpelledType ==
    ASSUME NEW E, NEW S, NEW X \in [E -> Seq(S)], NEW es \in Seq(E)
    PROVE  Spelled(X, es) \in Seq(S)
  BY TextsType, FlattenType DEF Spelled

(* Nothing spells nothing. *)
LEMMA SpelledEmpty == ASSUME NEW X PROVE Spelled(X, <<>>) = <<>>
<1>1. TextsOf(X, <<>>) = <<>>
  BY DEF TextsOf
<1>. QED
  BY <1>1, FlattenEmpty DEF Spelled

(* Spelling goes through concatenation. *)
LEMMA SpelledConcat ==
    ASSUME NEW E, NEW S, NEW X \in [E -> Seq(S)], NEW es \in Seq(E), NEW fs \in Seq(E)
    PROVE  Spelled(X, es \o fs) = Spelled(X, es) \o Spelled(X, fs)
<1>. DEFINE l == TextsOf(X, es \o fs)
            m == TextsOf(X, es)
            n == TextsOf(X, fs)
<1>1. /\ es \o fs \in Seq(E) /\ Len(es \o fs) = Len(es) + Len(fs)
      /\ \A i \in 1 .. Len(es) + Len(fs) :
            (es \o fs)[i] = IF i <= Len(es) THEN es[i] ELSE fs[i - Len(es)]
  BY ConcatProperties
<1>2. /\ l \in Seq(Seq(S)) /\ Len(l) = Len(es) + Len(fs)
      /\ \A i \in 1 .. Len(es) + Len(fs) : l[i] = X[(es \o fs)[i]]
  <2>. DEFINE gs == es \o fs
  <2>1. gs \in Seq(E) /\ Len(gs) = Len(es) + Len(fs)
    BY <1>1
  <2>. HIDE DEF gs
  <2>2. TextsOf(X, gs) \in Seq(Seq(S))
    BY <2>1, TextsType
  <2>3. Len(gs) \in Nat /\ DOMAIN gs = 1 .. Len(gs)
    BY <2>1, LenProperties
  <2>4. /\ Len(TextsOf(X, gs)) = Len(gs)
        /\ \A i \in 1 .. Len(gs) : TextsOf(X, gs)[i] = X[gs[i]]
    BY <2>3, TextsShape
  <2>. QED
    BY <2>1, <2>2, <2>4 DEF gs
<1>3. /\ m \in Seq(Seq(S)) /\ Len(m) = Len(es) /\ \A i \in 1 .. Len(es) : m[i] = X[es[i]]
      /\ n \in Seq(Seq(S)) /\ Len(n) = Len(fs) /\ \A i \in 1 .. Len(fs) : n[i] = X[fs[i]]
  <2>1. m \in Seq(Seq(S)) /\ n \in Seq(Seq(S))
    BY TextsType
  <2>2. /\ Len(es) \in Nat /\ DOMAIN es = 1 .. Len(es)
        /\ Len(fs) \in Nat /\ DOMAIN fs = 1 .. Len(fs)
    BY LenProperties
  <2>. QED
    BY <2>1, <2>2, TextsShape
<1>. HIDE DEF l, m, n
<1>4. /\ m \o n \in Seq(Seq(S)) /\ Len(m \o n) = Len(m) + Len(n)
      /\ \A i \in 1 .. Len(m) + Len(n) : (m \o n)[i] = IF i <= Len(m) THEN m[i] ELSE n[i - Len(m)]
  <2>1. m \in Seq(Seq(S)) /\ n \in Seq(Seq(S))
    BY <1>3
  <2>. QED
    BY <1>3, <2>1, ConcatProperties, ZenonT(60)
<1>5. Len(es) \in Nat /\ Len(fs) \in Nat
  BY LenProperties
<1>. DEFINE r == m \o n
<1>6. \A i \in 1 .. Len(es) + Len(fs) : l[i] = r[i]
  <2>1. TAKE i \in 1 .. Len(es) + Len(fs)
  <2>2. r[i] = IF i <= Len(es) THEN m[i] ELSE n[i - Len(es)]
    BY <1>3, <1>4
  <2>3. CASE i <= Len(es)
    <3>1. i \in 1 .. Len(es)
      BY <1>5, <2>3
    <3>2. l[i] = X[es[i]]
      BY <1>1, <1>2, <2>3
    <3>3. r[i] = m[i]
      BY <2>2, <2>3
    <3>. QED
      BY <1>3, <3>1, <3>2, <3>3
  <2>4. CASE ~(i <= Len(es))
    <3>1. i - Len(es) \in 1 .. Len(fs)
      BY <1>5, <2>4
    <3>2. l[i] = X[fs[i - Len(es)]]
      BY <1>1, <1>2, <2>4
    <3>3. r[i] = n[i - Len(es)]
      BY <2>2, <2>4
    <3>. QED
      BY <1>3, <3>1, <3>2, <3>3
  <2>. QED
    BY <2>3, <2>4
<1>7. r \in Seq(Seq(S)) /\ Len(r) = Len(es) + Len(fs)
  BY <1>3, <1>4
<1>8. l = r
  <2>. HIDE DEF r
  <2>. QED
    BY <1>2, <1>6, <1>7, SeqEqual
<1>9. FlattenSeq(r) = FlattenSeq(m) \o FlattenSeq(n)
  BY <1>3, FlattenConcat
<1>. QED
  BY <1>8, <1>9 DEF Spelled, l, m, n

(* One element spells its text. *)
LEMMA SpelledOne ==
    ASSUME NEW E, NEW S, NEW X \in [E -> Seq(S)], NEW e \in E
    PROVE  Spelled(X, <<e>>) = X[e]
<1>1. TextsOf(X, <<e>>) = <<X[e]>>
  BY DEF TextsOf
<1>. QED
  BY <1>1, FlattenOne DEF Spelled

(* A sequence that is not empty is its front and its last element. *)
LEMMA FrontAndLast ==
    ASSUME NEW S, NEW ss \in Seq(S), ss # <<>>
    PROVE  Front(ss) \in Seq(S) /\ Last(ss) \in S /\ ss = Append(Front(ss), Last(ss))
<1>1. PICK r \in Seq(S), e \in S : ss = Append(r, e)
  BY SequenceEmptyOrAppend
<1>2. /\ Len(r) \in Nat /\ Len(ss) = Len(r) + 1 /\ ss[Len(r) + 1] = e
      /\ \A i \in 1 .. Len(r) : ss[i] = r[i]
  BY <1>1, AppendProperties, LenProperties
<1>3. Last(ss) = e
  BY <1>2 DEF Last
<1>4. Front(ss) = r
  <2>. DEFINE f == SubSeq(ss, 1, Len(r))
  <2>1. \A i \in 1 .. Len(r) : ss[i] \in S
    BY <1>2, ElementOfSeq
  <2>2. /\ f \in Seq(S) /\ Len(f) = IF 1 <= Len(r) THEN Len(r) - 1 + 1 ELSE 0
        /\ \A i \in 1 .. Len(r) - 1 + 1 : f[i] = ss[1 + i - 1]
    BY <1>2, <2>1, SubSeqProperties
  <2>. HIDE DEF f
  <2>3. Len(f) = Len(r) /\ \A i \in 1 .. Len(f) : f[i] = r[i]
    BY <1>2, <2>2
  <2>4. f = r
    BY <2>2, <2>3, SeqEqual
  <2>5. Len(ss) - 1 = Len(r)
    BY <1>2
  <2>. QED
    BY <2>4, <2>5 DEF Front, f
<1>. QED
  BY <1>1, <1>3, <1>4

-----------------------------------------------------------------------------
(* The text of a write, and what its lines keep of it.                     *)
Text == Seq(Characters)
Letters == [c \in Characters |-> IF c = NL THEN <<>> ELSE <<c>>]

(* Two texts make a text. *)
LEMMA TextConcat ==
    ASSUME NEW a \in Text, NEW b \in Text
    PROVE  a \o b \in Text
  BY ConcatProperties DEF Text

(* Texts are joined in any order. *)
LEMMA TextAssociative ==
    ASSUME NEW a \in Text, NEW b \in Text, NEW c \in Text
    PROVE  (a \o b) \o c = a \o (b \o c)
  BY ConcatAssociative DEF Text

(* An empty text adds nothing. *)
LEMMA TextEmpty ==
    ASSUME NEW a \in Text
    PROVE  <<>> \in Text /\ a \o <<>> = a /\ <<>> \o a = a
  BY EmptySeq, ConcatEmptySeq DEF Text

(* A character is cleaned to a text. *)
LEMMA LettersType == Letters \in [Characters -> Text]
<1>1. \A c \in Characters : (IF c = NL THEN <<>> ELSE <<c>>) \in Text
  BY EmptySeq DEF Text
<1>. QED
  BY <1>1 DEF Letters

(* Cleaning a text is spelling it with newlines left out. *)
LEMMA CleanIsSpelled == ASSUME NEW data \in Text PROVE Clean(data) = Spelled(Letters, data)
<1>1. DOMAIN data = 1 .. Len(data) /\ \A i \in 1 .. Len(data) : data[i] \in Characters
  BY LenProperties, ElementOfSeq DEF Text
<1>2. [i \in DOMAIN data |-> IF data[i] = NL THEN <<>> ELSE <<data[i]>>] = TextsOf(Letters, data)
  BY <1>1 DEF TextsOf, Letters
<1>. QED
  BY <1>2 DEF Clean, Spelled

(* A cleaned text is a text. *)
LEMMA CleanType == ASSUME NEW data \in Text PROVE Clean(data) \in Text
<1>1. Spelled(Letters, data) \in Seq(Characters)
  BY LettersType, SpelledType DEF Text
<1>. QED
  BY <1>1, CleanIsSpelled DEF Text

(* An empty text is clean. *)
LEMMA CleanEmpty == Clean(<<>>) = <<>>
<1>1. <<>> \in Text
  BY EmptySeq DEF Text
<1>. QED
  BY <1>1, CleanIsSpelled, SpelledEmpty

(* Cleaning goes through concatenation. *)
LEMMA CleanConcat ==
    ASSUME NEW a \in Text, NEW b \in Text
    PROVE  Clean(a \o b) = Clean(a) \o Clean(b)
<1>1. a \o b \in Text
  BY ConcatProperties DEF Text
<1>2. Spelled(Letters, a \o b) = Spelled(Letters, a) \o Spelled(Letters, b)
  BY LettersType, SpelledConcat, SMTT(30) DEF Text
<1>. QED
  BY <1>1, <1>2, CleanIsSpelled

(* A character is kept, a newline is not. *)
LEMMA CleanLetter ==
    ASSUME NEW c \in Characters
    PROVE  Clean(<<c>>) = IF c = NL THEN <<>> ELSE <<c>>
<1>1. <<c>> \in Text
  BY DEF Text
<1>2. Spelled(Letters, <<c>>) = Letters[c]
  BY LettersType, SpelledOne DEF Text
<1>. QED
  BY <1>1, <1>2, CleanIsSpelled DEF Letters

(* The pieces of data up to its ith character.                             *)
PiecesOf(data, n, f) ==
    f = [i \in 0 .. n |->
            IF i = 0 THEN << <<>> >>
            ELSE LET before == f[i - 1]
                 IN IF data[i] = NL THEN Append(before, <<>>)
                    ELSE Append(Front(before), Append(Last(before), data[i]))]

(* The pieces up to every character exist. *)
LEMMA PiecesExist == ASSUME NEW data, NEW n \in Nat PROVE \E f : PiecesOf(data, n, f)
<1>. DEFINE Next1(before, i) == IF data[i] = NL THEN Append(before, <<>>)
                                ELSE Append(Front(before), Append(Last(before), data[i]))
            P(m) == \E f : f = [i \in 0 .. m |-> IF i = 0 THEN << <<>> >> ELSE Next1(f[i - 1], i)]
            T == {m \in Nat : P(m)}
<1>1. 0 \in T
  <2>. DEFINE f == [i \in 0 .. 0 |-> << <<>> >>]
  <2>1. f = [i \in 0 .. 0 |-> IF i = 0 THEN << <<>> >> ELSE Next1(f[i - 1], i)]
    <3>. HIDE DEF Next1
    <3>. QED
      OBVIOUS
  <2>2. P(0)
    <3>. HIDE DEF Next1, f
    <3>. QED
      BY <2>1
  <2>. QED
    BY <2>2
<1>2. ASSUME NEW m \in T PROVE m + 1 \in T
  <2>. HIDE DEF Next1
  <2>0. m \in Nat /\ P(m)
    OBVIOUS
  <2>1. PICK f : f = [i \in 0 .. m |-> IF i = 0 THEN << <<>> >> ELSE Next1(f[i - 1], i)]
    BY <2>0
  <2>. DEFINE g == [i \in 0 .. m + 1 |-> IF i = m + 1 THEN Next1(f[m], m + 1) ELSE f[i]]
  <2>2. \A i \in 0 .. m + 1 : g[i] = IF i = 0 THEN << <<>> >> ELSE Next1(g[i - 1], i)
    <3>1. TAKE i \in 0 .. m + 1
    <3>2. CASE i = m + 1
      <4>1. i # 0 /\ i - 1 = m /\ m \in 0 .. m + 1 /\ m # m + 1
        BY <2>0, <3>2
      <4>2. g[i - 1] = f[m] /\ g[i] = Next1(f[m], m + 1)
        BY <3>2, <4>1
      <4>. QED
        BY <3>2, <4>1, <4>2
    <3>3. CASE i # m + 1
      <4>1. i \in 0 .. m /\ (i # 0 => i - 1 \in 0 .. m)
        BY <2>0, <3>3
      <4>2. f[i] = IF i = 0 THEN << <<>> >> ELSE Next1(f[i - 1], i)
        BY <2>1, <4>1
      <4>3. g[i] = f[i] /\ (i # 0 => g[i - 1] = f[i - 1])
        BY <2>0, <3>3, <4>1
      <4>. QED
        BY <4>2, <4>3
    <3>. QED
      BY <3>2, <3>3
  <2>3. g = [i \in 0 .. m + 1 |-> IF i = 0 THEN << <<>> >> ELSE Next1(g[i - 1], i)]
    BY <2>2
  <2>4. P(m + 1)
    <3>. HIDE DEF g
    <3>. QED
      BY <2>3
  <2>5. m + 1 \in Nat
    BY <2>0
  <2>. HIDE DEF P
  <2>. QED
    BY <2>4, <2>5
<1>3. T = Nat
  <2>1. T \in SUBSET Nat
    OBVIOUS
  <2>. HIDE DEF T
  <2>. QED
    BY <1>1, <1>2, <2>1, NumberInduction
<1>4. P(n)
  <2>. HIDE DEF P
  <2>. QED
    BY <1>3
<1>. QED
  BY <1>4 DEF PiecesOf

(* SplitAt is the last of them. *)
LEMMA SplitBy ==
    ASSUME NEW data, Len(data) \in Nat
    PROVE  \E f : PiecesOf(data, Len(data), f) /\ SplitAt(data) = f[Len(data)]
<1>. DEFINE n == Len(data)
            Is(f) == f = [i \in 0 .. n |->
                            IF i = 0 THEN << <<>> >>
                            ELSE LET before == f[i - 1]
                                 IN IF data[i] = NL THEN Append(before, <<>>)
                                    ELSE Append(Front(before), Append(Last(before), data[i]))]
            p == CHOOSE f : Is(f)
<1>1. \E f : Is(f)
  BY PiecesExist DEF PiecesOf
<1>2. Is(p)
  <2>. HIDE DEF Is
  <2>. QED
    BY <1>1
<1>3. SplitAt(data) = p[n]
  BY Zenon DEF SplitAt
<1>. HIDE DEF p
<1>. QED
  BY <1>2, <1>3 DEF PiecesOf

(* Cutting loses nothing but the newlines.                                 *)
LEMMA SplitKeepsText ==
    ASSUME NEW data \in Text
    PROVE  /\ SplitAt(data) \in Seq(Text) /\ SplitAt(data) # <<>>
           /\ FlattenSeq(SplitAt(data)) = Clean(data)
<1>1. Len(data) \in Nat /\ \A i \in 1 .. Len(data) : data[i] \in Characters
  BY LenProperties, ElementOfSeq DEF Text
<1>. DEFINE n == Len(data)
<1>2. PICK f : PiecesOf(data, n, f) /\ SplitAt(data) = f[n]
  BY <1>1, SplitBy
<1>. DEFINE upto(i) == SubSeq(data, 1, i)
            Good(i) == /\ f[i] \in Seq(Text) /\ f[i] # <<>>
                       /\ FlattenSeq(f[i]) = Clean(upto(i))
            T == {i \in Nat : i <= n => Good(i)}
<1>3. 0 \in T
  <2>1. f[0] = << <<>> >>
    BY <1>1, <1>2 DEF PiecesOf
  <2>2. << <<>> >> \in Seq(Text) /\ << <<>> >> # <<>> /\ <<>> \in Text
    BY EmptySeq DEF Text
  <2>3. FlattenSeq(<< <<>> >>) = <<>>
    BY <2>2, FlattenOne DEF Text
  <2>4. upto(0) = <<>>
    BY SubSeqEmpty
  <2>. HIDE DEF upto
  <2>. QED
    BY <2>1, <2>2, <2>3, <2>4, CleanEmpty
<1>4. ASSUME NEW k \in T PROVE k + 1 \in T
  <2>1. SUFFICES ASSUME k + 1 <= n PROVE Good(k + 1)
    OBVIOUS
  <2>. DEFINE before == f[k]
              c == data[k + 1]
  <2>2. k \in Nat /\ k + 1 \in 1 .. n /\ c \in Characters
    BY <1>1, <2>1
  <2>3. before \in Seq(Text) /\ before # <<>> /\ FlattenSeq(before) = Clean(upto(k))
    BY <1>1, <2>1, <2>2
  <2>4. f[k + 1] = IF c = NL THEN Append(before, <<>>)
                   ELSE Append(Front(before), Append(Last(before), c))
    <3>1. k + 1 \in 0 .. n /\ k + 1 # 0 /\ (k + 1) - 1 = k
      BY <1>1, <2>2
    <3>2. f[k + 1] = IF k + 1 = 0 THEN << <<>> >>
                     ELSE IF data[k + 1] = NL THEN Append(f[(k + 1) - 1], <<>>)
                     ELSE Append(Front(f[(k + 1) - 1]), Append(Last(f[(k + 1) - 1]), data[k + 1]))
      BY <1>2, <3>1 DEF PiecesOf
    <3>. QED
      BY <3>1, <3>2
  <2>5. upto(k) \in Text /\ upto(k + 1) = upto(k) \o <<c>>
    <3>1. \A i \in 1 .. k : data[i] \in Characters
      BY <1>1, <2>2
    <3>2. upto(k) \in Text
      BY <2>2, <3>1, SubSeqProperties DEF Text
    <3>3. 1 \in 1 .. n /\ k + 1 \in 1 .. n /\ (k + 1) - 1 = k
      BY <1>1, <2>2
    <3>4. SubSeq(data, 1, k + 1) = SubSeq(data, 1, (k + 1) - 1) \o <<data[k + 1]>>
      BY <3>3, SubSeqRecursiveSecond DEF Text
    <3>. QED
      BY <3>2, <3>3, <3>4
  <2>6. /\ <<c>> \in Text /\ Clean(upto(k)) \in Text
        /\ Clean(upto(k + 1)) = Clean(upto(k)) \o Clean(<<c>>)
    <3>1. <<c>> \in Text
      BY <2>2 DEF Text
    <3>. HIDE DEF upto, c
    <3>. QED
      BY <2>5, <3>1, CleanConcat, CleanType
  <2>7. CASE c = NL
    <3>1. f[k + 1] = Append(before, <<>>) /\ Clean(<<c>>) = <<>>
      BY <2>2, <2>4, <2>7, CleanLetter
    <3>. HIDE DEF before, upto, c
    <3>2. <<>> \in Text
      BY EmptySeq DEF Text
    <3>3. f[k + 1] \in Seq(Text) /\ f[k + 1] # <<>>
      BY <2>3, <3>1, <3>2, AppendProperties
    <3>4. FlattenSeq(Append(before, <<>>)) = FlattenSeq(before) \o <<>>
      BY <2>3, <2>6, <3>2, FlattenAppend DEF Text
    <3>. QED
      BY <2>3, <2>6, <3>1, <3>3, <3>4
  <2>8. CASE c # NL
    <3>. DEFINE front == Front(before)
                last == Last(before)
                longer == Append(last, c)
    <3>1. f[k + 1] = Append(front, longer) /\ Clean(<<c>>) = <<c>>
      BY <2>2, <2>4, <2>8, CleanLetter
    <3>2. front \in Seq(Text) /\ last \in Text /\ before = Append(front, last)
      BY <2>3, FrontAndLast
    <3>. HIDE DEF front, last, before, upto, c
    <3>3. longer \in Text /\ longer = last \o <<c>>
      BY <2>2, <3>2, AppendProperties, AppendIsConcat DEF Text
    <3>. HIDE DEF longer
    <3>4. f[k + 1] \in Seq(Text) /\ f[k + 1] # <<>>
      BY <3>1, <3>2, <3>3, AppendProperties
    <3>5. FlattenSeq(front) \in Text
      BY <3>2, FlattenType DEF Text
    <3>6. FlattenSeq(Append(front, longer)) = FlattenSeq(front) \o longer
      BY <3>2, <3>3, <3>5, FlattenAppend DEF Text
    <3>7. FlattenSeq(before) = FlattenSeq(front) \o last
      BY <3>2, <3>5, FlattenAppend DEF Text
    <3>8. FlattenSeq(front) \o (last \o <<c>>) = (FlattenSeq(front) \o last) \o <<c>>
      <4>. DEFINE a == FlattenSeq(front)
                  b == <<c>>
      <4>. HIDE DEF a, b
      <4>1. a \in Text /\ b \in Text
        BY <2>6, <3>5 DEF a, b
      <4>2. (a \o last) \o b = a \o (last \o b)
        BY <3>2, <4>1, TextAssociative
      <4>. QED
        BY <4>2 DEF a, b
    <3>. QED
      BY <2>3, <2>6, <3>1, <3>3, <3>4, <3>6, <3>7, <3>8
  <2>. QED
    BY <2>7, <2>8
<1>5. T = Nat
  <2>1. T \in SUBSET Nat
    OBVIOUS
  <2>. HIDE DEF T
  <2>. QED
    BY <1>3, <1>4, <2>1, NumberInduction
<1>6. Good(n)
  <2>. HIDE DEF Good
  <2>. QED
    BY <1>1, <1>5
<1>7. upto(n) = data
  BY SubSeqFull DEF Text
<1>. QED
  BY <1>2, <1>6, <1>7

(* Dropping an empty last piece loses nothing either. *)
LEMMA LinesKeepText ==
    ASSUME NEW data \in Text
    PROVE  LinesOf(data) \in Seq(Text) /\ FlattenSeq(LinesOf(data)) = Clean(data)
<1>. DEFINE pieces == SplitAt(data)
            front == Front(pieces)
            last == Last(pieces)
<1>1. pieces \in Seq(Text) /\ pieces # <<>> /\ FlattenSeq(pieces) = Clean(data)
  BY SplitKeepsText
<1>2. LinesOf(data) = IF last = <<>> THEN front ELSE pieces
  BY DEF LinesOf
<1>. HIDE DEF pieces
<1>3. front \in Seq(Text) /\ last \in Text /\ pieces = Append(front, last)
  BY <1>1, FrontAndLast
<1>. HIDE DEF front, last
<1>4. FlattenSeq(front) \in Text
  BY <1>3, FlattenType DEF Text
<1>5. FlattenSeq(pieces) = FlattenSeq(front) \o last
  BY <1>3, <1>4, FlattenAppend DEF Text
<1>6. FlattenSeq(front) \o <<>> = FlattenSeq(front)
  BY <1>4, ConcatEmptySeq DEF Text
<1>. QED
  BY <1>1, <1>2, <1>3, <1>5, <1>6

-----------------------------------------------------------------------------
(* Texts that are shown for others.                                        *)
LEMMA ShownForConcat ==
    ASSUME NEW a \in Text, NEW b \in Text, NEW c \in Text, NEW d \in Text,
           ShownFor(a, b), ShownFor(c, d)
    PROVE  ShownFor(a \o c, b \o d)
<1>1. /\ Len(a) \in Nat /\ Len(c) \in Nat /\ Len(a) = Len(b) /\ Len(c) = Len(d)
      /\ \A i \in 1 .. Len(a) : ShowsByte(a[i], b[i])
      /\ \A i \in 1 .. Len(c) : ShowsByte(c[i], d[i])
  BY LenProperties DEF ShownFor, Text
<1>2. /\ Len(a \o c) = Len(a) + Len(c)
      /\ \A i \in 1 .. Len(a) + Len(c) : (a \o c)[i] = IF i <= Len(a) THEN a[i] ELSE c[i - Len(a)]
      /\ Len(b \o d) = Len(b) + Len(d)
      /\ \A i \in 1 .. Len(b) + Len(d) : (b \o d)[i] = IF i <= Len(b) THEN b[i] ELSE d[i - Len(b)]
  BY ConcatProperties DEF Text
<1>3. ASSUME NEW i \in 1 .. Len(a) + Len(c) PROVE ShowsByte((a \o c)[i], (b \o d)[i])
  <2>1. CASE i <= Len(a)
    <3>1. i \in 1 .. Len(a) /\ (a \o c)[i] = a[i] /\ (b \o d)[i] = b[i]
      BY <1>1, <1>2, <2>1
    <3>. QED
      BY <1>1, <3>1
  <2>2. CASE ~(i <= Len(a))
    <3>1. i - Len(a) \in 1 .. Len(c) /\ (a \o c)[i] = c[i - Len(a)] /\ (b \o d)[i] = d[i - Len(a)]
      BY <1>1, <1>2, <2>2
    <3>. QED
      BY <1>1, <3>1
  <2>. QED
    BY <2>1, <2>2
<1>. QED
  BY <1>1, <1>2, <1>3 DEF ShownFor

(* What is shown byte for byte is so with the newlines left out.           *)
LEMMA CleanShown ==
    ASSUME NEW a \in Text, NEW b \in Text, ShownFor(a, b),
           \A i \in 1 .. Len(a) : a[i] = NL <=> b[i] = NL
    PROVE  ShownFor(Clean(a), Clean(b))
<1>0. /\ Len(a) \in Nat /\ Len(a) = Len(b) /\ \A i \in 1 .. Len(a) : ShowsByte(a[i], b[i])
      /\ \A i \in 1 .. Len(a) : a[i] \in Characters /\ b[i] \in Characters
  BY LenProperties, ElementOfSeq DEF ShownFor, Text
<1>. DEFINE n == Len(a)
            Good(k) == ShownFor(Clean(SubSeq(a, 1, k)), Clean(SubSeq(b, 1, k)))
            T == {k \in Nat : k <= n => Good(k)}
<1>1. 0 \in T
  <2>1. SubSeq(a, 1, 0) = <<>> /\ SubSeq(b, 1, 0) = <<>>
    BY SubSeqEmpty
  <2>2. ShownFor(<<>>, <<>>)
    BY DEF ShownFor
  <2>. QED
    BY <2>1, <2>2, CleanEmpty
<1>2. ASSUME NEW k \in T PROVE k + 1 \in T
  <2>0. SUFFICES ASSUME k + 1 <= n PROVE Good(k + 1)
    OBVIOUS
  <2>. DEFINE x == a[k + 1]
              y == b[k + 1]
              before == SubSeq(a, 1, k)
              before2 == SubSeq(b, 1, k)
  <2>1. k \in Nat /\ k + 1 \in 1 .. n /\ k <= n
    BY <1>0, <2>0
  <2>2. /\ x \in Characters /\ y \in Characters /\ ShowsByte(x, y) /\ (x = NL <=> y = NL)
        /\ <<x>> \in Text /\ <<y>> \in Text
    BY <1>0, <2>1 DEF Text
  <2>3. ShownFor(Clean(before), Clean(before2))
    BY <2>1
  <2>4. /\ before \in Text /\ SubSeq(a, 1, k + 1) = before \o <<x>>
        /\ before2 \in Text /\ SubSeq(b, 1, k + 1) = before2 \o <<y>>
    <3>1. \A i \in 1 .. k : a[i] \in Characters /\ b[i] \in Characters
      BY <1>0, <2>1
    <3>2. before \in Text /\ before2 \in Text
      BY <2>1, <3>1, SubSeqProperties DEF Text
    <3>3. 1 \in 1 .. n /\ k + 1 \in 1 .. n /\ (k + 1) - 1 = k
      BY <1>0, <2>1
    <3>4. /\ SubSeq(a, 1, k + 1) = SubSeq(a, 1, (k + 1) - 1) \o <<a[k + 1]>>
          /\ SubSeq(b, 1, k + 1) = SubSeq(b, 1, (k + 1) - 1) \o <<b[k + 1]>>
      BY <1>0, <3>3, SubSeqRecursiveSecond DEF Text
    <3>. QED
      BY <3>2, <3>3, <3>4
  <2>5. ShownFor(Clean(<<x>>), Clean(<<y>>))
    <3>1. /\ Clean(<<x>>) = IF x = NL THEN <<>> ELSE <<x>>
          /\ Clean(<<y>>) = IF y = NL THEN <<>> ELSE <<y>>
      BY <2>2, CleanLetter
    <3>. HIDE DEF x, y
    <3>2. ShownFor(<<>>, <<>>) /\ ShownFor(<<x>>, <<y>>)
      BY <2>2 DEF ShownFor
    <3>. QED
      BY <2>2, <3>1, <3>2
  <2>. HIDE DEF x, y, before, before2
  <2>6. /\ Clean(before \o <<x>>) = Clean(before) \o Clean(<<x>>)
        /\ Clean(before2 \o <<y>>) = Clean(before2) \o Clean(<<y>>)
    BY <2>2, <2>4, CleanConcat
  <2>7. /\ Clean(before) \in Text /\ Clean(<<x>>) \in Text
        /\ Clean(before2) \in Text /\ Clean(<<y>>) \in Text
    BY <2>2, <2>4, CleanType
  <2>. QED
    BY <2>3, <2>4, <2>5, <2>6, <2>7, ShownForConcat
<1>3. T = Nat
  <2>1. T \in SUBSET Nat
    OBVIOUS
  <2>. HIDE DEF T
  <2>. QED
    BY <1>1, <1>2, <2>1, NumberInduction
<1>4. Good(n)
  <2>. HIDE DEF Good
  <2>. QED
    BY <1>0, <1>3
<1>5. SubSeq(a, 1, n) = a /\ SubSeq(b, 1, n) = b
  BY <1>0, SubSeqFull DEF Text
<1>. QED
  BY <1>4, <1>5

(* Decoding replaces halves of characters and changes nothing else.        *)
LEMMA DecodedShows ==
    ASSUME NEW data \in Text
    PROVE  /\ Decoded(data) \in Text
           /\ ShownFor(Clean(Decoded(data)), Clean(data))
<1>1. /\ Len(data) \in Nat /\ DOMAIN data = 1 .. Len(data)
      /\ \A i \in 1 .. Len(data) : data[i] \in Characters
  BY LenProperties, ElementOfSeq DEF Text
<1>2. /\ Replaced \in Characters /\ NL \notin Halves /\ Replaced # NL
  BY WideAssumption DEF Replaced, NL
<1>. DEFINE d == [i \in 1 .. Len(data) |-> IF Torn(data, i) THEN Replaced ELSE data[i]]
<1>3. d \in Text /\ Len(d) = Len(data)
  BY <1>1, <1>2 DEF Text
<1>4. \A i \in 1 .. Len(data) : Torn(data, i) => data[i] \in Halves
  BY DEF Torn
<1>5. \A i \in 1 .. Len(data) : /\ ShowsByte(d[i], data[i])
                                /\ d[i] = NL <=> data[i] = NL
  BY <1>2, <1>4 DEF ShowsByte
<1>. HIDE DEF d
<1>6. ShownFor(d, data)
  BY <1>3, <1>5 DEF ShownFor
<1>7. ShownFor(Clean(d), Clean(data))
  BY <1>3, <1>5, <1>6, CleanShown
<1>. QED
  BY <1>3, <1>7 DEF Decoded, d

-----------------------------------------------------------------------------
(* What events write to an output, and what entries show of it.            *)
Entries == [type : EventTypes, job : Names, step : Names, stderr : BOOLEAN, text : Text]

Sends(j, s, err) == [e \in Events |-> Carried(e, j, s, err)]
Displays(j, s, err) == [e \in Entries |-> Displayed(e, j, s, err)]

(* An event carries a text. *)
LEMMA EventData == ASSUME NEW e \in Events PROVE e.data \in Text
  BY DEF Events, Text

(* Every event and every entry has a text for every output. *)
LEMMA SendsType ==
    ASSUME NEW j, NEW s, NEW err
    PROVE  /\ Sends(j, s, err) \in [Events -> Text]
           /\ Displays(j, s, err) \in [Entries -> Text]
<1>1. <<>> \in Text
  BY EmptySeq DEF Text
<1>2. \A e \in Events : Clean(e.data) \in Text
  BY EventData, CleanType
<1>3. \A e \in Entries : e.text \in Text
  BY DEF Entries
<1>. QED
  BY <1>1, <1>2, <1>3 DEF Sends, Displays, Carried, Displayed

(* What an event carries is a text. *)
LEMMA CarriedType ==
    ASSUME NEW e \in Events, NEW j, NEW s, NEW err
    PROVE  Carried(e, j, s, err) \in Text
<1>1. <<>> \in Text
  BY EmptySeq DEF Text
<1>2. Clean(e.data) \in Text
  BY EventData, CleanType
<1>. QED
  BY <1>1, <1>2 DEF Carried

(* What events send is what they spell. *)
LEMMA SentIsSpelled ==
    ASSUME NEW es \in Seq(Events), NEW j, NEW s, NEW err
    PROVE  Sent(es, j, s, err) = Spelled(Sends(j, s, err), es)
<1>1. DOMAIN es = 1 .. Len(es) /\ \A i \in 1 .. Len(es) : es[i] \in Events
  BY LenProperties, ElementOfSeq
<1>2. [i \in DOMAIN es |-> Carried(es[i], j, s, err)]
        = TextsOf(Sends(j, s, err), es)
  BY <1>1 DEF TextsOf, Sends
<1>. QED
  BY <1>2 DEF Sent, Spelled

(* What entries show is what they spell. *)
LEMMA ShownIsSpelled ==
    ASSUME NEW es \in Seq(Entries), NEW j, NEW s, NEW err
    PROVE  ShownOf(es, j, s, err) = Spelled(Displays(j, s, err), es)
<1>1. DOMAIN es = 1 .. Len(es) /\ \A i \in 1 .. Len(es) : es[i] \in Entries
  BY LenProperties, ElementOfSeq
<1>2. [i \in DOMAIN es |-> Displayed(es[i], j, s, err)]
        = TextsOf(Displays(j, s, err), es)
  BY <1>1 DEF TextsOf, Displays
<1>. QED
  BY <1>2 DEF ShownOf, Spelled

(* What is sent is a text. *)
LEMMA SentType ==
    ASSUME NEW es \in Seq(Events), NEW j, NEW s, NEW err
    PROVE  Sent(es, j, s, err) \in Text
<1>1. Sends(j, s, err) \in [Events -> Seq(Characters)]
  BY SendsType DEF Text
<1>2. Spelled(Sends(j, s, err), es) \in Seq(Characters)
  BY <1>1, SpelledType
<1>. QED
  BY <1>2, SentIsSpelled DEF Text

(* What is shown is a text. *)
LEMMA ShownType ==
    ASSUME NEW es \in Seq(Entries), NEW j, NEW s, NEW err
    PROVE  ShownOf(es, j, s, err) \in Text
<1>1. Displays(j, s, err) \in [Entries -> Seq(Characters)]
  BY SendsType DEF Text
<1>2. Spelled(Displays(j, s, err), es) \in Seq(Characters)
  BY <1>1, SpelledType
<1>. QED
  BY <1>2, ShownIsSpelled DEF Text

(* Sending goes through concatenation. *)
LEMMA SentConcat ==
    ASSUME NEW es \in Seq(Events), NEW fs \in Seq(Events), NEW j, NEW s, NEW err
    PROVE  Sent(es \o fs, j, s, err) = Sent(es, j, s, err) \o Sent(fs, j, s, err)
<1>1. Sends(j, s, err) \in [Events -> Seq(Characters)]
  BY SendsType DEF Text
<1>2. Spelled(Sends(j, s, err), es \o fs)
        = Spelled(Sends(j, s, err), es) \o Spelled(Sends(j, s, err), fs)
  <2>. DEFINE X == Sends(j, s, err)
  <2>1. X \in [Events -> Seq(Characters)]
    BY <1>1
  <2>. HIDE DEF X
  <2>2. Spelled(X, es \o fs) = Spelled(X, es) \o Spelled(X, fs)
    BY <2>1, SpelledConcat
  <2>. QED
    BY <2>2 DEF X
<1>3. es \o fs \in Seq(Events)
  BY ConcatProperties
<1>. QED
  BY <1>2, <1>3, SentIsSpelled

(* Showing goes through concatenation. *)
LEMMA ShownConcat ==
    ASSUME NEW es \in Seq(Entries), NEW fs \in Seq(Entries), NEW j, NEW s, NEW err
    PROVE  ShownOf(es \o fs, j, s, err) = ShownOf(es, j, s, err) \o ShownOf(fs, j, s, err)
<1>1. Displays(j, s, err) \in [Entries -> Seq(Characters)]
  BY SendsType DEF Text
<1>2. Spelled(Displays(j, s, err), es \o fs)
        = Spelled(Displays(j, s, err), es) \o Spelled(Displays(j, s, err), fs)
  <2>. DEFINE X == Displays(j, s, err)
  <2>1. X \in [Entries -> Seq(Characters)]
    BY <1>1
  <2>. HIDE DEF X
  <2>2. Spelled(X, es \o fs) = Spelled(X, es) \o Spelled(X, fs)
    BY <2>1, SpelledConcat
  <2>. QED
    BY <2>2 DEF X
<1>3. es \o fs \in Seq(Entries)
  BY ConcatProperties
<1>. QED
  BY <1>2, <1>3, ShownIsSpelled

(* One event sends what it carries. *)
LEMMA SentOne ==
    ASSUME NEW e \in Events, NEW j, NEW s, NEW err
    PROVE  Sent(<<e>>, j, s, err) = Carried(e, j, s, err)
<1>1. Sends(j, s, err) \in [Events -> Seq(Characters)]
  BY SendsType DEF Text
<1>2. Spelled(Sends(j, s, err), <<e>>) = Sends(j, s, err)[e]
  BY <1>1, SpelledOne
<1>3. <<e>> \in Seq(Events)
  OBVIOUS
<1>. QED
  BY <1>2, <1>3, SentIsSpelled DEF Sends

(* No events, no text. *)
LEMMA NothingSent ==
    ASSUME NEW j, NEW s, NEW err
    PROVE  Sent(<<>>, j, s, err) = <<>> /\ ShownOf(<<>>, j, s, err) = <<>>
<1>1. <<>> \in Seq(Events) /\ <<>> \in Seq(Entries)
  BY EmptySeq
<1>2. /\ Sent(<<>>, j, s, err) = Spelled(Sends(j, s, err), <<>>)
      /\ ShownOf(<<>>, j, s, err) = Spelled(Displays(j, s, err), <<>>)
  BY <1>1, SentIsSpelled, ShownIsSpelled
<1>. QED
  BY <1>2, SpelledEmpty

(* What is decoded of an event of an output.                               *)
Read(e, job, step, stderr) ==
    IF IsOutput(e, job, step, stderr) THEN Clean(Decoded(e.data)) ELSE <<>>

(* It is shown for what the event carries, and is that if nothing is cut.  *)
LEMMA ReadShows ==
    ASSUME NEW e \in Events, NEW j, NEW s, NEW err
    PROVE  /\ Read(e, j, s, err) \in Text
           /\ ShownFor(Read(e, j, s, err), Carried(e, j, s, err))
           /\ (IsOutput(e, j, s, err) => Whole(e)) => Read(e, j, s, err) = Carried(e, j, s, err)
<1>1. Decoded(e.data) \in Text /\ ShownFor(Clean(Decoded(e.data)), Clean(e.data))
  BY EventData, DecodedShows
<1>2. Clean(Decoded(e.data)) \in Text
  BY <1>1, CleanType
<1>3. <<>> \in Text /\ ShownFor(<<>>, <<>>)
  BY EmptySeq DEF Text, ShownFor
<1>. QED
  BY <1>1, <1>2, <1>3 DEF Read, Carried, Whole

(* An event's entries show what is decoded of it.                          *)
LEMMA NewEntriesShow ==
    ASSUME NEW e \in Events
    PROVE  /\ NewEntries(e) \in Seq(Entries)
           /\ \A j, s, err : ShownOf(NewEntries(e), j, s, err) = Read(e, j, s, err)
<1>a. /\ e.type \in EventTypes /\ e.job \in Names /\ e.step \in Names
      /\ e.stderr \in BOOLEAN
  BY DEF Events
<1>0. e.type \in Characters
  BY <1>a, NamesAssumption
<1>1. \A t \in Text : Entry(e, t) \in Entries
  BY <1>a DEF Entries, Entry
<1>2. CASE e.type = "step_log"
  <2>. DEFINE texts == LinesOf(Decoded(e.data))
              new == [k \in 1 .. Len(texts) |-> Entry(e, texts[k])]
  <2>1. texts \in Seq(Text) /\ FlattenSeq(texts) = Clean(Decoded(e.data))
    BY EventData, DecodedShows, LinesKeepText
  <2>2. NewEntries(e) = new
    BY <1>2 DEF NewEntries
  <2>. HIDE DEF texts
  <2>3. Len(texts) \in Nat /\ \A k \in 1 .. Len(texts) : texts[k] \in Text
    BY <2>1, LenProperties, ElementOfSeq
  <2>4. /\ new \in Seq(Entries) /\ Len(new) = Len(texts) /\ DOMAIN new = 1 .. Len(texts)
        /\ \A k \in 1 .. Len(texts) : new[k] = Entry(e, texts[k])
    BY <1>1, <2>3
  <2>5. ASSUME NEW j, NEW s, NEW err
        PROVE  ShownOf(new, j, s, err) = Read(e, j, s, err)
    <3>1. \A t : IsOutput(Entry(e, t), j, s, err) <=> IsOutput(e, j, s, err)
      BY DEF IsOutput, Entry
    <3>2. CASE IsOutput(e, j, s, err)
      <4>1. [i \in DOMAIN new |-> Displayed(new[i], j, s, err)]
              = [i \in 1 .. Len(texts) |-> texts[i]]
        BY <2>4, <3>1, <3>2 DEF Entry, Displayed
      <4>2. [i \in 1 .. Len(texts) |-> texts[i]] = texts
        BY <2>1, LenProperties
      <4>. HIDE DEF new
      <4>3. ShownOf(new, j, s, err) = FlattenSeq(texts)
        BY <4>1, <4>2 DEF ShownOf
      <4>. QED
        BY <2>1, <3>2, <4>3 DEF Read
    <3>3. CASE ~IsOutput(e, j, s, err)
      <4>. DEFINE none == [i \in 1 .. Len(texts) |-> <<>>]
      <4>1. [i \in DOMAIN new |-> Displayed(new[i], j, s, err)] = none
        BY <2>4, <3>1, <3>3 DEF Displayed
      <4>2. none \in Seq(Seq(Characters)) /\ \A i \in 1 .. Len(none) : none[i] = <<>>
        <5>1. <<>> \in Seq(Characters)
          BY EmptySeq
        <5>. QED
          BY <2>3, <5>1
      <4>. HIDE DEF none, new
      <4>3. FlattenSeq(none) = <<>>
        BY <4>2, FlattenNothing
      <4>. QED
        BY <3>3, <4>1, <4>3 DEF ShownOf, Read
    <3>. QED
      BY <3>2, <3>3
  <2>. QED
    BY <2>2, <2>4, <2>5
<1>3. CASE e.type # "step_log"
  <2>. DEFINE entry == Entry(e, <<e.type>>)
  <2>1. entry \in Entries
    <3>1. <<e.type>> \in Text
      BY <1>0 DEF Text
    <3>. QED
      BY <1>1, <3>1
  <2>2. NewEntries(e) = <<entry>> /\ <<entry>> \in Seq(Entries)
    BY <1>3, <2>1 DEF NewEntries
  <2>3. ASSUME NEW j, NEW s, NEW err
        PROVE  ShownOf(<<entry>>, j, s, err) = Read(e, j, s, err)
    <3>1. ~IsOutput(entry, j, s, err) /\ ~IsOutput(e, j, s, err)
      BY <1>3 DEF IsOutput, Entry
    <3>. HIDE DEF entry
    <3>2. Displays(j, s, err) \in [Entries -> Seq(Characters)]
      BY SendsType DEF Text
    <3>3. Spelled(Displays(j, s, err), <<entry>>) = Displays(j, s, err)[entry]
      BY <2>1, <3>2, SpelledOne
    <3>4. ShownOf(<<entry>>, j, s, err) = Spelled(Displays(j, s, err), <<entry>>)
      BY <2>2, ShownIsSpelled
    <3>5. Displays(j, s, err)[entry] = <<>>
      BY <2>1, <3>1 DEF Displays, Displayed
    <3>. QED
      BY <3>1, <3>3, <3>4, <3>5 DEF Read
  <2>. QED
    BY <2>2, <2>3
<1>. QED
  BY <1>2, <1>3

-----------------------------------------------------------------------------
(* The stream.                                                             *)
EndTypes == {"pipeline_started", "pipeline_finished"}

StreamType ==
    /\ left \in [Jobs -> Seq(Events)]
    /\ wire \in Seq(Events)
    /\ phase \in {"idle", "open", "ended"}
    /\ failed \in BOOLEAN
    /\ entries \in Seq(Entries)

OwnEvents ==
    \A j \in Jobs : \A i \in 1 .. Len(left[j]) :
        left[j][i].job = j /\ left[j][i].type \notin EndTypes

AllSent == \A j \in Jobs : left[j] = <<>>

(* Nothing has happened before the run, and the last event comes last.     *)
Phases ==
    /\ phase = "idle" => left = Programs /\ wire = <<>> /\ ~failed /\ entries = <<>>
    /\ pipelineStatus = "finished" => AllSent
    /\ (\E i \in 1 .. Len(wire) : wire[i].type = "pipeline_finished") => AllSent
    /\ phase = "open" => ~failed
    /\ phase = "ended" /\ ~failed => wire = <<>> /\ AllSent

(* What of an output is still to come.                                     *)
OnItsWay(j, s, err) == Sent(wire, j, s, err) \o Sent(left[j], j, s, err)

(* Of an output whose writes are whole, no event is cut.                   *)
AreWhole(es, j, s, err) == \A i \in 1 .. Len(es) : IsOutput(es[i], j, s, err) => Whole(es[i])
Uncut ==
    \A j \in Jobs, s \in Names, err \in BOOLEAN :
        WholeWrites(j, s, err) => AreWhole(left[j], j, s, err) /\ AreWhole(wire, j, s, err)

(* What is shown of what has come, and what is still to come, make up what  *)
(* was written: until the connection breaks the latter is what is on its    *)
(* way, and after it is lost.                                               *)
ShowsOf(es, j, s, err, got) ==
    /\ ShownFor(ShownOf(es, j, s, err), got)
    /\ WholeWrites(j, s, err) => ShownOf(es, j, s, err) = got

Accounted ==
    \A j \in Jobs, s \in Names, err \in BOOLEAN :
        \E got, rest \in Text :
            /\ OutputOf(j, s, err) = got \o rest
            /\ ShowsOf(entries, j, s, err, got)
            /\ ~failed => rest = OnItsWay(j, s, err)

StreamInv == StreamType /\ OwnEvents /\ Phases /\ Uncut /\ Accounted

(* What is on its way is a text. *)
LEMMA OnItsWayType ==
    ASSUME StreamType, NEW j \in Jobs, NEW s, NEW err
    PROVE  /\ Sent(wire, j, s, err) \in Text /\ Sent(left[j], j, s, err) \in Text
           /\ OnItsWay(j, s, err) \in Text
<1>1. Sent(wire, j, s, err) \in Text /\ Sent(left[j], j, s, err) \in Text
  BY SentType DEF StreamType
<1>. QED
  BY <1>1, ConcatProperties DEF OnItsWay, Text

(* Before the run everything is still to come. *)
LEMMA InitStream == Init => StreamInv
<1>. SUFFICES ASSUME Init PROVE StreamInv
  OBVIOUS
<1>1. StreamType
  BY ProgramsAssumption, EmptySeq DEF Init, StreamType
<1>2. OwnEvents
  <2>1. \A j \in Jobs : DOMAIN Programs[j] = 1 .. Len(Programs[j])
    BY ProgramsAssumption, LenProperties
  <2>. QED
    BY <2>1, ProgramsAssumption DEF Init, OwnEvents, EndTypes
<1>3. Phases
  <2>1. Len(wire) = 0
    BY DEF Init
  <2>. QED
    BY <2>1 DEF Init, Phases
<1>4. Accounted
  <2>1. SUFFICES ASSUME NEW j \in Jobs, NEW s \in Names, NEW err \in BOOLEAN
                 PROVE  \E got, rest \in Text :
                           /\ OutputOf(j, s, err) = got \o rest
                           /\ ShowsOf(entries, j, s, err, got)
                           /\ ~failed => rest = OnItsWay(j, s, err)
    BY DEF Accounted
  <2>2. /\ ShownOf(entries, j, s, err) = <<>> /\ Sent(wire, j, s, err) = <<>>
        /\ Sent(left[j], j, s, err) = OutputOf(j, s, err)
    BY NothingSent DEF Init, OutputOf
  <2>3. OutputOf(j, s, err) \in Text
    BY <1>1, <2>2, OnItsWayType
  <2>4. <<>> \o OutputOf(j, s, err) = OutputOf(j, s, err)
    BY <2>3, ConcatEmptySeq DEF Text
  <2>5. <<>> \in Text /\ ShowsOf(entries, j, s, err, <<>>)
    BY <2>2, EmptySeq DEF Text, ShowsOf, ShownFor
  <2>6. OnItsWay(j, s, err) = OutputOf(j, s, err)
    BY <2>2, <2>4 DEF OnItsWay
  <2>. QED
    BY <2>3, <2>4, <2>5, <2>6
<1>5. Uncut
  <2>1. \A j \in Jobs : DOMAIN Programs[j] = 1 .. Len(Programs[j])
    BY ProgramsAssumption, LenProperties
  <2>2. left = Programs /\ \A i : i \notin 1 .. Len(wire)
    BY DEF Init
  <2>. QED
    BY <2>1, <2>2 DEF Uncut, AreWhole, WholeWrites
<1>. QED
  BY <1>1, <1>2, <1>3, <1>4, <1>5 DEF StreamInv

(* An event that is appended adds what it carries.                         *)
LEMMA AppendSent ==
    ASSUME NEW es \in Seq(Events), NEW e \in Events, NEW j, NEW s, NEW err
    PROVE  Sent(Append(es, e), j, s, err) = Sent(es, j, s, err) \o Carried(e, j, s, err)
<1>. DEFINE one == <<e>>
<1>1. one \in Seq(Events) /\ Append(es, e) = es \o one
  BY AppendIsConcat
<1>. HIDE DEF one
<1>2. Sent(es \o one, j, s, err) = Sent(es, j, s, err) \o Sent(one, j, s, err)
  BY <1>1, SentConcat
<1>3. Sent(one, j, s, err) = Carried(e, j, s, err)
  BY SentOne DEF one
<1>. QED
  BY <1>1, <1>2, <1>3

(* What the first event carries comes first. *)
LEMMA HeadSent ==
    ASSUME NEW es \in Seq(Events), es # <<>>, NEW j, NEW s, NEW err
    PROVE  Sent(es, j, s, err) = Carried(Head(es), j, s, err) \o Sent(Tail(es), j, s, err)
<1>1. Head(es) \in Events /\ Tail(es) \in Seq(Events)
  BY HeadTailProperties
<1>. DEFINE one == <<Head(es)>>
            tail == Tail(es)
<1>2. one \in Seq(Events) /\ tail \in Seq(Events) /\ es = one \o tail
  BY <1>1
<1>. HIDE DEF one, tail
<1>3. Sent(one \o tail, j, s, err) = Sent(one, j, s, err) \o Sent(tail, j, s, err)
  BY <1>2, SentConcat
<1>4. Sent(one, j, s, err) = Carried(Head(es), j, s, err)
  BY <1>1, SentOne DEF one
<1>5. Sent(es, j, s, err) = Carried(Head(es), j, s, err) \o Sent(tail, j, s, err)
  BY <1>2, <1>3, <1>4
<1>. QED
  BY <1>1, <1>5 DEF tail

(* A write that is cut is the chunk and the rest.                          *)
LEMMA CutSent ==
    ASSUME NEW e \in Events, Len(e.data) > MaxChunk
    PROVE  /\ Chunk(e) \in Events /\ Rest(e) \in Events
           /\ Chunk(e).type = e.type /\ Chunk(e).job = e.job
           /\ Rest(e).type = e.type /\ Rest(e).job = e.job
           /\ \A j, s, err : Carried(e, j, s, err)
                              = Carried(Chunk(e), j, s, err) \o Carried(Rest(e), j, s, err)
<1>. DEFINE chunk == Chunk(e)
            rest == Rest(e)
            d == e.data
            a == SubSeq(d, 1, MaxChunk)
            b == SubSeq(d, MaxChunk + 1, Len(d))
<1>1. d \in Text /\ Len(d) \in Nat /\ MaxChunk \in Nat \ {0} /\ MaxChunk <= Len(d)
      /\ \A i \in 1 .. Len(d) : d[i] \in Characters
  BY EventData, LenProperties, ElementOfSeq, BoundsAssumption DEF Text
<1>2. a \in Text /\ b \in Text
  <2>1. \A i \in 1 .. MaxChunk : d[i] \in Characters
    BY <1>1
  <2>2. \A i \in MaxChunk + 1 .. Len(d) : d[i] \in Characters
    BY <1>1
  <2>. QED
    BY <1>1, <2>1, <2>2, SubSeqProperties DEF Text
<1>3. a \o b = d
  <2>1. 1 \in 1 .. Len(d) + 1 /\ MaxChunk \in 1 - 1 .. Len(d) /\ Len(d) \in MaxChunk .. Len(d)
    BY <1>1
  <2>2. a \o b = SubSeq(d, 1, Len(d))
    BY <1>1, <2>1, ConcatAdjacentSubSeq DEF Text
  <2>. QED
    BY <1>1, <2>2, SubSeqFull DEF Text
<1>4. /\ chunk = [e EXCEPT !.data = a] /\ rest = [e EXCEPT !.data = b]
  BY DEF Chunk, Rest
<1>. HIDE DEF a, b, chunk, rest
<1>5. /\ chunk \in Events /\ rest \in Events /\ chunk.data = a /\ rest.data = b
      /\ \A j, s, err : /\ IsOutput(chunk, j, s, err) <=> IsOutput(e, j, s, err)
                        /\ IsOutput(rest, j, s, err) <=> IsOutput(e, j, s, err)
      /\ chunk.type = e.type /\ chunk.job = e.job /\ rest.type = e.type /\ rest.job = e.job
  BY <1>2, <1>4 DEF Events, IsOutput, Text
<1>6. Clean(d) = Clean(a) \o Clean(b)
  BY <1>2, <1>3, CleanConcat
<1>7. <<>> \o <<>> = <<>>
  BY EmptySeq, ConcatEmptySeq
<1>8. ASSUME NEW j, NEW s, NEW err
      PROVE  Carried(e, j, s, err) = Carried(chunk, j, s, err) \o Carried(rest, j, s, err)
  <2>1. CASE IsOutput(e, j, s, err)
    BY <1>5, <1>6, <2>1 DEF Carried
  <2>2. CASE ~IsOutput(e, j, s, err)
    BY <1>5, <1>7, <2>2 DEF Carried
  <2>. QED
    BY <2>1, <2>2
<1>. QED
  BY <1>5, <1>8 DEF chunk, rest

(* A job sends its next event whole if none of the output's writes is too   *)
(* long, and then leaves the others as they were.                          *)
LEMMA EmitUncut ==
    ASSUME StreamInv, NEW k \in Jobs, Emit(k)
    PROVE  Uncut'
<1>. DEFINE e == Head(left[k])
            cut == e.type = "step_log" /\ Len(e.data) > MaxChunk
            sent == IF cut THEN Chunk(e) ELSE e
            now == IF cut THEN <<Rest(e)>> \o Tail(left[k]) ELSE Tail(left[k])
<1>1. /\ left \in [Jobs -> Seq(Events)] /\ left[k] # <<>> /\ left[k] \in Seq(Events)
      /\ wire \in Seq(Events) /\ wire' = Append(wire, sent) /\ left' = [left EXCEPT ![k] = now]
  BY DEF StreamInv, StreamType, Emit
<1>2. /\ Len(left[k]) \in Nat /\ 1 \in 1 .. Len(left[k]) /\ e = left[k][1] /\ e \in Events
      /\ Tail(left[k]) \in Seq(Events) /\ Len(Tail(left[k])) = Len(left[k]) - 1
      /\ \A i \in 1 .. Len(Tail(left[k])) : /\ Tail(left[k])[i] = left[k][i + 1]
                                             /\ i + 1 \in 1 .. Len(left[k])
  BY <1>1
<1>3. Len(e.data) \in Nat /\ MaxChunk \in Nat /\ e.job = k
  BY <1>2, EventData, LenProperties, BoundsAssumption DEF StreamInv, OwnEvents, Text
<1>. HIDE DEF e
<1>4. SUFFICES ASSUME NEW j \in Jobs, NEW s \in Names, NEW err \in BOOLEAN,
                      WholeWrites(j, s, err)
               PROVE  AreWhole(left'[j], j, s, err) /\ AreWhole(wire', j, s, err)
  BY DEF Uncut
<1>5. AreWhole(left[j], j, s, err) /\ AreWhole(wire, j, s, err)
  BY <1>4 DEF StreamInv, Uncut
<1>6. IsOutput(e, j, s, err) => j = k /\ Whole(e) /\ ~cut
  BY <1>2, <1>3, <1>5 DEF AreWhole, IsOutput, Whole
<1>7. cut => /\ Chunk(e) \in Events /\ ~IsOutput(e, j, s, err)
             /\ ~IsOutput(Chunk(e), j, s, err)
             /\ Rest(e) \in Events /\ ~IsOutput(Rest(e), j, s, err)
  <2>1. cut => /\ Chunk(e) \in Events /\ Rest(e) \in Events
    BY <1>2, CutSent
  <2>2. \A d : IsOutput([e EXCEPT !.data = d], j, s, err) <=> IsOutput(e, j, s, err)
    BY <1>2 DEF IsOutput, Events
  <2>. QED
    BY <1>6, <2>1, <2>2 DEF Chunk, Rest
<1>8. sent \in Events /\ (IsOutput(sent, j, s, err) => Whole(sent))
  BY <1>2, <1>6, <1>7
<1>. HIDE DEF sent
<1>9. AreWhole(wire', j, s, err)
  BY <1>1, <1>5, <1>8, AppendProperties, LenProperties DEF AreWhole
<1>10. CASE j # k
  BY <1>1, <1>5, <1>9, <1>10
<1>11. CASE j = k
  <2>1. AreWhole(Tail(left[k]), j, s, err)
    BY <1>2, <1>5, <1>11 DEF AreWhole
  <2>. DEFINE tail == Tail(left[k])
  <2>2. CASE cut
    <3>. DEFINE rest == Rest(e)
    <3>1. now = <<rest>> \o tail /\ rest \in Events /\ ~IsOutput(rest, j, s, err)
      BY <1>7, <2>2
    <3>. HIDE DEF rest, tail, now
    <3>2. tail \in Seq(Events) /\ AreWhole(tail, j, s, err)
      BY <1>2, <2>1 DEF tail
    <3>3. Len(tail) \in Nat /\ Len(now) = 1 + Len(tail)
      BY <3>1, <3>2
    <3>4. \A i \in 1 .. Len(now) : IF i = 1 THEN now[i] = rest
                                  ELSE now[i] = tail[i - 1] /\ i - 1 \in 1 .. Len(tail)
      BY <3>1, <3>2, <3>3
    <3>5. AreWhole(now, j, s, err)
      BY <3>1, <3>2, <3>4 DEF AreWhole
    <3>. QED
      BY <1>1, <1>9, <1>11, <3>5
  <2>3. CASE ~cut
    BY <1>1, <1>9, <1>11, <2>1, <2>3
  <2>. QED
    BY <2>2, <2>3
<1>. QED
  BY <1>10, <1>11

(* No step cuts an output whose writes are whole.                          *)
LEMMA StepUncut == StreamInv /\ [Next]_vars => Uncut'
<1>. SUFFICES ASSUME StreamInv, [Next]_vars PROVE Uncut'
  OBVIOUS
<1>0. /\ wire \in Seq(Events) /\ left \in [Jobs -> Seq(Events)] /\ Len(wire) \in Nat
      /\ \A j \in Jobs, s \in Names, err \in BOOLEAN :
            WholeWrites(j, s, err) => AreWhole(left[j], j, s, err) /\ AreWhole(wire, j, s, err)
  BY LenProperties DEF StreamInv, StreamType, Uncut
<1>same. ASSUME left' = left,
                \A j, s, err : AreWhole(wire, j, s, err) => AreWhole(wire', j, s, err)
         PROVE  Uncut'
  BY <1>0, <1>same DEF Uncut
<1>last. ASSUME NEW e \in Events, e.type # "step_log", left' = left,
                wire' = Append(wire, e) \/ wire' = <<e>>
         PROVE  Uncut'
  <2>1. \A j, s, err : ~IsOutput(e, j, s, err)
    BY <1>last DEF IsOutput
  <2>2. ASSUME NEW j, NEW s, NEW err, AreWhole(wire, j, s, err) PROVE AreWhole(wire', j, s, err)
    <3>1. CASE wire' = Append(wire, e)
      <4>. SUFFICES \A i \in 1 .. Len(wire') : IsOutput(wire'[i], j, s, err) => Whole(wire'[i])
        BY DEF AreWhole
      <4>1. TAKE i \in 1 .. Len(wire')
      <4>2. wire'[i] = e \/ (i \in 1 .. Len(wire) /\ wire'[i] = wire[i])
        BY <1>0, <3>1, <4>1, AppendProperties
      <4>. QED
        BY <2>1, <2>2, <4>2 DEF AreWhole
    <3>2. CASE wire' = <<e>>
      BY <2>1, <3>2 DEF AreWhole
    <3>. QED
      BY <1>last, <3>1, <3>2
  <2>. QED
    BY <1>last, <1>same, <2>2
<1>1. CASE UNCHANGED stream
  <2>1. left' = left /\ wire' = wire
    BY <1>1 DEF stream
  <2>. QED
    BY <1>same, <2>1
<1>2. CASE StartStream
  <2>1. Started \in Events /\ Started.type = "pipeline_started"
    BY NamesAssumption, EmptySeq DEF Started, Event, Events, EventTypes
  <2>. QED
    BY <1>2, <1>last, <2>1 DEF StartStream
<1>3. ASSUME NEW k \in Jobs, Emit(k) PROVE Uncut'
  BY <1>3, EmitUncut
<1>4. CASE EmitFinished
  <2>1. Finished \in Events /\ Finished.type = "pipeline_finished"
    BY NamesAssumption, EmptySeq DEF Finished, Event, Events, EventTypes
  <2>. QED
    BY <1>4, <1>last, <2>1 DEF EmitFinished
<1>5. CASE Receive
  <2>1. left' = left /\ wire # <<>> /\ wire' = Tail(wire)
    BY <1>5 DEF Receive
  <2>2. /\ Len(wire') = Len(wire) - 1
        /\ \A i \in 1 .. Len(wire') : wire'[i] = wire[i + 1] /\ i + 1 \in 1 .. Len(wire)
    BY <1>0, <2>1
  <2>3. \A j, s, err : AreWhole(wire, j, s, err) => AreWhole(wire', j, s, err)
    BY <2>2 DEF AreWhole
  <2>. QED
    BY <1>same, <2>1, <2>3
<1>6. CASE EndOfStream
  BY <1>6, <1>same DEF EndOfStream
<1>7. CASE StreamBreaks
  <2>1. left' = left /\ wire' = <<>>
    BY <1>7 DEF StreamBreaks
  <2>2. \A j, s, err : AreWhole(wire', j, s, err)
    BY <2>1 DEF AreWhole
  <2>. QED
    BY <1>same, <2>1, <2>2
<1>8. ASSUME User \/ HandleScroll \/ FollowEffect PROVE UNCHANGED stream
  BY <1>8 DEF User, Act, OpenTab, CloseTab, SelectJob, SelectStep, ToggleStderr, Search, Scroll,
              ScrollToBottom, HandleScroll, FollowEffect
<1>. QED
  BY <1>1, <1>2, <1>3, <1>4, <1>5, <1>6, <1>7, <1>8 DEF Next, vars

(* Every step moves text along the way or leaves it where it is. *)
LEMMA StepStream == StreamInv /\ [Next]_vars => StreamInv'
<1> SUFFICES ASSUME StreamInv, [Next]_vars PROVE StreamInv'
  OBVIOUS
<1>0. StreamType /\ OwnEvents /\ Phases /\ Uncut /\ Accounted
  BY DEF StreamInv
<1>w. Uncut'
  BY StepUncut
<1>1. CASE UNCHANGED <<stream, entries, pipelineStatus>>
  <2>1. UNCHANGED <<left, wire, phase, failed, entries, pipelineStatus>>
    BY <1>1 DEF stream
  <2>2. StreamType' /\ OwnEvents'
    BY <1>0, <2>1 DEF StreamType, OwnEvents
  <2>3. Phases'
    BY <1>0, <2>1 DEF Phases, AllSent
  <2>4. Accounted'
    BY <1>0, <2>1 DEF Accounted, OnItsWay
  <2>. QED
    BY <1>w, <2>2, <2>3, <2>4 DEF StreamInv
<1>2. CASE StartStream
  <2>1. /\ wire' = <<Started>> /\ phase' = "open" /\ UNCHANGED <<left, failed>>
        /\ phase = "idle" /\ entries' = <<>> /\ pipelineStatus' = "unspecified"
    BY <1>2 DEF StartStream, Reset
  <2>2. Started \in Events /\ Started.type = "pipeline_started"
    BY NamesAssumption, EmptySeq DEF Started, Event, Events, EventTypes
  <2>3. StreamType' /\ OwnEvents'
    BY <1>0, <2>1, <2>2, EmptySeq DEF StreamType, OwnEvents
  <2>4. Phases'
    <3>1. Len(wire') = 1 /\ wire'[1] = Started
      BY <2>1
    <3>2. \A i \in 1 .. Len(wire') : wire'[i].type # "pipeline_finished"
      BY <2>2, <3>1
    <3>3. ~failed'
      BY <1>0, <2>1 DEF Phases
    <3>. QED
      BY <2>1, <3>2, <3>3 DEF Phases
  <2>5. Accounted'
    <3>1. SUFFICES ASSUME NEW j \in Jobs, NEW s \in Names, NEW err \in BOOLEAN
                   PROVE  OnItsWay(j, s, err)' = OnItsWay(j, s, err)
      BY <1>0, <2>1 DEF Accounted, Phases
    <3>2. Carried(Started, j, s, err) = <<>>
      BY <2>2 DEF IsOutput, Carried
    <3>3. Sent(wire', j, s, err) = <<>>
      BY <2>1, <2>2, <3>2, SentOne
    <3>4. Sent(wire, j, s, err) = <<>>
      BY <1>0, <2>1, NothingSent DEF Phases
    <3>. QED
      BY <2>1, <3>3, <3>4 DEF OnItsWay
  <2>. QED
    BY <1>w, <2>3, <2>4, <2>5 DEF StreamInv
<1>3. ASSUME NEW k \in Jobs, Emit(k) PROVE StreamInv'
  <2>. DEFINE e == Head(left[k])
              cut == e.type = "step_log" /\ Len(e.data) > MaxChunk
              chunk == Chunk(e)
              rest == Rest(e)
              sent == IF cut THEN chunk ELSE e
              now == IF cut THEN <<rest>> \o Tail(left[k]) ELSE Tail(left[k])
  <2>1. /\ phase = "open" /\ left[k] # <<>> /\ left[k] \in Seq(Events) /\ wire \in Seq(Events)
        /\ wire' = Append(wire, sent) /\ left' = [left EXCEPT ![k] = now]
        /\ UNCHANGED <<phase, failed, entries, pipelineStatus>>
    BY <1>0, <1>3 DEF Emit, StreamType, logs
  <2>a. e \in Events /\ Tail(left[k]) \in Seq(Events)
    BY <2>1, HeadTailProperties
  <2>b. ASSUME NEW j, NEW s, NEW err
        PROVE  Sent(left[k], j, s, err) = Carried(e, j, s, err) \o Sent(Tail(left[k]), j, s, err)
    BY <2>1, HeadSent, ZenonT(60)
  <2>2. /\ e \in Events /\ Tail(left[k]) \in Seq(Events)
        /\ \A j, s, err : Sent(left[k], j, s, err)
                            = Carried(e, j, s, err) \o Sent(Tail(left[k]), j, s, err)
    BY <2>a, <2>b
  <2>3. Len(left[k]) \in Nat /\ 1 \in 1 .. Len(left[k]) /\ e = left[k][1]
    BY <2>1
  <2>4. e.job = k /\ e.type \notin EndTypes
    BY <1>0, <2>3 DEF OwnEvents
  <2>5. \A i \in 1 .. Len(Tail(left[k])) :
            Tail(left[k])[i].job = k /\ Tail(left[k])[i].type \notin EndTypes
    <3>1. TAKE i \in 1 .. Len(Tail(left[k]))
    <3>2. Tail(left[k])[i] = left[k][i + 1] /\ i + 1 \in 1 .. Len(left[k])
      BY <2>1, HeadTailProperties, LenProperties
    <3>. QED
      BY <1>0, <3>2 DEF OwnEvents
  <2>6. /\ sent \in Events /\ sent.job = k /\ sent.type \notin EndTypes
        /\ now \in Seq(Events)
        /\ \A i \in 1 .. Len(now) : now[i].job = k /\ now[i].type \notin EndTypes
        /\ \A j, s, err : Sent(left[k], j, s, err)
                            = Carried(sent, j, s, err) \o Sent(now, j, s, err)
    <3>1. CASE cut
      <4>. DEFINE tail == Tail(left[k])
      <4>1. /\ chunk \in Events /\ rest \in Events
            /\ chunk.type = e.type /\ chunk.job = e.job /\ rest.type = e.type /\ rest.job = e.job
            /\ \A j, s, err :
                 Carried(e, j, s, err) = Carried(chunk, j, s, err) \o Carried(rest, j, s, err)
        BY <2>2, <3>1, CutSent
      <4>2. sent = chunk /\ now = <<rest>> \o tail
        BY <3>1
      <4>. HIDE DEF e, chunk, rest, sent, now, cut
      <4>3. <<rest>> \in Seq(Events) /\ now \in Seq(Events)
        BY <2>2, <4>1, <4>2
      <4>4. \A i \in 1 .. Len(now) : now[i].job = k /\ now[i].type \notin EndTypes
        <5>1. TAKE i \in 1 .. Len(now)
        <5>2. CASE i = 1
          BY <2>2, <2>4, <4>1, <4>2, <5>2
        <5>3. CASE i # 1
          <6>1. now[i] = tail[i - 1] /\ i - 1 \in 1 .. Len(tail)
            BY <2>2, <4>1, <4>2, <5>3
          <6>. QED
            BY <2>5, <6>1
        <5>. QED
          BY <5>2, <5>3
      <4>5. ASSUME NEW j, NEW s, NEW err
            PROVE  Sent(left[k], j, s, err) = Carried(sent, j, s, err) \o Sent(now, j, s, err)
        <5>. DEFINE a == Carried(chunk, j, s, err)
                    b == Carried(rest, j, s, err)
                    c == Sent(tail, j, s, err)
                    one == <<rest>>
        <5>1. Sent(now, j, s, err) = b \o c
          <6>1. one \in Seq(Events) /\ tail \in Seq(Events) /\ now = one \o tail
            BY <2>2, <4>2, <4>3
          <6>. HIDE DEF one, tail
          <6>2. Sent(one \o tail, j, s, err) = Sent(one, j, s, err) \o Sent(tail, j, s, err)
            BY <6>1, SentConcat
          <6>3. Sent(one, j, s, err) = b
            BY <4>1, SentOne DEF one
          <6>. QED
            BY <6>1, <6>2, <6>3
        <5>2. a \in Text /\ b \in Text /\ c \in Text
          BY <2>2, <4>1, SentType, CarriedType
        <5>3. Sent(left[k], j, s, err) = (a \o b) \o c
          BY <2>2, <4>1
        <5>. HIDE DEF a, b, c
        <5>4. (a \o b) \o c = a \o (b \o c)
          BY <5>2, TextAssociative
        <5>. QED
          BY <4>2, <5>1, <5>3, <5>4 DEF a
      <4>. QED
        BY <2>4, <4>1, <4>2, <4>3, <4>4, <4>5
    <3>2. CASE ~cut
      BY <2>2, <2>4, <2>5, <3>2
    <3>. QED
      BY <3>1, <3>2
  <2>. HIDE DEF e, cut, chunk, rest, sent, now
  <2>7. /\ left' \in [Jobs -> Seq(Events)] /\ left'[k] = now
        /\ \A j \in Jobs \ {k} : left'[j] = left[j]
    BY <1>0, <2>1, <2>6 DEF StreamType
  <2>8. StreamType'
    BY <1>0, <2>1, <2>6, <2>7, AppendProperties DEF StreamType
  <2>9. OwnEvents'
    BY <1>0, <2>6, <2>7 DEF OwnEvents
  <2>10. Phases'
    <3>1. ~AllSent
      BY <2>1 DEF AllSent
    <3>2. pipelineStatus # "finished" /\ \A i \in 1 .. Len(wire) : wire[i].type # "pipeline_finished"
      BY <1>0, <3>1 DEF Phases
    <3>3. \A i \in 1 .. Len(wire') : wire'[i].type # "pipeline_finished"
      BY <2>1, <2>6, <3>2, AppendProperties, LenProperties DEF EndTypes
    <3>4. ~failed'
      BY <1>0, <2>1 DEF Phases
    <3>. QED
      BY <2>1, <3>2, <3>3, <3>4 DEF Phases
  <2>11. Accounted'
    <3>1. SUFFICES ASSUME NEW j \in Jobs, NEW s \in Names, NEW err \in BOOLEAN
                   PROVE  OnItsWay(j, s, err)' = OnItsWay(j, s, err)
      <4>1. SUFFICES ASSUME NEW j \in Jobs, NEW s \in Names, NEW err \in BOOLEAN,
                            OnItsWay(j, s, err)' = OnItsWay(j, s, err)
                     PROVE  \E got, more \in Text :
                               /\ OutputOf(j, s, err) = got \o more
                               /\ ShowsOf(entries', j, s, err, got)
                               /\ ~failed' => more = OnItsWay(j, s, err)'
        BY DEF Accounted
      <4>2. PICK got \in Text, more \in Text : /\ OutputOf(j, s, err) = got \o more
                                               /\ ShowsOf(entries, j, s, err, got)
                                               /\ ~failed => more = OnItsWay(j, s, err)
        BY <1>0 DEF Accounted
      <4>3. entries' = entries /\ failed' = failed
        BY <2>1
      <4>. QED
        BY <4>1, <4>2, <4>3
    <3>2. CASE j = k
      <4>1. Sent(left[k], j, s, err) = Carried(sent, j, s, err) \o Sent(now, j, s, err)
        BY <2>6
      <4>. DEFINE a == Sent(wire, j, s, err)
                  b == Carried(sent, j, s, err)
                  c == Sent(now, j, s, err)
      <4>2. a \in Text /\ b \in Text /\ c \in Text
        BY <2>1, <2>6, SentType, CarriedType
      <4>3. Sent(Append(wire, sent), j, s, err) = a \o b
        <5>1. wire \in Seq(Events) /\ sent \in Events
          BY <2>1, <2>6
        <5>. QED
          BY <5>1, AppendSent
      <4>. HIDE DEF a, b, c
      <4>4. (a \o b) \o c = a \o (b \o c)
        BY <4>2, TextAssociative
      <4>5. Sent(wire', j, s, err) = a \o b /\ Sent(left'[j], j, s, err) = c
        BY <2>1, <2>7, <3>2, <4>3 DEF c
      <4>6. Sent(wire, j, s, err) = a /\ Sent(left[j], j, s, err) = b \o c
        BY <3>2, <4>1 DEF a, b, c
      <4>. QED
        BY <4>4, <4>5, <4>6 DEF OnItsWay
    <3>3. CASE j # k
      <4>1. Carried(sent, j, s, err) = <<>>
        BY <2>6, <3>3 DEF IsOutput, Carried
      <4>2. Sent(wire, j, s, err) \in Text
        BY <1>0, OnItsWayType
      <4>3. Sent(Append(wire, sent), j, s, err) = Sent(wire, j, s, err) \o Carried(sent, j, s, err)
        BY <2>1, <2>6, AppendSent
      <4>4. Sent(wire', j, s, err) = Sent(wire, j, s, err)
        BY <2>1, <4>1, <4>2, <4>3, TextEmpty
      <4>. QED
        BY <2>7, <3>3, <4>4 DEF OnItsWay
    <3>. QED
      BY <3>2, <3>3
  <2>. QED
    BY <1>w, <2>8, <2>9, <2>10, <2>11 DEF StreamInv
<1>4. CASE EmitFinished
  <2>1. /\ phase = "open" /\ AllSent /\ wire' = Append(wire, Finished)
        /\ UNCHANGED <<left, phase, failed, entries, pipelineStatus>>
    BY <1>4 DEF EmitFinished, AllSent, logs
  <2>2. Finished \in Events /\ Finished.type = "pipeline_finished"
    BY NamesAssumption, EmptySeq DEF Finished, Event, Events, EventTypes
  <2>3. StreamType' /\ OwnEvents'
    BY <1>0, <2>1, <2>2, AppendProperties DEF StreamType, OwnEvents
  <2>4. Phases'
    BY <1>0, <2>1 DEF Phases, AllSent
  <2>5. Accounted'
    <3>1. SUFFICES ASSUME NEW j \in Jobs, NEW s \in Names, NEW err \in BOOLEAN
                   PROVE  OnItsWay(j, s, err)' = OnItsWay(j, s, err)
      BY <1>0, <2>1 DEF Accounted
    <3>2. Carried(Finished, j, s, err) = <<>>
      BY <2>2 DEF IsOutput, Carried
    <3>3. Sent(wire, j, s, err) \in Text /\ wire \in Seq(Events)
      BY <1>0, OnItsWayType DEF StreamType
    <3>4. Sent(Append(wire, Finished), j, s, err)
            = Sent(wire, j, s, err) \o Carried(Finished, j, s, err)
      BY <2>2, <3>3, AppendSent
    <3>5. Sent(wire', j, s, err) = Sent(wire, j, s, err)
      BY <2>1, <3>2, <3>3, <3>4, TextEmpty
    <3>. QED
      BY <2>1, <3>5 DEF OnItsWay
  <2>. QED
    BY <1>w, <2>3, <2>4, <2>5 DEF StreamInv
<1>5. CASE Receive
  <2>. DEFINE e == Head(wire)
              tail == Tail(wire)
              new == NewEntries(e)
  <2>1. /\ phase = "open" /\ wire # <<>> /\ wire \in Seq(Events) /\ wire' = tail
        /\ entries' = entries \o new
        /\ UNCHANGED <<left, phase, failed>>
        /\ pipelineStatus' = "finished" => pipelineStatus = "finished" \/ e.type = "pipeline_finished"
    BY <1>0, <1>5 DEF Receive, Push, StreamType
  <2>2. e \in Events /\ tail \in Seq(Events)
    BY <2>1, HeadTailProperties
  <2>way. ASSUME NEW j, NEW s, NEW err
          PROVE  Sent(wire, j, s, err) = Carried(e, j, s, err) \o Sent(tail, j, s, err)
    BY <2>1, HeadSent
  <2>3. /\ Len(wire) \in Nat /\ 1 \in 1 .. Len(wire) /\ e = wire[1] /\ Len(tail) = Len(wire) - 1
        /\ \A i \in 1 .. Len(tail) : tail[i] = wire[i + 1] /\ i + 1 \in 1 .. Len(wire)
    BY <2>1
  <2>. HIDE DEF e, tail
  <2>4. new \in Seq(Entries) /\ \A j, s, err : ShownOf(new, j, s, err) = Read(e, j, s, err)
    BY <2>2, NewEntriesShow
  <2>. HIDE DEF new
  <2>5. StreamType' /\ OwnEvents'
    BY <1>0, <2>1, <2>2, <2>4, ConcatProperties DEF StreamType, OwnEvents
  <2>6. Phases'
    BY <1>0, <2>1, <2>3 DEF Phases, AllSent
  <2>7. Accounted'
    <3>1. SUFFICES ASSUME NEW j \in Jobs, NEW s \in Names, NEW err \in BOOLEAN
                   PROVE  \E got, rest \in Text :
                             /\ OutputOf(j, s, err) = got \o rest
                             /\ ShowsOf(entries', j, s, err, got)
                             /\ ~failed' => rest = OnItsWay(j, s, err)'
      BY DEF Accounted
    <3>a. ~failed
      BY <1>0, <2>1 DEF Phases
    <3>2. PICK got \in Text : /\ OutputOf(j, s, err) = got \o OnItsWay(j, s, err)
                              /\ ShowsOf(entries, j, s, err, got)
      BY <1>0, <3>a DEF Accounted
    <3>. DEFINE shown == ShownOf(entries, j, s, err)
                read == Read(e, j, s, err)
                here == Carried(e, j, s, err)
                later == Sent(tail, j, s, err)
                after == Sent(left[j], j, s, err)
    <3>3. ShownOf(entries', j, s, err) = shown \o read
      <4>1. ShownOf(entries \o new, j, s, err) = shown \o ShownOf(new, j, s, err)
        BY <1>0, <2>4, ShownConcat DEF StreamType
      <4>. QED
        BY <2>1, <2>4, <4>1
    <3>4. /\ shown \in Text /\ here \in Text /\ later \in Text /\ after \in Text
      BY <1>0, <2>2, ShownType, CarriedType, SentType DEF StreamType
    <3>5. /\ read \in Text /\ ShownFor(read, here)
          /\ WholeWrites(j, s, err) => read = here
      <4>1. WholeWrites(j, s, err) /\ IsOutput(e, j, s, err) => Whole(e)
        BY <1>0, <2>3 DEF Uncut, AreWhole
      <4>. QED
        BY <2>2, <4>1, ReadShows
    <3>6. OnItsWay(j, s, err) = (here \o later) \o after
      BY <2>way DEF OnItsWay
    <3>7. OnItsWay(j, s, err)' = later \o after
      BY <2>1 DEF OnItsWay
    <3>8. ShowsOf(entries', j, s, err, got \o here)
      <4>1. ShownFor(shown, got) /\ (WholeWrites(j, s, err) => shown = got)
        BY <3>2 DEF ShowsOf
      <4>. HIDE DEF shown, read, here
      <4>2. ShownFor(shown \o read, got \o here)
        BY <3>4, <3>5, <4>1, ShownForConcat
      <4>3. WholeWrites(j, s, err) => shown \o read = got \o here
        BY <3>5, <4>1
      <4>. QED
        BY <3>3, <4>2, <4>3 DEF ShowsOf
    <3>. HIDE DEF shown, read, here, later, after
    <3>9. later \o after \in Text /\ got \o here \in Text
      BY <3>2, <3>4, TextConcat
    <3>10. (here \o later) \o after = here \o (later \o after)
      BY <3>4, TextAssociative
    <3>11. got \o (here \o (later \o after)) = (got \o here) \o (later \o after)
      <4>. DEFINE d == later \o after
      <4>1. d \in Text
        BY <3>9
      <4>. HIDE DEF d
      <4>2. got \o (here \o d) = (got \o here) \o d
        BY <3>2, <3>4, <4>1, TextAssociative, ZenonT(60)
      <4>. QED
        BY <4>2 DEF d
    <3>12. OutputOf(j, s, err) = (got \o here) \o (later \o after)
      BY <3>2, <3>6, <3>10, <3>11
    <3>. QED
      BY <3>7, <3>8, <3>9, <3>12
  <2>. QED
    BY <1>w, <2>5, <2>6, <2>7 DEF StreamInv
<1>6. CASE EndOfStream
  <2>1. /\ phase = "open" /\ wire = <<>> /\ pipelineStatus = "finished" /\ phase' = "ended"
        /\ UNCHANGED <<left, wire, failed, entries, pipelineStatus>>
    BY <1>6 DEF EndOfStream, Complete
  <2>2. StreamType' /\ OwnEvents'
    BY <1>0, <2>1 DEF StreamType, OwnEvents
  <2>3. Phases'
    BY <1>0, <2>1 DEF Phases, AllSent
  <2>4. Accounted'
    BY <1>0, <2>1 DEF Accounted, OnItsWay
  <2>. QED
    BY <1>w, <2>2, <2>3, <2>4 DEF StreamInv
<1>7. CASE StreamBreaks
  <2>1. /\ phase = "open" /\ phase' = "ended" /\ failed' = TRUE /\ wire' = <<>>
        /\ UNCHANGED <<left, entries, pipelineStatus>>
    BY <1>7 DEF StreamBreaks, Complete
  <2>2. StreamType' /\ OwnEvents'
    BY <1>0, <2>1, EmptySeq DEF StreamType, OwnEvents
  <2>3. Phases'
    <3>1. Len(wire') = 0
      BY <2>1
    <3>. QED
      BY <1>0, <2>1, <3>1 DEF Phases, AllSent
  <2>4. Accounted'
    BY <1>0, <2>1 DEF Accounted
  <2>. QED
    BY <1>w, <2>2, <2>3, <2>4 DEF StreamInv
<1>8. ASSUME User \/ HandleScroll \/ FollowEffect
      PROVE  UNCHANGED <<stream, entries, pipelineStatus>>
  BY <1>8 DEF User, Act, OpenTab, CloseTab, SelectJob, SelectStep, ToggleStderr, Search, Scroll,
              ScrollToBottom, HandleScroll, FollowEffect, logs
<1>9. UNCHANGED vars => UNCHANGED <<stream, entries, pipelineStatus>>
  BY DEF vars, logs
<1>. QED
  BY <1>1, <1>2, <1>3, <1>4, <1>5, <1>6, <1>7, <1>8, <1>9 DEF Next

-----------------------------------------------------------------------------
(* A text is a prefix of what it begins. *)
LEMMA PrefixOfConcat ==
    ASSUME NEW a \in Text, NEW b \in Text
    PROVE  IsPrefix(a, a \o b)
<1>1. /\ Len(a) \in Nat /\ Len(b) \in Nat /\ Len(a \o b) = Len(a) + Len(b)
  BY LenProperties, ConcatProperties DEF Text
<1>2. SubSeq(a, 1, Len(a)) = SubSeq(a \o b, 1, Len(a))
  <2>1. CASE Len(a) = 0
    BY <2>1, SubSeqEmpty
  <2>2. CASE Len(a) # 0
    <3>1. 1 \in 1 .. Len(a) /\ Len(a) \in 1 .. Len(a)
      BY <1>1, <2>2
    <3>. QED
      BY <3>1, SubSeqOfConcat1 DEF Text
  <2>. QED
    BY <2>1, <2>2
<1>. QED
  BY <1>1, <1>2 DEF IsPrefix

(* Nothing that a step writes is lost, doubled or moved on the way to the   *)
(* page: byte for byte it is shown or, where a cut divides a character,     *)
(* replaced; and where no write is cut it is shown as it was written.       *)
THEOREM NoTextIsLost == Spec => []TextKept
<1>1. StreamInv => TextKept
  <2>1. SUFFICES ASSUME StreamInv, NEW j \in Jobs, NEW s \in Steps, NEW err \in BOOLEAN
                 PROVE  LET shown == ShownOf(entries, j, s, err)
                            written == OutputOf(j, s, err)
                        IN /\ Len(shown) <= Len(written)
                           /\ ShownFor(shown, SubSeq(written, 1, Len(shown)))
                           /\ phase = "ended" /\ ~failed => Len(shown) = Len(written)
                           /\ WholeWrites(j, s, err) => IsPrefix(shown, written)
    BY DEF TextKept
  <2>2. s \in Names
    <3>1. PICK k \in Jobs : \E e \in ToSet(Programs[k]) : s = e.step
      BY DEF Steps
    <3>2. Programs[k] \in Seq(Events)
      BY ProgramsAssumption
    <3>3. \A e \in ToSet(Programs[k]) : e \in Events
      BY <3>2, LenProperties, ElementOfSeq DEF ToSet
    <3>. QED
      BY <3>1, <3>3 DEF Events
  <2>3. PICK got \in Text, rest \in Text : /\ OutputOf(j, s, err) = got \o rest
                                           /\ ShowsOf(entries, j, s, err, got)
                                           /\ ~failed => rest = OnItsWay(j, s, err)
    BY <2>1, <2>2 DEF StreamInv, Accounted
  <2>. DEFINE shown == ShownOf(entries, j, s, err)
              written == OutputOf(j, s, err)
  <2>4. ShownFor(shown, got) /\ (WholeWrites(j, s, err) => shown = got)
    BY <2>3 DEF ShowsOf
  <2>5. phase = "ended" /\ ~failed => rest = <<>>
    <3>1. SUFFICES ASSUME phase = "ended", ~failed PROVE OnItsWay(j, s, err) = <<>>
      BY <2>3
    <3>2. wire = <<>> /\ left[j] = <<>>
      BY <2>1, <3>1 DEF StreamInv, Phases, AllSent
    <3>3. <<>> \o <<>> = <<>>
      BY <2>3, TextEmpty
    <3>. QED
      BY <3>2, <3>3, NothingSent DEF OnItsWay
  <2>6. IsPrefix(got, written)
    BY <2>3, PrefixOfConcat
  <2>7. /\ Len(got) \in Nat /\ Len(rest) \in Nat /\ Len(written) = Len(got) + Len(rest)
        /\ Len(shown) = Len(got)
    BY <2>3, <2>4, LenProperties, ConcatProperties DEF Text, ShownFor
  <2>8. SubSeq(written, 1, Len(got)) = got
    BY <2>3, <2>6, SubSeqFull DEF IsPrefix, Text
  <2>9. rest = <<>> => Len(rest) = 0
    OBVIOUS
  <2>. HIDE DEF shown, written
  <2>10. /\ Len(shown) <= Len(written)
         /\ ShownFor(shown, SubSeq(written, 1, Len(shown)))
         /\ phase = "ended" /\ ~failed => Len(shown) = Len(written)
         /\ WholeWrites(j, s, err) => IsPrefix(shown, written)
    <3>1. Len(shown) <= Len(written)
      BY <2>7
    <3>2. ShownFor(shown, SubSeq(written, 1, Len(shown)))
      BY <2>4, <2>7, <2>8
    <3>3. phase = "ended" /\ ~failed => Len(shown) = Len(written)
      BY <2>5, <2>7, <2>9
    <3>4. WholeWrites(j, s, err) => IsPrefix(shown, written)
      BY <2>4, <2>6
    <3>. QED
      BY <3>1, <3>2, <3>3, <3>4
  <2>. QED
    BY <2>10 DEF shown, written
<1>. QED
  BY <1>1, InitStream, StepStream, PTL DEF Spec

-----------------------------------------------------------------------------
(* The viewer.                                                             *)
Viewers ==
    [open : {TRUE}, jobFilter : Names, stepFilter : Names, showStderr : BOOLEAN,
     query : {"", "x"}, autoScroll : BOOLEAN, bottom : Nat, follow : BOOLEAN,
     scrolled : BOOLEAN]

ViewType ==
    /\ jobNames \in Seq(Names) /\ stepNames \in Seq(Names)
    /\ viewer = Closed \/ viewer \in Viewers

(* Nothing is shown before the run, and so nothing is taken from under it. *)
OpenedLate == viewer.open => phase # "idle"

(* FollowingIsAtTheEnd, of any entries and any viewer.                     *)
AtEnd(es, v) == Rows(es, v) <= v.bottom + Slack
Follows(es, v) == v.autoScroll /\ ~v.follow /\ ~v.scrolled => AtEnd(es, v)
ViewFollows == viewer.open => Follows(entries, viewer)

ViewerInv == ViewType /\ OpenedLate /\ SelectionOffered /\ ViewFollows
ViewInv == StreamInv /\ ViewerInv

(* As many rows are shown as a number can say.                             *)
LEMMA RowsType == ASSUME NEW es \in Seq(Entries), NEW v PROVE Rows(es, v) \in Nat
<1>1. DOMAIN es = 1 .. Len(es) /\ Len(es) \in Nat
  BY LenProperties
<1>2. IsFiniteSet(1 .. Len(es))
  BY <1>1, FS_Interval
<1>3. Shown(es, v) \subseteq 1 .. Len(es)
  BY <1>1 DEF Shown
<1>4. IsFiniteSet(Shown(es, v))
  BY <1>2, <1>3, FS_Subset
<1>. QED
  BY <1>4, FS_CardinalityType DEF Rows

(* The filters alone decide which rows are shown.                          *)
LEMMA SameFiltersSameRows ==
    ASSUME NEW es, NEW v, NEW w, w.jobFilter = v.jobFilter, w.stepFilter = v.stepFilter,
           w.showStderr = v.showStderr, w.query = v.query
    PROVE  Rows(es, w) = Rows(es, v)
<1>1. Shown(es, w) = Shown(es, v)
  BY DEF Shown
<1>. QED
  BY <1>1 DEF Rows

(* The least of two numbers.                                               *)
LEMMA MinOfTwo ==
    ASSUME NEW a \in Nat, NEW b \in Nat
    PROVE  Min({a, b}) = IF a <= b THEN a ELSE b
<1>. DEFINE m == IF a <= b THEN a ELSE b
<1>1. m \in {a, b} /\ \A y \in {a, b} : m <= y
  OBVIOUS
<1>2. \A x \in {a, b} : (\A y \in {a, b} : x <= y) => x = m
  OBVIOUS
<1>3. Min({a, b}) \in {a, b} /\ \A y \in {a, b} : Min({a, b}) <= y
  BY <1>1 DEF Min
<1>. QED
  BY <1>2, <1>3

(* A viewer that is elsewhere in its list is a viewer.                     *)
LEMMA PlacedType ==
    ASSUME NEW w \in Viewers, NEW b \in Nat, NEW s \in BOOLEAN, NEW f \in BOOLEAN
    PROVE  [w EXCEPT !.bottom = b, !.scrolled = s, !.follow = f] \in Viewers
  BY DEF Viewers

(* A render keeps the filters, and a list that followed its end follows it. *)
LEMMA RenderedFollows ==
    ASSUME NEW v \in Viewers, NEW w \in Viewers,
           NEW es \in Seq(Entries), NEW fs \in Seq(Entries),
           v.autoScroll /\ w.autoScroll /\ ~v.follow /\ ~w.scrolled => AtEnd(es, v)
    PROVE  LET r == Rendered(v, es, w, fs)
           IN /\ r \in Viewers
              /\ r.jobFilter = w.jobFilter /\ r.stepFilter = w.stepFilter
              /\ Follows(fs, r)
<1>. DEFINE rows == Rows(es, v)
            rows2 == Rows(fs, w)
            ran == IF v.follow THEN rows ELSE w.bottom
            bottom == Min({ran, rows2})
            changed == rows2 # rows \/ w.autoScroll # v.autoScroll
            r == [w EXCEPT !.bottom = bottom,
                           !.scrolled = w.scrolled \/ bottom # v.bottom,
                           !.follow = changed /\ w.autoScroll]
<1>1. rows \in Nat /\ rows2 \in Nat
  BY RowsType
<1>2. v.bottom \in Nat /\ w.bottom \in Nat /\ v.follow \in BOOLEAN /\ w.autoScroll \in BOOLEAN
      /\ v.autoScroll \in BOOLEAN /\ w.scrolled \in BOOLEAN
  BY DEF Viewers
<1>3. ran \in Nat
  BY <1>1, <1>2
<1>4. Rendered(v, es, w, fs) = r
  BY DEF Rendered
<1>. HIDE DEF rows, rows2, ran
<1>5. bottom \in Nat /\ bottom = IF ran <= rows2 THEN ran ELSE rows2
  BY <1>1, <1>3, MinOfTwo
<1>. HIDE DEF bottom
<1>6. r \in Viewers
  <2>. DEFINE moved == w.scrolled \/ bottom # v.bottom
              later == changed /\ w.autoScroll
  <2>1. moved \in BOOLEAN /\ later \in BOOLEAN
    BY <1>2
  <2>2. r = [w EXCEPT !.bottom = bottom, !.scrolled = moved, !.follow = later]
    OBVIOUS
  <2>. HIDE DEF moved, later, r
  <2>3. [w EXCEPT !.bottom = bottom, !.scrolled = moved, !.follow = later] \in Viewers
    BY <1>5, <2>1, PlacedType
  <2>. QED
    BY <2>2, <2>3
<1>7. /\ r.jobFilter = w.jobFilter /\ r.stepFilter = w.stepFilter
      /\ r.showStderr = w.showStderr /\ r.query = w.query
      /\ r.autoScroll = w.autoScroll /\ r.bottom = bottom
      /\ r.scrolled = (w.scrolled \/ bottom # v.bottom)
      /\ r.follow = (changed /\ w.autoScroll)
  BY DEF Viewers
<1>8. Rows(fs, r) = rows2
  BY <1>7, SameFiltersSameRows DEF rows2
<1>9. Follows(fs, r)
  <2>1. SUFFICES ASSUME r.autoScroll, ~r.follow, ~r.scrolled
                 PROVE  rows2 <= bottom + Slack
    BY <1>7, <1>8 DEF Follows, AtEnd
  <2>2. /\ w.autoScroll /\ v.autoScroll /\ ~w.scrolled
        /\ rows2 = rows /\ bottom = v.bottom
    BY <1>2, <1>7, <2>1
  <2>3. Slack \in Nat
    BY BoundsAssumption
  <2>4. CASE v.follow
    BY <1>1, <1>5, <2>2, <2>3, <2>4 DEF ran
  <2>5. CASE ~v.follow
    BY <1>1, <2>2, <2>5 DEF AtEnd, rows
  <2>. QED
    BY <2>4, <2>5
<1>. QED
  BY <1>4, <1>6, <1>7, <1>9

(* A render of the same entries keeps what the viewer promises.            *)
LEMMA ShowsKeeps ==
    ASSUME StreamInv, ViewerInv, viewer.open, NEW w \in Viewers, Shows(w),
           UNCHANGED <<entries, jobNames, stepNames, phase>>,
           w.jobFilter \in ToSet(jobNames) \cup {NoName},
           w.stepFilter \in ScopedStepNames(w) \cup {NoName},
           viewer.autoScroll /\ w.autoScroll /\ ~viewer.follow /\ ~w.scrolled
             => AtEnd(entries, viewer)
    PROVE  ViewerInv'
<1>1. viewer \in Viewers /\ entries \in Seq(Entries)
  BY DEF ViewerInv, ViewType, Closed, StreamInv, StreamType
<1>. DEFINE r == Rendered(viewer, entries, w, entries)
<1>2. r \in Viewers /\ r.jobFilter = w.jobFilter /\ r.stepFilter = w.stepFilter
      /\ Follows(entries, r)
  BY <1>1, RenderedFollows
<1>3. viewer' = r
  BY DEF Shows
<1>. HIDE DEF r
<1>4. ViewType'
  BY <1>2, <1>3 DEF ViewerInv, ViewType
<1>5. OpenedLate'
  BY DEF ViewerInv, OpenedLate
<1>6. SelectionOffered'
  <2>1. ScopedStepNames(viewer)' = ScopedStepNames(w)
    BY <1>2, <1>3 DEF ScopedStepNames
  <2>. QED
    BY <1>2, <1>3, <2>1 DEF SelectionOffered
<1>7. ViewFollows'
  BY <1>2, <1>3 DEF ViewFollows, Follows, AtEnd, Rows, Shown
<1>. QED
  BY <1>4, <1>5, <1>6, <1>7 DEF ViewerInv

(* The names that are offered are names.                                   *)
LEMMA OffersAreNames ==
    ASSUME StreamInv, ViewerInv, NEW v
    PROVE  /\ ScopedStepNames(v) \subseteq Names
           /\ ToSet(jobNames) \subseteq Names
<1>1. /\ jobNames \in Seq(Names) /\ stepNames \in Seq(Names) /\ entries \in Seq(Entries)
  BY DEF ViewerInv, ViewType, StreamInv, StreamType
<1>2. \A S, s : s \in Seq(S) => ToSet(s) \subseteq S
  BY LenProperties, ElementOfSeq DEF ToSet
<1>3. \A e \in ToSet(entries) : e.step \in Names
  <2>1. ToSet(entries) \subseteq Entries
    BY <1>1, <1>2
  <2>. QED
    BY <2>1 DEF Entries
<1>. QED
  BY <1>1, <1>2, <1>3 DEF ScopedStepNames

(* What is appended takes nothing from what was there.                     *)
LEMMA NothingWithdrawn ==
    ASSUME NEW S, NEW a \in Seq(S), NEW b \in Seq(S)
    PROVE  ToSet(a) \subseteq ToSet(a \o b)
<1>1. /\ DOMAIN a = 1 .. Len(a) /\ DOMAIN (a \o b) = 1 .. Len(a \o b)
      /\ Len(a) \in Nat /\ Len(b) \in Nat
      /\ Len(a \o b) = Len(a) + Len(b) /\ \A i \in 1 .. Len(a) : (a \o b)[i] = a[i]
  BY ConcatProperties, LenProperties
<1>. QED
  BY <1>1 DEF ToSet

(* Nor does a name that is noted.                                          *)
LEMMA NotedKeeps ==
    ASSUME NEW names \in Seq(Names), NEW seen, NEW n \in Names
    PROVE  /\ Noted(names, seen, n) \in Seq(Names)
           /\ ToSet(names) \subseteq ToSet(Noted(names, seen, n))
<1>1. /\ DOMAIN names = 1 .. Len(names) /\ Len(names) \in Nat
      /\ Append(names, n) \in Seq(Names)
      /\ DOMAIN Append(names, n) = 1 .. Len(names) + 1
      /\ \A i \in 1 .. Len(names) : Append(names, n)[i] = names[i]
  BY AppendProperties, LenProperties
<1>. QED
  BY <1>1 DEF Noted, ToSet

(* The viewer is closed before the run.                                    *)
LEMMA InitViewer == Init => ViewerInv
  BY EmptySeq DEF Init, ViewerInv, ViewType, OpenedLate, SelectionOffered, ViewFollows, Closed

(* Every event that arrives and everything the user does keeps the viewer's *)
(* promises.                                                               *)
LEMMA StepViewer == StreamInv /\ ViewerInv /\ [Next]_vars => ViewerInv'
<1>. SUFFICES ASSUME StreamInv, ViewerInv, [Next]_vars PROVE ViewerInv'
  OBVIOUS
<1>0. /\ entries \in Seq(Entries) /\ wire \in Seq(Events)
      /\ jobNames \in Seq(Names) /\ stepNames \in Seq(Names)
      /\ viewer = Closed \/ viewer \in Viewers
      /\ viewer.open => viewer \in Viewers /\ phase # "idle"
      /\ SelectionOffered /\ ViewFollows
  BY DEF StreamInv, StreamType, ViewerInv, ViewType, OpenedLate, Closed
<1>open. \A v \in Viewers : v.open
  BY DEF Viewers
<1>1. CASE UNCHANGED <<entries, jobNames, stepNames, viewer>> /\ phase' # "idle"
  BY <1>1 DEF ViewerInv, ViewType, OpenedLate, SelectionOffered, ViewFollows, ScopedStepNames,
              Follows, AtEnd, Rows, Shown
<1>2. CASE UNCHANGED <<entries, jobNames, stepNames, viewer, phase>>
  BY <1>2 DEF ViewerInv, ViewType, OpenedLate, SelectionOffered, ViewFollows, ScopedStepNames,
              Follows, AtEnd, Rows, Shown
<1>3. CASE StartStream
  <2>1. phase = "idle" /\ jobNames' = <<>> /\ stepNames' = <<>> /\ viewer' = viewer
    BY <1>3 DEF StartStream, Reset
  <2>2. ~viewer.open /\ viewer' = Closed
    BY <1>0, <1>open, <2>1
  <2>. QED
    BY <2>1, <2>2, EmptySeq DEF ViewerInv, ViewType, OpenedLate, SelectionOffered, ViewFollows, Closed
<1>4. CASE Receive
  <2>. DEFINE e == Head(wire)
              new == NewEntries(e)
  <2>1. /\ wire # <<>> /\ phase = "open" /\ phase' = phase
        /\ jobNames' = Noted(jobNames, seenJobs, e.job)
        /\ stepNames' = Noted(stepNames, seenSteps, e.step)
        /\ entries' = entries \o new
        /\ viewer' = Rerendered
    BY <1>4 DEF Receive, Push
  <2>2. e \in Events
    BY <1>0, <2>1, HeadTailProperties
  <2>3. e.job \in Names /\ e.step \in Names
    BY <2>2 DEF Events
  <2>4. new \in Seq(Entries)
    BY <2>2, NewEntriesShow
  <2>. HIDE DEF e, new
  <2>5. /\ jobNames' \in Seq(Names) /\ ToSet(jobNames) \subseteq ToSet(jobNames')
        /\ stepNames' \in Seq(Names) /\ ToSet(stepNames) \subseteq ToSet(stepNames')
    BY <1>0, <2>1, <2>3, NotedKeeps
  <2>6. entries' \in Seq(Entries) /\ ToSet(entries) \subseteq ToSet(entries')
    BY <1>0, <2>1, <2>4, ConcatProperties, NothingWithdrawn
  <2>7. CASE ~viewer.open
    <3>1. viewer' = Closed
      BY <1>0, <1>open, <2>1, <2>7 DEF Rerendered
    <3>. QED
      BY <2>5, <3>1 DEF ViewerInv, ViewType, OpenedLate, SelectionOffered, ViewFollows, Closed
  <2>8. CASE viewer.open
    <3>. DEFINE r == Rendered(viewer, entries, viewer, entries')
    <3>1. viewer \in Viewers
      BY <1>0, <2>8
    <3>2. viewer.autoScroll /\ ~viewer.follow /\ ~viewer.scrolled => AtEnd(entries, viewer)
      BY <1>0, <2>8 DEF ViewFollows, Follows
    <3>3. /\ r \in Viewers /\ r.jobFilter = viewer.jobFilter /\ r.stepFilter = viewer.stepFilter
          /\ Follows(entries', r)
      BY <1>0, <2>6, <3>1, <3>2, RenderedFollows
    <3>4. viewer' = r
      BY <2>1, <2>8 DEF Rerendered
    <3>. HIDE DEF r
    <3>5. ViewType' /\ OpenedLate'
      BY <2>1, <2>5, <3>3, <3>4 DEF ViewType, OpenedLate
    <3>6. SelectionOffered'
      <4>1. ScopedStepNames(viewer) \subseteq ScopedStepNames(viewer)'
        BY <2>5, <2>6, <3>3, <3>4 DEF ScopedStepNames
      <4>. QED
        BY <1>0, <2>5, <2>8, <3>3, <3>4, <4>1 DEF SelectionOffered
    <3>7. ViewFollows'
      BY <3>3, <3>4 DEF ViewFollows, Follows, AtEnd, Rows, Shown
    <3>. QED
      BY <3>5, <3>6, <3>7 DEF ViewerInv
  <2>. QED
    BY <2>7, <2>8
<1>5. CASE OpenTab
  <2>1. /\ phase # "idle" /\ phase' = phase /\ viewer' = [NewViewer EXCEPT !.follow = TRUE]
        /\ UNCHANGED <<entries, jobNames, stepNames>>
    BY <1>5 DEF OpenTab, Act, stream, logs
  <2>2. /\ viewer' \in Viewers /\ viewer'.follow
        /\ viewer'.jobFilter = NoName /\ viewer'.stepFilter = NoName
    BY <2>1, NamesAssumption DEF NewViewer, Viewers
  <2>3. ViewFollows'
    BY <2>2 DEF ViewFollows, Follows
  <2>. QED
    BY <1>0, <2>1, <2>2, <2>3 DEF ViewerInv, ViewType, OpenedLate, SelectionOffered
<1>6. CASE CloseTab
  <2>1. viewer' = Closed /\ UNCHANGED <<entries, jobNames, stepNames, phase>>
    BY <1>6 DEF CloseTab, Act, stream, logs
  <2>. QED
    BY <1>0, <2>1 DEF ViewerInv, ViewType, OpenedLate, SelectionOffered, ViewFollows, Closed
<1>shows. ASSUME viewer.open, NEW w \in Viewers, Shows(w),
                 UNCHANGED <<entries, jobNames, stepNames, phase>>,
                 w.jobFilter \in ToSet(jobNames) \cup {NoName},
                 w.stepFilter \in ScopedStepNames(w) \cup {NoName},
                 viewer.autoScroll /\ w.autoScroll /\ ~viewer.follow /\ ~w.scrolled
                   => AtEnd(entries, viewer)
          PROVE  ViewerInv'
  BY <1>shows, ShowsKeeps
<1>offers. ASSUME viewer.open
           PROVE  /\ viewer \in Viewers
                  /\ viewer.jobFilter \in ToSet(jobNames) \cup {NoName}
                  /\ viewer.stepFilter \in ScopedStepNames(viewer) \cup {NoName}
                  /\ viewer.autoScroll /\ ~viewer.follow /\ ~viewer.scrolled
                       => AtEnd(entries, viewer)
  BY <1>0, <1>offers DEF SelectionOffered, ViewFollows, Follows
<1>7. ASSUME NEW j \in ToSet(jobNames) \cup {NoName}, SelectJob(j) PROVE ViewerInv'
  <2>. DEFINE w == [viewer EXCEPT !.jobFilter = j, !.stepFilter = NoName]
  <2>1. viewer.open /\ Shows(w) /\ UNCHANGED <<entries, jobNames, stepNames, phase>>
    BY <1>7 DEF SelectJob, Act, stream, logs
  <2>2. viewer \in Viewers /\ j \in Names
    BY <1>0, <2>1, NamesAssumption, OffersAreNames
  <2>3. /\ w \in Viewers /\ w.jobFilter = j /\ w.stepFilter = NoName
        /\ w.scrolled = viewer.scrolled
    BY <2>2, NamesAssumption DEF Viewers
  <2>. HIDE DEF w
  <2>. QED
    BY <1>offers, <1>shows, <2>1, <2>3
<1>8. ASSUME viewer.open, NEW s \in ScopedStepNames(viewer) \cup {NoName}, SelectStep(s)
      PROVE  ViewerInv'
  <2>. DEFINE w == [viewer EXCEPT !.stepFilter = s]
  <2>1. viewer.open /\ Shows(w) /\ UNCHANGED <<entries, jobNames, stepNames, phase>>
    BY <1>8 DEF SelectStep, Act, stream, logs
  <2>2. viewer \in Viewers /\ s \in Names
    BY <1>0, <2>1, NamesAssumption, OffersAreNames
  <2>3. /\ w \in Viewers /\ w.jobFilter = viewer.jobFilter /\ w.stepFilter = s
        /\ w.scrolled = viewer.scrolled
    BY <2>2 DEF Viewers
  <2>. HIDE DEF w
  <2>4. ScopedStepNames(w) = ScopedStepNames(viewer)
    BY <2>3 DEF ScopedStepNames
  <2>. QED
    BY <1>offers, <1>shows, <2>1, <2>3, <2>4
<1>9. CASE ToggleStderr
  <2>. DEFINE w == [viewer EXCEPT !.showStderr = ~@]
  <2>1. viewer.open /\ Shows(w) /\ UNCHANGED <<entries, jobNames, stepNames, phase>>
    BY <1>9 DEF ToggleStderr, Act, stream, logs
  <2>2. /\ w \in Viewers /\ w.jobFilter = viewer.jobFilter /\ w.stepFilter = viewer.stepFilter
        /\ w.scrolled = viewer.scrolled
    BY <1>0, <2>1 DEF Viewers
  <2>. HIDE DEF w
  <2>3. ScopedStepNames(w) = ScopedStepNames(viewer)
    BY <2>2 DEF ScopedStepNames
  <2>. QED
    BY <1>offers, <1>shows, <2>1, <2>2, <2>3
<1>10. ASSUME NEW q \in {"", "x"}, Search(q) PROVE ViewerInv'
  <2>. DEFINE w == [viewer EXCEPT !.query = q]
  <2>1. viewer.open /\ Shows(w) /\ UNCHANGED <<entries, jobNames, stepNames, phase>>
    BY <1>10 DEF Search, Act, stream, logs
  <2>2. /\ w \in Viewers /\ w.jobFilter = viewer.jobFilter /\ w.stepFilter = viewer.stepFilter
        /\ w.scrolled = viewer.scrolled
    BY <1>0, <2>1 DEF Viewers
  <2>. HIDE DEF w
  <2>3. ScopedStepNames(w) = ScopedStepNames(viewer)
    BY <2>2 DEF ScopedStepNames
  <2>. QED
    BY <1>offers, <1>shows, <2>1, <2>2, <2>3
<1>moved. ASSUME viewer.open, NEW n \in Nat,
                 viewer' = [viewer EXCEPT !.bottom = n, !.scrolled = TRUE],
                 UNCHANGED <<entries, jobNames, stepNames, phase>>
          PROVE  ViewerInv'
  <2>1. /\ viewer' \in Viewers /\ viewer'.scrolled /\ viewer'.jobFilter = viewer.jobFilter
        /\ viewer'.stepFilter = viewer.stepFilter
    BY <1>0, <1>moved DEF Viewers
  <2>2. ScopedStepNames(viewer)' = ScopedStepNames(viewer)
    BY <1>moved, <2>1 DEF ScopedStepNames
  <2>3. SelectionOffered'
    BY <1>0, <1>moved, <2>1, <2>2 DEF SelectionOffered
  <2>4. ViewFollows'
    BY <2>1 DEF ViewFollows, Follows
  <2>. QED
    BY <1>0, <1>moved, <2>1, <2>3, <2>4 DEF ViewerInv, ViewType, OpenedLate
<1>11. ASSUME viewer.open, NEW to \in 0 .. Rows(entries, viewer), Scroll(to) PROVE ViewerInv'
  <2>1. to \in Nat
    BY <1>0, RowsType
  <2>. QED
    BY <1>moved, <1>11, <2>1 DEF Scroll, Act, stream, logs
<1>12. CASE ScrollToBottom
  <2>. DEFINE rows == Rows(entries, viewer)
              w == [viewer EXCEPT !.autoScroll = TRUE, !.bottom = rows, !.scrolled = TRUE]
  <2>1. viewer.open /\ Shows(w) /\ UNCHANGED <<entries, jobNames, stepNames, phase>>
    BY <1>12 DEF ScrollToBottom, Act, stream, logs
  <2>2. rows \in Nat
    BY <1>0, RowsType
  <2>. HIDE DEF rows
  <2>3. /\ w \in Viewers /\ w.jobFilter = viewer.jobFilter /\ w.stepFilter = viewer.stepFilter
        /\ w.scrolled
    BY <1>0, <2>1, <2>2 DEF Viewers
  <2>. HIDE DEF w
  <2>4. ScopedStepNames(w) = ScopedStepNames(viewer)
    BY <2>3 DEF ScopedStepNames
  <2>. QED
    BY <1>offers, <1>shows, <2>1, <2>3, <2>4
<1>13. CASE HandleScroll
  <2>1. PICK atEnd \in BOOLEAN :
            /\ atEnd <=> Rows(entries, viewer) <= viewer.bottom + Slack
            /\ Shows([viewer EXCEPT !.scrolled = FALSE, !.autoScroll = atEnd])
    BY <1>13 DEF HandleScroll
  <2>2. viewer.open /\ UNCHANGED <<entries, jobNames, stepNames, phase>>
    BY <1>13 DEF HandleScroll, stream, logs
  <2>. DEFINE w == [viewer EXCEPT !.scrolled = FALSE, !.autoScroll = atEnd]
  <2>3. /\ w \in Viewers /\ w.jobFilter = viewer.jobFilter /\ w.stepFilter = viewer.stepFilter
        /\ w.autoScroll = atEnd
    BY <1>0, <2>2 DEF Viewers
  <2>4. Shows(w)
    BY <2>1
  <2>5. w.autoScroll => AtEnd(entries, viewer)
    BY <2>1, <2>3 DEF AtEnd
  <2>. HIDE DEF w
  <2>6. ScopedStepNames(w) = ScopedStepNames(viewer)
    BY <2>3 DEF ScopedStepNames
  <2>. QED
    BY <1>offers, <1>shows, <2>2, <2>3, <2>4, <2>5, <2>6
<1>14. CASE FollowEffect
  <2>. DEFINE rows == Rows(entries, viewer)
  <2>1. /\ viewer.open /\ UNCHANGED <<entries, jobNames, stepNames, phase>>
        /\ viewer' = [viewer EXCEPT !.follow = FALSE, !.bottom = rows,
                                    !.scrolled = @ \/ viewer.bottom # rows]
    BY <1>14 DEF FollowEffect, stream, logs
  <2>2. rows \in Nat
    BY <1>0, RowsType
  <2>3. /\ viewer' \in Viewers /\ viewer'.bottom = rows
        /\ viewer'.jobFilter = viewer.jobFilter /\ viewer'.stepFilter = viewer.stepFilter
        /\ viewer'.showStderr = viewer.showStderr /\ viewer'.query = viewer.query
    <3>. HIDE DEF rows
    <3>. QED
      BY <1>0, <2>1, <2>2 DEF Viewers
  <2>4. ScopedStepNames(viewer)' = ScopedStepNames(viewer)
    BY <2>1, <2>3 DEF ScopedStepNames
  <2>5. SelectionOffered'
    BY <1>0, <2>1, <2>3, <2>4 DEF SelectionOffered
  <2>6. ViewFollows'
    <3>1. Rows(entries, viewer)' = rows
      BY <2>1, <2>3 DEF Rows, Shown
    <3>2. Slack \in Nat
      BY BoundsAssumption
    <3>. HIDE DEF rows
    <3>. QED
      BY <2>2, <2>3, <3>1, <3>2 DEF ViewFollows, Follows, AtEnd
  <2>. QED
    BY <1>0, <2>1, <2>3, <2>5, <2>6 DEF ViewerInv, ViewType, OpenedLate
<1>15. CASE User
  BY <1>5, <1>6, <1>7, <1>8, <1>9, <1>10, <1>11, <1>12, <1>15 DEF User
<1>16. ASSUME \/ \E j \in Jobs : Emit(j)
              \/ EmitFinished \/ EndOfStream \/ StreamBreaks \/ UNCHANGED vars
       PROVE  UNCHANGED <<entries, jobNames, stepNames, viewer>> /\ (phase' # "idle" \/ phase' = phase)
  BY <1>16 DEF Emit, EmitFinished, EndOfStream, StreamBreaks, Complete, vars, stream, logs
<1>. QED
  BY <1>1, <1>2, <1>3, <1>4, <1>13, <1>14, <1>15, <1>16 DEF Next

(* What is selected stays among what is offered, for any jobs, any events   *)
(* and any order of selections, tabs and arriving lines.                    *)
THEOREM SelectionStaysOffered == Spec => []SelectionOffered
<1>1. ViewInv => SelectionOffered
  BY DEF ViewInv, ViewerInv
<1>2. Init => ViewInv
  BY InitStream, InitViewer DEF ViewInv
<1>3. ViewInv /\ [Next]_vars => ViewInv'
  BY StepStream, StepViewer DEF ViewInv
<1>. QED
  BY <1>1, <1>2, <1>3, PTL DEF Spec

(* A list that follows its end is at its end when it is quiet, whatever     *)
(* lines came, filters changed or effects ran before.                       *)
THEOREM FollowingStaysAtTheEnd == Spec => []FollowingIsAtTheEnd
<1>1. ViewInv => FollowingIsAtTheEnd
  BY DEF ViewInv, ViewerInv, ViewFollows, Follows, AtEnd, FollowingIsAtTheEnd, Quiet
<1>2. Init => ViewInv
  BY InitStream, InitViewer DEF ViewInv
<1>3. ViewInv /\ [Next]_vars => ViewInv'
  BY StepStream, StepViewer DEF ViewInv
<1>. QED
  BY <1>1, <1>2, <1>3, PTL DEF Spec

-----------------------------------------------------------------------------
(* The viewer comes to rest.                                               *)

(* The effect of following is pending only in a list that follows.         *)
EffectFollows == viewer.open /\ viewer.follow => viewer.autoScroll

RestInv == ViewInv /\ EffectFollows

(* A render keeps an effect for later only if the list follows.            *)
LEMMA RenderedEffect ==
    ASSUME NEW v, NEW w \in Viewers, NEW es, NEW fs
    PROVE  Rendered(v, es, w, fs).follow => Rendered(v, es, w, fs).autoScroll
<1>. DEFINE bottom == Min({IF v.follow THEN Rows(es, v) ELSE w.bottom, Rows(fs, w)})
            changed == Rows(fs, w) # Rows(es, v) \/ w.autoScroll # v.autoScroll
            r == [w EXCEPT !.bottom = bottom,
                           !.scrolled = w.scrolled \/ bottom # v.bottom,
                           !.follow = changed /\ w.autoScroll]
<1>1. Rendered(v, es, w, fs) = r
  BY DEF Rendered
<1>. HIDE DEF bottom, changed
<1>2. r.follow = (changed /\ w.autoScroll) /\ r.autoScroll = w.autoScroll
  BY DEF Viewers
<1>. QED
  BY <1>1, <1>2

LEMMA InitEffect == Init => EffectFollows
  BY DEF Init, EffectFollows, Closed

LEMMA StepEffect == ViewInv /\ EffectFollows /\ [Next]_vars => EffectFollows'
<1>. SUFFICES ASSUME ViewInv, EffectFollows, [Next]_vars PROVE EffectFollows'
  OBVIOUS
<1>1. viewer.open => viewer \in Viewers
  BY DEF ViewInv, ViewerInv, ViewType, Closed
<1>2. CASE UNCHANGED viewer
  BY <1>2 DEF EffectFollows
<1>3. ASSUME NEW w \in Viewers, NEW fs, viewer' = Rendered(viewer, entries, w, fs)
      PROVE  EffectFollows'
  BY <1>3, RenderedEffect DEF EffectFollows
<1>4. CASE Receive
  <2>1. viewer' = Rerendered
    BY <1>4 DEF Receive
  <2>2. CASE viewer.open
    BY <1>1, <1>3, <2>1, <2>2 DEF Rerendered
  <2>. QED
    BY <1>2, <2>1, <2>2 DEF Rerendered
<1>5. CASE OpenTab
  BY <1>5 DEF OpenTab, NewViewer, EffectFollows
<1>6. CASE CloseTab
  BY <1>6 DEF CloseTab, Closed, EffectFollows
<1>7. ASSUME NEW j \in ToSet(jobNames) \cup {NoName}, SelectJob(j) PROVE EffectFollows'
  <2>1. j \in Names
    BY NamesAssumption, OffersAreNames DEF ViewInv
  <2>2. [viewer EXCEPT !.jobFilter = j, !.stepFilter = NoName] \in Viewers
    BY <1>1, <1>7, <2>1, NamesAssumption DEF SelectJob, Viewers
  <2>. QED
    BY <1>3, <1>7, <2>2 DEF SelectJob, Shows
<1>8. ASSUME viewer.open, NEW s \in ScopedStepNames(viewer) \cup {NoName}, SelectStep(s)
      PROVE  EffectFollows'
  <2>1. s \in Names
    BY NamesAssumption, OffersAreNames DEF ViewInv
  <2>2. [viewer EXCEPT !.stepFilter = s] \in Viewers
    BY <1>1, <1>8, <2>1 DEF Viewers
  <2>. QED
    BY <1>3, <1>8, <2>2 DEF SelectStep, Shows
<1>9. CASE ToggleStderr
  <2>1. [viewer EXCEPT !.showStderr = ~@] \in Viewers
    BY <1>1, <1>9 DEF ToggleStderr, Viewers
  <2>. QED
    BY <1>3, <1>9, <2>1 DEF ToggleStderr, Shows
<1>10. ASSUME NEW q \in {"", "x"}, Search(q) PROVE EffectFollows'
  <2>1. [viewer EXCEPT !.query = q] \in Viewers
    BY <1>1, <1>10 DEF Search, Viewers
  <2>. QED
    BY <1>3, <1>10, <2>1 DEF Search, Shows
<1>11. ASSUME NEW to \in 0 .. Rows(entries, viewer), Scroll(to) PROVE EffectFollows'
  <2>1. viewer.open /\ viewer' = [viewer EXCEPT !.bottom = to, !.scrolled = TRUE]
    BY <1>11 DEF Scroll
  <2>2. viewer'.follow = viewer.follow /\ viewer'.autoScroll = viewer.autoScroll
    BY <1>1, <2>1 DEF Viewers
  <2>. QED
    BY <2>1, <2>2 DEF EffectFollows
<1>12. CASE ScrollToBottom
  <2>. DEFINE rows == Rows(entries, viewer)
  <2>1. rows \in Nat
    BY RowsType DEF ViewInv, StreamInv, StreamType
  <2>. HIDE DEF rows
  <2>2. [viewer EXCEPT !.autoScroll = TRUE, !.bottom = rows, !.scrolled = TRUE] \in Viewers
    BY <1>1, <1>12, <2>1 DEF ScrollToBottom, Viewers
  <2>. QED
    BY <1>3, <1>12, <2>2 DEF ScrollToBottom, Shows, rows
<1>13. CASE HandleScroll
  <2>1. PICK atEnd \in BOOLEAN :
            Shows([viewer EXCEPT !.scrolled = FALSE, !.autoScroll = atEnd])
    BY <1>13 DEF HandleScroll
  <2>2. [viewer EXCEPT !.scrolled = FALSE, !.autoScroll = atEnd] \in Viewers
    BY <1>1, <1>13 DEF HandleScroll, Viewers
  <2>. QED
    BY <1>3, <2>1, <2>2 DEF Shows
<1>14. CASE FollowEffect
  <2>. DEFINE rows == Rows(entries, viewer)
              moved == viewer.scrolled \/ viewer.bottom # rows
  <2>1. viewer.open
        /\ viewer' = [viewer EXCEPT !.follow = FALSE, !.bottom = rows, !.scrolled = moved]
    BY <1>14 DEF FollowEffect
  <2>. HIDE DEF rows, moved
  <2>2. ~viewer'.follow
    BY <1>1, <2>1 DEF Viewers
  <2>. QED
    BY <2>2 DEF EffectFollows
<1>15. CASE User
  BY <1>5, <1>6, <1>7, <1>8, <1>9, <1>10, <1>11, <1>12, <1>15 DEF User
<1>16. ASSUME \/ StartStream \/ \E j \in Jobs : Emit(j)
              \/ EmitFinished \/ EndOfStream \/ StreamBreaks \/ UNCHANGED vars
       PROVE  UNCHANGED viewer
  BY <1>16 DEF StartStream, Emit, EmitFinished, EndOfStream, StreamBreaks, vars
<1>. QED
  BY <1>2, <1>4, <1>13, <1>14, <1>15, <1>16 DEF Next

(* What is still to come is counted by what the viewer shows of itself.    *)
LEMMA UnrestIs ==
    ASSUME viewer \in Viewers
    PROVE  LET away == IF viewer.bottom # Rows(entries, viewer) THEN 1 ELSE 0
           IN /\ viewer.follow => Unrest = 1 + (IF viewer.scrolled THEN 1 ELSE 0) + away
              /\ ~viewer.follow /\ viewer.scrolled
                   => Unrest = 1 + (IF viewer.autoScroll THEN 0 ELSE 1) + away
              /\ ~viewer.follow /\ ~viewer.scrolled => Unrest = 0
<1>1. viewer.open /\ viewer.autoScroll \in BOOLEAN
  BY DEF Viewers
<1>. QED
  BY <1>1 DEF Unrest

(* Reading the position leaves fewer to come.                              *)
LEMMA ScrollRests == RestInv /\ HandleScroll => Unrest' < Unrest
<1>. SUFFICES ASSUME RestInv, HandleScroll PROVE Unrest' < Unrest
  OBVIOUS
<1>. DEFINE rows == Rows(entries, viewer)
            b == viewer.bottom
            ran == IF viewer.follow THEN rows ELSE b
            bottom == Min({ran, rows})
<1>1. viewer.open /\ viewer.scrolled /\ entries' = entries
  BY DEF HandleScroll, logs
<1>2. viewer \in Viewers /\ rows \in Nat /\ b \in Nat
  <2>1. viewer \in Viewers /\ entries \in Seq(Entries)
    BY <1>1 DEF RestInv, ViewInv, ViewerInv, ViewType, Closed, StreamInv, StreamType
  <2>2. b \in Nat
    BY <2>1 DEF Viewers
  <2>. QED
    BY <2>1, <2>2, RowsType
<1>3. PICK atEnd \in BOOLEAN :
          /\ atEnd <=> rows <= b + Slack
          /\ Shows([viewer EXCEPT !.scrolled = FALSE, !.autoScroll = atEnd])
  BY DEF HandleScroll
<1>. DEFINE w == [viewer EXCEPT !.scrolled = FALSE, !.autoScroll = atEnd]
<1>4. /\ w \in Viewers /\ ~w.scrolled /\ w.autoScroll = atEnd /\ w.bottom = b
      /\ w.jobFilter = viewer.jobFilter /\ w.stepFilter = viewer.stepFilter
      /\ w.showStderr = viewer.showStderr /\ w.query = viewer.query
  BY <1>2 DEF Viewers
<1>5. viewer' = Rendered(viewer, entries, w, entries)
  BY <1>3 DEF Shows
<1>. HIDE DEF w
<1>6. Rows(entries, w) = rows
  BY <1>4, SameFiltersSameRows
<1>. DEFINE later == atEnd # viewer.autoScroll /\ atEnd
<1>7. viewer' = [w EXCEPT !.bottom = bottom, !.scrolled = (bottom # b), !.follow = later]
  BY <1>4, <1>5, <1>6 DEF Rendered
<1>. HIDE DEF rows, b
<1>8. ran \in Nat
  BY <1>2
<1>9. bottom \in Nat /\ bottom = IF ran <= rows THEN ran ELSE rows
  BY <1>2, <1>8, MinOfTwo
<1>. HIDE DEF ran, bottom
<1>10. (bottom # b) \in BOOLEAN /\ later \in BOOLEAN
  OBVIOUS
<1>. HIDE DEF later
<1>11. /\ viewer' \in Viewers /\ viewer'.bottom = bottom /\ viewer'.follow = later
       /\ viewer'.scrolled = (bottom # b) /\ viewer'.autoScroll = atEnd
       /\ viewer'.jobFilter = viewer.jobFilter /\ viewer'.stepFilter = viewer.stepFilter
       /\ viewer'.showStderr = viewer.showStderr /\ viewer'.query = viewer.query
  BY <1>4, <1>7, <1>9, <1>10 DEF Viewers
<1>12. Rows(entries, viewer)' = rows
  BY <1>1, <1>11, SameFiltersSameRows DEF rows
<1>. DEFINE away == IF b # rows THEN 1 ELSE 0
            away2 == IF bottom # rows THEN 1 ELSE 0
<1>13. /\ viewer.follow => Unrest = 2 + away
       /\ ~viewer.follow => Unrest = 1 + (IF viewer.autoScroll THEN 0 ELSE 1) + away
  BY <1>1, <1>2, UnrestIs DEF rows, b
<1>14. /\ later => Unrest' = 1 + (IF bottom # b THEN 1 ELSE 0) + away2
       /\ ~later /\ bottom # b => Unrest' = 1 + (IF atEnd THEN 0 ELSE 1) + away2
       /\ ~later /\ bottom = b => Unrest' = 0
  <2>1. (viewer \in Viewers)'
    BY <1>11
  <2>2. LET away3 == IF viewer'.bottom # Rows(entries, viewer)' THEN 1 ELSE 0
        IN /\ viewer'.follow => Unrest' = 1 + (IF viewer'.scrolled THEN 1 ELSE 0) + away3
           /\ ~viewer'.follow /\ viewer'.scrolled
                => Unrest' = 1 + (IF viewer'.autoScroll THEN 0 ELSE 1) + away3
           /\ ~viewer'.follow /\ ~viewer'.scrolled => Unrest' = 0
    <3>1. viewer'.open /\ viewer'.autoScroll \in BOOLEAN
      BY <2>1 DEF Viewers
    <3>. QED
      BY <3>1 DEF Unrest
  <2>. QED
    BY <1>11, <1>12, <2>2
<1>15. Slack \in Nat
  BY BoundsAssumption
<1>16. viewer.follow => viewer.autoScroll
  BY <1>1 DEF RestInv, EffectFollows
<1>17. viewer.autoScroll \in BOOLEAN /\ viewer.follow \in BOOLEAN
  BY <1>2 DEF Viewers
<1>18. CASE viewer.follow
  <2>1. bottom = rows /\ ~later
    BY <1>2, <1>9, <1>16, <1>17, <1>18 DEF ran, later
  <2>. QED
    BY <1>2, <1>13, <1>14, <1>18, <2>1
<1>19. CASE ~viewer.follow /\ later
  <2>1. atEnd /\ ~viewer.autoScroll
    BY <1>17, <1>19 DEF later
  <2>2. bottom = IF b <= rows THEN b ELSE rows
    BY <1>9, <1>19 DEF ran
  <2>. QED
    BY <1>2, <1>13, <1>14, <1>19, <2>1, <2>2
<1>20. CASE ~viewer.follow /\ ~later
  <2>1. bottom = IF b <= rows THEN b ELSE rows
    BY <1>9, <1>20 DEF ran
  <2>2. CASE b <= rows
    BY <1>2, <1>13, <1>14, <1>20, <2>1, <2>2
  <2>3. CASE ~(b <= rows)
    <3>1. atEnd
      BY <1>2, <1>3, <1>15, <2>3
    <3>2. viewer.autoScroll
      BY <1>17, <1>20, <3>1 DEF later
    <3>. QED
      BY <1>2, <1>13, <1>14, <1>20, <2>1, <2>3, <3>1, <3>2
  <2>. QED
    BY <2>2, <2>3
<1>. QED
  BY <1>17, <1>18, <1>19, <1>20

(* So does going to the end.                                               *)
LEMMA EffectRests == RestInv /\ FollowEffect => Unrest' < Unrest
<1>. SUFFICES ASSUME RestInv, FollowEffect PROVE Unrest' < Unrest
  OBVIOUS
<1>. DEFINE rows == Rows(entries, viewer)
            moved == viewer.scrolled \/ viewer.bottom # rows
<1>1. /\ viewer.open /\ viewer.follow /\ entries' = entries
      /\ viewer' = [viewer EXCEPT !.follow = FALSE, !.bottom = rows, !.scrolled = moved]
  BY DEF FollowEffect, logs
<1>2. viewer \in Viewers /\ rows \in Nat /\ viewer.autoScroll
  BY <1>1, RowsType
     DEF RestInv, EffectFollows, ViewInv, ViewerInv, ViewType, Closed, StreamInv, StreamType
<1>3. moved \in BOOLEAN
  BY <1>2 DEF Viewers
<1>. HIDE DEF rows, moved
<1>4. /\ viewer'.open /\ ~viewer'.follow /\ viewer'.bottom = rows /\ viewer'.scrolled = moved
      /\ viewer'.autoScroll
      /\ viewer'.jobFilter = viewer.jobFilter /\ viewer'.stepFilter = viewer.stepFilter
      /\ viewer'.showStderr = viewer.showStderr /\ viewer'.query = viewer.query
  BY <1>1, <1>2, <1>3 DEF Viewers
<1>5. Rows(entries, viewer)' = rows
  BY <1>1, <1>4 DEF rows, Rows, Shown
<1>6. Unrest' = IF moved THEN 1 ELSE 0
  BY <1>4, <1>5 DEF Unrest
<1>7. Unrest = 1 + (IF viewer.scrolled THEN 1 ELSE 0)
                 + (IF viewer.bottom # rows THEN 1 ELSE 0)
  BY <1>1, <1>2, UnrestIs DEF rows
<1>. QED
  BY <1>6, <1>7 DEF moved

(* The viewer settles: of the effects and scroll events no more than three *)
(* are ever to come, and each that runs leaves fewer, for any entries, any *)
(* filters and whatever came before.                                       *)
THEOREM EffectsSettle == Spec => [](Unrest \in 0 .. 3) /\ EffectsRunOut
<1>1. RestInv => Unrest \in 0 .. 3
  BY DEF Unrest
<1>2. RestInv /\ [Next]_vars => [HandleScroll \/ FollowEffect => Unrest' < Unrest]_vars
  BY ScrollRests, EffectRests
<1>3. Init => RestInv
  BY InitStream, InitViewer, InitEffect DEF RestInv, ViewInv
<1>4. RestInv /\ [Next]_vars => RestInv'
  BY StepStream, StepViewer, StepEffect DEF RestInv, ViewInv
<1>. QED
  BY <1>1, <1>2, <1>3, <1>4, PTL DEF Spec, EffectsRunOut

=============================================================================
