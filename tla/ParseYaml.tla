------------------------------ MODULE ParseYaml ------------------------------
(***************************************************************************)
(* parseYamlToPipeline of the dashboard's run dialog: a reader of YAML that *)
(* looks at one line at a time and remembers where it is by a context, the  *)
(* current job and the current step.                                        *)
(*                                                                          *)
(* A line is its indentation, its kind (which of the code's string tests it *)
(* passes) and the name it carries.  Values of variables are left out: an   *)
(* environment is the set of names it sets.  A command is the sequence of   *)
(* its lines.                                                               *)
(***************************************************************************)
EXTENDS Naturals, Sequences

CONSTANTS
    Texts,       \* names, values and commands: a line carries one of them
    Documents    \* the texts a user may paste, each with its meaning

VARIABLES
    doc,           \* the text and what YAML says it means
    pos,           \* the line of the loop
    context,       \* where the reader believes to be
    currentJob, currentStep,
    name, env, jobs,
    pipeline       \* what is submitted, or NotYet

progress == <<context, currentJob, currentStep>>
found == <<name, env, jobs>>
readerVars == <<doc, pos, progress, found, pipeline>>

Unset == ""
NotYet == [name |-> Unset]

Contexts == {"root", "env", "jobs", "job", "job-env", "job-steps", "step", "step-env"}

\* The kinds of line whose trimmed text ends in a colon: any of them names a
\* job where a job is expected.
Headings == {"title", "pipeline", "env", "jobs", "depends_on", "steps"}

EmptyJob == [image |-> Unset, dependsOn |-> <<>>, env |-> {}, steps |-> <<>>]
NewStepNamed(s) == [name |-> s, run |-> <<>>, env |-> {}]

line == doc.lines[pos]
At(c, indent) == context = c /\ line.indent = indent

InJob == context \in {"job", "job-env", "job-steps", "step", "step-env"}

ReaderInit ==
    /\ doc \in Documents
    /\ pos = 1
    /\ context = "root"
    /\ currentJob = Unset
    /\ currentStep = 0
    /\ name = Unset
    /\ env = {}
    /\ jobs = [j \in {} |-> EmptyJob]
    /\ pipeline = NotYet

-----------------------------------------------------------------------------
\* One turn of the loop over the lines that has something to read.
Turn ==
    /\ pos <= Len(doc.lines)
    /\ pos' = pos + 1
    /\ UNCHANGED <<doc, pipeline>>

Written == Turn /\ line.kind # "blank"

\* A line that starts in the first column chooses the section; one of another
\* kind changes nothing.
RootLine ==
    /\ Written
    /\ line.indent = 0
    /\ name' = IF line.kind = "name" THEN line.text ELSE name
    /\ context' = CASE line.kind = "name" -> "root"
                    [] line.kind = "env"  -> "env"
                    [] line.kind = "jobs" -> "jobs"
                    [] OTHER              -> context
    /\ UNCHANGED <<currentJob, currentStep, env, jobs>>

EnvLine ==
    /\ Written
    /\ At("env", 2)
    /\ env' = env \cup {line.text}
    /\ UNCHANGED <<progress, name, jobs>>

(* Fault: a heading opens a job at any depth. *)
JobHeading_AnyDepth ==
    /\ Written
    /\ line.indent > 0
    /\ line.kind \in Headings
    /\ context = "jobs" \/ InJob
    /\ currentJob' = line.text
    /\ jobs' = [j \in DOMAIN jobs \cup {line.text} |->
                    IF j = line.text THEN EmptyJob ELSE jobs[j]]
    /\ context' = "job"
    /\ UNCHANGED <<currentStep, name, env>>

(* Fault: the current job is set by the first heading only. *)
JobHeading_KeepsFirst ==
    /\ Written
    /\ line.indent = 2
    /\ line.kind \in Headings
    /\ context = "jobs" \/ InJob
    /\ currentJob' = IF currentJob = Unset THEN line.text ELSE currentJob
    /\ jobs' = [j \in DOMAIN jobs \cup {line.text} |->
                    IF j = line.text THEN EmptyJob ELSE jobs[j]]
    /\ context' = "job"
    /\ UNCHANGED <<currentStep, name, env>>

\* A heading under "jobs:", or at that depth while a job is read, opens a job;
\* a name that comes twice starts again.
JobHeading ==
    /\ Written
    /\ line.indent = 2
    /\ line.kind \in Headings
    /\ context = "jobs" \/ InJob
    /\ currentJob' = line.text
    /\ jobs' = [j \in DOMAIN jobs \cup {line.text} |->
                    IF j = line.text THEN EmptyJob ELSE jobs[j]]
    /\ context' = "job"
    /\ UNCHANGED <<currentStep, name, env>>

(* Fault: items are not read. *)
JobKey_NoItems ==
    /\ Written
    /\ At("job", 4)
    /\ jobs' = IF line.kind = "image" THEN [jobs EXCEPT ![currentJob].image = line.text]
               ELSE jobs
    /\ context' = CASE line.kind = "env"   -> "job-env"
                    [] line.kind = "steps" -> "job-steps"
                    [] OTHER               -> context
    /\ currentStep' = IF line.kind = "steps" THEN 0 ELSE currentStep
    /\ UNCHANGED <<currentJob, name, env>>

\* The keys of a job.  "depends_on:" changes nothing; an item is taken for a
\* dependency only at the depth of the keys.
JobKey ==
    /\ Written
    /\ At("job", 4)
    /\ jobs' = CASE line.kind = "image" -> [jobs EXCEPT ![currentJob].image = line.text]
                 [] line.kind = "item"  ->
                        [jobs EXCEPT ![currentJob].dependsOn = Append(@, line.text)]
                 [] OTHER               -> jobs
    /\ context' = CASE line.kind = "env"   -> "job-env"
                    [] line.kind = "steps" -> "job-steps"
                    [] OTHER               -> context
    /\ currentStep' = IF line.kind = "steps" THEN 0 ELSE currentStep
    /\ UNCHANGED <<currentJob, name, env>>

JobEnvLine ==
    /\ Written
    /\ At("job-env", 6)
    /\ jobs' = [jobs EXCEPT ![currentJob].env = @ \cup {line.text}]
    /\ UNCHANGED <<progress, name, env>>

\* The line that ends a job's environment is dropped: the keys of a job have
\* been tried already when the context goes back to the job.
EndOfJobEnv ==
    /\ Written
    /\ context = "job-env"
    /\ line.indent \in 1 .. 4
    /\ line.indent = 2 => line.kind \notin Headings
    /\ context' = "job"
    /\ UNCHANGED <<currentJob, currentStep, found>>

StepHeading ==
    /\ Written
    /\ context \in {"job-steps", "step", "step-env"}
    /\ line.indent = 6
    /\ line.kind = "step"
    /\ jobs' = [jobs EXCEPT ![currentJob].steps = Append(@, NewStepNamed(line.text))]
    /\ currentStep' = Len(jobs[currentJob].steps) + 1
    /\ context' = "step"
    /\ UNCHANGED <<currentJob, name, env>>

\* The keys of a step; a line that is no key and no item goes to its command.
StepKey ==
    /\ Written
    /\ At("step", 8)
    /\ LET SetRun(cmd) == [jobs EXCEPT ![currentJob].steps[currentStep].run = cmd]
           run == jobs[currentJob].steps[currentStep].run
       IN jobs' = CASE line.kind = "run"   -> SetRun(<<line.text>>)
                    [] line.kind = "block" -> SetRun(<<>>)
                    [] line.kind \in {"env", "item", "step"} -> jobs
                    [] OTHER -> SetRun(Append(run, line.text))
    /\ context' = IF line.kind = "env" THEN "step-env" ELSE context
    /\ UNCHANGED <<currentJob, currentStep, name, env>>

StepEnvLine ==
    /\ Written
    /\ At("step-env", 10)
    /\ jobs' = [jobs EXCEPT ![currentJob].steps[currentStep].env = @ \cup {line.text}]
    /\ UNCHANGED <<progress, name, env>>

\* The lines that a branch of the loop takes, whatever their depth; any other
\* leaves the reader where it was.
Handled ==
    \/ line.indent = 0
    \/ At("env", 2) \/ At("job", 4) \/ At("job-env", 6) \/ At("step", 8) \/ At("step-env", 10)
    \/ line.indent = 2 /\ line.kind \in Headings /\ (context = "jobs" \/ InJob)
    \/ line.indent <= 4 /\ context = "job-env"
    \/ /\ line.indent = 6 /\ line.kind = "step"
       /\ context \in {"job-steps", "step", "step-env"}

OtherLine ==
    /\ Turn
    /\ line.kind = "blank" \/ ~Handled
    /\ UNCHANGED <<progress, found>>

\* What the dialog hands to the run hook.
Create ==
    /\ pos > Len(doc.lines)
    /\ pipeline = NotYet
    /\ pipeline' = [name |-> IF name = Unset THEN "untitled" ELSE name,
                    env |-> env, jobs |-> jobs]
    /\ UNCHANGED <<doc, pos, progress, found>>

ReaderNext ==
    \/ RootLine \/ EnvLine \/ JobHeading
    \/ JobKey \/ JobEnvLine \/ EndOfJobEnv
    \/ StepHeading \/ StepKey \/ StepEnvLine
    \/ OtherLine
    \/ Create

ReaderSpec == ReaderInit /\ [][ReaderNext]_readerVars

-----------------------------------------------------------------------------
Lines == [indent : Nat, kind : STRING, text : Texts]

StepRecords == [name : Texts, run : Seq(Texts), env : SUBSET Texts]
JobRecords == [image : Texts, dependsOn : Seq(Texts), env : SUBSET Texts,
               steps : Seq(StepRecords)]

IsPipeline(p) ==
    /\ p.name \in Texts
    /\ p.env \in SUBSET Texts
    /\ DOMAIN p.jobs \in SUBSET Texts
    /\ p.jobs \in [DOMAIN p.jobs -> JobRecords]

ASSUME TextsAssumption == {Unset, "untitled"} \subseteq Texts
ASSUME DocumentsAssumption == \A d \in Documents : d.lines \in Seq(Lines)

\* What YAML says of a text's jobs.  A line of the first column ends the section
\* before it; the keys at the first depth of "jobs:" name the jobs.
UnderJobs(lines, i) ==
    \E k \in 1 .. i - 1 :
        /\ lines[k].indent = 0 /\ lines[k].kind = "jobs"
        /\ \A m \in k + 1 .. i - 1 : lines[m].indent = 0 => lines[m].kind = "blank"

JobsNamed(lines, n) ==
    {lines[i].text : i \in
        {k \in 1 .. n : lines[k].indent = 2 /\ lines[k].kind \in Headings /\ UnderJobs(lines, k)}}

\* Line i stands in the job j, or in its step s: below the heading of j, and below
\* the line that names s, with no other in between.
TitleLine(l) == l.indent = 2 /\ l.kind \in Headings
StepLine(l) == l.indent = 6 /\ l.kind = "step"
Inside(l) == l.kind = "blank" \/ (l.indent # 0 /\ ~TitleLine(l))

UnderJob(lines, i, j) ==
    \E k \in 1 .. i - 1 :
        /\ TitleLine(lines[k]) /\ lines[k].text = j /\ UnderJobs(lines, k)
        /\ \A m \in k + 1 .. i - 1 : Inside(lines[m])

UnderStep(lines, i, j, s) ==
    \E k \in 1 .. i - 1 :
        /\ StepLine(lines[k]) /\ lines[k].text = s /\ UnderJob(lines, k, j)
        /\ \A m \in k + 1 .. i - 1 : Inside(lines[m]) /\ ~StepLine(lines[m])

\* A text is of the form that the documentation gives for .seedee.yml, all of it
\* below the one key "pipeline:", or of that of the dialog's own template, which
\* starts with the keys and goes two columns deeper with each of them: the jobs of
\* such a text are the keys in the third column.
Wrapped(lines) == \E i \in 1 .. Len(lines) : lines[i].indent = 0 /\ lines[i].kind = "pipeline"

ASSUME RootKeysAssumption ==
    \A d \in Documents : \A i \in 1 .. Len(d.lines) :
        d.lines[i].indent = 0 =>
            d.lines[i].kind \in {"blank"} \cup
                (IF Wrapped(d.lines) THEN {"pipeline"} ELSE {"name", "env", "jobs"})
ASSUME MeaningAssumption ==
    \A d \in Documents :
        Wrapped(d.lines) \/ DOMAIN d.means.jobs = JobsNamed(d.lines, Len(d.lines))

\* The reader's own state: contexts, names, and jobs as the code's literals
\* shape them; what it submits is a PipelineDefinition.
TypeOK ==
    /\ doc.lines \in Seq(Lines)
    /\ pos \in 1 .. Len(doc.lines) + 1
    /\ context \in Contexts
    /\ currentJob \in Texts
    /\ currentStep \in Nat
    /\ name \in Texts
    /\ env \in SUBSET Texts
    /\ DOMAIN jobs \in SUBSET Texts
    /\ jobs \in [DOMAIN jobs -> JobRecords]
    /\ pipeline # NotYet => IsPipeline(pipeline)

\* Reading never throws: wherever the code indexes the jobs by currentJob and
\* a job's steps by currentStep, both are there.  (So the dialog's "Failed to
\* parse YAML" is out of reach, whatever the text.)
NeverThrows ==
    /\ InJob => currentJob \in DOMAIN jobs
    /\ context \in {"step", "step-env"} =>
          currentStep \in 1 .. Len(jobs[currentJob].steps)

Submitted == pipeline # NotYet

\* In a text that starts with its keys every job is found, and no line is taken
\* for a job that is none; in one of the documented form no job is found at all.
JobsFound ==
    Submitted => DOMAIN pipeline.jobs = IF Wrapped(doc.lines) THEN {} ELSE DOMAIN doc.means.jobs

NamesOf(steps) == [i \in 1 .. Len(steps) |-> steps[i].name]

\* What a job is given was written under that job: dependencies, variables,
\* and steps, which come all of them in their order or not at all.
NothingMoved ==
    Submitted =>
        \A j \in DOMAIN pipeline.jobs :
            LET got == pipeline.jobs[j]
                meant == doc.means.jobs[j]
            IN /\ got.dependsOn \in {<<>>, meant.dependsOn}
               /\ got.env \in {{}, meant.env}
               /\ NamesOf(got.steps) \in {<<>>, NamesOf(meant.steps)}

\* Whatever the text, each value of a job is on a line that stands in that job,
\* at the depth of its kind, and each value of a step on one in that step.
WrittenInJob(lines, j, indent, kinds, value) ==
    \E i \in 1 .. Len(lines) :
        /\ lines[i].indent = indent /\ lines[i].kind \in kinds /\ lines[i].text = value
        /\ UnderJob(lines, i, j)

WrittenInStep(lines, j, s, indent, value) ==
    \E i \in 1 .. Len(lines) :
        /\ lines[i].indent = indent /\ lines[i].text = value
        /\ UnderStep(lines, i, j, s)

OwnStep(lines, j, step) ==
    /\ \A m \in 1 .. Len(step.run) : WrittenInStep(lines, j, step.name, 8, step.run[m])
    /\ \A v \in step.env : WrittenInStep(lines, j, step.name, 10, v)

OwnJob(lines, j, job) ==
    /\ job.image = Unset \/ WrittenInJob(lines, j, 4, {"image"}, job.image)
    /\ \A n \in 1 .. Len(job.dependsOn) : WrittenInJob(lines, j, 4, {"item"}, job.dependsOn[n])
    /\ \A v \in job.env : WrittenInJob(lines, j, 6, STRING, v)
    /\ \A n \in 1 .. Len(job.steps) :
          /\ WrittenInJob(lines, j, 6, {"step"}, job.steps[n].name)
          /\ OwnStep(lines, j, job.steps[n])

OnlyItsOwn ==
    Submitted => \A j \in DOMAIN pipeline.jobs : OwnJob(doc.lines, j, pipeline.jobs[j])

\* The texts the reader was written for are understood whole: jobs without an
\* environment of their own, dependencies written at the depth of the keys,
\* one-line commands, a step's environment after its command.
PlainIsExact ==
    Submitted /\ doc.plain => pipeline = doc.means

\* What the dialog asks for, "your .seedee.yml configuration", is of the form that
\* docs/config.md gives: its jobs are those that are run.
DocumentedIsRead ==
    Submitted => DOMAIN pipeline.jobs = DOMAIN doc.means.jobs

=============================================================================
