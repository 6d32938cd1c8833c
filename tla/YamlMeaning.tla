---------------------------- MODULE YamlMeaning ----------------------------
(***************************************************************************)
(* What YAML says of a text, told from its lines, for the texts that        *)
(* ParseYaml reads: which lines stand under a key of a job, and what the   *)
(* lines under it carry.  The shapes are those of the template that the    *)
(* dialog shows.                                                           *)
(***************************************************************************)
EXTENDS ParseYaml, SequencesExt

\* Line i stands under a key of the job j: below the line of the key, and above
\* the next key.  YAML lets the items of a list stand at the depth of its key.
KeyLines(lines, j, kinds) ==
    {i \in 1 .. Len(lines) : /\ lines[i].indent = 4 /\ lines[i].kind \in kinds
                            /\ UnderJob(lines, i, j)}
BelowKey(l) == l.kind = "blank" \/ l.indent > 4 \/ (l.indent = 4 /\ l.kind = "item")

UnderKey(lines, i, j, key) ==
    \E k \in KeyLines(lines, j, {key}) :
        k < i /\ \A m \in k + 1 .. i - 1 : BelowKey(lines[m])

\* The lines that give the job j its dependencies, as items or all on one line,
\* its variables, and its steps.
Items(lines, j, indent) ==
    {i \in 1 .. Len(lines) : /\ lines[i].indent = indent /\ lines[i].kind = "item"
                            /\ UnderKey(lines, i, j, "depends_on")}
DepLines(lines, j) ==
    Items(lines, j, 4) \cup Items(lines, j, 6) \cup KeyLines(lines, j, {"flow"})
EnvLines(lines, j) ==
    {i \in 1 .. Len(lines) : /\ lines[i].kind # "blank" /\ lines[i].indent = 6
                            /\ UnderKey(lines, i, j, "env")}
StepLinesOf(lines, j) ==
    {i \in 1 .. Len(lines) : StepLine(lines[i]) /\ UnderKey(lines, i, j, "steps")}

\* What the lines of S among the first n carry, in their order.
Listed(lines, n, S) ==
    FlattenSeq([i \in 1 .. n |-> IF i \in S THEN <<lines[i].text>> ELSE <<>>])

ASSUME JobMeaningAssumption ==
    \A d \in Documents : \A j \in JobsNamed(d.lines, Len(d.lines)) :
        LET meant == d.means.jobs[j]
            n == Len(d.lines)
        IN /\ meant.dependsOn = Listed(d.lines, n, DepLines(d.lines, j))
           /\ meant.env = {d.lines[i].text : i \in EnvLines(d.lines, j)}
           /\ NamesOf(meant.steps) = Listed(d.lines, n, StepLinesOf(d.lines, j))

\* The texts are YAML, at the depths of the dialog's own template: no key of a job
\* comes twice, a list of dependencies keeps to one depth, and in a job only
\* depends_on has items at the depth of the keys, and only steps has lines that
\* name a step.
UniqueKeys(lines, j) ==
    \A kinds \in {{"env"}, {"steps"}, {"depends_on", "flow"}} :
        \A i, k \in KeyLines(lines, j, kinds) : i = k

TemplateDepths(lines, j) ==
    /\ Items(lines, j, 4) = {} \/ Items(lines, j, 6) = {}
    /\ \A i \in KeyLines(lines, j, {"item"}) : UnderKey(lines, i, j, "depends_on")
    /\ \A i \in 1 .. Len(lines) :
          StepLine(lines[i]) /\ UnderJob(lines, i, j) => UnderKey(lines, i, j, "steps")

ASSUME ShapeAssumption ==
    \A d \in Documents : \A j \in JobsNamed(d.lines, Len(d.lines)) :
        UniqueKeys(d.lines, j) /\ TemplateDepths(d.lines, j)

-----------------------------------------------------------------------------
\* The lines that name the pipeline, that give every job a variable, and that
\* open the job j.
UnderEnv(lines, i) ==
    \E k \in 1 .. i - 1 :
        /\ lines[k].indent = 0 /\ lines[k].kind = "env"
        /\ \A m \in k + 1 .. i - 1 : lines[m].indent = 0 => lines[m].kind = "blank"

NameLines(lines) == {i \in 1 .. Len(lines) : lines[i].indent = 0 /\ lines[i].kind = "name"}
GlobalLines(lines) ==
    {i \in 1 .. Len(lines) : lines[i].kind # "blank" /\ lines[i].indent = 2 /\ UnderEnv(lines, i)}
TitlesOf(lines, j) ==
    {i \in 1 .. Len(lines) : TitleLine(lines[i]) /\ lines[i].text = j /\ UnderJobs(lines, i)}

\* The lines of the step that line k names, and the step that those among the
\* first n describe.
StepBody(lines, k) ==
    {i \in k + 1 .. Len(lines) : \A m \in k + 1 .. i : Inside(lines[m]) /\ ~StepLine(lines[m])}
KeysOfStep(lines, k, kind) ==
    {i \in StepBody(lines, k) : lines[i].indent = 8 /\ lines[i].kind = kind}
VarLines(lines, k) ==
    {i \in StepBody(lines, k) : lines[i].indent = 10 /\ lines[i].kind # "blank"}

StepUpTo(lines, n, k) ==
    [name |-> lines[k].text,
     run |-> Listed(lines, n, KeysOfStep(lines, k, "run")),
     env |-> {lines[i].text : i \in VarLines(lines, k) \cap 1 .. n}]

\* The steps of the job j that are named among the first n lines.
StepsOf(lines, n, j) ==
    FlattenSeq([i \in 1 .. n |-> IF i \in StepLinesOf(lines, j)
                                 THEN <<StepUpTo(lines, Len(lines), i)>> ELSE <<>>])

\* The plain texts: they name the pipeline; no job comes twice or has variables of
\* its own, its dependencies are items at the depth of the keys, and its steps
\* come last; a step has a command on one line, and its variables after it.
PlainStep(lines, k) ==
    /\ \A i \in StepBody(lines, k) :
          lines[i].indent = 8 => lines[i].kind \in {"run", "env", "blank"}
    /\ \A i, m \in KeysOfStep(lines, k, "run") : i = m
    /\ \A i \in KeysOfStep(lines, k, "run"), m \in KeysOfStep(lines, k, "env") : i < m
    /\ \A i \in VarLines(lines, k) : \E m \in KeysOfStep(lines, k, "env") : m < i

PlainJobText(lines, j) ==
    /\ \A i, k \in TitlesOf(lines, j) : i = k
    /\ KeyLines(lines, j, {"env", "flow"}) = {} /\ Items(lines, j, 6) = {}
    /\ \A k \in KeyLines(lines, j, {"steps"}) : \A i \in k + 1 .. Len(lines) :
          lines[i].indent = 4 /\ lines[i].kind # "blank" => ~UnderJob(lines, i, j)
    /\ \A k \in StepLinesOf(lines, j) : PlainStep(lines, k)

ASSUME PlainAssumption ==
    \A d \in Documents : d.plain =>
        LET n == Len(d.lines)
            names == JobsNamed(d.lines, n)
        IN /\ {d.lines[i].text : i \in NameLines(d.lines)} = {d.means.name}
           /\ d.means.name # Unset
           /\ d.means = [name |-> d.means.name,
                         env |-> {d.lines[i].text : i \in GlobalLines(d.lines)},
                         jobs |-> [j \in names |-> d.means.jobs[j]]]
           /\ \A j \in names :
                 LET meant == d.means.jobs[j] IN
                 /\ PlainJobText(d.lines, j)
                 /\ {d.lines[i].text : i \in KeyLines(d.lines, j, {"image"})} = {meant.image}
                 /\ meant = [image |-> meant.image, dependsOn |-> meant.dependsOn,
                             env |-> meant.env, steps |-> StepsOf(d.lines, n, j)]

=============================================================================
