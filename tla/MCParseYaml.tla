----------------------------- MODULE MCParseYaml -----------------------------
(***************************************************************************)
(* Texts for ParseYaml: two jobs, the first in every order of its keys, the *)
(* dependencies in each of the styles YAML allows, with the pipeline each   *)
(* text means; and some of them in the form of .seedee.yml.                 *)
(***************************************************************************)
EXTENDS YamlMeaning, FiniteSetsExt

MCTexts == STRING

L(i, k, t) == [indent |-> i, kind |-> k, text |-> t]

\* A step, by how it is written.
StepForms == {"run", "run-env", "env-run", "block", "env-block"}

StepLines(s, form) ==
    <<L(6, "step", s)>> \o
    CASE form = "run"       -> <<L(8, "run", "cmd")>>
      [] form = "run-env"   -> <<L(8, "run", "cmd"), L(8, "env", "env"), L(10, "pair", "W")>>
      [] form = "env-run"   -> <<L(8, "env", "env"), L(10, "pair", "W"), L(8, "run", "cmd")>>
      [] form = "block"     -> <<L(8, "block", ""), L(10, "text", "cmd")>>
      [] form = "env-block" -> <<L(8, "env", "env"), L(10, "pair", "W"),
                                 L(8, "block", ""), L(10, "text", "cmd")>>

StepMeans(s, form) ==
    [name |-> s, run |-> <<"cmd">>,
     env |-> IF form \in {"run", "block"} THEN {} ELSE {"W"}]

StepLists == {<<f>> : f \in StepForms} \cup {<<f, "run">> : f \in StepForms}
StepNames == <<"s1", "s2">>

\* The sections of a job, and the lines of each.
DepsSections == {"deps-flat", "deps-nested", "deps-flow"}

SectionLines(section, other, steps) ==
    CASE section = "image"       -> <<L(4, "image", "alpine")>>
      [] section = "env"         -> <<L(4, "env", "env"), L(6, "pair", "V")>>
      [] section = "deps-flat"   -> <<L(4, "depends_on", "depends_on"), L(4, "item", other)>>
      [] section = "deps-nested" -> <<L(4, "depends_on", "depends_on"), L(6, "item", other)>>
      [] section = "deps-flow"   -> <<L(4, "flow", other)>>
      [] section = "steps"       ->
            <<L(4, "steps", "steps")>> \o
            FlattenSeq([i \in 1 .. Len(steps) |-> StepLines(StepNames[i], steps[i])])

SectionSets ==
    {{"image", "steps"} \cup e \cup d :
        e \in {{}, {"env"}}, d \in {{}} \cup {{x} : x \in DepsSections}}

Orders == UNION {SetToSeqs(s) : s \in SectionSets}

JobLines(j, other, order, steps) ==
    <<L(2, "title", j)>> \o
    FlattenSeq([i \in 1 .. Len(order) |-> SectionLines(order[i], other, steps)])

JobMeans(other, order, steps) ==
    [image |-> "alpine",
     dependsOn |-> IF ToSet(order) \cap DepsSections = {} THEN <<>> ELSE <<other>>,
     env |-> IF "env" \in ToSet(order) THEN {"V"} ELSE {},
     steps |-> [i \in 1 .. Len(steps) |-> StepMeans(StepNames[i], steps[i])]]

PlainJob(order, steps) ==
    /\ ToSet(order) \subseteq {"image", "steps", "deps-flat"}
    /\ Last(order) = "steps"
    /\ ToSet(steps) \subseteq {"run", "run-env"}

\* What stands around the two jobs: before them, and after.
Heads == {<<L(0, "name", "demo"), L(0, "blank", "")>>,
          <<L(0, "env", "env"), L(2, "pair", "G"), L(0, "name", "demo")>>}
Tails == {<<>>, <<L(0, "env", "env"), L(2, "pair", "H")>>}

Document(head, order, steps, order2, tail) ==
    [lines |-> head \o <<L(0, "jobs", "jobs")>>
                    \o JobLines("a", "b", order, steps)
                    \o <<L(0, "blank", "")>>
                    \o JobLines("b", "a", order2, <<"run">>)
                    \o tail,
     means |-> [name |-> "demo",
                env |-> {l.text : l \in {x \in ToSet(head \o tail) : x.kind = "pair"}},
                jobs |-> [j \in {"a", "b"} |->
                            IF j = "a" THEN JobMeans("b", order, steps)
                                       ELSE JobMeans("a", order2, <<"run">>)]],
     plain |-> PlainJob(order, steps) /\ PlainJob(order2, <<"run">>)]

\* The same text below "pipeline:", as docs/config.md writes it.
Under(d) ==
    [d EXCEPT !.lines = <<L(0, "pipeline", "pipeline")>> \o
                        [i \in 1 .. Len(d.lines) |-> [d.lines[i] EXCEPT !.indent = @ + 2]],
              !.plain = FALSE]

MCDocuments ==
    LET second == {<<"image", "steps">>, <<"env", "image", "steps">>}
    IN {Document(h, o, s, o2, t) :
            h \in Heads, o \in Orders, s \in StepLists, o2 \in second, t \in Tails}
       \cup {Under(Document(h, o, <<"run-env">>, o2, <<>>)) :
            h \in Heads, o \in Orders, o2 \in second}

=============================================================================
