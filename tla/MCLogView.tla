----------------------------- MODULE MCLogView -----------------------------
(***************************************************************************)
(* Two jobs with a step of the same name: one writes lines that the chunks  *)
(* cut, a character of two bytes among them, one writes an empty line and to *)
(* both outputs, and such a character whole.                                *)
(***************************************************************************)
EXTENDS LogView

MCNames == {NoName, "a", "b", "test", "lint"}
MCCharacters == {"x", "lead", "trail", NL, Replaced} \cup EventTypes
MCWide == {<<"lead", "trail">>}
MCJobs == {"a", "b"}

MCPrograms ==
    [a |-> <<Event("job_started", "a", NoName),
             Write("a", "test", FALSE, <<"x", "lead", "trail", "x", NL>>)>>,
     b |-> <<Write("b", "test", TRUE, <<NL, "x">>),
             Write("b", "lint", FALSE, <<"lead", "trail">>)>>]
=============================================================================
