----------------------------- MODULE MCProgram -----------------------------
(***************************************************************************)
(* An instance of Program for TLC: command lines of every kind of run, and *)
(* sessions with commands of every kind.                                   *)
(***************************************************************************)
EXTENDS Program

Part(form, text, name, value, letters) ==
  [form |-> form, text |-> text, name |-> name, value |-> value, letters |-> letters]
Assign(text, name, value) == Part("assign", text, name, value, << >>)
Long(text, name) == Part("long", text, name, "", << >>)
Word(text) == Part("word", text, "", "", << >>)

Needed == << Word("ddbclient"), Assign("--host=a", "host", "a"),
             Assign("--username=b", "username", "b"), Assign("--password=c", "password", "c") >>

MCCommandLines ==
  { Needed, Front(Needed), Append(Needed, Long("--help", "help")),
    Append(Needed, Assign("--script=d", "script", "d")),
    Append(Needed, Assign("--file=e", "file", "e")),
    Needed \o <<Assign("--script=d", "script", "d"), Assign("--file=e", "file", "e")>> }

MCPortNumber(v) == NULL

\* The width is any text; what std::stoi makes of it is the business of MCRepl.
MCStoi(t) == NULL

MCLines ==
  { <<"q">>, <<"q", "\\">>, <<"\\">>, <<"\\", "w", "\\">>, <<"\\", "w", " ", "7">>,
    <<"!", "ls">>, <<"uit">>, <<"q", "uit">> }

=============================================================================
