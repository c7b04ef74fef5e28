----------------------------- MODULE MCCmdline -----------------------------
(***************************************************************************)
(* An instance of Cmdline for TLC: one option of each kind of main()'s     *)
(* (ClientMain.cpp:31-37), and every command line of up to MaxArguments    *)
(* arguments of MCArguments.                                               *)
(***************************************************************************)
EXTENDS Cmdline

CONSTANT MaxArguments

MCOptions == {"host", "port", "secure", "help"}
MCHasValue == {"host", "port"}
MCNeed == {"host"}
MCshort_name == [o \in MCOptions |-> CASE o = "host" -> "h" [] o = "port" -> "p"
                                       [] o = "help" -> "?" [] OTHER -> ""]
MCDefault == [o \in MCOptions |-> IF o = "port" THEN "8848" ELSE ""]
MCReads(o, v) == o = "port" => v \in {"8848", "1"}

Part(form, text, name, value, letters) ==
  [form |-> form, text |-> text, name |-> name, value |-> value, letters |-> letters]
Assign(text, name, value) == Part("assign", text, name, value, << >>)
Long(text, name) == Part("long", text, name, "", << >>)
Short(text, letters) == Part("short", text, "", "", letters)
Word(text) == Part("word", text, "", "", << >>)

MCArguments ==
  { Assign("--host=a", "host", "a"), Assign("--port=1", "port", "1"),
    Assign("--port=0", "port", "0"), Assign("--secure=1", "secure", "1"),
    Long("--host", "host"), Long("--port", "port"), Long("--help", "help"),
    Long("--hots", "hots"), Short("-", << >>), Short("-h", <<"h">>),
    Short("-?p", <<"?", "p">>), Short("-h?", <<"h", "?">>), Short("-x", <<"x">>),
    Long("--secure", "secure"), Word("1") }

MCLines ==
  {<< >>} \cup
  {<<Word("ddbclient")>> \o l : l \in UNION {[1 .. n -> MCArguments] : n \in 0 .. MaxArguments}}

=============================================================================
