---------------------------- MODULE MCClientMain ----------------------------
(***************************************************************************)
(* An instance of ClientMain for TLC: the needed options in one order, and *)
(* up to MaxExtra more arguments before, between and after them.           *)
(***************************************************************************)
EXTENDS ClientMain

CONSTANT MaxExtra

MCPortNumber(v) ==
  CASE v = "0" -> 0 [] v = "1" -> 1 [] v = "65535" -> 65535 [] v = "65536" -> 65536
    [] OTHER -> NULL

Part(form, text, name, value, letters) ==
  [form |-> form, text |-> text, name |-> name, value |-> value, letters |-> letters]
Assign(text, name, value) == Part("assign", text, name, value, << >>)
Long(text, name) == Part("long", text, name, "", << >>)
Short(text, letters) == Part("short", text, "", "", letters)
Word(text) == Part("word", text, "", "", << >>)

Needed == << Assign("--host=a", "host", "a"), Assign("--username=b", "username", "b"),
             Assign("--password=c", "password", "c") >>

Extra == { Short("-p", <<"p">>), Word("0"), Word("1"), Word("65535"), Word("65536"),
           Short("-f", <<"f">>), Short("-s", <<"s">>),
           Assign("--file=d", "file", "d"), Assign("--script=e", "script", "e"),
           Long("--help", "help"), Long("--secure", "secure") }

MCLines ==
  {<<Word("ddbclient")>> \o SubSeq(Needed, 1, k) \o e \o SubSeq(Needed, k + 1, 3) :
     k \in 0 .. 3, e \in UNION {[1 .. n -> Extra] : n \in 0 .. MaxExtra}}
  \cup {<<Word("ddbclient")>> \o SubSeq(Needed, 1, k) : k \in 0 .. 2}

=============================================================================
