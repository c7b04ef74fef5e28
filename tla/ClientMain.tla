----------------------------- MODULE ClientMain -----------------------------
(***************************************************************************)
(* One run of the program, main() in ClientMain.cpp: the command line is   *)
(* parsed (Cmdline), the client connects, and then it runs a script from   *)
(* the command line or a file, or it goes into the interactive loop, of    *)
(* which only the end is seen here (Repl has the loop).                    *)
(***************************************************************************)
EXTENDS Integers, Sequences

CONSTANTS
  Lines,            \* the command lines
  PortNumber(_),    \* the number a text is read as, NULL if it is none
  FileContent,      \* what is in the file that is given with --file
  NULL

-----------------------------------------------------------------------------
(* The options, ClientMain.cpp:31-37, and --help from parse_check.         *)

ClientOptions ==
  {"host", "port", "username", "password", "file", "script", "secure", "help"}

ClientHasValue == ClientOptions \ {"secure", "help"}

\* A faulty ClientNeed: the password is optional.
ClientNeedLess == {"host", "username"}

ClientNeed == {"host", "username", "password"}

ClientShortName ==
  [o \in ClientOptions |->
     CASE o = "host" -> "h" [] o = "port" -> "p" [] o = "username" -> "u"
       [] o = "password" -> "P" [] o = "file" -> "f" [] o = "script" -> "s"
       [] o = "help" -> "?" [] o = "secure" -> ""]

ClientDefault == [o \in ClientOptions |-> IF o = "port" THEN "8848" ELSE ""]

\* A faulty PortReads: the range begins one too low.
PortReadsZero(o, v) == o = "port" => PortNumber(v) \in 0 .. 65535

PortReads(o, v) == o = "port" => PortNumber(v) \in 1 .. 65535

VARIABLES
  parserPc, argv, i, has, actual, errors, others,   \* the parser
  pc,         \* "parse", "connect", "choose", "run", "version", "keywords", "loop", "close", "exited"
  status,     \* "running", then the exit status, "aborted" or "killed"
  connected,  \* the connection was opened and close() has not closed it
  script,     \* what is to be run without interaction, NULL if nothing
  sent,       \* the scripts handed to the server
  saved,      \* ~/.ddbclient_history was written
  stored      \* ~/.cli_history was written

parserVars == <<parserPc, argv, i, has, actual, errors, others>>
vars == <<parserVars, pc, status, connected, script, sent, saved, stored>>

Parser == INSTANCE Cmdline
            WITH pc <- parserPc, Options <- ClientOptions, HasValue <- ClientHasValue,
                 Need <- ClientNeed, short_name <- ClientShortName,
                 Default <- ClientDefault, Reads <- PortReads

exist(o) == o \in has

ASSUME LinesAssumption == Lines \subseteq Seq(Parser!Argument)

\* True of every string; the provers do not know what a string literal is.
ASSUME StringsAssumption ==
  /\ ClientOptions \subseteq STRING
  /\ {ClientShortName[o] : o \in ClientOptions} \subseteq STRING
  /\ {ClientDefault[o] : o \in ClientOptions} \subseteq STRING
  /\ {FileContent, "", "version()", "defs()"} \subseteq STRING

-----------------------------------------------------------------------------
Init ==
  /\ Parser!Init
  /\ pc = "parse"
  /\ status = "running"
  /\ connected = FALSE
  /\ script = NULL
  /\ sent = << >>
  /\ saved = FALSE
  /\ stored = FALSE

Goto(from, to) ==
  /\ pc = from
  /\ pc' = to
  /\ UNCHANGED <<parserVars, status>>

Exit(from, result) ==
  /\ pc = from
  /\ pc' = "exited"
  /\ status' = result
  /\ UNCHANGED parserVars

\* parser.parse_check(argc, argv), which may end the program itself.
ParseCheck ==
  /\ pc = "parse"
  /\ Parser!Next
  /\ IF parserPc' \in {"usage", "error"}
       THEN pc' = "exited" /\ status' = IF parserPc' = "usage" THEN "0" ELSE "1"
       ELSE UNCHANGED <<pc, status>>
  /\ UNCHANGED <<connected, script, sent, saved, stored>>

ReadOptions ==
  /\ parserPc = "ok"
  /\ IF Len(argv) < 4 \/ exist("help") THEN Exit("parse", "0") ELSE Goto("parse", "connect")
  /\ UNCHANGED <<connected, script, sent, saved, stored>>

Connect ==
  /\ Goto("connect", "choose")
  /\ connected' = TRUE
  /\ UNCHANGED <<script, sent, saved, stored>>

\* A faulty ConnectFails: nobody asks whether the client is connected.
ConnectFailsGoesOn ==
  /\ Goto("connect", "choose") \/ Exit("connect", "aborted")
  /\ UNCHANGED <<connected, script, sent, saved, stored>>

\* connect returns false, or throws outside of any try.
ConnectFails ==
  /\ Exit("connect", "130") \/ Exit("connect", "aborted")
  /\ UNCHANGED <<connected, script, sent, saved, stored>>

RefuseFileAndScript ==
  /\ exist("file") /\ exist("script")
  /\ Exit("choose", "128")
  /\ UNCHANGED <<connected, script, sent, saved, stored>>

\* FileReader::read gives an empty text for a file that does not open.
FileTexts == {FileContent, ""}

ReadFile ==
  /\ exist("file") /\ ~ exist("script")
  /\ Goto("choose", "run")
  /\ script' \in FileTexts
  /\ UNCHANGED <<connected, sent, saved, stored>>

\* A faulty ReadScript: the option of the branch before.
ReadScriptOfFile ==
  /\ exist("script") /\ ~ exist("file")
  /\ Goto("choose", "run")
  /\ script' = actual["file"]
  /\ UNCHANGED <<connected, sent, saved, stored>>

ReadScript ==
  /\ exist("script") /\ ~ exist("file")
  /\ Goto("choose", "run")
  /\ script' = actual["script"]
  /\ UNCHANGED <<connected, sent, saved, stored>>

\* A faulty RunScript: the return is missing.
RunScriptGoesOn ==
  /\ Goto("run", "version")
  /\ sent' = Append(sent, script)
  /\ UNCHANGED <<connected, script, saved, stored>>

RunScript ==
  /\ Exit("run", "0")
  /\ sent' = Append(sent, script)
  /\ UNCHANGED <<connected, script, saved, stored>>

\* A faulty RunScriptThrows: the message is printed and 0 is returned.
RunScriptThrowsReturns ==
  /\ Exit("run", "0")
  /\ sent' \in {sent, Append(sent, script)}
  /\ UNCHANGED <<connected, script, saved, stored>>

\* A faulty RunScriptThrows: the script is tried a second time.
RunScriptThrowsRetries ==
  /\ Exit("run", "140")
  /\ sent' \in {sent, Append(sent, script), sent \o <<script, script>>}
  /\ UNCHANGED <<connected, script, saved, stored>>

\* conn_.run throws, before or after the server has had the script.
RunScriptThrows ==
  /\ Exit("run", "140")
  /\ sent' \in {sent, Append(sent, script)}
  /\ UNCHANGED <<connected, script, saved, stored>>

\* Without a script and a file the interactive loop is started.
Interact ==
  /\ ~ exist("file") /\ ~ exist("script")
  /\ Goto("choose", "version")
  /\ UNCHANGED <<connected, script, sent, saved, stored>>

\* version() and the key words are asked for outside of any try.
AskVersion ==
  /\ Goto("version", "keywords")
  /\ sent' = Append(sent, "version()")
  /\ UNCHANGED <<connected, script, saved, stored>>

AskKeyWords ==
  /\ Goto("keywords", "loop")
  /\ sent' = Append(sent, "defs()")
  /\ UNCHANGED <<connected, script, saved, stored>>

StartupThrows ==
  /\ Exit("version", "aborted") \/ Exit("keywords", "aborted")
  /\ UNCHANGED <<connected, script, sent, saved, stored>>

\* The line "quit"; the history file may not open, nobody looks.
Quit ==
  /\ Goto("loop", "close")
  /\ saved' \in BOOLEAN
  /\ UNCHANGED <<connected, script, sent, stored>>

\* client.close() stores the command history and closes the connection.
Close ==
  /\ Exit("close", "0")
  /\ stored' \in BOOLEAN
  /\ connected' = FALSE
  /\ UNCHANGED <<script, sent, saved>>

Kill ==
  /\ pc # "exited"
  /\ Exit(pc, "killed")
  /\ UNCHANGED <<connected, script, sent, saved, stored>>

-----------------------------------------------------------------------------
RunNonInteractive == ReadFile \/ ReadScript \/ RunScript \/ RunScriptThrows

Start == ReadOptions \/ Connect \/ ConnectFails \/ RefuseFileAndScript \/ Interact

StartLoop == AskVersion \/ AskKeyWords \/ StartupThrows

Next ==
  \/ ParseCheck
  \/ Start
  \/ RunNonInteractive
  \/ StartLoop
  \/ Quit
  \/ Close
  \/ Kill

Spec == Init /\ [][Next]_vars

(***************************************************************************)
(* The process runs and the calls to the server come back, with a result   *)
(* or an exception.  The user of the loop owes nothing.                    *)
(***************************************************************************)
FairSpec ==
  Spec /\ WF_vars(ParseCheck \/ Start \/ RunNonInteractive \/ StartLoop \/ Close)

-----------------------------------------------------------------------------
TypeOK ==
  /\ Parser!TypeOK
  /\ pc \in {"parse", "connect", "choose", "run", "version", "keywords", "loop",
             "close", "exited"}
  /\ status \in {"running", "0", "1", "128", "130", "140", "aborted", "killed"}
  /\ connected \in BOOLEAN
  /\ script \in STRING \cup {NULL}
  /\ sent \in Seq(STRING)
  /\ saved \in BOOLEAN
  /\ stored \in BOOLEAN

Accepted == parserPc = "ok"

Scripted == exist("file") # exist("script")

Interactive == ~ exist("file") /\ ~ exist("script")

\* The usage is the parser's: a command line that it accepts has four arguments,
\* so the second test of argc (ClientMain.cpp:45) never stops a run.
AcceptedRuns == Accepted => Len(argv) >= 4 /\ ~ exist("help")

\* The exit status tells what was done: 0 after the usage with nothing sent to
\* the server, after the one script was run, or after quit.
StatusTells ==
  status = "0" =>
    \/ ~ Accepted /\ sent = << >>
    \/ Scripted /\ sent = <<script>>
    \/ Interactive /\ sent = <<"version()", "defs()">> /\ ~ connected

\* A status of failure or an abort never hides a script that was run twice, and
\* nothing is sent for a command line that is refused.
SentOnce ==
  /\ script # NULL => sent \in {<< >>, <<script>>}
  /\ sent # << >> => Accepted /\ ~ (exist("file") /\ exist("script"))
  /\ status \in {"1", "128", "130"} => sent = << >>

\* Only a session that was quit writes the history files.
HistoryOnQuit ==
  saved \/ stored => pc \in {"close", "exited"} /\ status \in {"running", "0", "killed"}
                       /\ Interactive

(***************************************************************************)
(* What the three rest on: where the run stands says what has been sent,   *)
(* what there is to send, and whether a history file can have been written.*)
(***************************************************************************)
RunInvariant ==
  /\ pc = "exited" <=> status # "running"
  /\ pc \in {"connect", "choose", "run", "version", "keywords", "loop", "close"} => Accepted
  /\ pc \in {"parse", "connect", "choose"} => script = NULL
  /\ pc \in {"parse", "connect", "choose", "run", "version"} => sent = << >>
  /\ pc = "run" => Scripted
  /\ pc \in {"version", "keywords", "loop", "close"} => Interactive /\ script = NULL
  /\ pc = "keywords" => sent = <<"version()">>
  /\ pc \in {"loop", "close"} => sent = <<"version()", "defs()">>
  /\ saved => pc \in {"close", "exited"}
  /\ stored => pc = "exited"

\* The arguments that give a value to --port or -p, and that one of the values is
\* not the number of a port.
PortGiven ==
  {k \in 2 .. Len(argv) : /\ Parser!Valued(argv, k, "port")
                          /\ argv[k].form = "assign" \/ k < Len(argv)}

WrongPort == \E k \in PortGiven : PortNumber(Parser!ValueAt(argv, k)) \notin 1 .. 65535

\* A port is a number from 1 to 65535: the parser refuses one exactly if some
\* value given for --port or -p, also one that a later value replaces, is not, and
\* no run goes on with a command line that gives such a value (ClientMain.cpp:32).
PortRefused ==
  parserPc \in {"parsed", "usage", "error", "ok"} /\ argv # << >> =>
    /\ [kind |-> "option value is invalid", name |-> "port"] \in errors <=> WrongPort
    /\ ~ (Accepted /\ WrongPort)

\* What is sent for --script is the one argument given for it, the last one if
\* there are several, whole and unchanged: neither a word that belongs to no
\* option (cmdline.h:515) nor the value of another option becomes a part of it.
SentIsGiven ==
  script # NULL /\ exist("script") =>
    LET at == {k \in 2 .. Len(argv) : Parser!Valued(argv, k, "script")}
    IN  script = Parser!ValueAt(argv, CHOOSE k \in at : \A l \in at : l <= k)

\* Every run ends by itself or comes to the loop, which it does without a script
\* and a file only: no command line, file, script or failure of the server leaves
\* it waiting.
NonInteractiveEnds == <>(pc = "exited" \/ (pc = "loop" /\ Interactive))

\* test/test.sh:18-21: the status 0 of a run with --file means that the file was
\* the input ("test file input successfully").
FileWasRun == status = "0" /\ Accepted /\ exist("file") => sent = <<FileContent>>

=============================================================================
