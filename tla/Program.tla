------------------------------ MODULE Program ------------------------------
(***************************************************************************)
(* The whole program: one run of main() (ClientMain) of which the          *)
(* interactive loop is Repl.  The two share the steps at which main()      *)
(* leaves the loop and closes the client; standard input may end and a     *)
(* signal may come at any time.                                            *)
(***************************************************************************)
EXTENDS Integers, Sequences, SequencesExt

CONSTANTS
  CommandLines,   \* the command lines of the program
  PortNumber(_),  \* the number a text is read as, NULL if it is none
  FileContent,    \* what is in the file that is given with --file
  Lines,          \* the non-empty lines the user may type
  Stoi(_),        \* std::stoi
  MaxLines,       \* bound on the number of lines typed
  NULL

VARIABLES
  parserPc, argv, i, has, actual, errors, others,
  mainPc, status, connected, script, sent, saved, stored,
  loopPc, line, cmd, isMultiLine, g_display_width, lineHistory, savedHistory,
  inputOpen, executed, typed, asked

mainVars == <<parserPc, argv, i, has, actual, errors, others,
              mainPc, status, connected, script, sent, saved, stored>>
loopVars == <<loopPc, line, cmd, isMultiLine, g_display_width, lineHistory,
              savedHistory, inputOpen, executed, typed, asked>>
vars == <<mainVars, loopVars>>

Main == INSTANCE ClientMain WITH Lines <- CommandLines, pc <- mainPc

Loop == INSTANCE Repl WITH pc <- loopPc

ASSUME CommandLinesAssumption == CommandLines \subseteq Seq(Main!Parser!Argument)

ASSUME StringsAssumption == Main!StringsAssumption

ASSUME TypedLinesAssumption ==
  /\ Lines \subseteq Loop!Text \ {<< >>}
  /\ MaxLines \in Nat
  /\ NULL \notin Loop!Text
  /\ NULL \notin Seq(Loop!Text)

-----------------------------------------------------------------------------
Init == Main!Init /\ Loop!Init

\* Before the loop, or without it.
RunMain ==
  /\ Main!ParseCheck \/ Main!Start \/ Main!RunNonInteractive \/ Main!StartLoop
  /\ UNCHANGED loopVars

InLoop == mainPc = "loop" /\ UNCHANGED mainVars

\* linenoise waits for the user.
ReadLine ==
  /\ InLoop
  /\ (\E l \in Lines : Loop!EnterLine(l)) \/ Loop!EnterNothing

\* The body of the loop but for the line "quit".
HandleLine ==
  /\ InLoop
  /\ \/ Loop!SkipLine \/ Loop!Continue \/ Loop!ShowWidth \/ Loop!SetWidth
     \/ Loop!RunShell \/ Loop!RunServer

FinishCommand ==
  /\ InLoop
  /\ Loop!RunReturns \/ Loop!RunThrows

\* The line "quit": saved tells whether the file could be written.
Quit ==
  /\ Main!Quit
  /\ Loop!Quit
  /\ saved' <=> savedHistory' # NULL

Close == Main!Close /\ Loop!Close

InputEnds ==
  /\ Loop!InputEnds
  /\ UNCHANGED mainVars

Kill ==
  /\ Main!Kill
  /\ IF mainPc \in {"loop", "close"} THEN Loop!Kill ELSE UNCHANGED loopVars

Next ==
  \/ RunMain
  \/ ReadLine \/ HandleLine \/ FinishCommand \/ Quit
  \/ Close
  \/ InputEnds
  \/ Kill

Spec == Init /\ [][Next]_vars

(***************************************************************************)
(* The process runs: the body of the loop, and what follows the loop.      *)
(* Nothing is asked of the user, the shell or the server.                  *)
(***************************************************************************)
Fairness ==
  /\ WF_vars(HandleLine \/ Quit)
  /\ WF_vars(Close)

FairSpec == Spec /\ Fairness

-----------------------------------------------------------------------------
\* No command is handled unless the run is an interactive one that is connected
\* and has asked for the key words, and none once the client was closed; the
\* lines that are typed ahead wait.
HandledWhileConnected ==
  /\ loopPc \in {"line", "server", "shell"} => mainPc = "loop"
  /\ mainPc = "loop" => connected /\ sent = <<"version()", "defs()">>
  /\ executed # << >> => Main!Accepted /\ Main!Interactive

\* The status 0 of an interactive run: its last line was quit, everything asked
\* for before was handled (unless finding 1 came in between), and the file, if
\* it could be written, has every line.
QuitTells ==
  status = "0" /\ Main!Accepted /\ Main!Interactive =>
    /\ typed # << >> /\ Last(typed) = Loop!QuitLine
    /\ asked.splitWidth \/ executed = asked.commands
    /\ saved => savedHistory = typed
    /\ ~ saved => savedHistory = NULL

\* After the line "quit" nothing keeps the program: no failed command before it,
\* no unfinished text in the buffer that the line could be taken to continue.
QuitEnds == loopPc = "line" /\ line = Loop!QuitLine ~> mainPc = "exited"

=============================================================================
