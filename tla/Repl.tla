-------------------------------- MODULE Repl --------------------------------
(***************************************************************************)
(* The interactive loop of main() (ClientMain.cpp:102-181): one line at a  *)
(* time from linenoise, lines joined while they end with a backslash, the  *)
(* joined command handled locally (\w), by a shell (!) or by the server,   *)
(* until the line "quit".                                                  *)
(*                                                                         *)
(* A text is a sequence of pieces.  A piece is a one-letter string where   *)
(* the loop looks at single characters, and a longer string where it does  *)
(* not.                                                                    *)
(***************************************************************************)
EXTENDS Integers, Sequences

CONSTANTS
  Lines,     \* the non-empty lines the user may type
  Stoi(_),   \* std::stoi: the number a text starts with, NULL if it throws
  MaxLines,  \* bound on the number of non-empty lines of a session
  NULL       \* linenoise's null pointer, and a history file not yet written

Text == Seq(STRING)

ASSUME LinesAssumption ==
  /\ Lines \subseteq Text \ {<< >>}
  /\ MaxLines \in Nat
  /\ NULL \notin Text
  /\ NULL \notin Seq(Text)

VARIABLES
  pc,               \* "prompt" in linenoise(), "line" a line was returned,
                    \* "server" in conn_.run, "shell" in std::system,
                    \* "closing" after the loop, "done", "killed"
  line,             \* what linenoise returned last
  cmd,              \* the command under construction
  isMultiLine,      \* the last line ended with a backslash
  g_display_width,
  lineHistory,      \* linenoise's list of lines, oldest first
  savedHistory,     \* what this session wrote to ~/.ddbclient_history
  inputOpen,        \* standard input has not reached its end
  executed,         \* history variable: the commands handled so far
  typed,            \* history variable: the non-empty lines typed so far
  asked             \* history variable: what the typed lines ask for

loopVars == <<cmd, isMultiLine, g_display_width>>
fileVars == <<lineHistory, savedHistory>>
vars == <<pc, line, loopVars, fileVars, inputOpen, executed, typed, asked>>

Backslash == "\\"
QuitLine == <<"q", "uit">>

-----------------------------------------------------------------------------
(* Texts. *)

endsWith(str, suffix) ==
  /\ Len(str) >= Len(suffix)
  /\ SubSeq(str, Len(str) - Len(suffix) + 1, Len(str)) = suffix

Continued(l) == endsWith(l, <<Backslash>>)

validStr(l) == SubSeq(l, 1, Len(l) - 1)

IsShowWidth(c) == c = <<Backslash, "w">> \/ c = <<Backslash, "w", "idth">>

IsSetWidth(c) == /\ Len(c) >= 3
                 /\ SubSeq(c, 1, 3) = <<Backslash, "w", " ">>

WidthText(c) == SubSeq(c, 4, Len(c))

IsWidth(c) == IsShowWidth(c) \/ IsSetWidth(c)

IsShell(c) == c # << >> /\ Head(c) = "!"

(***************************************************************************)
(* README.md, "multi-line input": a line that ends with a backslash is     *)
(* continued by the next one, and the command is finished by the first     *)
(* line that does not.  asked applies that rule to the lines as they are   *)
(* typed: commands are the finished ones, pending the text of the          *)
(* unfinished one, parts its number of lines, and splitWidth records that  *)
(* a width command was typed over several lines.                           *)
(***************************************************************************)
Asks == [commands : Seq(Text), pending : Text, parts : Nat, splitWidth : BOOLEAN]

NothingAsked ==
  [commands |-> << >>, pending |-> << >>, parts |-> 0, splitWidth |-> FALSE]

Ask(a, l) ==
  IF l = QuitLine THEN a
  ELSE IF Continued(l)
    THEN [a EXCEPT !.pending = @ \o validStr(l), !.parts = @ + 1]
    ELSE [commands   |-> Append(a.commands, a.pending \o l),
          pending    |-> << >>,
          parts      |-> 0,
          splitWidth |-> \/ a.splitWidth
                         \/ a.parts > 0 /\ IsWidth(a.pending \o l)]

-----------------------------------------------------------------------------
Init ==
  /\ pc = "prompt"
  /\ line = NULL
  /\ cmd = << >>
  /\ isMultiLine = FALSE
  /\ g_display_width = 80
  /\ lineHistory = << >>
  /\ savedHistory = NULL
  /\ inputOpen = TRUE
  /\ executed = << >>
  /\ typed = << >>
  /\ asked = NothingAsked

-----------------------------------------------------------------------------
(* linenoise("cli> ") returns. *)

\* The user enters a non-empty line.
EnterLine(l) ==
  /\ pc = "prompt"
  /\ inputOpen
  /\ Len(typed) < MaxLines
  /\ line' = l
  /\ pc' = "line"
  /\ typed' = Append(typed, l)
  /\ asked' = Ask(asked, l)
  /\ UNCHANGED <<loopVars, fileVars, inputOpen, executed>>

\* An empty line, or a null pointer: Ctrl-C and Ctrl-D while input is open,
\* and every call once it has reached its end.
EnterNothing ==
  /\ pc = "prompt"
  /\ \/ line' = NULL
     \/ inputOpen /\ line' = << >>
  /\ pc' = "line"
  /\ UNCHANGED <<loopVars, fileVars, inputOpen, executed, typed, asked>>

\* Standard input ends: the terminal hangs up, the pipe is exhausted.
InputEnds ==
  /\ pc \notin {"done", "killed"}
  /\ inputOpen
  /\ inputOpen' = FALSE
  /\ UNCHANGED <<pc, line, loopVars, fileVars, executed, typed, asked>>

-----------------------------------------------------------------------------
(* The body of the loop, up to the next call that blocks. *)

\* Nothing was entered: ask again.
SkipLine ==
  /\ pc = "line"
  /\ line \in {NULL, << >>}
  /\ pc' = "prompt"
  /\ UNCHANGED <<line, loopVars, fileVars, inputOpen, executed, typed, asked>>

\* A faulty IsQuit: quit is looked for in what was typed on one line only, and
\* joined to an unfinished command.
IsQuitUnjoined == line = QuitLine /\ ~ isMultiLine

\* The test comes before the line is joined to an unfinished command.
IsQuit == line = QuitLine

\* A faulty Remember: it takes the empty line for a line.
RememberEmptyToo ==
  /\ pc = "line"
  /\ line # NULL
  /\ lineHistory' = Append(lineHistory, line)
  /\ UNCHANGED <<line, inputOpen, typed, asked>>

\* Every other line is remembered before anything else is done with it.
Remember ==
  /\ pc = "line"
  /\ line \notin {NULL, << >>}
  /\ lineHistory' = Append(lineHistory, line)
  /\ UNCHANGED <<line, inputOpen, typed, asked>>

\* A faulty Quit: the lines are saved before quit is added to them.
QuitSavesFirst ==
  /\ Remember
  /\ IsQuit
  /\ savedHistory' \in {lineHistory, NULL}
  /\ pc' = "closing"
  /\ UNCHANGED <<loopVars, executed>>

\* The result of linenoiseHistorySave is ignored: the file may not open.
Quit ==
  /\ Remember
  /\ IsQuit
  /\ savedHistory' \in {lineHistory', NULL}
  /\ pc' = "closing"
  /\ UNCHANGED <<loopVars, executed>>

\* A faulty Continue: only complete commands are remembered.
ContinueForgets ==
  /\ pc = "line"
  /\ line \notin {NULL, << >>}
  /\ ~ IsQuit
  /\ Continued(line)
  /\ cmd' = IF isMultiLine THEN cmd \o validStr(line) ELSE validStr(line)
  /\ isMultiLine' = TRUE
  /\ pc' = "prompt"
  /\ UNCHANGED <<line, inputOpen, typed, asked, lineHistory, g_display_width,
                 savedHistory, executed>>

\* The line is a part of a command.
Continue ==
  /\ Remember
  /\ ~ IsQuit
  /\ Continued(line)
  /\ cmd' = IF isMultiLine THEN cmd \o validStr(line) ELSE validStr(line)
  /\ isMultiLine' = TRUE
  /\ pc' = "prompt"
  /\ UNCHANGED <<g_display_width, savedHistory, executed>>

\* The line completes a command; the command is handled next.
Complete ==
  /\ Remember
  /\ ~ IsQuit
  /\ ~ Continued(line)
  /\ cmd' = IF isMultiLine THEN cmd \o line ELSE line
  /\ executed' = Append(executed, cmd')
  /\ UNCHANGED <<isMultiLine, savedHistory>>

ShowWidth ==
  /\ Complete
  /\ IsShowWidth(cmd')
  /\ pc' = "prompt"
  /\ UNCHANGED g_display_width

\* A faulty SetWidth: what std::stoi throws is not caught.
SetWidthUncaught ==
  /\ Complete
  /\ IsSetWidth(cmd')
  /\ g_display_width' = Stoi(WidthText(cmd'))
  /\ pc' = "prompt"

\* A faulty SetWidth: what is no number stands for the width of the terminal.
SetWidthOrAuto ==
  /\ Complete
  /\ IsSetWidth(cmd')
  /\ LET w == Stoi(WidthText(cmd'))
     IN  g_display_width' = IF w \in Int THEN w ELSE 0
  /\ pc' = "prompt"

\* The number is taken as it is, also one that is not positive.
SetWidth ==
  /\ Complete
  /\ IsSetWidth(cmd')
  /\ LET w == Stoi(WidthText(cmd'))
     IN  g_display_width' = IF w \in Int THEN w ELSE g_display_width
  /\ pc' = "prompt"

RunShell ==
  /\ Complete
  /\ ~ IsWidth(cmd')
  /\ IsShell(cmd')
  /\ pc' = "shell"
  /\ UNCHANGED g_display_width

RunServer ==
  /\ Complete
  /\ ~ IsWidth(cmd')
  /\ ~ IsShell(cmd')
  /\ pc' = "server"
  /\ UNCHANGED g_display_width

ResetCommand ==
  /\ isMultiLine' = FALSE
  /\ cmd' = << >>

\* runShell or runInteractive returns, whatever the result.
RunReturns ==
  /\ pc \in {"shell", "server"}
  /\ ResetCommand
  /\ pc' = "prompt"
  /\ UNCHANGED <<line, g_display_width, fileVars, inputOpen, executed, typed, asked>>

\* A faulty RunThrows: the buffer is reset inside the try.
RunThrowsKeepsBuffer ==
  /\ pc = "server"
  /\ pc' = "prompt"
  /\ UNCHANGED <<line, loopVars, fileVars, inputOpen, executed, typed, asked>>

\* conn_.run throws; the handler prints the message.
RunThrows ==
  /\ pc = "server"
  /\ ResetCommand
  /\ pc' = "prompt"
  /\ UNCHANGED <<line, g_display_width, fileVars, inputOpen, executed, typed, asked>>

\* client.close() after the loop, and the return from main.
Close ==
  /\ pc = "closing"
  /\ pc' = "done"
  /\ UNCHANGED <<line, loopVars, fileVars, inputOpen, executed, typed, asked>>

\* A signal ends the process: Ctrl-C outside linenoise, a hang-up, a kill.
Kill ==
  /\ pc \notin {"done", "killed"}
  /\ pc' = "killed"
  /\ UNCHANGED <<line, loopVars, fileVars, inputOpen, executed, typed, asked>>

-----------------------------------------------------------------------------
HandleLine ==
  \/ SkipLine \/ Quit \/ Continue
  \/ ShowWidth \/ SetWidth \/ RunShell \/ RunServer

Next ==
  \/ \E l \in Lines : EnterLine(l)
  \/ EnterNothing
  \/ InputEnds
  \/ HandleLine
  \/ RunReturns
  \/ RunThrows
  \/ Close
  \/ Kill

Spec == Init /\ [][Next]_vars

(***************************************************************************)
(* The process runs when it can, and at the end of input linenoise returns  *)
(* at once.  The user owes nothing, nor do the shell and the server.       *)
(***************************************************************************)
Fairness ==
  /\ WF_vars(HandleLine)
  /\ WF_vars(Close)
  /\ WF_vars(~ inputOpen /\ EnterNothing)

FairSpec == Spec /\ Fairness

-----------------------------------------------------------------------------
TypeOK ==
  /\ pc \in {"prompt", "line", "server", "shell", "closing", "done", "killed"}
  /\ line \in Text \cup {NULL}
  /\ cmd \in Text
  /\ isMultiLine \in BOOLEAN
  /\ g_display_width \in Int
  /\ lineHistory \in Seq(Text)
  /\ savedHistory \in Seq(Text) \cup {NULL}
  /\ inputOpen \in BOOLEAN
  /\ executed \in Seq(Text)
  /\ typed \in Seq(Text)
  /\ asked \in Asks

\* Between two lines the program has handled exactly the commands the typed
\* lines ask for: joined at the backslashes, none lost, repeated, reordered or
\* prefixed with the text of another (README.md:188, "Client will wait until
\* the command is finished").
CommandsAsTyped ==
  pc \notin {"line", "killed"} => executed = asked.commands

\* The same of every session in which no width command was typed over several
\* lines: whatever the commands return or throw, the buffer of one command
\* never reaches another.
AsTypedUnlessWidthSplit == ~ asked.splitWidth => CommandsAsTyped

(***************************************************************************)
(* Why AsTypedUnlessWidthSplit holds: its inductive strengthening.  Between *)
(* two lines the buffer is the unfinished text; when a line was returned   *)
(* it is what that line continues or completes.                            *)
(***************************************************************************)
Buffer == IF isMultiLine THEN cmd ELSE << >>

BufferIsPending ==
  /\ isMultiLine <=> asked.parts > 0
  /\ Buffer = asked.pending
  /\ executed = asked.commands

LineContinues ==
  /\ asked.parts > 0
  /\ asked.pending = Buffer \o validStr(line)
  /\ executed = asked.commands

LineCompletes ==
  /\ asked.parts = 0
  /\ asked.pending = << >>
  /\ asked.commands = Append(executed, Buffer \o line)
  /\ isMultiLine => ~ IsWidth(cmd \o line)

CommandRuns ==
  /\ asked.parts = 0
  /\ asked.pending = << >>
  /\ executed = asked.commands

LoopInvariant ==
  ~ asked.splitWidth =>
    /\ pc \in {"prompt", "closing", "done"} => BufferIsPending
    /\ pc = "line" /\ line \in {NULL, << >>, QuitLine} => BufferIsPending
    /\ pc = "line" /\ line \notin {NULL, << >>, QuitLine} =>
         IF Continued(line) THEN LineContinues ELSE LineCompletes
    /\ pc \in {"server", "shell"} => CommandRuns

\* No command handled is empty, so that cmd[0] (ClientMain.cpp:160) is a
\* character of it: a line of a lone backslash adds nothing, but the line that
\* completes a command always does.
NoEmptyCommand == \A i \in 1 .. Len(executed) : executed[i] # << >>

\* Every non-empty line is remembered once and in order, also the ones that
\* only continue a command, set the width or end the session, and what quit
\* saves holds them all (ClientMain.cpp:110-119).
HistoryIsTyped ==
  /\ pc \notin {"line", "killed"} => lineHistory = typed
  /\ savedHistory # NULL => savedHistory = typed

\* Its inductive strengthening: a line that was returned is due next.
HistoryInvariant ==
  /\ pc \notin {"line", "killed"} => lineHistory = typed
  /\ pc = "line" /\ line \in {NULL, << >>} => lineHistory = typed
  /\ pc = "line" /\ line \notin {NULL, << >>} => Append(lineHistory, line) = typed
  /\ savedHistory # NULL =>
       /\ savedHistory = typed
       /\ pc \in {"closing", "done", "killed"}

(***************************************************************************)
(* Between two lines the width of the display is what the last width       *)
(* command with a number in it says (std::stoi: also one that is not       *)
(* positive, which stands for the width of the terminal), and 80 before    *)
(* the first: a text without a number changes nothing, nor does anything   *)
(* else, whatever its commands return or throw, and no width is lost       *)
(* (ClientMain.cpp:17, 148-156).  Sessions with a width command over       *)
(* several lines are left out, as above.                                   *)
(***************************************************************************)
WidthsSet(cs) ==
  {k \in 1 .. Len(cs) : IsSetWidth(cs[k]) /\ Stoi(WidthText(cs[k])) \in Int}

WidthFrom(cs, w) ==
  \/ WidthsSet(cs) = {} /\ w = 80
  \/ \E k \in WidthsSet(cs) : /\ \A j \in WidthsSet(cs) : j <= k
                             /\ w = Stoi(WidthText(cs[k]))

WidthAsAsked ==
  ~ asked.splitWidth /\ pc \notin {"line", "killed"} =>
    WidthFrom(asked.commands, g_display_width)

\* The session of a user who is gone ends (ClientMain.cpp:109, "process EOF").
EofEnds == ~ inputOpen ~> pc \in {"done", "killed"}

=============================================================================
