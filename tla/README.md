# Verification of ddbclient in TLA+

ddbclient is the command line client of a DolphinDB server.  This directory
holds TLA+ modules that model it, TLC configurations that check the models on
small instances, and proofs, checked by TLAPS, that the most important
properties hold for every value of the constants.

Line numbers refer to the files in `src/` of the repository
(`ClientMain.cpp:155`) and to `include/cmdline.h` below it.

## 1. The system

A run of the program is one process with one thread, and no callback except the
completion hook.  What makes it hard is not parallelism inside the program but
what surrounds it: a user who types lines in any order, a server and a shell
that fail or throw at any command, files that do not open or are cut off by a
crash or overwritten by another run of the program, a terminal of any width, a
standard input that ends.

| component | source | state | operations |
|---|---|---|---|
| program run | `ClientMain.cpp:21-183`, `FileReader.cpp` | options, connection, what was sent, exit status | parse the command line, connect, run a script or a file, start and leave the loop, close |
| command line parser | `include/cmdline.h` | options with their values, errors, stray words | `parse(argc, argv)`, `parse` of a text, `set_option`, `parse_check` |
| interactive loop | `ClientMain.cpp:102-178`, `StringUtil.cpp` | `cmd`, `isMultiLine`, `g_display_width`, linenoise's lines | take a line, join continued lines, `\w`, `!`, run, `quit` |
| `Client` | `Client.cpp`, `Client.h` | the connection, the history object | `connect`, `runInteractive`, `runNonInteractive`, `runShell`, `getKeyWords`, `close` |
| result layout | `Client.cpp:15-101`, `TerminalUtil.cpp` | none (reads `g_display_width`, `COLUMNS`, the terminal) | `toString`, `getTermWidth` |
| `CommandHistory` | `CommandHistory.cpp`, `.h` | deque of the newest commands, lookup position, file `~/.cli_history` | constructor, `add`, `getPrev`, `getNext`, `store` |
| linenoise's history file | `ClientMain.cpp:28, 111, 119` | `~/.ddbclient_history`, shared by all sessions of a user | load at the start, save at `quit` |
| completion | `Client.cpp:125-142`, `ClientMain.cpp:210-223` | `keyWords` | `getKeyWords`, `completionHook` |
| external | submodules that are not in the tree | | linenoise-ng, the DolphinDB C++ API; OpenSSL headers |

How they interact: `main` calls the parser, which may end the process with exit
status 0 (usage) or 1 (errors).  `main` then constructs the `Client`, whose
constructor loads `~/.cli_history`, and connects.  With `--script` or `--file`
one script is run and the process ends.  Otherwise the loop starts: each
command goes to the shell or to the server through `Client`, the width command
sets a global that the result layout reads through `getTermWidth`.  `quit`
saves the lines of linenoise; `client.close()` stores the command history.
Note that no code calls `CommandHistory::add`: at present the program rewrites
`~/.cli_history` with what it has loaded.  The class is modelled with all its
operations nevertheless.

What is hard, and what makes each part correct:

* **loop.**  State (`cmd`, `isMultiLine`) lives from one line to the next, and
  four exits of the body (`continue` at 113, 130/136, 145 and 155), an exception
  and a normal end treat it differently.  Correct: the commands that run are the
  commands that were typed, joined at the backslashes, none prefixed with the
  text of another; every line is remembered; the width of the display is the one
  asked for last, whatever failed in between; `quit` ends the session, and so
  does the end of input.
* **history.**  A deque at its limit, lookups bounded by the capacity and not
  by the length, a file that is emptied before it is written.  Correct: a
  bounded log of the newest commands, newest first, that a restart continues
  with all of it, or with none if the file does not open.
* **sessions.**  Two files without a lock, loaded at the start and overwritten
  at the end.  Correct: a session that knows what the others saved loses
  nothing of it, and no interleaving brings foreign or reordered commands into
  the command history.
* **parser.**  An argument may be an option or the value of the one before it,
  options are grouped, the last argument may wait for a value.  Correct: the
  options mean what the command line says, needed ones are there, every value is
  read by its reader, help wins.  A command line may also be one text with
  quotes and backslashes (`cmdline.h:374`; the program itself calls `parse` with
  `argc` and `argv` only), and the calls of a parser share its list of errors.
  Correct: the text is cut where a reader from the outside would cut it, what a
  caller has put in quotes comes back, there is an error to show exactly if the
  last call failed.
* **program run.**  Eight ways to end.  Correct: the exit status tells what was
  done; nothing is sent twice; scripts end.  Together with its loop: no command
  is handled before the start or after the close, and the status 0 of a session
  says that its last line was `quit` and that everything before it was handled.
* **result layout.**  Integer division, lower bounds, cuts.  Correct: aligned
  lines that fit, the line of dashes among them, columns no wider than what they
  show, cuts only where needed, no negative length.
* **completion.**  Searches from the front and from the back of texts that
  repeat themselves.  Correct: exactly the key words that have begun after the
  last dot are offered, in order.

## 2. Plan

In order of importance; all of it is written.

1. `Repl`, the loop, with `MCRepl` and `ReplProofs`.
2. `CommandHistory` with the abstract `RecentLog`, which it is shown to
   implement, `MCCommandHistory` and `CommandHistoryProofs`.
3. `Cmdline`, the parser, and `CmdlineProofs`; `ClientMain`, the program run,
   which composes an instance of `Cmdline` with the steps of `main`, and
   `ClientMainProofs`, which uses the theorems of `CmdlineProofs`.
4. `Program`, the whole program: `ClientMain` with `Repl` as its loop, and
   `ProgramProofs`, which uses the theorems of `ReplProofs` and
   `ClientMainProofs`.
5. `TableFormat`, the layout of results, and `ClientProofs`.
6. `Sessions`, several runs that share the two history files, and
   `SessionsProofs`.
7. `ParseLine`, the parser's way with a text, and `ParseLineProofs`.
8. `Completion`, the key words and what TAB offers, in `ClientProofs` too.

Every safety invariant and every action property that a run checks is also a
theorem.

## 3. The modules

A comment above every definition that needs one says what it is in the code;
`PROJECT.json` maps every definition to its lines.  Definitions whose comment
begins with "A faulty ..." are not part of any specification: each is the form
that an operation would have after a plausible mistake, and replacing the
operation by it makes TLC refute the property it is listed with.  They show
that each property depends on the code.

**Repl** (`ClientMain.cpp:102-182`).  A text is a sequence of pieces, one
letter long wherever the loop looks at single letters.  `EnterLine`,
`EnterNothing`: linenoise returns (a line; an empty one or null).  `HandleLine`
is the body up to the next call that blocks, one action per path: `SkipLine`
(113), `Quit` (118), `Continue` (126-136), and the completed command as
`ShowWidth`, `SetWidth`, `RunShell` or `RunServer`.  `RunReturns` and
`RunThrows` are the rest of the body after the call; `Close` the code after the
loop; `InputEnds` and `Kill` the environment.  Three history variables say what
the user did (`typed`, `asked`) and what the program ran (`executed`).
`WidthAsAsked` reads the width of the display off the commands that were asked
for: the last one with a number in it, whatever failed before or after.

**CommandHistory** (`CommandHistory.cpp`).  `Construct`, `add`, `getPrev`,
`getNext` are the methods; `store()` is `storeOpens`, `storeWrites` per line,
`storeCloses`, so that the process can `Stop` between any two of them, with the
last line torn or not, and the disk can be full (`storeLosesRest`).  A file that
does not open gives an empty deque in `Construct`, also if it exists: it is
opened to read and to write (`CommandHistory.cpp:12`).  In `store()` it leaves
everything as it was.  Commands are numbered.  `count`, `log`, `stored` are
history variables.  **RecentLog** is the promise: a log, its newest `Depth`
entries, and a file that is always a start of what was shown once.

**Cmdline** (`cmdline.h:426-621, 695-777`).  An argument is kept with its text
and the way the parser splits it.  One action per branch of the loop over
`argv`; `Validate` is the loop over the needed options; `PrintUsage`,
`PrintError`, `Accept` are `check()`.  Options, letters, defaults and readers
are constants.  `Reads` is the reader of an option (the range of the port).
The errors are a set: only whether there are any decides what happens, their
order and wording are left out.  For the same reason a group of letters is one
step (`SetLetters`): none of its letters changes what another one does.
`ValuesAreRead` says of every option that it is reported as invalid exactly if
some value given for it, also one that a later value replaces, is not taken by
its reader.  `FairSpec` adds that the process runs; `Answered` is that it comes
to one of the three ends.

**ParseLine** (`cmdline.h:374-424`).  `Call` begins with a text; the loop over
its letters is one action per branch (`ToggleQuote`, `EndArgument`,
`TakeEscaped`, `TakeLetter`, `BackslashAtEnd`), what follows it is
`QuoteNotClosed` or `LastArgument`.  `ParseArguments` is the call of
`parse(args)`: what `Cmdline` makes of the arguments is here only a list of
errors, empty or not, in place of the earlier ones (`errors.clear()`).  The
early returns of lines 395 and 404 do not clear it.  For a text without
arguments line 423 takes `&argv[0]` of an empty vector, which is undefined: the
process ends (`Abort`) or goes on with a pointer that nobody reads.  No code of
the program calls this `parse`; the class offers it.  `Escaped` and `Quoted` say
from the outside how such a text is read: by what stands before a letter, without
a state.  `Separators` are the blanks that are neither, `Kept` the letters that
belong to an argument, and `Pieces` what stands between the separators.
`QuoteArguments` is a careful caller, who puts each argument of a list in quotes
with a backslash before its quotes and backslashes; `Given` is such lists.

**ClientMain** (`ClientMain.cpp:21-183`) composes an instance of `Cmdline` for
the options of lines 31-37 with one action per step of `main`.  Calls to the
server return or throw; the call outside of a `try` (62, 98, 102) aborts the
process when it throws.  `PortReads` is the range reader of line 32:
`PortRefused` reads the port off the command line and compares.  The loop is one
state here; `Repl` has it.

**Program** composes `ClientMain` and `Repl`.  The two own their variables; they
take three steps together: `Quit` (line 117, with linenoise's save), `Close`
(180-182) and, while the loop exists, `Kill`.  Between `StartLoop` and `Close`
the other actions of the loop are steps of the program (`ReadLine`,
`HandleLine`, `FinishCommand`), before it those of `main` (`RunMain`).  Standard
input may end at any time.

**TableFormat** (`Client.cpp:15-101`, `TerminalUtil.cpp`).  A text is its
length.  `getTermWidth`, `availableWidth`, `maxLen`, `colWidths`, `tooNarrow`,
`Cut` are the computations of `toString` under their names there; a layout has
the line of the names, the line of dashes (`DashLine`) and the printed rows
(`TextLine`).  The actions set the width, resize the terminal and print a
result.  `PrintNoColumns` is the division of line 57 by the number of columns
when that is zero: what the language leaves undefined is a choice between the
end of the process and any answer to the test.  No property speaks of it: that
only a table without columns comes there is the guard itself.

**Sessions** (`ClientMain.cpp:26-28, 107-122`, `CommandHistory.cpp:6-23,
51-62`).  Several runs of the program.  `Load`, `Construct` read the two files,
each of which may not open; a session that could not load counts as `behind`.
`Quit` and `SaveWrites` are linenoise's save at the line `quit`, `QuitUnsaved`
the same with a file that does not open; `StoreOpens` and `StoreWrites` are
`client.close()`; between the two halves of each the file is empty for
everybody.  `Leave` is a script that ends, an abort or a kill.  A write goes to
the start of the file and leaves what another session has written behind its
end: for `~/.ddbclient_history`, where the texts differ, any part of it, perhaps
with a torn line (`Remains`); for `~/.cli_history`, where all sessions hold the
same bytes, exactly the rest of the lines (`Over`).  That save and store open
and empty the file first and write once is exact for what fits into the buffer
of a stream (some thousand bytes).  `behind` and `before` are history variables.

**Completion** (`Client.cpp:125-142`, `ClientMain.cpp:210-223`,
`StringUtil.cpp`).  `AskKeyWords` is the one query before the loop, with its
where clause and its order (`IsKeyWord`, `Before`); `Type`, `Erase`, `PressTab`
are keys.  `completionHook` is translated with the searches of `std::string`
that it uses (`Occurrences`): the last dot, and `find(...) == 0`.  The answer of
the server is a listing of the names in their order (`InOrder`), which is a
constant.  It lists no name twice if `defs()` does not, which is taken for
granted: the query asks for no distinct names.  The formulas are called
`CompletionInit`, `CompletionSpec` and so on so that `ClientProofs` can extend
this module and `TableFormat`.

The modules `MC...` only give values to constants.

## 4. What is checked

| run | module | shows |
|---|---|---|
| `repl` | MCRepl | commands are joined, kept apart and remembered as typed, whatever they return or throw (`AsTypedUnlessWidthSplit`, `HistoryIsTyped`, `NoEmptyCommand`); the width is the one asked for last (`WidthAsAsked`) |
| `repl_split_width` | MCRepl | finding 1 |
| `repl_eof` | MCRepl | finding 2 |
| `history` | MCCommandHistory | deque, lookups, file and restarts (`HistoryIsRecent`, `FullHistoryAnswers`, `NewestFirst`, `WholeOrNothing`) and the refinement `ImplementsRecentLog` |
| `cmdline` | MCCmdline | the options mean what the command line says (`ParsedAsGiven`), `AcceptedIsComplete`, `HelpWins`, `ValuesAreRead`; the parser ends (`Answered`) |
| `parse_line` | MCParseLine | a text is cut as a reader from the outside does it (`SplitAsWritten`, `SplitIfClosed`), `QuotedComesBack`, the errors of several calls (`ErrorsTell`) |
| `main` | MCClientMain | status, server and files fit together (`AcceptedRuns`, `StatusTells`, `SentOnce`, `SentIsGiven`), the port is in its range (`PortRefused`), scripts end (`NonInteractiveEnds`) |
| `main_file` | MCClientMain | finding 3 |
| `program` | MCProgram | `main` and its loop together: `HandledWhileConnected`, `QuitTells`, and that `quit` ends the program (`QuitEnds`) |
| `sessions` | MCSessions | a save adds to what is there unless another session has saved since the load (`SaveAddsLines`), and `OnlyStarts` for the command history |
| `table` | MCTableFormat | `LinesFit`, `LinesAligned`, `NoWiderThanShown`, `CutsKeepText`, `NoNeedlessCut`, `WiderShowsMore` |
| `completion` | MCCompletion | what TAB offers, whatever was typed and erased before (`OffersWhatHasBegun`) |

The inductive invariants of the proofs (`LoopInvariant`, `ParserInvariant`,
`RunInvariant` with `HistoryOnQuit`, `FreshInvariant`, `ScanInvariant` and those
stated in the proof modules) are proved; no run checks them again;
neither is `RowsAnnounced`, nor the type invariant of a module whose
`TypeCorrect` is a theorem, except in `repl`, `history`, `cmdline` and
`completion`.

### Bounds

* `MaxLines` = 4 lines of a session, twelve different ones.  A command that
  goes wrong takes at most a first part, a last part, and one command after it;
  four lines allow a continued command of each kind, its failure, and the next.
  The lines include ones that become a width command, the number of one, or the
  text "quit" only when joined ("q\" and "uit"), which is then a command for the
  server.  `repl_eof` uses 2: a line and the end of input.
* `DEPTH` = 3 (100 in the code) and `MaxCommands` = 7: an empty, a partly full,
  a full deque and one that has turned over twice; files from none to
  `DEPTH + 1` lines, so that the constructor's limit is met.
* `MaxArguments` = 4 of fifteen kinds: an option that waits for a value at the
  end, two in a row, a value that looks like an option, flags before and after.
* `MaxExtra` = 2 more arguments at any place between the three needed ones: an
  option with its value, or two options that exclude each other.
* Texts for `parse` of a text: every one of up to `MaxLength` = 5 letters, of
  a letter, a blank, a quote and a backslash, so that an escaped quote may stand
  in a quoted argument and a quoted blank between two others; and up to two
  arguments of up to two such letters as a caller quotes them.  `MaxErrors` = 2:
  a call that fails after one that failed and before one that succeeds.
* The whole program: six command lines (an interactive run, one that lacks an
  option, help, script, file, both), eight different lines and `MaxLines` = 3: a
  command, a failure or a continuation, and `quit`.  The loop alone has the
  larger bounds.
* Completion: `MaxLength` = 4 letters, of two letters and the dot, and every
  subset of seven names that begin alike, repeat their beginning, are too short
  or begin with what no key word does.
* Three sessions (two that overlap and one that begins after them with what they
  left), one line in the file at first and `MaxLines` = 5: a line `quit` of each
  and one more; a command history of three lines with `DEPTH` = 2.  The sessions
  are symmetric.
* Tables: one without columns, one or two columns with texts of 1 to 30
  letters, and 3 to 16 equal columns with more rows than `MaxRows` = 2 (1000 in
  the code, which is only compared with the number of rows), of which the row
  that is left out may be the longest.  The widths lie at the borders: 15 and 16
  give 10 or less for two columns, 300 is what the warning recommends, 0 and
  -5 mean the width of the terminal.

### Fairness

The code runs on one thread, so weak fairness of its next step is what the
operating system gives.  The user owes nothing: no fairness on typing, on `quit`,
on the end of input.

* `Cmdline` and `ClientMain`: the process runs.  In `ClientMain` a call to the
  server ends, with a result or an exception (a server that never answers blocks
  the client, which sets no timeout of its own); the loop may last as long as the
  user likes.
* `Repl` (for `EofEnds`): the body of the loop and what follows it, and
  linenoise, which returns at once when the input has ended.  Nothing is assumed
  of the shell and the server.
* `Program` (for `QuitEnds`): the body of the loop for a line that was returned,
  and `Close`.  The line `quit` waits for no server.

The other modules state no liveness.

`CHECK_DEADLOCK FALSE` is set in every run but `completion`: the programs end, a
division by zero may end them in `TableFormat`, `Abort` in `ParseLine`, where the
bound on failing calls is reached as well.

## 5. Findings

1. `repl_split_width`: a width command (`\w ...`) that is completed by a
   continuation line leaves the loop body at `ClientMain.cpp:145` or `155`
   without the reset of lines 175-176.  `isMultiLine` stays set and the next
   line is appended to the old text, against `README.md:188`.
2. `repl_eof`: at the end of standard input the loop runs for ever
   (`ClientMain.cpp:113`), although line 109 says "process EOF".
3. `main_file`: `--file` with a file that does not open runs an empty script
   and exits with 0 (`FileReader.cpp:16`), which `test/test.sh:18` takes for
   success.

Observations without a run.  The usage text puts `--port=int` among the options
that are needed (`README.md:106`), but it has a default and may be left out
(`ClientMain.cpp:32`).  `Client.cpp:57` refuses every table whose share per
column is below 5, also those whose texts are so short that their lines would
fit.  Its message advises `\G`, which no code of the client handles, and to
resize the terminal, which changes nothing as long as `g_display_width` is
positive: it is 80 at the start (`ClientMain.cpp:17`), and only `\w 0` or less
lets `getTermWidth` look at the terminal.  A history file that exists but does
not open gives an empty history without a message (`CommandHistory.cpp:12`,
`ClientMain.cpp:28`); if it opens again at the end, what is saved replaces what
it had.  `cmdline.h:524` and the early returns before it share one list of
errors, of which `error()` shows the first: it may be one of an earlier call.

## 6. What is proved

The proofs are in the modules `...Proofs`.  They hold for every value of the
constants that satisfies the named assumptions of the modules: `LinesAssumption`
in `Repl`; `DepthAssumption` and `ValuesAssumption` in `CommandHistory`;
`SessionsAssumption` in `Sessions`; `TextsAssumption`, `GivenAssumption` (texts
and arguments are sequences of letters) and `StringsAssumption` in `ParseLine`;
`TablesAssumption` (the columns of a table have equally many cells) and
`WidthsAssumption` in `TableFormat`; `LettersAssumption` (finitely many names,
the dot can be typed) and `OrderAssumption` (the names have a strict total
order) in `Completion`; `OptionsAssumption` (a finite set of options, the needed
ones take a value, "help" does not) and `LinesAssumption` in `Cmdline`;
`LinesAssumption` and `StringsAssumption` in `ClientMain`, which `Program` takes
over with `TypedLinesAssumption` for its loop.  `StringsAssumption` says only
that literals (of the option table, a script's contents; the quote, the
backslash and the blank) are strings, which TLC evaluates and the provers cannot
see.

* `ReplProofs!TypeCorrect`: `Spec => []TypeOK`.
* `ReplProofs!CommandsKeptApart`: `Spec => []AsTypedUnlessWidthSplit`, for any
  set of lines, any `std::stoi`, sessions of any length.  The property is not
  inductive: it says nothing of the buffer.  `LoopInvariant` adds what the
  buffer is at each `pc`: between two lines it is the unfinished text
  (`BufferIsPending`); when a line was returned, that line continues it
  (`LineContinues`) or completes it (`LineCompletes`, which also says that the
  result is no width command typed over several lines); while a command runs
  nothing is pending (`CommandRuns`), and both ends of it reset the buffer.
* `ReplProofs!HistoryKept`: `Spec => []HistoryIsTyped`, by `HistoryInvariant`:
  a line that was returned is the one line that is due.
* `ReplProofs!NoCommandEmpty`: `Spec => []NoEmptyCommand`; the completing line
  is never empty.
* `ReplProofs!WidthKept`: `Spec => []WidthAsAsked`.  Between two lines the
  commands handled are those asked for (`LoopInvariant`), so what is to be shown
  is that the width is the last one set among the handled ones, which each
  completed command keeps.
* `CommandHistoryProofs!DequeCorrect`: the deque is the start of the log, by an
  invariant that joins the type, `HistoryIsRecent`, `FullHistoryAnswers` and
  `FileInvariant` (an unfinished store has written a start of the deque).
* `CommandHistoryProofs!TypeCorrect`, `!LookupsAnswer`: from the same invariant,
  `[]TypeOK` and `[]FullHistoryAnswers`.
* `CommandHistoryProofs!RestartLoadsWhole`: `Spec => WholeOrNothing`, an action
  property, from the same invariant.
* `CommandHistoryProofs!OrderKept`: `Spec => []NewestFirst`, with the addition
  that no number in the deque or the file exceeds `count`.
* `CommandHistoryProofs!Refinement`: `Spec => ImplementsRecentLog`; each action
  is mapped to an action of `RecentLog` or to a stutter.
* `SessionsProofs!NothingForeign`: `Spec => []OnlyStarts`; `!NothingLost`: `Spec
  => SaveAddsLines`, for any number of sessions.  `SaveAddsLines` says something
  of the moment of a save only; `FreshInvariant` carries it from the load to
  there: while a session is not `behind`, no other one is saving, and its lines
  begin with those of the file, or, once it has emptied the file, with those of
  `before`.  `!TypeCorrect`: the files and what the sessions hold keep their
  types.
* `CmdlineProofs!TypeCorrect`, `!Complete`: `Spec => []TypeOK`,
  `Spec => []AcceptedIsComplete`.  What is accepted was validated, but that says
  nothing of the number of arguments and of the values; `ParserInvariant` adds
  that after `i - 2` arguments at most `i - 2` options have a value
  (an option that takes the next argument moves `i` by two), and that every
  value that is set has passed its reader.
* `CmdlineProofs!SetAsGiven`: `Spec => []ParsedAsGiven`.  The parser has a
  position and what is set so far; the property reads the command line from the
  outside, where whether an argument is a value is a function on all of them,
  each of which depends on the one before it (`IsValue`).  That such a function
  exists is shown by `Induction` over the arguments.  `GivenInvariant` says that
  the parser never stands at a value, and that after the arguments before `i` the
  flags are those given there and, as long as there is no error, the values too
  (`AsGiven`); every action passes one argument or an option with its value.
  `!HelpFirst`, `[]HelpWins`, follows from the flags in it, which hold with errors
  as well.
* `CmdlineProofs!EachValueIsRead`: `Spec => []ValuesAreRead`, unless two options
  share a letter, in which case nothing is read at all: `RefusedInvariant` says
  that the errors name the options of which a value before `i` was refused.
* `ClientMainProofs!UsageIsTheParsers`: `Spec => []AcceptedRuns`, from the
  theorems about the parser carried over (no step after `ParseCheck` touches the
  parser's variables); the three needed options take three arguments, and `help`
  was answered by the parser.
* `ClientMainProofs!PortIsInRange`: `Spec => []PortRefused`, from
  `EachValueIsRead` for the option `port`: no two options of the program share a
  letter, and what is accepted has no error.
* `ClientMainProofs!ScriptIsGiven`: `Spec => []SentIsGiven`.  `FromTheOption` says
  that a script given by an option is the value the parser took for it; that this
  is the last argument given for it is `SetAsGiven`, carried over.
* `ClientMainProofs!RunIsSafe`: `StatusTells`, `SentOnce` and `HistoryOnQuit`, by
  `RunInvariant` (where the run stands says what was sent and which of the three
  modes it is in) relative to `AcceptedRuns`: without it the early return of
  line 45 would give the status 0 to an accepted command line.
  `!ScriptSentOnce` and `!TypeCorrect` state parts of it alone.
* `ProgramProofs!LoopIsConnected` and `!StatusOfSession`:
  `[]HandledWhileConnected` and `[]QuitTells`.  The proof module of a part is
  instantiated for the program (`LoopFacts`, `MainFacts`), its specification
  shown to be the one the program runs, and its theorems carried over.
  `ProgramInvariant` says at which places the two parts can stand together, that
  what they share (`saved` and the saved lines) agrees, and that a loop that is
  closing has read `quit`; the rest is `CommandsKeptApart`, `HistoryKept` and
  `RunIsSafe` of the parts.
* `ClientProofs`, layout: every property of the run `table`, and
  `RowsAnnounced`, for tables with any number of columns and rows and terminals
  of any width.  `LayoutInvariant` says that what is on the screen was laid out
  by `Layout` for that width.  `LinesNeverTooLong` bounds a sum over columns:
  the fold `Total` is shown to be the last of the partial sums of its sequence,
  and a bound on each column a bound on each partial sum.  Induction over the
  number of columns is `Induction`, stated for a set of numbers and derived from
  the least number principle, since a theorem with an operator parameter cannot
  be instantiated.  `NotWidened` bounds each column by what it shows in the same
  way.  `WiderIsBetter` compares two layouts of one table.
* `ClientProofs!OffersAreBegun`: `CompletionSpec => []OffersWhatHasBegun`, and
  `!OffersAreNames`, the types, for any names in any order.  That the names of
  the server can be listed in their order is not assumed: it is shown by
  induction on how many there are, and the listing is then what `getKeyWords`
  chooses.  The loop of `completionHook` is followed by induction as well: after k
  key words the offers are those that fit among them, in order.
  `TabInvariant` adds to the property that the key words are in order.
* `ParseLineProofs!ScanFollowsText`: `Spec => []ScanInvariant`.  The scanner has
  one flag and skips two letters at a backslash; the definition from the outside
  counts backslashes and quotes before a letter.  The invariant says that the
  letter read next is never an escaped one and that the flag is the parity of the
  quotes; its step rests on lemmas about runs of backslashes
  (`EscapedNext`, `QuotedNext`).  `!ErrorsFound` is `SplitIfClosed`,
  `!ErrorsShown` is `ErrorsTell`.
* `ParseLineProofs!CutAsWritten`: `Spec => []SplitAsWritten`, by `ReadRight` on
  top of it: while a text is scanned `args` are the pieces that end before the
  position and `buf` is what there is so far of the next one (`ArgsRead`,
  `BufRead`).  A step adds a letter, ends a piece or passes over a letter that
  is not kept (`ReadTakes`, `ReadSeparates`, `ReadPassesOver`).
* `ParseLineProofs!QuotedBack`: `Spec => []QuotedComesBack`, for any number of
  arguments of any letters.  `Layout` says where in the text each argument and
  each of its letters stands; that what a careful caller writes has such a
  layout is `HasLayout`, from what `FlattenSeq` returns (`Flattened`, by
  `Induction`).  `QuotedRead` is the invariant: a scan stands before an
  argument, at one of its letters or behind it (`Reached`), with everything
  before that in `args` and `buf`.

Only model-checked: the liveness properties (`Answered`, `NonInteractiveEnds`,
`QuitEnds`), which are out of the prover's reach, and `MCStoi`, the reading of
numbers, which is recursive and stands in `MCRepl` only.

## 7. What is not modelled

* linenoise-ng: editing, its own removal of repeated lines, its limit on the
  length of the history, and what it does with the offers of the completion.  A
  line, an empty line or null is what the program sees.
* The DolphinDB API and the network: a call returns or throws.  A lost
  connection makes every command throw; the client never connects again.
* Key words of a later moment: they are asked for once, before the loop, and
  nothing promises more.
* Of the parser: the text of the usage, the wording and the order of the errors,
  and the `oneof` reader, which no option uses.
* The elapsed time, wording, the banner, memory (`ClientMain.cpp:113` never
  frees an empty line), letters of several bytes.
* OpenSSL headers: 38,868 of the 40,278 lines below `src/` are third-party
  declarations for the API library, and no code of the program.  The program
  itself has about 1,400 lines, and every part of it that changes state is
  in a module.
