--------------------------- MODULE ProgramProofs ---------------------------
(***************************************************************************)
(* Theorems about Program, for every set of command lines, every set of    *)
(* lines and sessions of any length.  What is proved of the loop alone and *)
(* of main() alone is carried over to the program that is made of both.    *)
(***************************************************************************)
EXTENDS Program, SequenceTheorems, TLAPS

LoopFacts == INSTANCE ReplProofs WITH pc <- loopPc

MainFacts == INSTANCE ClientMainProofs WITH Lines <- CommandLines, pc <- mainPc

-----------------------------------------------------------------------------
(* The steps of the program seen from the loop, and from main().           *)

LEMMA LoopStep == [Next]_vars => [Loop!Next]_(Loop!vars)
<1>1. ASSUME UNCHANGED loopVars PROVE UNCHANGED Loop!vars
  BY <1>1 DEF loopVars, Loop!vars, Loop!loopVars, Loop!fileVars
<1>2. CASE RunMain
  BY <1>1, <1>2 DEF RunMain
<1>3. CASE ReadLine
  BY <1>3 DEF ReadLine, Loop!Next
<1>4. CASE HandleLine
  BY <1>4 DEF HandleLine, Loop!Next, Loop!HandleLine
<1>5. CASE FinishCommand
  BY <1>5 DEF FinishCommand, Loop!Next
<1>6. CASE Quit
  BY <1>6 DEF Quit, Loop!Next, Loop!HandleLine
<1>7. CASE Close
  BY <1>7 DEF Close, Loop!Next
<1>8. CASE InputEnds
  BY <1>8 DEF InputEnds, Loop!Next
<1>9. CASE Kill
  BY <1>1, <1>9 DEF Kill, Loop!Next
<1>10. CASE UNCHANGED vars
  BY <1>1, <1>10 DEF vars
<1>. QED
  BY <1>2, <1>3, <1>4, <1>5, <1>6, <1>7, <1>8, <1>9, <1>10 DEF Next

LEMMA MainStep == [Next]_vars => [Main!Next]_(Main!vars)
<1>1. ASSUME UNCHANGED mainVars PROVE UNCHANGED Main!vars
  BY <1>1 DEF mainVars, Main!vars, Main!parserVars
<1>2. CASE RunMain
  BY <1>2 DEF RunMain, Main!Next
<1>3. CASE ReadLine \/ HandleLine \/ FinishCommand
  BY <1>1, <1>3 DEF ReadLine, HandleLine, FinishCommand, InLoop
<1>4. CASE Quit
  BY <1>4 DEF Quit, Main!Next
<1>5. CASE Close
  BY <1>5 DEF Close, Main!Next
<1>6. CASE InputEnds
  BY <1>1, <1>6 DEF InputEnds
<1>7. CASE Kill
  BY <1>7 DEF Kill, Main!Next
<1>8. CASE UNCHANGED vars
  BY <1>1, <1>8 DEF vars
<1>. QED
  BY <1>2, <1>3, <1>4, <1>5, <1>6, <1>7, <1>8 DEF Next

-----------------------------------------------------------------------------
(* The instances that are proved about have the same steps.                *)

LEMMA SameLoop == Loop!Init = LoopFacts!Init /\ Loop!Next = LoopFacts!Next
<1>1. Loop!Init = LoopFacts!Init
  BY DEF Loop!Init, LoopFacts!Init, Loop!NothingAsked, LoopFacts!NothingAsked
<1> USE DEF Loop!Remember, LoopFacts!Remember, Loop!Complete, LoopFacts!Complete,
            Loop!ResetCommand, LoopFacts!ResetCommand,
            Loop!loopVars, LoopFacts!loopVars, Loop!fileVars, LoopFacts!fileVars,
            Loop!IsQuit, LoopFacts!IsQuit, Loop!QuitLine, LoopFacts!QuitLine,
            Loop!Backslash, LoopFacts!Backslash,
            Loop!endsWith, LoopFacts!endsWith, Loop!Continued, LoopFacts!Continued,
            Loop!validStr, LoopFacts!validStr, Loop!IsShell, LoopFacts!IsShell,
            Loop!IsShowWidth, LoopFacts!IsShowWidth, Loop!IsSetWidth, LoopFacts!IsSetWidth,
            Loop!IsWidth, LoopFacts!IsWidth, Loop!WidthText, LoopFacts!WidthText
<1>2. \A l : Loop!EnterLine(l) = LoopFacts!EnterLine(l)
  BY DEF Loop!EnterLine, LoopFacts!EnterLine, Loop!Ask, LoopFacts!Ask
<1>3. Loop!EnterNothing = LoopFacts!EnterNothing /\ Loop!InputEnds = LoopFacts!InputEnds
  BY DEF Loop!EnterNothing, LoopFacts!EnterNothing, Loop!InputEnds, LoopFacts!InputEnds
<1>4. Loop!SkipLine = LoopFacts!SkipLine /\ Loop!Quit = LoopFacts!Quit
  BY DEF Loop!SkipLine, LoopFacts!SkipLine, Loop!Quit, LoopFacts!Quit
<1>5. Loop!Continue = LoopFacts!Continue /\ Loop!ShowWidth = LoopFacts!ShowWidth
  BY DEF Loop!Continue, LoopFacts!Continue, Loop!ShowWidth, LoopFacts!ShowWidth
<1>6. Loop!SetWidth = LoopFacts!SetWidth
  BY DEF Loop!SetWidth, LoopFacts!SetWidth
<1>7. Loop!RunShell = LoopFacts!RunShell /\ Loop!RunServer = LoopFacts!RunServer
  BY DEF Loop!RunShell, LoopFacts!RunShell, Loop!RunServer, LoopFacts!RunServer
<1>8. Loop!RunReturns = LoopFacts!RunReturns /\ Loop!RunThrows = LoopFacts!RunThrows
  BY DEF Loop!RunReturns, LoopFacts!RunReturns, Loop!RunThrows, LoopFacts!RunThrows
<1>9. Loop!Close = LoopFacts!Close /\ Loop!Kill = LoopFacts!Kill
  BY DEF Loop!Close, LoopFacts!Close, Loop!Kill, LoopFacts!Kill
<1>. QED
  BY <1>1, <1>2, <1>3, <1>4, <1>5, <1>6, <1>7, <1>8, <1>9
  DEF Loop!Next, LoopFacts!Next, Loop!HandleLine, LoopFacts!HandleLine

LEMMA SameOptions ==
  /\ Main!ClientOptions = MainFacts!ClientOptions
  /\ Main!ClientHasValue = MainFacts!ClientHasValue
  /\ Main!ClientNeed = MainFacts!ClientNeed
  /\ Main!ClientShortName = MainFacts!ClientShortName
  /\ Main!ClientDefault = MainFacts!ClientDefault
  /\ \A o, v : Main!PortReads(o, v) = MainFacts!PortReads(o, v)
<1>1. Main!ClientOptions = MainFacts!ClientOptions
  BY DEF Main!ClientOptions, MainFacts!ClientOptions
<1>2. /\ Main!ClientHasValue = MainFacts!ClientHasValue
      /\ Main!ClientNeed = MainFacts!ClientNeed
  BY <1>1, Zenon DEF Main!ClientHasValue, MainFacts!ClientHasValue,
     Main!ClientNeed, MainFacts!ClientNeed
<1>3. /\ Main!ClientShortName = MainFacts!ClientShortName
      /\ Main!ClientDefault = MainFacts!ClientDefault
  BY <1>1, Zenon DEF Main!ClientShortName, MainFacts!ClientShortName,
     Main!ClientDefault, MainFacts!ClientDefault
<1>4. \A o, v : Main!PortReads(o, v) = MainFacts!PortReads(o, v)
  BY DEF Main!PortReads, MainFacts!PortReads
<1>. QED
  BY <1>1, <1>2, <1>3, <1>4

LEMMA SameParser == Main!Parser!Next = MainFacts!Parser!Next
<1> USE DEF Main!Parser!argc, MainFacts!Parser!argc,
            Main!Parser!Becomes, MainFacts!Parser!Becomes,
            Main!Parser!Fail, MainFacts!Parser!Fail,
            Main!Parser!OptionState, MainFacts!Parser!OptionState,
            Main!Parser!optionVars, MainFacts!Parser!optionVars
<1>1. Main!Parser!RefuseToParse = MainFacts!Parser!RefuseToParse
  BY SameOptions DEF Main!Parser!RefuseToParse, MainFacts!Parser!RefuseToParse,
         Main!Parser!Ambiguous, MainFacts!Parser!Ambiguous
<1>2. Main!Parser!StartParsing = MainFacts!Parser!StartParsing
  BY SameOptions DEF Main!Parser!StartParsing, MainFacts!Parser!StartParsing,
         Main!Parser!Ambiguous, MainFacts!Parser!Ambiguous
<1>3. Main!Parser!ReadAssign = MainFacts!Parser!ReadAssign
  BY SameOptions DEF Main!Parser!ReadAssign, MainFacts!Parser!ReadAssign,
         Main!Parser!Reading, MainFacts!Parser!Reading, Main!Parser!set_option_value,
         MainFacts!Parser!set_option_value
<1>4. Main!Parser!ReadLong = MainFacts!Parser!ReadLong
  BY SameOptions DEF Main!Parser!ReadLong, MainFacts!Parser!ReadLong,
         Main!Parser!Reading, MainFacts!Parser!Reading, Main!Parser!set_option,
         MainFacts!Parser!set_option, Main!Parser!set_option_value,
         MainFacts!Parser!set_option_value
<1>5. Main!Parser!ReadDash = MainFacts!Parser!ReadDash
  BY SameOptions DEF Main!Parser!ReadDash, MainFacts!Parser!ReadDash,
         Main!Parser!Reading, MainFacts!Parser!Reading
<1>6. Main!Parser!ReadShort = MainFacts!Parser!ReadShort
  <2>1. /\ Main!Parser!Letters = MainFacts!Parser!Letters
        /\ \A c : Main!Parser!lookup(c) = MainFacts!Parser!lookup(c)
    BY SameOptions DEF Main!Parser!Letters, MainFacts!Parser!Letters,
       Main!Parser!lookup, MainFacts!Parser!lookup
  <2>2. \A st, name : Main!Parser!set_option(st, name) = MainFacts!Parser!set_option(st, name)
    BY SameOptions DEF Main!Parser!set_option, MainFacts!Parser!set_option
  <2>3. \A st, name, v : Main!Parser!set_option_value(st, name, v)
                           = MainFacts!Parser!set_option_value(st, name, v)
    <3> SUFFICES ASSUME NEW st, NEW name, NEW v
                 PROVE  Main!Parser!set_option_value(st, name, v)
                          = MainFacts!Parser!set_option_value(st, name, v)
      OBVIOUS
    <3>1. Main!PortReads(name, v) <=> MainFacts!PortReads(name, v)
      BY DEF Main!PortReads, MainFacts!PortReads
    <3>. QED
      BY <3>1, SameOptions
      DEF Main!Parser!set_option_value, MainFacts!Parser!set_option_value
  <2>4. \A st, c : Main!Parser!SetLetter(st, c) = MainFacts!Parser!SetLetter(st, c)
    BY <2>1, <2>2 DEF Main!Parser!SetLetter, MainFacts!Parser!SetLetter
  <2>5. \A st, cs : Main!Parser!SetLetters(st, cs) = MainFacts!Parser!SetLetters(st, cs)
    BY <2>4, Zenon DEF Main!Parser!SetLetters, MainFacts!Parser!SetLetters,
       Main!Parser!Range, MainFacts!Parser!Range
  <2>. QED
    BY <2>1, <2>3, <2>4, <2>5, SameOptions, Zenon
    DEF Main!Parser!ReadShort, MainFacts!Parser!ReadShort,
        Main!Parser!Reading, MainFacts!Parser!Reading,
        Main!Parser!Last, MainFacts!Parser!Last, Main!Parser!Front, MainFacts!Parser!Front
<1>7. Main!Parser!ReadWord = MainFacts!Parser!ReadWord
  BY SameOptions DEF Main!Parser!ReadWord, MainFacts!Parser!ReadWord,
         Main!Parser!Reading, MainFacts!Parser!Reading
<1>8. Main!Parser!Validate = MainFacts!Parser!Validate
  BY SameOptions DEF Main!Parser!Validate, MainFacts!Parser!Validate
<1>9. Main!Parser!PrintUsage = MainFacts!Parser!PrintUsage
  BY SameOptions DEF Main!Parser!PrintUsage, MainFacts!Parser!PrintUsage,
         Main!Parser!Check, MainFacts!Parser!Check
<1>10. Main!Parser!PrintError = MainFacts!Parser!PrintError
  BY SameOptions DEF Main!Parser!PrintError, MainFacts!Parser!PrintError,
         Main!Parser!Check, MainFacts!Parser!Check
<1>11. Main!Parser!Accept = MainFacts!Parser!Accept
  BY SameOptions DEF Main!Parser!Accept, MainFacts!Parser!Accept, Main!Parser!Check,
         MainFacts!Parser!Check
<1>. QED
  BY <1>1, <1>2, <1>3, <1>4, <1>5, <1>6, <1>7, <1>8, <1>9, <1>10, <1>11
  DEF Main!Parser!Next, MainFacts!Parser!Next

LEMMA SameMain == Main!Init = MainFacts!Init /\ Main!Next = MainFacts!Next
<1> USE DEF Main!Goto, MainFacts!Goto, Main!Exit, MainFacts!Exit,
            Main!exist, MainFacts!exist, Main!parserVars, MainFacts!parserVars
<1>1. Main!Init = MainFacts!Init
  BY SameOptions DEF Main!Init, MainFacts!Init, Main!Parser!Init, MainFacts!Parser!Init
<1>2. Main!ParseCheck = MainFacts!ParseCheck
  BY SameParser DEF Main!ParseCheck, MainFacts!ParseCheck
<1>3. Main!Start = MainFacts!Start
  BY DEF Main!Start, MainFacts!Start, Main!ReadOptions, MainFacts!ReadOptions,
         Main!Connect, MainFacts!Connect, Main!ConnectFails, MainFacts!ConnectFails,
         Main!RefuseFileAndScript, MainFacts!RefuseFileAndScript,
         Main!Interact, MainFacts!Interact
<1>4. Main!RunNonInteractive = MainFacts!RunNonInteractive
  BY DEF Main!RunNonInteractive, MainFacts!RunNonInteractive,
         Main!ReadFile, MainFacts!ReadFile, Main!FileTexts, MainFacts!FileTexts,
         Main!ReadScript, MainFacts!ReadScript, Main!RunScript, MainFacts!RunScript,
         Main!RunScriptThrows, MainFacts!RunScriptThrows
<1>5. Main!StartLoop = MainFacts!StartLoop
  BY DEF Main!StartLoop, MainFacts!StartLoop, Main!AskVersion, MainFacts!AskVersion,
         Main!AskKeyWords, MainFacts!AskKeyWords,
         Main!StartupThrows, MainFacts!StartupThrows
<1>6. Main!Quit = MainFacts!Quit /\ Main!Close = MainFacts!Close /\ Main!Kill = MainFacts!Kill
  BY DEF Main!Quit, MainFacts!Quit, Main!Close, MainFacts!Close, Main!Kill, MainFacts!Kill
<1>. QED
  BY <1>1, <1>2, <1>3, <1>4, <1>5, <1>6 DEF Main!Next, MainFacts!Next

-----------------------------------------------------------------------------
(* What is proved of the parts.                                            *)

LEMMA LoopRuns == Spec => LoopFacts!Spec
<1>1. Init => LoopFacts!Init
  BY SameLoop DEF Init
<1>2. [Next]_vars => [LoopFacts!Next]_(LoopFacts!vars)
  <2>1. UNCHANGED Loop!vars => UNCHANGED LoopFacts!vars
    BY DEF Loop!vars, LoopFacts!vars, Loop!loopVars, LoopFacts!loopVars,
           Loop!fileVars, LoopFacts!fileVars
  <2>. QED
    BY <2>1, LoopStep, SameLoop
<1>. QED
  BY <1>1, <1>2, PTL DEF Spec, LoopFacts!Spec

LEMMA MainRuns == Spec => MainFacts!Spec
<1>1. Init => MainFacts!Init
  BY SameMain DEF Init
<1>2. [Next]_vars => [MainFacts!Next]_(MainFacts!vars)
  <2>1. UNCHANGED Main!vars => UNCHANGED MainFacts!vars
    BY DEF Main!vars, MainFacts!vars, Main!parserVars, MainFacts!parserVars
  <2>. QED
    BY <2>1, MainStep, SameMain
<1>. QED
  BY <1>1, <1>2, PTL DEF Spec, MainFacts!Spec

LEMMA AssumptionsFit ==
  /\ MainFacts!LinesAssumption /\ MainFacts!StringsAssumption
  /\ LoopFacts!LinesAssumption
<1>1. MainFacts!LinesAssumption
  BY CommandLinesAssumption
  DEF MainFacts!LinesAssumption, MainFacts!Parser!Argument, Main!Parser!Argument
<1>2. MainFacts!StringsAssumption
  BY StringsAssumption, SameOptions
  DEF Main!StringsAssumption, MainFacts!StringsAssumption
<1>3. LoopFacts!LinesAssumption
  BY TypedLinesAssumption DEF LoopFacts!LinesAssumption, LoopFacts!Text, Loop!Text
<1>. QED
  BY <1>1, <1>2, <1>3

LEMMA PartsAreSafe ==
  Spec => [](/\ LoopFacts!TypeOK
             /\ LoopFacts!AsTypedUnlessWidthSplit
             /\ LoopFacts!HistoryIsTyped
             /\ MainFacts!TypeOK
             /\ MainFacts!AcceptedRuns)
<1>1. LoopFacts!Spec => []LoopFacts!TypeOK
  BY AssumptionsFit, LoopFacts!TypeCorrect
<1>2. LoopFacts!Spec => []LoopFacts!AsTypedUnlessWidthSplit
  BY AssumptionsFit, LoopFacts!CommandsKeptApart
<1>3. LoopFacts!Spec => []LoopFacts!HistoryIsTyped
  BY AssumptionsFit, LoopFacts!HistoryKept
<1>4. MainFacts!Spec => []MainFacts!AcceptedRuns
  BY AssumptionsFit, MainFacts!UsageIsTheParsers
<1>5. MainFacts!Spec => []MainFacts!TypeOK
  BY AssumptionsFit, MainFacts!TypeCorrect
<1>. QED
  BY <1>1, <1>2, <1>3, <1>4, <1>5, LoopRuns, MainRuns, PTL

-----------------------------------------------------------------------------
(***************************************************************************)
(* Where main() stands says where the loop can stand, whether the client   *)
(* is connected and what was sent (Stages); the loop handles commands in   *)
(* accepted interactive runs only and saves what main() has seen saved     *)
(* (Shared); and the line that is handled is the last one typed (LastLine).*)
(***************************************************************************)
Stages ==
  /\ mainPc \in {"parse", "connect", "choose", "run", "version", "keywords", "loop",
                 "close", "exited"}
  /\ mainPc # "exited" => status = "running"
  /\ mainPc \in {"parse", "connect", "choose", "run", "version", "keywords"} =>
       loopPc = "prompt" /\ executed = << >>
  /\ mainPc = "loop" => loopPc \in {"prompt", "line", "server", "shell"}
  /\ mainPc = "close" => loopPc = "closing"
  /\ mainPc = "exited" => loopPc \in {"prompt", "done", "killed"}
  /\ mainPc \in {"choose", "run", "version", "keywords", "loop"} => connected
  /\ mainPc \in {"connect", "choose", "run"} => Main!Accepted
  /\ mainPc = "run" => ~ Main!Interactive
  /\ mainPc \in {"version", "keywords", "loop", "close"} => Main!Accepted /\ Main!Interactive
  /\ mainPc = "version" => sent = << >>
  /\ mainPc \in {"parse", "connect", "choose"} => sent = << >>
  /\ mainPc = "keywords" => sent = <<"version()">>
  /\ mainPc = "loop" => sent = <<"version()", "defs()">>

Shared ==
  /\ executed # << >> => Main!Accepted /\ Main!Interactive
  /\ saved <=> savedHistory # NULL
  /\ status = "0" /\ Main!Accepted /\ Main!Interactive => mainPc = "exited" /\ loopPc = "done"

LastLine ==
  /\ loopPc = "line" /\ line \notin {NULL, << >>} => typed # << >> /\ Last(typed) = line
  /\ loopPc \in {"closing", "done"} => typed # << >> /\ Last(typed) = Loop!QuitLine

ProgramInvariant == Stages /\ Shared /\ LastLine

LEMMA ProgramInit == Init => ProgramInvariant
  BY DEF Init, Main!Init, Loop!Init, ProgramInvariant, Stages, Shared, LastLine

\* A step of main() before the loop, or without it.
LEMMA RunMainStep ==
  ASSUME ProgramInvariant, MainFacts!TypeOK, MainFacts!AcceptedRuns, RunMain
  PROVE  ProgramInvariant'
<1> USE DEF ProgramInvariant, Stages, Shared, LastLine, loopVars, Main!parserVars,
            Main!Goto, Main!Exit, Main!exist, Main!Accepted, Main!Interactive
<1>1. UNCHANGED loopVars
  BY DEF RunMain
<1>2. CASE Main!ParseCheck
  BY <1>1, <1>2 DEF Main!ParseCheck
<1>3. CASE Main!ReadOptions
  <2>1. Main!Accepted => ~ (Len(argv) < 4 \/ Main!exist("help"))
    <3>1. Main!Accepted => Len(argv) >= 4 /\ "help" \notin has
      BY DEF MainFacts!AcceptedRuns, MainFacts!Accepted, MainFacts!exist
    <3>2. Len(argv) \in Nat
      BY DEF MainFacts!TypeOK, MainFacts!Parser!TypeOK
    <3>. QED
      BY <3>1, <3>2
  <2>. QED
    BY <1>1, <1>3, <2>1 DEF Main!ReadOptions
<1>4. CASE Main!Connect \/ Main!ConnectFails \/ Main!RefuseFileAndScript \/ Main!Interact
  BY <1>1, <1>4 DEF Main!Connect, Main!ConnectFails, Main!RefuseFileAndScript, Main!Interact
<1>5. CASE Main!ReadFile \/ Main!ReadScript
  BY <1>1, <1>5 DEF Main!ReadFile, Main!ReadScript
<1>6. CASE Main!RunScript \/ Main!RunScriptThrows
  BY <1>1, <1>6 DEF Main!RunScript, Main!RunScriptThrows
<1>7. CASE Main!AskVersion
  <2>1. sent' = <<"version()">>
    <3>1. Append(<< >>, "version()") = <<"version()">>
      BY AssumptionsFit, MainFacts!AppendTwo
    <3>. QED
      BY <1>7, <3>1 DEF Main!AskVersion
  <2>. QED
    BY <1>1, <1>7, <2>1 DEF Main!AskVersion
<1>8. CASE Main!AskKeyWords
  <2>1. sent' = <<"version()", "defs()">>
    <3>1. Append(<<"version()">>, "defs()") = <<"version()", "defs()">>
      BY AssumptionsFit, MainFacts!AppendTwo
    <3>. QED
      BY <1>8, <3>1 DEF Main!AskKeyWords
  <2>. QED
    BY <1>1, <1>8, <2>1 DEF Main!AskKeyWords
<1>9. CASE Main!StartupThrows
  BY <1>1, <1>9 DEF Main!StartupThrows
<1>. QED
  BY <1>2, <1>3, <1>4, <1>5, <1>6, <1>7, <1>8, <1>9
  DEF RunMain, Main!Start, Main!RunNonInteractive, Main!StartLoop

\* While main() is in the loop, the loop only moves between the prompt and the
\* commands.
LEMMA LoopMoves ==
  ASSUME ProgramInvariant, InLoop,
         loopPc' \in {"prompt", "line", "server", "shell"},
         UNCHANGED savedHistory, LastLine'
  PROVE  ProgramInvariant'
  BY DEF InLoop, mainVars, ProgramInvariant, Stages, Shared, Main!Accepted,
         Main!Interactive, Main!exist

LEMMA InLoopStep ==
  ASSUME ProgramInvariant, LoopFacts!TypeOK, ReadLine \/ HandleLine \/ FinishCommand
  PROVE  ProgramInvariant'
<1>1. CASE ReadLine
  <2>1. ASSUME NEW l \in Lines, Loop!EnterLine(l)
        PROVE  ProgramInvariant'
    <3>1. typed \in Seq(Loop!Text)
      BY DEF LoopFacts!TypeOK, LoopFacts!Text, Loop!Text
    <3>2. l \in Loop!Text
      BY TypedLinesAssumption
    <3>3. typed' = Append(typed, l) /\ line' = l /\ loopPc' = "line"
      BY <2>1 DEF Loop!EnterLine
    <3>4. typed' # << >> /\ Last(typed') = l
      BY <3>1, <3>2, <3>3, AppendProperties DEF Last
    <3>5. LastLine'
      BY <3>3, <3>4 DEF LastLine
    <3>. QED
      BY <1>1, <2>1, <3>3, <3>5, LoopMoves DEF ReadLine, Loop!EnterLine, Loop!fileVars
  <2>2. ASSUME Loop!EnterNothing
        PROVE  ProgramInvariant'
    <3>1. LastLine'
      BY <2>2 DEF Loop!EnterNothing, LastLine
    <3>. QED
      BY <1>1, <2>2, <3>1, LoopMoves DEF ReadLine, Loop!EnterNothing, Loop!fileVars
  <2>. QED
    BY <1>1, <2>1, <2>2 DEF ReadLine
<1>2. CASE HandleLine
  <2>1. loopPc' \in {"prompt", "server", "shell"} /\ UNCHANGED savedHistory
    BY <1>2 DEF HandleLine, Loop!SkipLine, Loop!Continue, Loop!ShowWidth, Loop!SetWidth,
       Loop!RunShell, Loop!RunServer, Loop!Complete, Loop!fileVars
  <2>2. LastLine'
    BY <2>1 DEF LastLine
  <2>. QED
    BY <1>2, <2>1, <2>2, LoopMoves DEF HandleLine
<1>3. CASE FinishCommand
  <2>1. loopPc' = "prompt" /\ UNCHANGED savedHistory
    BY <1>3 DEF FinishCommand, Loop!RunReturns, Loop!RunThrows, Loop!fileVars
  <2>2. LastLine'
    BY <2>1 DEF LastLine
  <2>. QED
    BY <1>3, <2>1, <2>2, LoopMoves DEF FinishCommand
<1>. QED
  BY <1>1, <1>2, <1>3

LEMMA ProgramStep ==
  ASSUME ProgramInvariant, LoopFacts!TypeOK, MainFacts!TypeOK, MainFacts!AcceptedRuns,
         [Next]_vars
  PROVE  ProgramInvariant'
<1> USE DEF ProgramInvariant, Stages, Shared, LastLine, Main!parserVars,
            Main!Accepted, Main!Interactive, Main!exist
<1>1. CASE Quit
  BY <1>1 DEF Quit, Main!Quit, Main!Goto, Loop!Quit, Loop!Remember, Loop!IsQuit
<1>2. CASE Close
  BY <1>2 DEF Close, Main!Close, Main!Exit, Loop!Close, Loop!fileVars
<1>3. CASE InputEnds
  BY <1>3 DEF InputEnds, Loop!InputEnds, Loop!fileVars, mainVars
<1>4. CASE Kill
  BY <1>4 DEF Kill, Main!Kill, Main!Exit, Loop!Kill, Loop!fileVars, loopVars
<1>5. CASE UNCHANGED vars
  BY <1>5 DEF vars, mainVars, loopVars
<1>. QED
  BY <1>1, <1>2, <1>3, <1>4, <1>5, RunMainStep, InLoopStep DEF Next

LEMMA ProgramIsSafe ==
  Spec => [](/\ ProgramInvariant
             /\ LoopFacts!AsTypedUnlessWidthSplit
             /\ LoopFacts!HistoryIsTyped)
<1>1. /\ ProgramInvariant /\ LoopFacts!TypeOK
      /\ MainFacts!TypeOK /\ MainFacts!AcceptedRuns /\ [Next]_vars
      => ProgramInvariant'
  BY ProgramStep
<1>. QED
  BY <1>1, ProgramInit, PartsAreSafe, PTL DEF Spec

\* Commands are handled in accepted interactive runs only, between the answer
\* to the last question of the start and the close of the connection.
THEOREM LoopIsConnected == Spec => []HandledWhileConnected
<1>1. ProgramInvariant => HandledWhileConnected
  BY DEF ProgramInvariant, Stages, Shared, HandledWhileConnected
<1>. QED
  BY <1>1, ProgramIsSafe, PTL

\* The exit status 0 of an interactive run, whatever the user typed and the
\* commands did: quit was the last line and all before it is done and kept.
THEOREM StatusOfSession == Spec => []QuitTells
<1>1. ProgramInvariant /\ LoopFacts!AsTypedUnlessWidthSplit /\ LoopFacts!HistoryIsTyped
      => QuitTells
  <2> SUFFICES ASSUME ProgramInvariant, LoopFacts!AsTypedUnlessWidthSplit,
                      LoopFacts!HistoryIsTyped,
                      status = "0" /\ Main!Accepted /\ Main!Interactive
               PROVE  /\ typed # << >> /\ Last(typed) = Loop!QuitLine
                      /\ asked.splitWidth \/ executed = asked.commands
                      /\ saved => savedHistory = typed
                      /\ ~ saved => savedHistory = NULL
    BY DEF QuitTells
  <2>1. loopPc = "done"
    BY DEF ProgramInvariant, Shared
  <2>2. typed # << >> /\ Last(typed) = Loop!QuitLine
    BY <2>1 DEF ProgramInvariant, LastLine
  <2>3. asked.splitWidth \/ executed = asked.commands
    BY <2>1 DEF LoopFacts!AsTypedUnlessWidthSplit, LoopFacts!CommandsAsTyped
  <2>4. (saved => savedHistory = typed) /\ (~ saved => savedHistory = NULL)
    BY DEF ProgramInvariant, Shared, LoopFacts!HistoryIsTyped
  <2>. QED
    BY <2>2, <2>3, <2>4
<1>. QED
  BY <1>1, ProgramIsSafe, PTL

=============================================================================
