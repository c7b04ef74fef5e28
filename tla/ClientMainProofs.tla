-------------------------- MODULE ClientMainProofs --------------------------
(***************************************************************************)
(* Theorems about ClientMain, for every set of command lines, every reader *)
(* of numbers and every file.  What is accepted by the parser is taken     *)
(* from CmdlineProofs, instantiated with the options of the program.       *)
(***************************************************************************)
EXTENDS ClientMain, FiniteSetTheorems, SequenceTheorems, TLAPS

ParserFacts == INSTANCE CmdlineProofs
                 WITH pc <- parserPc, Options <- ClientOptions,
                      HasValue <- ClientHasValue, Need <- ClientNeed,
                      short_name <- ClientShortName, Default <- ClientDefault,
                      Reads <- PortReads

-----------------------------------------------------------------------------
(* The options of the program are options the parser is proved for.        *)

LEMMA FiniteOptions == IsFiniteSet(ClientOptions)
<1>1. ASSUME NEW a, NEW b PROVE IsFiniteSet({a, b})
  <2>1. IsFiniteSet({a} \cup {b})
    BY FS_Singleton, FS_Union
  <2>2. {a, b} = {a} \cup {b}
    OBVIOUS
  <2>. QED
    BY <2>1, <2>2, Zenon
<1>2. IsFiniteSet({"host", "port"} \cup {"username", "password"})
  BY <1>1, FS_Union
<1>3. IsFiniteSet({"file", "script"} \cup {"secure", "help"})
  BY <1>1, FS_Union
<1>4. ClientOptions = ({"host", "port"} \cup {"username", "password"})
                        \cup ({"file", "script"} \cup {"secure", "help"})
  BY DEF ClientOptions
<1>. QED
  BY <1>2, <1>3, <1>4, FS_Union

LEMMA NeedIsThree == Cardinality(ClientNeed) = 3
<1>1. \A S, o : IsFiniteSet(S) /\ o \notin S =>
        IsFiniteSet(S \cup {o}) /\ Cardinality(S \cup {o}) = Cardinality(S) + 1
  BY FS_AddElement
<1>2. IsFiniteSet({"host"}) /\ Cardinality({"host"}) = 1
  BY FS_Singleton
<1>3. IsFiniteSet({"host"} \cup {"username"}) /\ Cardinality({"host"} \cup {"username"}) = 2
  BY <1>1, <1>2
<1>4. Cardinality(({"host"} \cup {"username"}) \cup {"password"}) = 3
  BY <1>1, <1>3
<1>5. ClientNeed = ({"host"} \cup {"username"}) \cup {"password"}
  BY DEF ClientNeed
<1>. QED
  BY <1>4, <1>5

LEMMA SameCardinality ==
  ASSUME NEW S
  PROVE  ParserFacts!Cardinality(S) = Cardinality(S)
  BY DEF Cardinality, ParserFacts!Cardinality, IsFiniteSet, ParserFacts!IsFiniteSet

LEMMA OptionsFit == ParserFacts!OptionsAssumption
<1>1. ClientOptions \subseteq STRING
  BY StringsAssumption
<1>2. "help" \in ClientOptions \ ClientHasValue
  BY DEF ClientOptions, ClientHasValue
<1>3. ClientNeed \subseteq ClientHasValue /\ ClientHasValue \subseteq ClientOptions
  BY DEF ClientOptions, ClientHasValue, ClientNeed
<1>4. ClientShortName \in [ClientOptions -> STRING]
  BY StringsAssumption DEF ClientShortName
<1>5. ClientDefault \in [ClientOptions -> STRING]
  BY StringsAssumption DEF ClientDefault
<1>6. ParserFacts!IsFiniteSet(ClientOptions)
  BY FiniteOptions DEF IsFiniteSet, ParserFacts!IsFiniteSet
<1>. QED
  BY <1>1, <1>2, <1>3, <1>4, <1>5, <1>6 DEF ParserFacts!OptionsAssumption

LEMMA LinesFit == ParserFacts!LinesAssumption
  BY LinesAssumption DEF ParserFacts!LinesAssumption, ParserFacts!Argument, Parser!Argument

-----------------------------------------------------------------------------
\* The two instances of the parser have the same steps.
LEMMA SameParser == Parser!Next <=> ParserFacts!Next
<1>1. Parser!RefuseToParse <=> ParserFacts!RefuseToParse
  BY DEF Parser!RefuseToParse, ParserFacts!RefuseToParse,
         Parser!argc, ParserFacts!argc, Parser!Ambiguous, ParserFacts!Ambiguous,
         Parser!Becomes, ParserFacts!Becomes, Parser!Fail, ParserFacts!Fail,
         Parser!OptionState, ParserFacts!OptionState
<1>2. Parser!StartParsing <=> ParserFacts!StartParsing
  BY DEF Parser!StartParsing, ParserFacts!StartParsing,
         Parser!argc, ParserFacts!argc, Parser!Ambiguous, ParserFacts!Ambiguous,
         Parser!optionVars, ParserFacts!optionVars
<1>3. Parser!ReadAssign <=> ParserFacts!ReadAssign
  BY DEF Parser!ReadAssign, ParserFacts!ReadAssign,
         Parser!Reading, ParserFacts!Reading, Parser!argc, ParserFacts!argc,
         Parser!Becomes, ParserFacts!Becomes,
         Parser!set_option_value, ParserFacts!set_option_value,
         Parser!Fail, ParserFacts!Fail,
         Parser!OptionState, ParserFacts!OptionState
<1>4. Parser!ReadLong <=> ParserFacts!ReadLong
  BY DEF Parser!ReadLong, ParserFacts!ReadLong,
         Parser!Reading, ParserFacts!Reading, Parser!argc, ParserFacts!argc,
         Parser!Becomes, ParserFacts!Becomes,
         Parser!set_option, ParserFacts!set_option,
         Parser!set_option_value, ParserFacts!set_option_value,
         Parser!Fail, ParserFacts!Fail,
         Parser!OptionState, ParserFacts!OptionState
<1>5. Parser!ReadDash <=> ParserFacts!ReadDash
  BY DEF Parser!ReadDash, ParserFacts!ReadDash,
         Parser!Reading, ParserFacts!Reading, Parser!argc, ParserFacts!argc,
         Parser!optionVars, ParserFacts!optionVars
<1>6. Parser!ReadShort <=> ParserFacts!ReadShort
  BY DEF Parser!ReadShort, ParserFacts!ReadShort,
         Parser!Reading, ParserFacts!Reading, Parser!argc, ParserFacts!argc,
         Parser!Becomes, ParserFacts!Becomes,
         Parser!set_option, ParserFacts!set_option,
         Parser!set_option_value, ParserFacts!set_option_value,
         Parser!SetLetter, ParserFacts!SetLetter,
         Parser!SetLetters, ParserFacts!SetLetters,
         Parser!Letters, ParserFacts!Letters, Parser!lookup, ParserFacts!lookup,
         Parser!Fail, ParserFacts!Fail,
         Parser!OptionState, ParserFacts!OptionState,
         Parser!Last, ParserFacts!Last, Parser!Front, ParserFacts!Front,
         Parser!Range, ParserFacts!Range
<1>7. Parser!ReadWord <=> ParserFacts!ReadWord
  BY DEF Parser!ReadWord, ParserFacts!ReadWord,
         Parser!Reading, ParserFacts!Reading, Parser!argc, ParserFacts!argc,
         Parser!optionVars, ParserFacts!optionVars
<1>8. Parser!Validate <=> ParserFacts!Validate
  BY DEF Parser!Validate, ParserFacts!Validate, Parser!argc, ParserFacts!argc
<1>9. Parser!PrintUsage <=> ParserFacts!PrintUsage
  BY DEF Parser!PrintUsage, ParserFacts!PrintUsage, Parser!argc, ParserFacts!argc,
         Parser!Check, ParserFacts!Check,
         Parser!optionVars, ParserFacts!optionVars
<1>10. Parser!PrintError <=> ParserFacts!PrintError
  BY DEF Parser!PrintError, ParserFacts!PrintError, Parser!argc, ParserFacts!argc,
         Parser!Check, ParserFacts!Check,
         Parser!optionVars, ParserFacts!optionVars
<1>11. Parser!Accept <=> ParserFacts!Accept
  BY DEF Parser!Accept, ParserFacts!Accept, Parser!Check, ParserFacts!Check,
         Parser!optionVars, ParserFacts!optionVars
<1>. QED
  BY <1>1, <1>2, <1>3, <1>4, <1>5, <1>6, <1>7, <1>8, <1>9, <1>10, <1>11
  DEF Parser!Next, ParserFacts!Next

\* A run of the program makes the steps of the parser and no others with the
\* parser's variables: main() never goes back into it.
LEMMA RunsTheParser == Spec => ParserFacts!Spec
<1>1. Init => ParserFacts!Init
  BY DEF Init, Parser!Init, ParserFacts!Init
<1>2. [Next]_vars => [ParserFacts!Next]_(ParserFacts!vars)
  <2>1. ASSUME ParseCheck PROVE ParserFacts!Next
    BY <2>1, SameParser DEF ParseCheck
  <2>2. ASSUME Next, ~ ParseCheck PROVE UNCHANGED parserVars
    BY <2>2
    DEF Next, Start, RunNonInteractive, StartLoop, Goto, Exit, ReadOptions, Connect,
        ConnectFails, RefuseFileAndScript, ReadFile, ReadScript, RunScript,
        RunScriptThrows, Interact, AskVersion, AskKeyWords, StartupThrows, Quit, Close,
        Kill
  <2>3. ASSUME UNCHANGED parserVars PROVE UNCHANGED ParserFacts!vars
    BY <2>3 DEF parserVars, ParserFacts!vars, ParserFacts!optionVars
  <2>. QED
    BY <2>1, <2>2, <2>3 DEF vars
<1>. QED
  BY <1>1, <1>2, PTL DEF Spec, ParserFacts!Spec

\* For every command line: what the parser accepts has four arguments and does
\* not ask for help, so the second test of main() never stops a run.
THEOREM UsageIsTheParsers == Spec => []AcceptedRuns
<1>1. ParserFacts!Spec => []ParserFacts!AcceptedIsComplete
  BY OptionsFit, LinesFit, ParserFacts!Complete
<1>2. ParserFacts!Spec => [](parserPc = "ok" => "help" \notin has)
  BY OptionsFit, LinesFit, ParserFacts!HelpIsNotAccepted
<1>3. ParserFacts!Spec => []ParserFacts!TypeOK
  BY OptionsFit, LinesFit, ParserFacts!TypeCorrect
<1>4. ASSUME ParserFacts!TypeOK, ParserFacts!AcceptedIsComplete,
             parserPc = "ok" => "help" \notin has
      PROVE  AcceptedRuns
  <2>1. Len(argv) \in Nat
    BY <1>4, LenProperties DEF ParserFacts!TypeOK
  <2>2. ParserFacts!Cardinality(ClientNeed) = 3
    BY SameCardinality, NeedIsThree
  <2>. QED
    BY <1>4, <2>1, <2>2
    DEF ParserFacts!AcceptedIsComplete, ParserFacts!argc, AcceptedRuns, Accepted, exist
<1>. QED
  BY <1>1, <1>2, <1>3, <1>4, RunsTheParser, PTL

\* A run keeps every variable in its type; the parser's are those of CmdlineProofs.
THEOREM TypeCorrect == Spec => []TypeOK
<1> DEFINE RunTypeOK ==
      /\ pc \in {"parse", "connect", "choose", "run", "version", "keywords", "loop",
                 "close", "exited"}
      /\ status \in {"running", "0", "1", "128", "130", "140", "aborted", "killed"}
      /\ connected \in BOOLEAN
      /\ script \in STRING \cup {NULL}
      /\ pc = "run" => script \in STRING
      /\ sent \in Seq(STRING)
      /\ saved \in BOOLEAN
      /\ stored \in BOOLEAN
<1>1. Init => RunTypeOK
  <2>1. << >> \in Seq(STRING)
    OBVIOUS
  <2>. QED
    BY <2>1 DEF Init, Parser!Init
<1>2. ParserFacts!Spec => []ParserFacts!TypeOK
  BY OptionsFit, LinesFit, ParserFacts!TypeCorrect
<1>3. ASSUME RunTypeOK, ParserFacts!TypeOK, Next PROVE RunTypeOK'
  <2> USE <1>3 DEF Goto, Exit, parserVars
  <2>1. CASE ParseCheck
    BY <2>1 DEF ParseCheck
  <2>2. CASE Start
    BY <2>2 DEF Start, ReadOptions, Connect, ConnectFails, RefuseFileAndScript, Interact
  <2>3. CASE ReadFile
    BY <2>3, StringsAssumption DEF ReadFile, FileTexts
  <2>4. CASE ReadScript
    <3>1. actual["script"] \in STRING
      BY DEF ParserFacts!TypeOK, ClientOptions
    <3>. QED
      BY <2>4, <3>1 DEF ReadScript
  <2>5. CASE RunScript \/ RunScriptThrows
    BY <2>5 DEF RunScript, RunScriptThrows
  <2>6. CASE AskVersion \/ AskKeyWords
    <3>1. "version()" \in STRING /\ "defs()" \in STRING
      BY StringsAssumption
    <3>2. Append(sent, "version()") \in Seq(STRING) /\ Append(sent, "defs()") \in Seq(STRING)
      BY <3>1, AppendProperties
    <3>. QED
      BY <2>6, <3>2 DEF AskVersion, AskKeyWords
  <2>7. CASE StartupThrows \/ Quit \/ Close \/ Kill
    BY <2>7 DEF StartupThrows, Quit, Close, Kill
  <2>. QED
    BY <2>1, <2>2, <2>3, <2>4, <2>5, <2>6, <2>7 DEF Next, RunNonInteractive, StartLoop
<1>4. RunTypeOK /\ UNCHANGED vars => RunTypeOK'
  BY DEF vars
<1>5. ParserFacts!TypeOK => Parser!TypeOK
  BY DEF ParserFacts!TypeOK, Parser!TypeOK, ParserFacts!Errors, Parser!Errors,
         ParserFacts!ErrorKinds, Parser!ErrorKinds, ParserFacts!Argument, Parser!Argument
<1>6. RunTypeOK /\ Parser!TypeOK => TypeOK
  BY DEF TypeOK
<1> HIDE DEF RunTypeOK
<1>. QED
  BY <1>1, <1>2, <1>3, <1>4, <1>5, <1>6, RunsTheParser, PTL DEF Spec

-----------------------------------------------------------------------------
RunSafe == RunInvariant /\ StatusTells /\ SentOnce /\ HistoryOnQuit

LEMMA AppendTwo ==
  ASSUME NEW a, NEW b
  PROVE  Append(<<a>>, b) = <<a, b>> /\ Append(<< >>, b) = <<b>>
<1> DEFINE S == {a, b}
<1>1. <<a>> \in Seq(S) /\ <<a, b>> \in Seq(S) /\ << >> \in Seq(S) /\ <<b>> \in Seq(S)
  OBVIOUS
<1>2. Append(<<a>>, b) = <<a, b>>
  <2>1. Append(<<a>>, b) \in Seq(S) /\ Len(Append(<<a>>, b)) = 2
    BY <1>1, AppendProperties
  <2>2. Append(<<a>>, b)[1] = a /\ Append(<<a>>, b)[2] = b
    BY <1>1, AppendProperties
  <2> DEFINE s == Append(<<a>>, b)
             t == <<a, b>>
  <2>3. /\ s \in Seq(S) /\ t \in Seq(S) /\ Len(s) = Len(t)
        /\ \A k \in 1 .. Len(s) : s[k] = t[k]
    BY <1>1, <2>1, <2>2
  <2> HIDE DEF s, t
  <2>4. s = t
    BY <2>3, SeqEqual
  <2>. QED
    BY <2>4 DEF s, t
<1>3. Append(<< >>, b) = <<b>>
  OBVIOUS
<1>. QED
  BY <1>2, <1>3

LEMMA RunSafeInit == Init => RunSafe
  BY DEF Init, RunSafe, RunInvariant, StatusTells, SentOnce, HistoryOnQuit, Parser!Init,
         Accepted

\* What the properties say is said of the variables of the run and of the
\* options alone.
LEMMA RunSafeStutter == RunSafe /\ UNCHANGED vars => RunSafe'
  BY DEF vars, parserVars, RunSafe, RunInvariant, StatusTells, SentOnce, HistoryOnQuit,
         Accepted, Scripted, Interactive, exist

LEMMA RunSafeStep ==
  ASSUME RunSafe, AcceptedRuns, Next
  PROVE  RunSafe'
<1> USE AppendTwo
<1> USE DEF RunSafe, RunInvariant, StatusTells, SentOnce, HistoryOnQuit,
            Accepted, Scripted, Interactive, exist, Goto, Exit, parserVars
<1>1. CASE ParseCheck
  BY <1>1 DEF ParseCheck
<1>2. CASE ReadOptions
  BY <1>2 DEF ReadOptions, AcceptedRuns
<1>3. CASE Connect
  BY <1>3 DEF Connect
<1>4. CASE ConnectFails
  BY <1>4 DEF ConnectFails
<1>5. CASE RefuseFileAndScript
  BY <1>5 DEF RefuseFileAndScript
<1>6. CASE ReadFile
  BY <1>6 DEF ReadFile
<1>7. CASE ReadScript
  BY <1>7 DEF ReadScript
<1>8. CASE RunScript
  BY <1>8 DEF RunScript
<1>9. CASE RunScriptThrows
  BY <1>9 DEF RunScriptThrows
<1>10. CASE Interact
  BY <1>10 DEF Interact
<1>11. CASE AskVersion
  BY <1>11 DEF AskVersion
<1>12. CASE AskKeyWords
  BY <1>12 DEF AskKeyWords
<1>13. CASE StartupThrows
  BY <1>13 DEF StartupThrows
<1>14. CASE Quit
  BY <1>14 DEF Quit
<1>15. CASE Close
  BY <1>15 DEF Close
<1>16. CASE Kill
  BY <1>16 DEF Kill
<1>. QED
  BY <1>1, <1>2, <1>3, <1>4, <1>5, <1>6, <1>7, <1>8, <1>9, <1>10, <1>11, <1>12,
     <1>13, <1>14, <1>15, <1>16 DEF Next, Start, StartLoop, RunNonInteractive

\* Whatever the command line, the file, the server and a kill do: where the run
\* stands says what was sent and what can have been written, the exit status
\* tells what was done, a script is sent once, and the history files are written
\* only after quit.
THEOREM RunIsSafe == Spec => [](RunInvariant /\ StatusTells /\ SentOnce /\ HistoryOnQuit)
<1>1. RunSafe /\ AcceptedRuns /\ [Next]_vars => RunSafe'
  BY RunSafeStep, RunSafeStutter
<1>2. RunSafe => RunInvariant /\ StatusTells /\ SentOnce /\ HistoryOnQuit
  BY DEF RunSafe
<1>. QED
  BY <1>1, <1>2, RunSafeInit, UsageIsTheParsers, PTL DEF Spec

\* A script is handed to the server once at most, and nothing is for a command
\* line that is refused or a connection that fails.
THEOREM ScriptSentOnce == Spec => []SentOnce
  BY RunIsSafe, PTL

-----------------------------------------------------------------------------
(* What is sent for --script is what was given for it.                     *)

\* The two instances of the parser read a command line from the outside alike.
LEMMA SameReading ==
  /\ \A line, k, o : Parser!Valued(line, k, o) <=> ParserFacts!Valued(line, k, o)
  /\ \A line, k : Parser!ValueAt(line, k) = ParserFacts!ValueAt(line, k)
<1> USE DEF Parser!AwaitsValue, ParserFacts!AwaitsValue, Parser!lookup, ParserFacts!lookup,
            Parser!Letters, ParserFacts!Letters, Parser!Last, ParserFacts!Last
<1>1. ASSUME NEW line PROVE Parser!IsValue(line) = ParserFacts!IsValue(line)
  BY DEF Parser!IsValue, ParserFacts!IsValue
<1>2. ASSUME NEW line, NEW k PROVE Parser!OptionAt(line, k) <=> ParserFacts!OptionAt(line, k)
  BY <1>1 DEF Parser!OptionAt, ParserFacts!OptionAt
<1>3. ASSUME NEW line, NEW k, NEW o
      PROVE  Parser!Valued(line, k, o) <=> ParserFacts!Valued(line, k, o)
  BY <1>2 DEF Parser!Valued, ParserFacts!Valued
<1>4. ASSUME NEW line, NEW k PROVE Parser!ValueAt(line, k) = ParserFacts!ValueAt(line, k)
  BY DEF Parser!ValueAt, ParserFacts!ValueAt
<1>. QED
  BY <1>3, <1>4

\* A script that --script gives is the value that the parser took for it.
FromTheOption ==
  script # NULL /\ exist("script") => Accepted /\ script = actual["script"]

LEMMA FromTheOptionStep ==
  ASSUME RunInvariant, FromTheOption, [Next]_vars
  PROVE  FromTheOption'
<1> USE DEF FromTheOption, RunInvariant, Accepted, exist, Goto, Exit, parserVars
<1>1. CASE ParseCheck
  BY <1>1 DEF ParseCheck
<1>2. CASE ReadFile
  BY <1>2 DEF ReadFile
<1>3. CASE ReadScript
  BY <1>3 DEF ReadScript
<1>4. CASE RunScript \/ RunScriptThrows
  BY <1>4 DEF RunScript, RunScriptThrows
<1>5. CASE Start
  BY <1>5 DEF Start, ReadOptions, Connect, ConnectFails, RefuseFileAndScript, Interact
<1>6. CASE StartLoop \/ Quit \/ Close \/ Kill
  BY <1>6 DEF StartLoop, AskVersion, AskKeyWords, StartupThrows, Quit, Close, Kill
<1>7. CASE UNCHANGED vars
  BY <1>7 DEF vars
<1>. QED
  BY <1>1, <1>2, <1>3, <1>4, <1>5, <1>6, <1>7 DEF Next, RunNonInteractive

\* For every command line: the text that is sent for --script is the last
\* argument given for it, wherever it stands and whatever it looks like.
THEOREM ScriptIsGiven == Spec => []SentIsGiven
<1>1. ParserFacts!Spec => []ParserFacts!ParsedAsGiven
  BY OptionsFit, LinesFit, ParserFacts!SetAsGiven
<1>2. Init => FromTheOption
  BY DEF Init, FromTheOption
<1>3. ASSUME FromTheOption, ParserFacts!ParsedAsGiven PROVE SentIsGiven
  <2> SUFFICES ASSUME script # NULL, exist("script")
               PROVE  script = Parser!ValueAt(argv,
                        CHOOSE k \in {n \in 2 .. Len(argv) : Parser!Valued(argv, n, "script")} :
                          \A l \in {n \in 2 .. Len(argv) : Parser!Valued(argv, n, "script")} : l <= k)
    BY DEF SentIsGiven
  <2> DEFINE at == {k \in 2 .. Len(argv) : Parser!Valued(argv, k, "script")}
             given == {k \in 2 .. ParserFacts!argc : ParserFacts!Valued(argv, k, "script")}
  <2>1. at = given
    BY SameReading DEF ParserFacts!argc
  <2>2. "script" \in ClientOptions /\ "script" \in ClientHasValue
    BY DEF ClientOptions, ClientHasValue
  <2>3. /\ "script" \in has <=> given # {}
        /\ actual["script"] =
             IF given = {} THEN ClientDefault["script"]
             ELSE ParserFacts!ValueAt(argv, CHOOSE k \in given : \A l \in given : l <= k)
    BY <1>3, <2>2 DEF ParserFacts!ParsedAsGiven, FromTheOption, Accepted
  <2> HIDE DEF at, given
  <2>4. script = ParserFacts!ValueAt(argv, CHOOSE k \in at : \A l \in at : l <= k)
    BY <1>3, <2>1, <2>3 DEF FromTheOption, exist
  <2>5. script = Parser!ValueAt(argv, CHOOSE k \in at : \A l \in at : l <= k)
    BY <2>4, SameReading
  <2>. QED
    BY <2>5 DEF at
<1>. QED
  BY <1>1, <1>2, <1>3, FromTheOptionStep, RunIsSafe, RunsTheParser, PTL DEF Spec

-----------------------------------------------------------------------------
\* No two options of the program have the same letter.
LEMMA LettersDiffer == ~ ParserFacts!Ambiguous
<1>1. ASSUME NEW o \in ClientOptions, NEW q \in ClientOptions,
             ClientShortName[o] = ClientShortName[q], ClientShortName[o] # ""
      PROVE  o = q
  <2>1. /\ ClientShortName["host"] = "h" /\ ClientShortName["port"] = "p"
        /\ ClientShortName["username"] = "u" /\ ClientShortName["password"] = "P"
        /\ ClientShortName["file"] = "f" /\ ClientShortName["script"] = "s"
        /\ ClientShortName["help"] = "?" /\ ClientShortName["secure"] = ""
    BY DEF ClientShortName, ClientOptions
  <2>. QED
    BY <1>1, <2>1 DEF ClientOptions
<1>. QED
  BY <1>1 DEF ParserFacts!Ambiguous

\* For every command line and every reader of numbers: the port is refused exactly
\* if a value given for it is no number from 1 to 65535, and no run goes on then.
THEOREM PortIsInRange == Spec => []PortRefused
<1>1. ParserFacts!Spec => []ParserFacts!ValuesAreRead
  BY OptionsFit, LinesFit, ParserFacts!EachValueIsRead
<1>2. ParserFacts!Spec => [](parserPc = "ok" => errors = {})
  BY OptionsFit, LinesFit, ParserFacts!AcceptedIsFaultless
<1>3. ParserFacts!Spec => []ParserFacts!TypeOK
  BY OptionsFit, LinesFit, ParserFacts!TypeCorrect
<1>4. ASSUME ParserFacts!ValuesAreRead, parserPc = "ok" => errors = {}, ParserFacts!TypeOK
      PROVE  PortRefused
  <2> DEFINE invalid == [kind |-> "option value is invalid", name |-> "port"]
  <2> SUFFICES ASSUME parserPc \in {"parsed", "usage", "error", "ok"}, argv # << >>
               PROVE  /\ invalid \in errors <=> WrongPort
                      /\ ~ (Accepted /\ WrongPort)
    BY Zenon DEF PortRefused
  <2>1. "port" \in ClientHasValue
    BY DEF ClientHasValue, ClientOptions
  <2>2. Len(argv) \in Nat /\ Len(argv) >= 1
    BY <1>4, LenProperties, EmptySeq DEF ParserFacts!TypeOK
  <2>3. invalid \in errors <=> \E k \in 2 .. Len(argv) : ParserFacts!Refused(argv, k, "port")
    BY <1>4, <2>1, <2>2, LettersDiffer DEF ParserFacts!ValuesAreRead, ParserFacts!argc
  <2> DEFINE Ports == 1 .. 65535
  <2>4. ASSUME NEW v
        PROVE  PortReads("port", v) <=> PortNumber(v) \in Ports
    BY DEF PortReads
  <2>5. WrongPort <=> \E k \in PortGiven : PortNumber(Parser!ValueAt(argv, k)) \notin Ports
    BY DEF WrongPort
  <2> HIDE DEF Ports
  <2>6. (\E k \in 2 .. Len(argv) : ParserFacts!Refused(argv, k, "port")) <=> WrongPort
    <3>1. ASSUME NEW k \in 2 .. Len(argv)
          PROVE  ParserFacts!Refused(argv, k, "port") <=>
                   k \in PortGiven /\ PortNumber(Parser!ValueAt(argv, k)) \notin Ports
      <4>1. /\ Parser!Valued(argv, k, "port") <=> ParserFacts!Valued(argv, k, "port")
            /\ Parser!ValueAt(argv, k) = ParserFacts!ValueAt(argv, k)
        BY Zenon, SameReading
      <4>2. PortReads("port", ParserFacts!ValueAt(argv, k))
              <=> PortNumber(ParserFacts!ValueAt(argv, k)) \in Ports
        BY Zenon, <2>4
      <4>3. k \in PortGiven <=> /\ Parser!Valued(argv, k, "port")
                                /\ argv[k].form = "assign" \/ k < Len(argv)
        BY Zenon, <3>1 DEF PortGiven
      <4>. QED
        BY Zenon, <4>1, <4>2, <4>3 DEF ParserFacts!Refused
    <3>2. \A k \in PortGiven : k \in 2 .. Len(argv)
      BY Zenon DEF PortGiven
    <3>. QED
      BY Zenon, <2>5, <3>1, <3>2
  <2>7. Accepted => invalid \notin errors
    BY <1>4 DEF Accepted
  <2>. QED
    BY Zenon, <2>3, <2>6, <2>7
<1>. QED
  BY <1>1, <1>2, <1>3, <1>4, RunsTheParser, PTL

=============================================================================
