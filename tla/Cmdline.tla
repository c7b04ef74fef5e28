------------------------------ MODULE Cmdline ------------------------------
(***************************************************************************)
(* The command line parser (include/cmdline.h): parse() goes through the   *)
(* arguments once, collecting the options that are set and the errors, and *)
(* parse_check() then prints the usage, or the first error, or returns.    *)
(***************************************************************************)
EXTENDS Integers, Sequences, FiniteSets, SequencesExt

CONSTANTS
  Options,     \* the names of the options that were added, "help" included
  HasValue,    \* those that take a value
  Need,        \* those that must be given
  short_name,  \* the letter of each option, "" if it has none
  Default,     \* the value of each option that is not given
  Reads(_, _), \* Reads(o, v): the reader of option o accepts the text v
  Lines        \* the command lines that are tried, the program name first

(***************************************************************************)
(* An argument is kept with its text and with how the parser splits it:    *)
(*   "assign"  --name=value       "long"  --name                           *)
(*   "short"   -letters           "word"  anything else                    *)
(***************************************************************************)
Argument ==
  [form : {"assign", "long", "short", "word"}, text : STRING,
   name : STRING, value : STRING, letters : Seq(STRING)]

ASSUME OptionsAssumption ==
  /\ Options \subseteq STRING
  /\ "help" \in Options \ HasValue
  /\ Need \subseteq HasValue
  /\ HasValue \subseteq Options
  /\ IsFiniteSet(Options)
  /\ short_name \in [Options -> STRING]
  /\ Default \in [Options -> STRING]

ASSUME LinesAssumption == Lines \subseteq Seq(Argument)

VARIABLES
  pc,      \* "start", "parsing", "parsed", "usage" (exit 0), "error" (exit 1),
           \* "ok" (parse_check returned)
  argv,
  i,       \* the argument that is read next
  has,     \* the options that are set
  actual,  \* the value of every option
  errors,  \* which errors there are; the order and the wording are left out
  others   \* the arguments that are no options

optionVars == <<has, actual, errors>>
vars == <<pc, argv, i, optionVars, others>>

argc == Len(argv)

-----------------------------------------------------------------------------
(* The state of the options, and what the three ways of set_option and     *)
(* push_back do to it.                                                     *)

ErrorKinds ==
  {"no arguments", "ambiguous", "undefined option", "undefined short option",
   "option needs value", "option value is invalid", "need option"}

\* What is wrong, and with which option or letter, "" if with none.
Errors == [kind : ErrorKinds, name : STRING \cup {""}]

OptionState == [has |-> has, actual |-> actual, errors |-> errors]

Fail(st, kind, name) ==
  [st EXCEPT !.errors = @ \cup {[kind |-> kind, name |-> name]}]

\* A faulty set_option: the name is not looked up.
set_optionUnchecked(st, name) ==
  IF name \in HasValue THEN Fail(st, "option needs value", name)
  ELSE [st EXCEPT !.has = @ \cup {name}]

set_option(st, name) ==
  IF name \notin Options THEN Fail(st, "undefined option", name)
  ELSE IF name \in HasValue THEN Fail(st, "option needs value", name)
  ELSE [st EXCEPT !.has = @ \cup {name}]

\* A faulty set_option: an exception of the reader is lost.
set_option_valueUnread(st, name, value) ==
  IF name \notin Options THEN Fail(st, "undefined option", name)
  ELSE IF name \notin HasValue THEN Fail(st, "option value is invalid", name)
  ELSE [st EXCEPT !.has = @ \cup {name}, !.actual[name] = value]

\* A faulty set_option: a value that is taken makes up for one that was not.
set_option_valueForgives(st, name, value) ==
  IF name \notin Options THEN Fail(st, "undefined option", name)
  ELSE IF name \notin HasValue \/ ~ Reads(name, value)
    THEN Fail(st, "option value is invalid", name)
  ELSE [st EXCEPT !.has = @ \cup {name}, !.actual[name] = value,
                  !.errors = @ \ {[kind |-> "option value is invalid", name |-> name]}]

set_option_value(st, name, value) ==
  IF name \notin Options THEN Fail(st, "undefined option", name)
  ELSE IF name \notin HasValue \/ ~ Reads(name, value)
    THEN Fail(st, "option value is invalid", name)
  ELSE [st EXCEPT !.has = @ \cup {name}, !.actual[name] = value]

Becomes(st) ==
  /\ has' = st.has
  /\ actual' = st.actual
  /\ errors' = st.errors

(* lookup: the options by their letters. *)

Letters == {short_name[o] : o \in Options} \ {""}

Ambiguous == \E o, p \in Options : o # p /\ short_name[o] = short_name[p] /\ short_name[o] # ""

lookup(c) == CHOOSE o \in Options : short_name[o] = c

SetLetter(st, c) ==
  IF c \in Letters THEN set_option(st, lookup(c))
                   ELSE Fail(st, "undefined short option", c)

\* A group of letters: none of them changes what another one does.
SetLetters(st, letters) ==
  [st EXCEPT !.has    = @ \cup UNION {SetLetter(st, c).has : c \in Range(letters)},
             !.errors = @ \cup UNION {SetLetter(st, c).errors : c \in Range(letters)}]

-----------------------------------------------------------------------------
Init ==
  /\ pc = "start"
  /\ argv \in Lines
  /\ i = 2
  /\ has = {}
  /\ actual = Default
  /\ errors = {}
  /\ others = << >>

\* No arguments at all, or two options with one letter: nothing is parsed.
RefuseToParse ==
  /\ pc = "start"
  /\ argc < 1 \/ Ambiguous
  /\ Becomes(Fail(OptionState, IF argc < 1 THEN "no arguments" ELSE "ambiguous", ""))
  /\ pc' = "parsed"
  /\ UNCHANGED <<argv, i, others>>

StartParsing ==
  /\ pc = "start"
  /\ argc >= 1 /\ ~ Ambiguous
  /\ pc' = "parsing"
  /\ UNCHANGED <<argv, i, optionVars, others>>

Reading(form) ==
  /\ pc = "parsing"
  /\ i <= argc
  /\ argv[i].form = form
  /\ UNCHANGED <<pc, argv>>

\* --name=value
ReadAssign ==
  /\ Reading("assign")
  /\ Becomes(set_option_value(OptionState, argv[i].name, argv[i].value))
  /\ i' = i + 1
  /\ UNCHANGED others

\* A faulty ReadLong: the value is not passed over.
ReadLongStays ==
  /\ Reading("long")
  /\ LET name == argv[i].name
     IN  IF name \in HasValue /\ i < argc
           THEN Becomes(set_option_value(OptionState, name, argv[i + 1].text))
           ELSE Becomes(set_option(OptionState, name))
  /\ i' = i + 1
  /\ UNCHANGED others

\* --name: an option with a value takes the next argument, whatever it is.
ReadLong ==
  /\ Reading("long")
  /\ LET name == argv[i].name
     IN  IF name \in HasValue /\ i < argc
           THEN /\ Becomes(set_option_value(OptionState, name, argv[i + 1].text))
                /\ i' = i + 2
           ELSE /\ Becomes(set_option(OptionState, name))
                /\ i' = i + 1
  /\ UNCHANGED others

\* A faulty ReadDash: the loop goes on at the same argument.
ReadDashStays ==
  /\ Reading("short")
  /\ argv[i].letters = << >>
  /\ UNCHANGED <<i, optionVars, others>>

\* A lone dash is passed over.
ReadDash ==
  /\ Reading("short")
  /\ argv[i].letters = << >>
  /\ i' = i + 1
  /\ UNCHANGED <<optionVars, others>>

\* -letters: all but the last are flags; the last may take the next argument.
ReadShort ==
  /\ Reading("short")
  /\ argv[i].letters # << >>
  /\ LET last  == Last(argv[i].letters)
         flags == SetLetters(OptionState, Front(argv[i].letters))
     IN  IF last \in Letters /\ lookup(last) \in HasValue /\ i < argc
           THEN /\ Becomes(set_option_value(flags, lookup(last), argv[i + 1].text))
                /\ i' = i + 2
           ELSE /\ Becomes(SetLetter(flags, last))
                /\ i' = i + 1
  /\ UNCHANGED others

ReadWord ==
  /\ Reading("word")
  /\ others' = Append(others, argv[i].text)
  /\ i' = i + 1
  /\ UNCHANGED optionVars

\* Every needed option that is not set is an error.
Validate ==
  /\ pc = "parsing"
  /\ i > argc
  /\ errors' = errors \cup {[kind |-> "need option", name |-> o] : o \in Need \ has}
  /\ pc' = "parsed"
  /\ UNCHANGED <<argv, i, has, actual, others>>

-----------------------------------------------------------------------------
(* parse_check: check(argc, parse(argc, argv)). *)

Check(result) ==
  /\ pc = "parsed"
  /\ pc' = result
  /\ UNCHANGED <<argv, i, optionVars, others>>

PrintUsage ==
  /\ (argc = 1 /\ errors # {}) \/ "help" \in has
  /\ Check("usage")

\* A faulty PrintError: the errors come before the question for help.
PrintErrorFirst ==
  /\ argc # 1
  /\ errors # {}
  /\ Check("error")

PrintError ==
  /\ argc # 1 /\ "help" \notin has
  /\ errors # {}
  /\ Check("error")

Accept ==
  /\ "help" \notin has
  /\ errors = {}
  /\ Check("ok")

Next ==
  \/ RefuseToParse \/ StartParsing
  \/ ReadAssign \/ ReadLong \/ ReadDash \/ ReadShort \/ ReadWord
  \/ Validate
  \/ PrintUsage \/ PrintError \/ Accept

Spec == Init /\ [][Next]_vars

\* The parser waits for nothing.
FairSpec == Spec /\ WF_vars(Next)

-----------------------------------------------------------------------------
(***************************************************************************)
(* A command line read from the outside: an argument is the value of the   *)
(* one before it if that one waits for a value and is not a value itself.  *)
(***************************************************************************)
AwaitsValue(a) ==
  \/ a.form = "long" /\ a.name \in HasValue
  \/ /\ a.form = "short" /\ a.letters # << >>
     /\ Last(a.letters) \in Letters /\ lookup(Last(a.letters)) \in HasValue

IsValue(line) ==
  LET isValue[k \in 1 .. Len(line)] ==
        k > 2 /\ AwaitsValue(line[k - 1]) /\ ~ isValue[k - 1]
  IN  isValue

OptionAt(line, k) == k \in 2 .. Len(line) /\ ~ IsValue(line)[k]

\* Argument k gives option o a value, and that value.
Valued(line, k, o) ==
  /\ OptionAt(line, k)
  /\ \/ line[k].form = "assign" /\ line[k].name = o
     \/ /\ AwaitsValue(line[k])
        /\ o = IF line[k].form = "long" THEN line[k].name ELSE lookup(Last(line[k].letters))

ValueAt(line, k) == IF line[k].form = "assign" THEN line[k].value ELSE line[k + 1].text

\* Argument k gives option o a value that its reader does not take.
Refused(line, k, o) ==
  /\ Valued(line, k, o)
  /\ line[k].form = "assign" \/ k < Len(line)
  /\ ~ Reads(o, ValueAt(line, k))

\* Argument k gives the flag o.
Flagged(line, k, o) ==
  /\ OptionAt(line, k)
  /\ \/ line[k].form = "long" /\ line[k].name = o
     \/ /\ line[k].form = "short" /\ short_name[o] # ""
        /\ Contains(line[k].letters, short_name[o])

-----------------------------------------------------------------------------
TypeOK ==
  /\ pc \in {"start", "parsing", "parsed", "usage", "error", "ok"}
  /\ argv \in Seq(Argument)
  /\ i \in Nat
  /\ has \subseteq Options
  /\ actual \in [Options -> STRING]
  /\ errors \subseteq Errors
  /\ others \in Seq(STRING)

\* An accepted command line sets exactly the options it gives, each to the last
\* value it gives for it, wherever values look like options or options are
\* grouped; an option that is not given keeps its default (cmdline.h:452-513).
ParsedAsGiven ==
  pc = "ok" =>
    \A o \in Options :
      LET at == {k \in 2 .. argc : Valued(argv, k, o)}
      IN  IF o \in HasValue
            THEN /\ o \in has <=> at # {}
                 /\ actual[o] = IF at = {} THEN Default[o]
                                ELSE ValueAt(argv, CHOOSE k \in at : \A l \in at : l <= k)
            ELSE o \in has <=> \E k \in 2 .. argc : Flagged(argv, k, o)

\* What is accepted is complete and readable: every needed option is set, with
\* an argument of its own, and every value passed its reader (the range of the
\* port), however values, options and groups of letters follow each other.
AcceptedIsComplete ==
  pc = "ok" =>
    /\ Need \subseteq has
    /\ argc > Cardinality(Need)
    /\ \A o \in has \cap HasValue : Reads(o, actual[o])

\* Every value is read, not only the last one given for an option, which counts:
\* an option has a value that is invalid exactly if one that the command line
\* gives it is refused, whatever comes before and after (cmdline.h:612-621).
ValuesAreRead ==
  pc \in {"parsed", "usage", "error", "ok"} /\ argc >= 1 /\ ~ Ambiguous =>
    \A o \in HasValue :
      [kind |-> "option value is invalid", name |-> o] \in errors
        <=> \E k \in 2 .. argc : Refused(argv, k, o)

(***************************************************************************)
(* What AcceptedIsComplete rests on: an argument that was read has set at  *)
(* most one option with a value, and only to a value that its reader took. *)
(***************************************************************************)
ParserInvariant ==
  /\ Cardinality(has \cap HasValue) <= i - 2
  /\ argc >= 1 => i <= argc + 1
  /\ \A o \in has \cap HasValue : Reads(o, actual[o])
  /\ pc = "parsing" => argc >= 1
  /\ pc = "parsed" /\ errors = {} => Need \subseteq has /\ argc >= 1
  /\ pc = "ok" => Need \subseteq has /\ argc >= 1 /\ "help" \notin has

\* Asked for help, the parser prints the usage and ends with success, whatever
\* else is wrong on the command line; a flag in the place of a value is no
\* question.
HelpWins ==
  pc \in {"usage", "error", "ok"} /\ argc >= 1 /\ ~ Ambiguous =>
    (pc = "usage" <=> \/ argc = 1 /\ Need # {}
                      \/ \E k \in 2 .. argc : Flagged(argv, k, "help"))

\* Every command line is answered: parse_check returns or ends the program,
\* wherever values are passed over, missing or refused.
Answered == <>(pc \in {"usage", "error", "ok"})

=============================================================================
