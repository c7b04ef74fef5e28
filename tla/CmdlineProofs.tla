--------------------------- MODULE CmdlineProofs ---------------------------
(***************************************************************************)
(* Theorems about Cmdline, for every set of options, every reader and      *)
(* every command line.                                                     *)
(***************************************************************************)
EXTENDS Cmdline, SequenceTheorems, FiniteSetTheorems, WellFoundedInduction, TLAPS

OptionStates ==
  [has : SUBSET Options, actual : [Options -> STRING],
   errors : SUBSET Errors]

\* A letter that is known belongs to an option.
LEMMA LookupType ==
  ASSUME NEW c \in Letters
  PROVE  lookup(c) \in Options
  BY DEF Letters, lookup

LEMMA KindTypes ==
  /\ "no arguments" \in ErrorKinds /\ "ambiguous" \in ErrorKinds
  /\ "undefined option" \in ErrorKinds /\ "undefined short option" \in ErrorKinds
  /\ "option needs value" \in ErrorKinds /\ "option value is invalid" \in ErrorKinds
  /\ "need option" \in ErrorKinds
  BY DEF ErrorKinds

LEMMA FailType ==
  ASSUME NEW st \in OptionStates, NEW kind \in ErrorKinds, NEW name \in STRING \cup {""}
  PROVE  /\ Fail(st, kind, name) \in OptionStates
         /\ Fail(st, kind, name).has = st.has
         /\ Fail(st, kind, name).actual = st.actual
<1> DEFINE error == [kind |-> kind, name |-> name]
<1>1. error \in Errors
  BY DEF Errors
<1>2. Fail(st, kind, name) = [st EXCEPT !.errors = @ \cup {error}]
  BY DEF Fail
<1> HIDE DEF error
<1>. QED
  BY <1>1, <1>2 DEF OptionStates

\* To set a flag gives no option a value.
LEMMA SetFlag ==
  ASSUME NEW st \in OptionStates, NEW name \in STRING
  PROVE  /\ set_option(st, name) \in OptionStates
         /\ set_option(st, name).has \cap HasValue = st.has \cap HasValue
         /\ set_option(st, name).actual = st.actual
<1>1. CASE name \notin Options
  <2>1. set_option(st, name) = Fail(st, "undefined option", name)
    BY <1>1 DEF set_option
  <2>2. /\ Fail(st, "undefined option", name) \in OptionStates
        /\ Fail(st, "undefined option", name).has = st.has
        /\ Fail(st, "undefined option", name).actual = st.actual
    BY FailType, KindTypes
  <2>. QED
    BY <2>1, <2>2
<1>2. CASE name \in Options \cap HasValue
  <2>1. set_option(st, name) = Fail(st, "option needs value", name)
    BY <1>2 DEF set_option
  <2>2. /\ Fail(st, "option needs value", name) \in OptionStates
        /\ Fail(st, "option needs value", name).has = st.has
        /\ Fail(st, "option needs value", name).actual = st.actual
    BY FailType, KindTypes
  <2>. QED
    BY <2>1, <2>2
<1>3. CASE name \in Options \ HasValue
  <2>1. set_option(st, name) = [st EXCEPT !.has = @ \cup {name}]
    BY <1>3 DEF set_option
  <2>. QED
    BY <1>3, <2>1 DEF OptionStates
<1>. QED
  BY <1>1, <1>2, <1>3

LEMMA SetFlagLetter ==
  ASSUME NEW st \in OptionStates, NEW c \in STRING
  PROVE  /\ SetLetter(st, c) \in OptionStates
         /\ SetLetter(st, c).has \cap HasValue = st.has \cap HasValue
         /\ SetLetter(st, c).actual = st.actual
<1>1. CASE c \in Letters
  <2>1. lookup(c) \in STRING
    BY <1>1, LookupType, OptionsAssumption
  <2>2. SetLetter(st, c) = set_option(st, lookup(c))
    BY <1>1 DEF SetLetter
  <2>. QED
    BY <2>1, <2>2, SetFlag
<1>2. CASE c \notin Letters
  <2>1. SetLetter(st, c) = Fail(st, "undefined short option", c)
    BY <1>2 DEF SetLetter
  <2>2. /\ Fail(st, "undefined short option", c) \in OptionStates
        /\ Fail(st, "undefined short option", c).has = st.has
        /\ Fail(st, "undefined short option", c).actual = st.actual
    BY FailType, KindTypes
  <2>. QED
    BY <2>1, <2>2
<1>. QED
  BY <1>1, <1>2

\* Nor does a group of flags.
LEMMA SetFlagLetters ==
  ASSUME NEW st \in OptionStates, NEW letters \in Seq(STRING)
  PROVE  /\ SetLetters(st, letters) \in OptionStates
         /\ SetLetters(st, letters).has \cap HasValue = st.has \cap HasValue
         /\ SetLetters(st, letters).actual = st.actual
<1> DEFINE flags    == UNION {SetLetter(st, c).has : c \in Range(letters)}
           failures == UNION {SetLetter(st, c).errors : c \in Range(letters)}
<1>1. Range(letters) \subseteq STRING
  BY ElementOfSeq DEF Range
<1>2. \A c \in Range(letters) :
        /\ SetLetter(st, c).has \subseteq Options
        /\ SetLetter(st, c).has \cap HasValue = st.has \cap HasValue
        /\ SetLetter(st, c).errors \subseteq Errors
  BY <1>1, SetFlagLetter DEF OptionStates
<1>3. /\ flags \subseteq Options
      /\ flags \cap HasValue \subseteq st.has
      /\ failures \subseteq Errors
  BY <1>2
<1>4. SetLetters(st, letters) =
        [st EXCEPT !.has = @ \cup flags, !.errors = @ \cup failures]
  BY DEF SetLetters
<1> HIDE DEF flags, failures
<1>. QED
  BY <1>3, <1>4 DEF OptionStates

\* An option is set to a value only if its reader takes it, and no other option
\* with a value is touched.
Readable(st) == \A o \in st.has \cap HasValue : Reads(o, st.actual[o])

LEMMA SetValue ==
  ASSUME NEW st \in OptionStates, NEW name \in STRING, NEW value \in STRING,
         Readable(st)
  PROVE  /\ set_option_value(st, name, value) \in OptionStates
         /\ Readable(set_option_value(st, name, value))
         /\ set_option_value(st, name, value).has \cap HasValue
              \subseteq (st.has \cap HasValue) \cup {name}
<1>1. CASE name \notin Options
  <2>1. set_option_value(st, name, value) = Fail(st, "undefined option", name)
    BY <1>1 DEF set_option_value
  <2>2. /\ Fail(st, "undefined option", name) \in OptionStates
        /\ Fail(st, "undefined option", name).has = st.has
        /\ Fail(st, "undefined option", name).actual = st.actual
    BY FailType, KindTypes
  <2>. QED
    BY <2>1, <2>2 DEF Readable
<1>2. CASE name \in Options /\ (name \notin HasValue \/ ~ Reads(name, value))
  <2>1. set_option_value(st, name, value) = Fail(st, "option value is invalid", name)
    BY <1>2 DEF set_option_value
  <2>2. /\ Fail(st, "option value is invalid", name) \in OptionStates
        /\ Fail(st, "option value is invalid", name).has = st.has
        /\ Fail(st, "option value is invalid", name).actual = st.actual
    BY FailType, KindTypes
  <2>. QED
    BY <2>1, <2>2 DEF Readable
<1>3. CASE name \in Options \cap HasValue /\ Reads(name, value)
  <2> DEFINE newHas    == st.has \cup {name}
             newActual == [st.actual EXCEPT ![name] = value]
  <2>1. set_option_value(st, name, value) = [st EXCEPT !.has = newHas, !.actual = newActual]
    BY <1>3 DEF set_option_value, OptionStates
  <2>2. newHas \subseteq Options /\ newActual \in [Options -> STRING]
    BY <1>3 DEF OptionStates
  <2>3. \A o \in Options : newActual[o] = IF o = name THEN value ELSE st.actual[o]
    BY DEF OptionStates
  <2> HIDE DEF newActual
  <2>4. /\ set_option_value(st, name, value) \in OptionStates
        /\ set_option_value(st, name, value).has = newHas
        /\ set_option_value(st, name, value).actual = newActual
    BY <2>1, <2>2 DEF OptionStates
  <2>5. \A o \in newHas \cap HasValue : Reads(o, newActual[o])
    <3>1. TAKE o \in newHas \cap HasValue
    <3>2. o \in Options
      BY OptionsAssumption
    <3>3. CASE o = name
      BY <1>3, <2>3, <3>2, <3>3
    <3>4. CASE o # name
      BY <2>3, <3>2, <3>4 DEF Readable
    <3>. QED
      BY <3>3, <3>4
  <2>. QED
    BY <2>4, <2>5 DEF Readable
<1>. QED
  BY <1>1, <1>2, <1>3

-----------------------------------------------------------------------------
Safe == TypeOK /\ ParserInvariant

\* At most one more option with a value is one more in number.
LEMMA OneMore ==
  ASSUME NEW S, NEW T, NEW name, IsFiniteSet(S), T \subseteq S \cup {name}
  PROVE  IsFiniteSet(T) /\ Cardinality(T) <= Cardinality(S) + 1
<1>1. /\ IsFiniteSet(S \cup {name})
      /\ Cardinality(S \cup {name}) <= Cardinality(S) + 1
      /\ Cardinality(S) \in Nat
  BY FS_AddElement, FS_CardinalityType
<1>2. /\ IsFiniteSet(T)
      /\ Cardinality(T) <= Cardinality(S \cup {name})
      /\ Cardinality(T) \in Nat
      /\ Cardinality(S \cup {name}) \in Nat
  BY <1>1, FS_Subset, FS_CardinalityType
<1>. QED
  BY <1>1, <1>2

LEMMA ValuesFinite ==
  ASSUME has \subseteq Options
  PROVE  IsFiniteSet(has \cap HasValue) /\ Cardinality(has \cap HasValue) \in Nat
  BY OptionsAssumption, FS_Subset, FS_CardinalityType

LEMMA CurrentState ==
  ASSUME Safe
  PROVE  OptionState \in OptionStates /\ Readable(OptionState) /\ OptionState.has = has
  BY DEF Safe, TypeOK, ParserInvariant, OptionState, OptionStates, Readable

LEMMA SafeInit == Init => Safe
<1> SUFFICES ASSUME Init PROVE Safe
  OBVIOUS
<1>1. argv \in Seq(Argument) /\ Len(argv) \in Nat
  BY LinesAssumption, LenProperties DEF Init
<1>2. has \cap HasValue = {} /\ Cardinality({}) = 0
  BY FS_EmptySet DEF Init
<1>3. TypeOK
  BY <1>1, OptionsAssumption, EmptySeq DEF Init, TypeOK
<1>4. ParserInvariant
  BY <1>1, <1>2 DEF Init, ParserInvariant, argc
<1>. QED
  BY <1>3, <1>4 DEF Safe

\* An argument, or two, that set at most one option with a value.
LEMMA SafeRead ==
  ASSUME Safe, pc = "parsing", pc' = pc, argv' = argv, i <= argc,
         NEW st \in OptionStates, Readable(st), Becomes(st),
         NEW name, st.has \cap HasValue \subseteq (has \cap HasValue) \cup {name},
         i' = i + 1 \/ (i < argc /\ i' = i + 2),
         others' \in Seq(STRING)
  PROVE  Safe'
<1>1. /\ has' = st.has /\ actual' = st.actual /\ errors' = st.errors
      /\ has' \subseteq Options
      /\ argv \in Seq(Argument) /\ argc \in Nat /\ argc' = argc
      /\ i \in Nat
      /\ Cardinality(has \cap HasValue) <= i - 2
  BY LenProperties DEF Becomes, OptionStates, Safe, TypeOK, ParserInvariant, argc
<1>2. TypeOK'
  BY <1>1 DEF Safe, TypeOK, OptionStates
<1>3. Cardinality(has' \cap HasValue) <= Cardinality(has \cap HasValue) + 1
  BY <1>1, OneMore, ValuesFinite DEF Safe, TypeOK
<1>4. Cardinality(has' \cap HasValue) \in Nat /\ Cardinality(has \cap HasValue) \in Nat
  BY <1>1, OptionsAssumption, FS_Subset, FS_CardinalityType, ValuesFinite DEF Safe, TypeOK
<1>5. Cardinality(has' \cap HasValue) <= i' - 2
  BY <1>1, <1>3, <1>4
<1>6. \A o \in has' \cap HasValue : Reads(o, actual'[o])
  BY <1>1 DEF Readable
<1>7. argc' >= 1 /\ i' <= argc' + 1
  BY <1>1 DEF Safe, ParserInvariant
<1>8. ParserInvariant'
  BY <1>5, <1>6, <1>7 DEF ParserInvariant
<1>. QED
  BY <1>2, <1>8 DEF Safe

LEMMA SafeStep ==
  ASSUME Safe, [Next]_vars
  PROVE  Safe'
<1>1. /\ argv \in Seq(Argument) /\ argc \in Nat
      /\ \A k \in 1 .. argc : argv[k] \in Argument
      /\ others \in Seq(STRING)
      /\ Cardinality(has \cap HasValue) \in Nat
  BY LenProperties, ElementOfSeq, ValuesFinite DEF Safe, TypeOK, argc
<1>2. i \in Nat /\ i >= 2
  BY <1>1 DEF Safe, TypeOK, ParserInvariant
<1>3. ASSUME NEW form, Reading(form)
      PROVE  /\ pc = "parsing" /\ pc' = pc /\ argv' = argv /\ i <= argc
             /\ i \in 1 .. argc /\ argv[i] \in Argument
             /\ i < argc => argv[i + 1] \in Argument
  BY <1>1, <1>2, <1>3 DEF Reading
<1>4. /\ OptionState \in OptionStates /\ Readable(OptionState)
      /\ OptionState.has = has
  BY CurrentState
<1>5. CASE RefuseToParse
  <2> DEFINE kind == IF argc < 1 THEN "no arguments" ELSE "ambiguous"
             st   == Fail(OptionState, kind, "")
  <2>1. kind \in ErrorKinds
    BY KindTypes
  <2>2. Becomes(st) /\ pc' = "parsed" /\ argv' = argv /\ i' = i /\ others' = others
    BY <1>5 DEF RefuseToParse
  <2>3. st.errors = OptionState.errors \cup {[kind |-> kind, name |-> ""]}
    BY <1>4 DEF Fail, OptionStates
  <2> HIDE DEF kind
  <2>4. st \in OptionStates /\ st.has = OptionState.has /\ st.actual = OptionState.actual
    BY <1>4, <2>1, FailType
  <2> HIDE DEF st
  <2>5. /\ has' = has /\ actual' = actual /\ errors' # {} /\ errors' \subseteq Errors
    BY <1>4, <2>2, <2>3, <2>4 DEF Becomes, OptionState, OptionStates
  <2>. QED
    BY <2>2, <2>5 DEF Safe, TypeOK, ParserInvariant, argc
<1>6. CASE StartParsing
  BY <1>6 DEF StartParsing, optionVars, Safe, TypeOK, ParserInvariant, argc
<1>7. CASE ReadAssign
  <2> DEFINE st == set_option_value(OptionState, argv[i].name, argv[i].value)
  <2>1. argv[i].name \in STRING /\ argv[i].value \in STRING
    BY <1>3, <1>7 DEF ReadAssign, Argument
  <2>2. /\ st \in OptionStates /\ Readable(st)
        /\ st.has \cap HasValue \subseteq (has \cap HasValue) \cup {argv[i].name}
    BY <1>4, <2>1, SetValue
  <2>3. Becomes(st) /\ i' = i + 1 /\ others' = others
    BY <1>7 DEF ReadAssign
  <2> HIDE DEF st
  <2>. QED
    BY <1>1, <1>3, <1>7, <2>2, <2>3, SafeRead DEF ReadAssign
<1>8. CASE ReadLong
  <2>1. argv[i].name \in STRING /\ (i < argc => argv[i + 1].text \in STRING)
    BY <1>3, <1>8 DEF ReadLong, Argument
  <2>2. CASE argv[i].name \in HasValue /\ i < argc
    <3> DEFINE name  == argv[i].name
               value == argv[i + 1].text
               st    == set_option_value(OptionState, name, value)
    <3>1. name \in STRING /\ value \in STRING
      BY <2>1, <2>2
    <3>2. Becomes(st) /\ i' = i + 2 /\ others' = others
      BY <1>8, <2>2 DEF ReadLong
    <3> HIDE DEF name, value
    <3>3. /\ st \in OptionStates /\ Readable(st)
          /\ st.has \cap HasValue \subseteq (has \cap HasValue) \cup {name}
      BY <1>4, <3>1, SetValue
    <3> HIDE DEF st
    <3>. QED
      BY <1>1, <1>3, <1>8, <2>2, <3>2, <3>3, SafeRead DEF ReadLong
  <2>3. CASE ~ (argv[i].name \in HasValue /\ i < argc)
    <3> DEFINE st == set_option(OptionState, argv[i].name)
    <3>1. /\ st \in OptionStates /\ Readable(st)
          /\ st.has \cap HasValue \subseteq (has \cap HasValue) \cup {argv[i].name}
      BY <1>4, <2>1, SetFlag DEF Readable
    <3>2. Becomes(st) /\ i' = i + 1 /\ others' = others
      BY <1>8, <2>3 DEF ReadLong
    <3> HIDE DEF st
    <3>. QED
      BY <1>1, <1>3, <1>8, <3>1, <3>2, SafeRead DEF ReadLong
  <2>. QED
    BY <2>2, <2>3
<1>9. CASE ReadDash
  <2>1. Becomes(OptionState) /\ i' = i + 1 /\ others' = others
    BY <1>9 DEF ReadDash, Becomes, OptionState, optionVars
  <2>. QED
    BY <1>1, <1>3, <1>4, <1>9, <2>1, SafeRead DEF ReadDash
<1>10. CASE ReadShort
  <2> DEFINE letters == argv[i].letters
             flags   == SetLetters(OptionState, Front(letters))
  <2>1. letters \in Seq(STRING) /\ (i < argc => argv[i + 1].text \in STRING)
    BY <1>3, <1>10 DEF ReadShort, Argument
  <2>2. Last(letters) \in STRING /\ Front(letters) \in Seq(STRING)
    <3>1. letters # << >>
      BY <1>10 DEF ReadShort
    <3>2. Len(letters) \in Nat \ {0} /\ \A k \in 1 .. Len(letters) : letters[k] \in STRING
      BY <2>1, <3>1, LenProperties, ElementOfSeq, EmptySeq
    <3>. QED
      BY <2>1, <3>2, SubSeqProperties DEF Last, Front
  <2>3. /\ flags \in OptionStates /\ Readable(flags)
        /\ flags.has \cap HasValue = has \cap HasValue
    BY <1>4, <2>2, SetFlagLetters DEF Readable
  <2>4. CASE Last(letters) \in Letters /\ lookup(Last(letters)) \in HasValue /\ i < argc
    <3> DEFINE name  == lookup(Last(letters))
               value == argv[i + 1].text
               st    == set_option_value(flags, name, value)
    <3>1. name \in STRING /\ value \in STRING
      BY <2>1, <2>4, OptionsAssumption
    <3>2. Becomes(st) /\ i' = i + 2 /\ others' = others
      BY <1>10, <2>4 DEF ReadShort
    <3> HIDE DEF flags, name, value
    <3>3. /\ st \in OptionStates /\ Readable(st)
          /\ st.has \cap HasValue \subseteq (has \cap HasValue) \cup {name}
      BY <2>3, <3>1, SetValue
    <3> HIDE DEF st
    <3>. QED
      BY <1>1, <1>3, <1>10, <2>4, <3>2, <3>3, SafeRead DEF ReadShort
  <2>5. CASE ~ (Last(letters) \in Letters /\ lookup(Last(letters)) \in HasValue /\ i < argc)
    <3> DEFINE st == SetLetter(flags, Last(letters))
    <3>1. Becomes(st) /\ i' = i + 1 /\ others' = others
      BY <1>10, <2>5 DEF ReadShort
    <3> HIDE DEF flags
    <3>2. /\ st \in OptionStates /\ Readable(st)
          /\ st.has \cap HasValue = has \cap HasValue
      BY <2>2, <2>3, SetFlagLetter DEF Readable
    <3> HIDE DEF st
    <3>. QED
      BY <1>1, <1>3, <1>10, <3>1, <3>2, SafeRead DEF ReadShort
  <2>. QED
    BY <2>4, <2>5
<1>11. CASE ReadWord
  <2>1. argv[i].text \in STRING
    BY <1>3, <1>11 DEF ReadWord, Argument
  <2>2. Becomes(OptionState) /\ i' = i + 1 /\ others' \in Seq(STRING)
    BY <1>1, <1>11, <2>1, AppendProperties DEF ReadWord, Becomes, OptionState, optionVars
  <2>. QED
    BY <1>1, <1>3, <1>4, <1>11, <2>2, SafeRead DEF ReadWord
<1>12. CASE Validate
  <2> DEFINE missing == {[kind |-> "need option", name |-> o] : o \in Need \ has}
  <2>1. /\ errors' = errors \cup missing /\ pc = "parsing" /\ pc' = "parsed"
        /\ argv' = argv /\ i' = i /\ has' = has /\ actual' = actual /\ others' = others
    BY <1>12 DEF Validate
  <2>2. errors' = {} => Need \subseteq has
    BY <2>1
  <2>3. missing \subseteq Errors
    <3>1. \A o \in Need : [kind |-> "need option", name |-> o] \in Errors
      BY KindTypes, OptionsAssumption DEF Errors
    <3>. QED
      BY <3>1
  <2> HIDE DEF missing
  <2>4. TypeOK'
    BY <2>1, <2>3 DEF Safe, TypeOK
  <2>5. ParserInvariant'
    BY <2>1, <2>2 DEF Safe, ParserInvariant, argc
  <2>. QED
    BY <2>4, <2>5 DEF Safe
<1>13. CASE PrintUsage \/ PrintError \/ Accept
  BY <1>13 DEF PrintUsage, PrintError, Accept, Check, optionVars, Safe, TypeOK,
               ParserInvariant, argc
<1>14. CASE UNCHANGED vars
  BY <1>14 DEF vars, optionVars, Safe, TypeOK, ParserInvariant, argc
<1>. QED
  BY <1>5, <1>6, <1>7, <1>8, <1>9, <1>10, <1>11, <1>12, <1>13, <1>14 DEF Next

-----------------------------------------------------------------------------
\* The parser keeps every variable in its type.
THEOREM TypeCorrect == Spec => []TypeOK
<1>1. Safe => TypeOK
  BY DEF Safe
<1>. QED
  BY <1>1, SafeInit, SafeStep, PTL DEF Spec

\* For every set of options and every reader: what is accepted is complete, has
\* an argument for each needed option, and every value passed its reader.
THEOREM Complete == Spec => []AcceptedIsComplete
<1>1. Safe => AcceptedIsComplete
  <2> SUFFICES ASSUME Safe, pc = "ok"
               PROVE  /\ Need \subseteq has
                      /\ argc > Cardinality(Need)
                      /\ \A o \in has \cap HasValue : Reads(o, actual[o])
    BY DEF AcceptedIsComplete
  <2>1. /\ Need \subseteq has \cap HasValue
        /\ IsFiniteSet(has \cap HasValue)
        /\ Cardinality(has \cap HasValue) \in Nat
    BY OptionsAssumption, ValuesFinite DEF Safe, TypeOK, ParserInvariant
  <2>2. Cardinality(Need) <= Cardinality(has \cap HasValue) /\ Cardinality(Need) \in Nat
    BY <2>1, FS_Subset, FS_CardinalityType
  <2>3. argc \in Nat /\ i \in Nat
    BY LenProperties DEF Safe, TypeOK, argc
  <2>. QED
    BY <2>1, <2>2, <2>3 DEF Safe, ParserInvariant
<1>. QED
  BY <1>1, SafeInit, SafeStep, PTL DEF Spec

\* The usage that is asked for is never taken for an accepted command line.
THEOREM HelpIsNotAccepted == Spec => [](pc = "ok" => "help" \notin has)
<1>1. Safe => (pc = "ok" => "help" \notin has)
  BY DEF Safe, ParserInvariant
<1>. QED
  BY <1>1, SafeInit, SafeStep, PTL DEF Spec

-----------------------------------------------------------------------------
(* Numbers.                                                                *)

\* The least number principle, from the well-foundedness of < on the numbers.
LEMMA LeastNumber ==
  ASSUME NEW T, T \subseteq Nat, T # {}
  PROVE  \E x \in T : \A y \in T : x <= y
<1> DEFINE R == OpToRel(<, Nat)
<1>1. IsWellFoundedOn(R, Nat)
  BY NatLessThanWellFounded
<1>2. ASSUME NEW x \in Nat, NEW y \in Nat, x < y PROVE <<x, y>> \in R
  BY <1>2 DEF OpToRel
<1> HIDE DEF R
<1>3. PICK x \in T : \A y \in T : ~ (<<y, x>> \in R)
  BY <1>1, WFMin
<1>4. ASSUME NEW y \in T PROVE x <= y
  <2>1. x \in Nat /\ y \in Nat /\ ~ (y < x)
    BY <1>2, <1>3
  <2>. QED
    BY <2>1
<1>. QED
  BY <1>4

\* Induction over the numbers, for a set instead of a predicate.
LEMMA Induction ==
  ASSUME NEW T, 0 \in T, \A n \in Nat : n \in T => n + 1 \in T
  PROVE  \A n \in Nat : n \in T
<1> SUFFICES ASSUME Nat \ T # {} PROVE FALSE
  OBVIOUS
<1>1. PICK m \in Nat \ T : \A k \in Nat \ T : m <= k
  BY LeastNumber
<1>2. m # 0 /\ m - 1 \in Nat
  BY <1>1
<1>3. m - 1 \in T
  BY <1>1, <1>2
<1>. QED
  BY <1>2, <1>3

-----------------------------------------------------------------------------
(***************************************************************************)
(* Which arguments are values: IsValue is a recursive function, and such a *)
(* function exists for a command line of any length.                       *)
(***************************************************************************)

AreValues(f, line, n) ==
  f = [k \in 1 .. n |-> k > 2 /\ AwaitsValue(line[k - 1]) /\ ~ f[k - 1]]

LEMMA ValuesExist ==
  ASSUME NEW line, NEW len \in Nat
  PROVE  \E f : AreValues(f, line, len)
<1> DEFINE T == {n \in Nat : \E f : AreValues(f, line, n)}
<1>1. 0 \in T
  <2> DEFINE f == [k \in 1 .. 0 |-> FALSE]
  <2>1. f = [k \in 1 .. 0 |-> k > 2 /\ AwaitsValue(line[k - 1]) /\ ~ f[k - 1]]
    OBVIOUS
  <2>. QED
    BY <2>1 DEF AreValues
<1>2. ASSUME NEW n \in Nat, n \in T PROVE n + 1 \in T
  <2>1. PICK f : AreValues(f, line, n)
    BY <1>2
  <2> DEFINE g == [k \in 1 .. n + 1 |-> k > 2 /\ AwaitsValue(line[k - 1]) /\ ~ f[k - 1]]
  <2>2. \A k \in 1 .. n : g[k] = f[k]
    BY <2>1 DEF AreValues
  <2>3. ASSUME NEW k \in 1 .. n + 1
        PROVE  g[k] = (k > 2 /\ AwaitsValue(line[k - 1]) /\ ~ g[k - 1])
    <3>1. CASE k > 2
      <4>1. k - 1 \in 1 .. n
        BY <3>1
      <4>2. g[k - 1] = f[k - 1]
        BY <2>2, <4>1
      <4>3. g[k] = (k > 2 /\ AwaitsValue(line[k - 1]) /\ ~ f[k - 1])
        OBVIOUS
      <4>. QED
        BY <4>2, <4>3
    <3>2. CASE ~ (k > 2)
      BY <3>2
    <3>. QED
      BY <3>1, <3>2
  <2>4. g = [k \in 1 .. n + 1 |-> g[k]]
    OBVIOUS
  <2> HIDE DEF g
  <2>5. g = [k \in 1 .. n + 1 |-> k > 2 /\ AwaitsValue(line[k - 1]) /\ ~ g[k - 1]]
    BY <2>3, <2>4, Zenon
  <2>. QED
    BY <2>5 DEF AreValues
<1> HIDE DEF T
<1>3. len \in T
  BY <1>1, <1>2, Induction
<1>. QED
  BY <1>3 DEF T

\* An argument is a value if the one before it waits for one and is none.
LEMMA ValuesAre ==
  ASSUME NEW line, Len(line) \in Nat
  PROVE  \A k \in 1 .. Len(line) :
           IsValue(line)[k] <=> k > 2 /\ AwaitsValue(line[k - 1]) /\ ~ IsValue(line)[k - 1]
<1>1. \E f : AreValues(f, line, Len(line))
  BY ValuesExist
<1>2. AreValues(IsValue(line), line, Len(line))
  BY <1>1, Zenon DEF IsValue, AreValues
<1> DEFINE v == IsValue(line)
<1>3. v = [k \in 1 .. Len(line) |-> k > 2 /\ AwaitsValue(line[k - 1]) /\ ~ v[k - 1]]
  BY <1>2 DEF AreValues
<1> HIDE DEF v
<1>4. \A k \in 1 .. Len(line) : v[k] = (k > 2 /\ AwaitsValue(line[k - 1]) /\ ~ v[k - 1])
  BY <1>3
<1>. QED
  BY <1>4 DEF v

-----------------------------------------------------------------------------
(***************************************************************************)
(* What the arguments up to the n-th one give: the flags, and the options  *)
(* with a value, each with the last value that is given for it.            *)
(***************************************************************************)
FlagsGiven(line, n, set) ==
  \A o \in Options \ HasValue : o \in set <=> \E k \in 2 .. n : Flagged(line, k, o)

LastGiven(line, n, o, k) ==
  Valued(line, k, o) /\ \A l \in 2 .. n : Valued(line, l, o) => l <= k

ValuesGiven(line, n, set, value) ==
  \A o \in HasValue :
    \/ /\ o \notin set
       /\ value[o] = Default[o]
       /\ \A k \in 2 .. n : ~ Valued(line, k, o)
    \/ /\ o \in set
       /\ \E k \in 2 .. n : LastGiven(line, n, o, k) /\ value[o] = ValueAt(line, k)

\* Argument n is an option, and the parser goes on at m, past a value of it.
Passes(line, n, m) ==
  /\ Len(line) \in Nat
  /\ n \in 2 .. Len(line)
  /\ ~ IsValue(line)[n]
  /\ \/ m = n + 1 /\ (n < Len(line) => ~ AwaitsValue(line[n]))
     \/ m = n + 2 /\ n < Len(line) /\ AwaitsValue(line[n])

LEMMA NextOption ==
  ASSUME NEW line, NEW n, NEW m, Passes(line, n, m)
  PROVE  /\ n \in Nat /\ m \in Nat /\ m <= Len(line) + 1 /\ n <= m - 1
         /\ m <= Len(line) => ~ IsValue(line)[m]
         /\ OptionAt(line, n)
         /\ \A k \in 2 .. m - 1 : k \in 2 .. n - 1 \/ k = n \/ ~ OptionAt(line, k)
<1>1. /\ Len(line) \in Nat /\ n \in Nat /\ m \in Nat /\ n >= 2 /\ n <= Len(line)
      /\ ~ IsValue(line)[n]
  BY DEF Passes
<1>2. \A k \in 1 .. Len(line) :
        IsValue(line)[k] <=> k > 2 /\ AwaitsValue(line[k - 1]) /\ ~ IsValue(line)[k - 1]
  BY <1>1, ValuesAre
<1>3. OptionAt(line, n)
  BY <1>1 DEF OptionAt
<1>4. CASE m = n + 1 /\ (n < Len(line) => ~ AwaitsValue(line[n]))
  <2>1. m <= Len(line) => m \in 1 .. Len(line) /\ m - 1 = n /\ n < Len(line)
    BY <1>1, <1>4
  <2>2. m <= Len(line) => ~ IsValue(line)[m]
    BY <1>2, <1>4, <2>1
  <2>3. \A k \in 2 .. m - 1 : k \in 2 .. n - 1 \/ k = n
    BY <1>1, <1>4
  <2>. QED
    BY <1>1, <1>3, <1>4, <2>2, <2>3
<1>5. CASE m = n + 2 /\ n < Len(line) /\ AwaitsValue(line[n])
  <2>1. n + 1 \in 1 .. Len(line) /\ n + 1 > 2 /\ (n + 1) - 1 = n
    BY <1>1, <1>5
  <2>2. IsValue(line)[n + 1]
    BY <1>1, <1>2, <1>5, <2>1
  <2>3. m <= Len(line) => m \in 1 .. Len(line) /\ m - 1 = n + 1
    BY <1>1, <1>5
  <2>4. m <= Len(line) => ~ IsValue(line)[m]
    BY <1>2, <2>2, <2>3
  <2>5. \A k \in 2 .. m - 1 : k \in 2 .. n - 1 \/ k = n \/ k = n + 1
    BY <1>1, <1>5
  <2>6. ~ OptionAt(line, n + 1)
    BY <2>2 DEF OptionAt
  <2>7. \A k \in 2 .. m - 1 : k \in 2 .. n - 1 \/ k = n \/ ~ OptionAt(line, k)
    BY <2>5, <2>6
  <2>. QED
    BY <1>1, <1>3, <1>5, <2>4, <2>7
<1>. QED
  BY <1>4, <1>5 DEF Passes

LEMMA FlagsNext ==
  ASSUME NEW line, NEW n, NEW m, Passes(line, n, m), NEW set, NEW next,
         FlagsGiven(line, n - 1, set),
         \A o \in Options \ HasValue : o \in next <=> o \in set \/ Flagged(line, n, o)
  PROVE  FlagsGiven(line, m - 1, next)
<1> SUFFICES ASSUME NEW o \in Options \ HasValue
             PROVE  o \in next <=> \E k \in 2 .. m - 1 : Flagged(line, k, o)
  BY DEF FlagsGiven
<1>1. /\ n \in Nat /\ m \in Nat /\ n <= m - 1
      /\ \A k \in 2 .. m - 1 : k \in 2 .. n - 1 \/ k = n \/ ~ OptionAt(line, k)
  BY NextOption
<1>2. o \in set <=> \E k \in 2 .. n - 1 : Flagged(line, k, o)
  BY DEF FlagsGiven
<1>3. ASSUME NEW k \in 2 .. m - 1, Flagged(line, k, o)
      PROVE  k \in 2 .. n - 1 \/ k = n
  BY <1>1, <1>3 DEF Flagged
<1>4. n \in 2 .. m - 1 /\ \A k \in 2 .. n - 1 : k \in 2 .. m - 1
  BY <1>1 DEF Passes
<1>. QED
  BY <1>2, <1>3, <1>4

LEMMA ValuesNext ==
  ASSUME NEW line, NEW n, NEW m, Passes(line, n, m),
         NEW set, NEW value, NEW next, NEW nextValue,
         ValuesGiven(line, n - 1, set, value),
         \A o \in HasValue :
           IF Valued(line, n, o) THEN o \in next /\ nextValue[o] = ValueAt(line, n)
           ELSE (o \in next <=> o \in set) /\ nextValue[o] = value[o]
  PROVE  ValuesGiven(line, m - 1, next, nextValue)
<1> SUFFICES ASSUME NEW o \in HasValue
             PROVE  \/ /\ o \notin next
                       /\ nextValue[o] = Default[o]
                       /\ \A k \in 2 .. m - 1 : ~ Valued(line, k, o)
                    \/ /\ o \in next
                       /\ \E k \in 2 .. m - 1 :
                            LastGiven(line, m - 1, o, k) /\ nextValue[o] = ValueAt(line, k)
  BY Zenon DEF ValuesGiven
<1>1. /\ n \in Nat /\ m \in Nat /\ n <= m - 1
      /\ \A k \in 2 .. m - 1 : k \in 2 .. n - 1 \/ k = n \/ ~ OptionAt(line, k)
  BY NextOption
<1>2. ASSUME NEW k \in 2 .. m - 1, Valued(line, k, o)
      PROVE  k \in 2 .. n - 1 \/ k = n
  BY <1>1, <1>2 DEF Valued
<1>3. n \in 2 .. m - 1 /\ \A k \in 2 .. n - 1 : k \in 2 .. m - 1 /\ k <= n
  BY <1>1 DEF Passes
<1>4. CASE Valued(line, n, o)
  <2>1. \A l \in 2 .. m - 1 : Valued(line, l, o) => l <= n
    BY <1>1, <1>2, <1>3
  <2>2. LastGiven(line, m - 1, o, n)
    BY <1>4, <2>1 DEF LastGiven
  <2>. QED
    BY <1>3, <1>4, <2>2
<1>5. CASE ~ Valued(line, n, o)
  <2>1. \A k \in 2 .. m - 1 : Valued(line, k, o) => k \in 2 .. n - 1
    BY <1>2, <1>5
  <2>2. CASE o \notin set /\ value[o] = Default[o] /\ \A k \in 2 .. n - 1 : ~ Valued(line, k, o)
    BY <1>5, <2>1, <2>2
  <2>3. CASE /\ o \in set
             /\ \E k \in 2 .. n - 1 : LastGiven(line, n - 1, o, k) /\ value[o] = ValueAt(line, k)
    <3>1. PICK k \in 2 .. n - 1 : LastGiven(line, n - 1, o, k) /\ value[o] = ValueAt(line, k)
      BY <2>3
    <3>2. LastGiven(line, m - 1, o, k) /\ k \in 2 .. m - 1
      BY <1>3, <2>1, <3>1 DEF LastGiven
    <3>. QED
      BY <1>5, <2>3, <3>1, <3>2
  <2>. QED
    BY <2>2, <2>3 DEF ValuesGiven
<1>. QED
  BY <1>4, <1>5

\* Before the second argument nothing is given.
LEMMA NothingGiven ==
  ASSUME NEW line
  PROVE  FlagsGiven(line, 1, {}) /\ ValuesGiven(line, 1, {}, Default)
  BY DEF FlagsGiven, ValuesGiven

-----------------------------------------------------------------------------
(* What set_option sets, if nothing is wrong, and what it leaves alone.    *)

LEMMA FailErrors ==
  ASSUME NEW st \in OptionStates, NEW kind, NEW name
  PROVE  Fail(st, kind, name).errors # {}
<1> DEFINE error == [kind |-> kind, name |-> name]
<1>1. Fail(st, kind, name) = [st EXCEPT !.errors = @ \cup {error}]
  BY DEF Fail
<1> HIDE DEF error
<1>. QED
  BY <1>1 DEF OptionStates

LEMMA FlagEffect ==
  ASSUME NEW st \in OptionStates, NEW name \in STRING
  PROVE  /\ \A o \in Options \ HasValue : o \in set_option(st, name).has <=> o \in st.has \/ o = name
         /\ set_option(st, name).errors = {} => st.errors = {} /\ name \in Options \ HasValue
<1>1. CASE name \notin Options
  <2>1. /\ set_option(st, name).has = st.has
        /\ set_option(st, name).errors # {}
    BY <1>1, FailType, FailErrors, KindTypes DEF set_option
  <2>. QED
    BY <1>1, <2>1
<1>2. CASE name \in Options \cap HasValue
  <2>1. /\ set_option(st, name).has = st.has
        /\ set_option(st, name).errors # {}
    BY <1>2, FailType, FailErrors, KindTypes DEF set_option
  <2>. QED
    BY <1>2, <2>1
<1>3. CASE name \in Options \ HasValue
  <2>1. set_option(st, name) = [st EXCEPT !.has = @ \cup {name}]
    BY <1>3 DEF set_option
  <2>. QED
    BY <1>3, <2>1 DEF OptionStates
<1>. QED
  BY <1>1, <1>2, <1>3

\* A letter that two options do not share is looked up as the one that has it.
LEMMA LookupIs ==
  ASSUME ~ Ambiguous, NEW o \in Options, short_name[o] # ""
  PROVE  short_name[o] \in Letters /\ lookup(short_name[o]) = o
<1> DEFINE c == short_name[o]
<1>1. c \in Letters
  BY DEF Letters
<1>2. lookup(c) \in Options /\ short_name[lookup(c)] = c
  <2> HIDE DEF c
  <2>. QED
    BY <1>1 DEF Letters, lookup
<1>3. lookup(c) = o
  BY <1>2 DEF Ambiguous
<1>. QED
  BY <1>1, <1>3

LEMMA LetterIs ==
  ASSUME ~ Ambiguous, NEW c \in Letters, NEW o \in Options
  PROVE  /\ short_name[lookup(c)] = c /\ c # ""
         /\ o = lookup(c) <=> short_name[o] = c
<1>1. lookup(c) \in Options /\ short_name[lookup(c)] = c /\ c # ""
  BY DEF Letters, lookup
<1>. QED
  BY <1>1, LookupIs

LEMMA LetterEffect ==
  ASSUME ~ Ambiguous, NEW st \in OptionStates, NEW c \in STRING
  PROVE  /\ \A o \in Options \ HasValue :
              o \in SetLetter(st, c).has <=> o \in st.has \/ (c # "" /\ short_name[o] = c)
         /\ SetLetter(st, c).errors = {} =>
              st.errors = {} /\ c \in Letters /\ lookup(c) \notin HasValue
<1>1. CASE c \in Letters
  <2>1. lookup(c) \in STRING /\ SetLetter(st, c) = set_option(st, lookup(c))
    BY <1>1, LookupType, OptionsAssumption DEF SetLetter
  <2>2. \A o \in Options \ HasValue : o = lookup(c) <=> c # "" /\ short_name[o] = c
    BY <1>1, LetterIs
  <2> DEFINE name == lookup(c)
  <2>3. name \in STRING
    BY <2>1
  <2> HIDE DEF name
  <2>4. /\ \A o \in Options \ HasValue :
             o \in set_option(st, name).has <=> o \in st.has \/ o = name
        /\ set_option(st, name).errors = {} => st.errors = {} /\ name \in Options \ HasValue
    BY <2>3, FlagEffect
  <2>. QED
    BY <1>1, <2>1, <2>2, <2>4 DEF name
<1>2. CASE c \notin Letters
  <2>1. /\ SetLetter(st, c).has = st.has
        /\ SetLetter(st, c).errors # {}
    BY <1>2, FailType, FailErrors, KindTypes DEF SetLetter
  <2>2. \A o \in Options : short_name[o] = c => c = ""
    BY <1>2 DEF Letters
  <2>. QED
    BY <1>2, <2>1, <2>2
<1>. QED
  BY <1>1, <1>2

LEMMA LettersEffect ==
  ASSUME ~ Ambiguous, NEW st \in OptionStates, NEW letters \in Seq(STRING)
  PROVE  /\ \A o \in Options \ HasValue :
              o \in SetLetters(st, letters).has <=>
                o \in st.has \/ (short_name[o] # "" /\ Contains(letters, short_name[o]))
         /\ SetLetters(st, letters).errors = {} => st.errors = {}
<1> DEFINE flags    == UNION {SetLetter(st, c).has : c \in Range(letters)}
           failures == UNION {SetLetter(st, c).errors : c \in Range(letters)}
<1>1. Range(letters) \subseteq STRING
  BY ElementOfSeq DEF Range
<1>2. \A c \in Range(letters), o \in Options \ HasValue :
        o \in SetLetter(st, c).has <=> o \in st.has \/ (c # "" /\ short_name[o] = c)
  BY <1>1, LetterEffect
<1>3. \A o : o \in flags <=> \E c \in Range(letters) : o \in SetLetter(st, c).has
  OBVIOUS
<1>4. \A c : c \in Range(letters) <=> Contains(letters, c)
  BY DEF Range, Contains
<1>5. SetLetters(st, letters) =
        [st EXCEPT !.has = @ \cup flags, !.errors = @ \cup failures]
  BY DEF SetLetters
<1> HIDE DEF flags, failures
<1>6. /\ SetLetters(st, letters).has = st.has \cup flags
      /\ SetLetters(st, letters).errors = st.errors \cup failures
  BY <1>5 DEF OptionStates
<1>7. ASSUME NEW o \in Options \ HasValue
      PROVE  o \in flags \cup st.has <=>
               o \in st.has \/ (short_name[o] # "" /\ Contains(letters, short_name[o]))
  <2>1. \A c \in Range(letters) : o \in SetLetter(st, c).has <=> o \in st.has \/ (c # "" /\ short_name[o] = c)
    BY <1>2
  <2>2. short_name[o] \in Range(letters) <=> Contains(letters, short_name[o])
    BY <1>4
  <2>3. o \in flags <=> \E c \in Range(letters) : o \in SetLetter(st, c).has
    BY <1>3
  <2>. QED
    BY <2>1, <2>2, <2>3
<1>8. SetLetters(st, letters).errors = {} => st.errors = {}
  BY <1>6
<1>9. \A o : o \in SetLetters(st, letters).has <=> o \in flags \cup st.has
  BY <1>6
<1>. QED
  BY <1>7, <1>8, <1>9, Zenon

LEMMA ValueEffect ==
  ASSUME NEW st \in OptionStates, NEW name \in STRING, NEW value \in STRING
  PROVE  /\ \A o \in Options \ HasValue :
              o \in set_option_value(st, name, value).has <=> o \in st.has
         /\ set_option_value(st, name, value).errors = {} =>
              /\ st.errors = {}
              /\ name \in HasValue
              /\ \A o \in HasValue :
                   IF o = name
                     THEN /\ o \in set_option_value(st, name, value).has
                          /\ set_option_value(st, name, value).actual[o] = value
                     ELSE /\ o \in set_option_value(st, name, value).has <=> o \in st.has
                          /\ set_option_value(st, name, value).actual[o] = st.actual[o]
<1>1. CASE name \notin Options
  <2>1. /\ set_option_value(st, name, value).has = st.has
        /\ set_option_value(st, name, value).errors # {}
    BY <1>1, FailType, FailErrors, KindTypes DEF set_option_value
  <2>. QED
    BY <2>1
<1>2. CASE name \in Options /\ (name \notin HasValue \/ ~ Reads(name, value))
  <2>1. /\ set_option_value(st, name, value).has = st.has
        /\ set_option_value(st, name, value).errors # {}
    BY <1>2, FailType, FailErrors, KindTypes DEF set_option_value
  <2>. QED
    BY <2>1
<1>3. CASE name \in Options \cap HasValue /\ Reads(name, value)
  <2> DEFINE newActual == [st.actual EXCEPT ![name] = value]
  <2>1. set_option_value(st, name, value) = [st EXCEPT !.has = @ \cup {name}, !.actual = newActual]
    BY <1>3 DEF set_option_value, OptionStates
  <2>2. \A o \in Options : newActual[o] = IF o = name THEN value ELSE st.actual[o]
    BY DEF OptionStates
  <2> HIDE DEF newActual
  <2>3. /\ set_option_value(st, name, value).has = st.has \cup {name}
        /\ set_option_value(st, name, value).actual = newActual
        /\ set_option_value(st, name, value).errors = st.errors
    BY <2>1 DEF OptionStates
  <2>4. \A o \in HasValue : o \in Options
    BY OptionsAssumption
  <2>. QED
    BY <1>3, <2>2, <2>3, <2>4
<1>. QED
  BY <1>1, <1>2, <1>3

-----------------------------------------------------------------------------
(* The parser goes from option to option, and what it has set so far is    *)
(* what the arguments it has passed give.                                  *)

AsGiven(n) ==
  /\ FlagsGiven(argv, n, has)
  /\ errors = {} => ValuesGiven(argv, n, has, actual)

Ended == pc \in {"parsed", "usage", "error", "ok"}

GivenInvariant ==
  /\ pc = "start" => i = 2 /\ has = {} /\ actual = Default /\ errors = {}
  /\ pc = "parsing" =>
       /\ argc >= 1 /\ ~ Ambiguous
       /\ i <= argc + 1
       /\ i <= argc => ~ IsValue(argv)[i]
       /\ AsGiven(i - 1)
       /\ i = 2 => has = {} /\ errors = {}
  /\ Ended /\ argc >= 1 /\ ~ Ambiguous =>
       /\ AsGiven(argc)
       /\ argc = 1 => (errors # {} <=> Need # {})
  /\ Ended /\ (argc < 1 \/ Ambiguous) => errors # {}
  /\ pc = "usage" => (argc = 1 /\ errors # {}) \/ "help" \in has
  /\ pc \in {"error", "ok"} => "help" \notin has
  /\ pc = "error" => argc # 1
  /\ pc = "ok" => errors = {}

LEMMA GivenInit == Init => GivenInvariant
  BY DEF Init, GivenInvariant, Ended

\* What the option at i, the current one, does to the options.
Takes(st) ==
  /\ \A o \in Options \ HasValue : o \in st.has <=> o \in has \/ Flagged(argv, i, o)
  /\ st.errors = {} =>
       /\ errors = {}
       /\ \A o \in HasValue :
            IF Valued(argv, i, o)
              THEN o \in st.has /\ st.actual[o] = ValueAt(argv, i)
              ELSE (o \in st.has <=> o \in has) /\ st.actual[o] = actual[o]

\* An option with a value: the flags before it are those of the same argument.
LEMMA TakesValue ==
  ASSUME OptionState \in OptionStates, NEW st \in OptionStates,
         NEW name \in STRING, NEW value \in STRING,
         \A o \in Options \ HasValue : o \in st.has <=> o \in has \/ Flagged(argv, i, o),
         \A o \in HasValue : o \in st.has <=> o \in has,
         st.actual = actual,
         st.errors = {} => errors = {},
         \A o \in HasValue : Valued(argv, i, o) <=> o = name,
         ValueAt(argv, i) = value
  PROVE  Takes(set_option_value(st, name, value))
<1> DEFINE next == set_option_value(st, name, value)
<1>1. /\ \A o \in Options \ HasValue : o \in next.has <=> o \in st.has
      /\ next.errors = {} =>
           /\ st.errors = {}
           /\ name \in HasValue
           /\ \A o \in HasValue :
                IF o = name
                  THEN o \in next.has /\ next.actual[o] = value
                  ELSE (o \in next.has <=> o \in st.has) /\ next.actual[o] = st.actual[o]
  BY ValueEffect
<1> HIDE DEF next
<1>2. Takes(next)
  BY <1>1 DEF Takes
<1>. QED
  BY <1>2 DEF next

LEMMA GivenRead ==
  ASSUME Safe, GivenInvariant, pc = "parsing", pc' = pc, argv' = argv,
         Passes(argv, i, i'), NEW st, Becomes(st), Takes(st)
  PROVE  GivenInvariant'
<1>1. /\ argc >= 1 /\ ~ Ambiguous /\ argc' = argc /\ argc = Len(argv)
      /\ AsGiven(i - 1)
      /\ has' = st.has /\ actual' = st.actual /\ errors' = st.errors
  BY DEF GivenInvariant, Becomes, argc
<1>2. /\ i \in Nat /\ i' \in Nat /\ i' <= argc + 1 /\ i <= i' - 1
      /\ i' <= argc => ~ IsValue(argv)[i']
  <2>1. /\ i \in Nat /\ i' \in Nat /\ i' <= Len(argv) + 1 /\ i <= i' - 1
        /\ i' <= Len(argv) => ~ IsValue(argv)[i']
    BY NextOption
  <2>. QED
    BY <1>1, <2>1
<1>3. FlagsGiven(argv, i' - 1, has')
  BY <1>1, FlagsNext DEF AsGiven, Takes
<1>4. errors' = {} => ValuesGiven(argv, i' - 1, has', actual')
  BY <1>1, ValuesNext DEF AsGiven, Takes
<1>5. AsGiven(i - 1)'
  BY <1>3, <1>4 DEF AsGiven
<1>6. i' # 2
  <2> DEFINE n == i
             m == i'
  <2>1. n >= 2 /\ n \in Nat
    BY DEF Passes
  <2>2. m \in Nat /\ n <= m - 1
    BY <1>2
  <2> HIDE DEF n, m
  <2>3. m # 2
    BY <2>1, <2>2
  <2>. QED
    BY <2>3 DEF m
<1>. QED
  BY <1>1, <1>2, <1>5, <1>6 DEF GivenInvariant, Ended

LEMMA GivenStep ==
  ASSUME Safe, GivenInvariant, [Next]_vars
  PROVE  GivenInvariant'
<1>1. /\ argv \in Seq(Argument) /\ argc \in Nat /\ argc = Len(argv)
      /\ i \in Nat /\ i >= 2
      /\ Cardinality(has \cap HasValue) \in Nat
  BY LenProperties, ValuesFinite DEF Safe, TypeOK, ParserInvariant, argc
<1>2. \A k \in 1 .. argc : argv[k] \in Argument
  BY <1>1, ElementOfSeq
<1>3. /\ OptionState \in OptionStates
      /\ OptionState.has = has /\ OptionState.actual = actual /\ OptionState.errors = errors
  BY CurrentState DEF OptionState
<1>4. ASSUME NEW form, Reading(form)
      PROVE  /\ pc = "parsing" /\ pc' = pc /\ argv' = argv /\ i <= argc
             /\ i \in 2 .. argc /\ i \in 1 .. argc /\ argv[i] \in Argument /\ argv[i].form = form
             /\ i < argc => argv[i + 1] \in Argument
             /\ ~ IsValue(argv)[i] /\ ~ Ambiguous
             /\ OptionAt(argv, i)
  BY <1>1, <1>2, <1>4 DEF Reading, GivenInvariant, OptionAt
<1>5. CASE RefuseToParse
  <2>1. /\ errors' # {} /\ pc' = "parsed" /\ argc' = argc /\ (argc < 1 \/ Ambiguous)
    BY <1>3, <1>5, FailErrors DEF RefuseToParse, Becomes, argc
  <2>. QED
    BY <1>1, <2>1 DEF GivenInvariant, Ended
<1>6. CASE StartParsing
  <2>1. /\ pc' = "parsing" /\ argv' = argv /\ argc' = argc /\ argc >= 1 /\ ~ Ambiguous
        /\ i' = 2 /\ has' = {} /\ actual' = Default /\ errors' = {}
    BY <1>6 DEF StartParsing, optionVars, GivenInvariant, argc
  <2>2. 2 <= argc => ~ IsValue(argv)[2]
    <3>1. 2 <= argc => 2 \in 1 .. Len(argv) /\ ~ (2 > 2)
      BY <1>1
    <3>. QED
      BY <1>1, <3>1, ValuesAre
  <2>3. AsGiven(i - 1)'
    <3>1. i' - 1 = 1
      BY <2>1
    <3>. QED
      BY <2>1, <3>1, NothingGiven DEF AsGiven
  <2>. QED
    BY <1>1, <2>1, <2>2, <2>3 DEF GivenInvariant, Ended
<1>7. CASE ReadAssign
  <2> DEFINE st == set_option_value(OptionState, argv[i].name, argv[i].value)
  <2>1. argv[i].name \in STRING /\ argv[i].value \in STRING
    BY <1>4, <1>7 DEF ReadAssign, Argument
  <2>2. ~ AwaitsValue(argv[i])
    BY <1>4, <1>7 DEF ReadAssign, AwaitsValue
  <2>3. argv[i].form = "assign" /\ argv[i].form # "long" /\ argv[i].form # "short"
        /\ OptionAt(argv, i)
    BY <1>4, <1>7 DEF ReadAssign
  <2>4. /\ \A o : ~ Flagged(argv, i, o)
        /\ \A o : Valued(argv, i, o) <=> o = argv[i].name
    BY <2>2, <2>3 DEF Flagged, Valued
  <2>5. ValueAt(argv, i) = argv[i].value
    BY <2>3 DEF ValueAt
  <2>6. Becomes(st) /\ i' = i + 1
    BY <1>7 DEF ReadAssign
  <2>7. Passes(argv, i, i')
    BY <1>1, <1>4, <1>7, <2>2, <2>6 DEF ReadAssign, Passes
  <2> DEFINE name  == argv[i].name
             value == argv[i].value
  <2>8. /\ name \in STRING /\ value \in STRING /\ st = set_option_value(OptionState, name, value)
        /\ ValueAt(argv, i) = value
        /\ \A o : Valued(argv, i, o) <=> o = name
    BY <2>1, <2>4, <2>5
  <2> HIDE DEF st, name, value
  <2>9. Takes(st)
    BY <1>3, <2>4, <2>8, TakesValue
  <2>. QED
    BY <1>4, <1>7, <2>6, <2>7, <2>9, GivenRead DEF ReadAssign
<1>8. CASE ReadLong
  <2> DEFINE name == argv[i].name
  <2>1. name \in STRING /\ (i < argc => argv[i + 1].text \in STRING) /\ argv[i].form = "long"
    BY <1>4, <1>8 DEF ReadLong, Argument
  <2>2. AwaitsValue(argv[i]) <=> name \in HasValue
    BY <2>1 DEF AwaitsValue
  <2>3. /\ \A o \in Options \ HasValue : Flagged(argv, i, o) <=> o = name
        /\ \A o \in HasValue : Valued(argv, i, o) <=> o = name
    BY <1>4, <1>8, <2>1, <2>2 DEF ReadLong, Flagged, Valued
  <2>4. CASE name \in HasValue /\ i < argc
    <3> DEFINE value == argv[i + 1].text
               st    == set_option_value(OptionState, name, value)
    <3>1. value \in STRING /\ ValueAt(argv, i) = value
      BY <2>1, <2>4 DEF ValueAt
    <3>2. Becomes(st) /\ i' = i + 2
      BY <1>8, <2>4 DEF ReadLong
    <3>3. Passes(argv, i, i')
      BY <1>1, <1>4, <1>8, <2>2, <2>4, <3>2 DEF ReadLong, Passes
    <3> HIDE DEF name, value
    <3>4. \A o \in Options \ HasValue : o # name
      BY <2>4
    <3>5. Takes(st)
      BY <1>3, <2>1, <2>3, <3>1, <3>4, ValueEffect DEF Takes
    <3> HIDE DEF st
    <3>. QED
      BY <1>4, <1>8, <3>2, <3>3, <3>5, GivenRead DEF ReadLong
  <2>5. CASE ~ (name \in HasValue /\ i < argc)
    <3> DEFINE st == set_option(OptionState, name)
    <3>1. Becomes(st) /\ i' = i + 1
      BY <1>8, <2>5 DEF ReadLong
    <3>2. Passes(argv, i, i')
      BY <1>1, <1>4, <1>8, <2>2, <2>5, <3>1 DEF ReadLong, Passes
    <3> HIDE DEF name
    <3>3. /\ st.has \cap HasValue = has \cap HasValue
          /\ st.actual = actual
      BY <1>3, <2>1, SetFlag
    <3>4. /\ \A o \in Options \ HasValue : o \in st.has <=> o \in has \/ o = name
          /\ st.errors = {} => errors = {} /\ name \in Options \ HasValue
      BY <1>3, <2>1, FlagEffect
    <3> HIDE DEF st
    <3>5. Takes(st)
      BY <2>3, <3>3, <3>4 DEF Takes
    <3>. QED
      BY <1>4, <1>8, <3>1, <3>2, <3>5, GivenRead DEF ReadLong
  <2>. QED
    BY <2>4, <2>5
<1>9. CASE ReadDash \/ ReadWord
  <2>1. /\ argv[i].form = "word" \/ (argv[i].form = "short" /\ argv[i].letters = << >>)
        /\ \E form : Reading(form)
    BY <1>4, <1>9 DEF ReadDash, ReadWord
  <2>2. ~ AwaitsValue(argv[i])
    BY <2>1 DEF AwaitsValue
  <2>3. \A o : ~ Flagged(argv, i, o) /\ ~ Valued(argv, i, o)
    <3>1. \A o : ~ Contains(<< >>, short_name[o])
      BY DEF Contains
    <3>. QED
      BY <2>1, <2>2, <3>1 DEF Flagged, Valued
  <2>4. Takes(OptionState)
    BY <1>3, <2>3 DEF Takes
  <2>5. Becomes(OptionState) /\ i' = i + 1
    BY <1>9 DEF ReadDash, ReadWord, Becomes, OptionState, optionVars
  <2>6. Passes(argv, i, i')
    BY <1>1, <1>4, <2>1, <2>2, <2>5 DEF Passes
  <2>. QED
    BY <1>4, <2>1, <2>4, <2>5, <2>6, GivenRead
<1>10. CASE ReadShort
  <2> DEFINE letters == argv[i].letters
             last    == Last(letters)
             flags   == SetLetters(OptionState, Front(letters))
  <2>1. letters \in Seq(STRING) /\ (i < argc => argv[i + 1].text \in STRING)
        /\ argv[i].form = "short" /\ letters # << >>
    BY <1>4, <1>10 DEF ReadShort, Argument
  <2>2. Len(letters) \in Nat \ {0} /\ \A k \in 1 .. Len(letters) : letters[k] \in STRING
    BY <2>1, LenProperties, ElementOfSeq, EmptySeq
  <2>3. last \in STRING /\ Front(letters) \in Seq(STRING)
    BY <2>1, <2>2, SubSeqProperties DEF Last, Front
  <2>4. \A c : Contains(letters, c) <=> Contains(Front(letters), c) \/ c = last
    <3>1. /\ Len(Front(letters)) = Len(letters) - 1
          /\ \A k \in 1 .. Len(letters) - 1 : Front(letters)[k] = letters[k]
      BY <2>1, <2>2, SubSeqProperties DEF Front
    <3>2. \A k \in 1 .. Len(letters) : k \in 1 .. Len(letters) - 1 \/ k = Len(letters)
      BY <2>2
    <3>3. last = letters[Len(letters)] /\ Len(letters) \in 1 .. Len(letters)
      BY <2>2 DEF Last
    <3>4. \A k \in 1 .. Len(letters) - 1 : k \in 1 .. Len(letters)
      BY <2>2
    <3> HIDE DEF letters, last
    <3>. QED
      BY <3>1, <3>2, <3>3, <3>4 DEF Contains
  <2>5. AwaitsValue(argv[i]) <=> last \in Letters /\ lookup(last) \in HasValue
    BY <2>1 DEF AwaitsValue
  <2>6. /\ \A o \in Options \ HasValue :
             Flagged(argv, i, o) <=> short_name[o] # "" /\ Contains(letters, short_name[o])
        /\ \A o : Valued(argv, i, o) <=> AwaitsValue(argv[i]) /\ o = lookup(last)
    BY <1>4, <1>10, <2>1 DEF ReadShort, Flagged, Valued
  <2>7. ~ Ambiguous
    BY <1>4, <1>10 DEF ReadShort
  <2>8. Becomes(IF last \in Letters /\ lookup(last) \in HasValue /\ i < argc
                  THEN set_option_value(flags, lookup(last), argv[i + 1].text)
                  ELSE SetLetter(flags, last))
    BY <1>10 DEF ReadShort
  <2>9. i' = IF last \in Letters /\ lookup(last) \in HasValue /\ i < argc THEN i + 2 ELSE i + 1
    BY <1>10 DEF ReadShort
  <2> DEFINE front == Front(letters)
  <2> HIDE DEF letters, last
  <2>10. front \in Seq(STRING)
    BY <2>3
  <2> HIDE DEF front
  <2>11. /\ SetLetters(OptionState, front) \in OptionStates
         /\ SetLetters(OptionState, front).has \cap HasValue = has \cap HasValue
         /\ SetLetters(OptionState, front).actual = actual
         /\ \A o \in Options \ HasValue :
              o \in SetLetters(OptionState, front).has <=>
                o \in has \/ (short_name[o] # "" /\ Contains(front, short_name[o]))
         /\ SetLetters(OptionState, front).errors = {} => errors = {}
    BY <1>3, <2>7, <2>10, SetFlagLetters, LettersEffect
  <2>12. /\ flags \in OptionStates
         /\ flags.has \cap HasValue = has \cap HasValue
         /\ flags.actual = actual
         /\ \A o \in Options \ HasValue :
              o \in flags.has <=>
                o \in has \/ (short_name[o] # "" /\ Contains(Front(letters), short_name[o]))
         /\ flags.errors = {} => errors = {}
    BY <2>11 DEF front
  <2>13. Passes(argv, i, i')
    BY <1>1, <1>4, <1>10, <2>5, <2>9 DEF ReadShort, Passes
  <2> HIDE DEF flags
  <2>14. CASE last \in Letters /\ lookup(last) \in HasValue /\ i < argc
    <3> DEFINE name  == lookup(last)
               value == argv[i + 1].text
               st    == set_option_value(flags, name, value)
    <3>1. name \in STRING /\ value \in STRING /\ ValueAt(argv, i) = value
      BY <2>1, <2>14, OptionsAssumption DEF ValueAt
    <3>2. Becomes(st)
      BY <2>8, <2>14
    <3>3. \A o \in Options \ HasValue : short_name[o] # last
      BY <2>7, <2>14, LetterIs
    <3>4. \A o \in HasValue : Valued(argv, i, o) <=> o = name
      BY <2>5, <2>6, <2>14
    <3> HIDE DEF name, value
    <3>5. \A o \in Options \ HasValue : o \in flags.has <=> o \in has \/ Flagged(argv, i, o)
      BY <2>4, <2>6, <2>12, <3>3
    <3>6. \A o \in HasValue : o \in flags.has <=> o \in has
      BY <2>12
    <3>7. Takes(st)
      BY <1>3, <2>12, <3>1, <3>4, <3>5, <3>6, TakesValue
    <3> HIDE DEF st
    <3>. QED
      BY <1>4, <1>10, <2>13, <3>2, <3>7, GivenRead DEF ReadShort
  <2>15. CASE ~ (last \in Letters /\ lookup(last) \in HasValue /\ i < argc)
    <3> DEFINE st == SetLetter(flags, last)
    <3>1. Becomes(st)
      BY <2>8, <2>15
    <3>2. /\ st.has \cap HasValue = has \cap HasValue
          /\ st.actual = actual
          /\ \A o \in Options \ HasValue :
               o \in st.has <=> o \in flags.has \/ (last # "" /\ short_name[o] = last)
          /\ st.errors = {} => flags.errors = {} /\ last \in Letters /\ lookup(last) \notin HasValue
      BY <2>3, <2>7, <2>12, SetFlagLetter, LetterEffect
    <3> HIDE DEF st
    <3>3. Takes(st)
      BY <2>4, <2>5, <2>6, <2>12, <3>2 DEF Takes
    <3>. QED
      BY <1>4, <1>10, <2>13, <3>1, <3>3, GivenRead DEF ReadShort
  <2>. QED
    BY <2>14, <2>15
<1>11. CASE Validate
  <2> DEFINE missing == {[kind |-> "need option", name |-> o] : o \in Need \ has}
  <2>1. /\ errors' = errors \cup missing /\ pc = "parsing" /\ pc' = "parsed" /\ i > argc
        /\ argv' = argv /\ i' = i /\ has' = has /\ actual' = actual /\ argc' = argc
    BY <1>11 DEF Validate, argc
  <2>2. missing = {} <=> Need \subseteq has
    OBVIOUS
  <2>3. i - 1 = argc /\ argc >= 1 /\ ~ Ambiguous /\ AsGiven(argc)
    <3>1. argc >= 1 /\ ~ Ambiguous /\ AsGiven(i - 1)
      BY <2>1, Zenon DEF GivenInvariant
    <3>2. i <= argc + 1 /\ i > argc
      BY <2>1, Zenon DEF GivenInvariant
    <3>3. i - 1 = argc
      BY <1>1, <3>2
    <3>. QED
      BY <3>1, <3>3, Zenon
  <2>4. argc = 1 => has = {} /\ errors = {}
    <3>1. i = 2 => has = {} /\ errors = {}
      BY <2>1, Zenon DEF GivenInvariant
    <3>2. argc = 1 => i = 2
      BY <1>1, <2>3
    <3>. QED
      BY <3>1, <3>2
  <2> HIDE DEF missing
  <2>5. AsGiven(argc)'
    BY <2>1, <2>3 DEF AsGiven
  <2>6. argc = 1 => (errors' # {} <=> Need # {})
    <3>1. argc = 1 => (errors' # {} <=> missing # {}) /\ (missing # {} <=> Need # {})
      BY <2>1, <2>2, <2>4
    <3>. QED
      BY <3>1, Zenon
  <2>7. /\ argc' = argc /\ argc >= 1 /\ ~ Ambiguous /\ pc' = "parsed"
        /\ argc' = 1 => (errors' # {} <=> Need # {})
    BY <2>1, <2>3, <2>6, Zenon
  <2>8. /\ pc' \notin {"start", "parsing", "usage", "error", "ok"}
        /\ ~ (argc' < 1 \/ Ambiguous)
    BY <1>1, <2>7
  <2>. QED
    BY <2>5, <2>7, <2>8, Zenon DEF GivenInvariant, Ended
<1>12. CASE PrintUsage \/ PrintError \/ Accept
  <2>1. /\ Ended /\ pc = "parsed" /\ argv' = argv /\ argc' = argc /\ has' = has
        /\ actual' = actual /\ errors' = errors /\ pc' \in {"usage", "error", "ok"}
    BY <1>12 DEF PrintUsage, PrintError, Accept, Check, optionVars, argc, Ended
  <2>2. AsGiven(argc)' <=> AsGiven(argc)
    BY <2>1 DEF AsGiven
  <2>. QED
    BY <1>12, <2>1, <2>2 DEF PrintUsage, PrintError, Accept, Check, GivenInvariant, Ended
<1>13. CASE UNCHANGED vars
  <2>1. /\ pc' = pc /\ argv' = argv /\ argc' = argc /\ i' = i /\ has' = has
        /\ actual' = actual /\ errors' = errors
    BY <1>13 DEF vars, optionVars, argc
  <2>2. (AsGiven(argc)' <=> AsGiven(argc)) /\ (AsGiven(i - 1)' <=> AsGiven(i - 1))
    BY <2>1 DEF AsGiven
  <2>. QED
    BY <2>1, <2>2 DEF GivenInvariant, Ended
<1>. QED
  BY <1>5, <1>6, <1>7, <1>8, <1>9, <1>10, <1>11, <1>12, <1>13 DEF Next

LEMMA GivenCorrect == Spec => [](Safe /\ GivenInvariant)
  BY SafeInit, SafeStep, GivenInit, GivenStep, PTL DEF Spec

\* What is accepted is without errors.
LEMMA AcceptedIsFaultless == Spec => [](pc = "ok" => errors = {})
<1>1. GivenInvariant => (pc = "ok" => errors = {})
  BY DEF GivenInvariant
<1>. QED
  BY <1>1, GivenCorrect, PTL

\* For every command line, of any length and however values, options and groups
\* of letters follow each other: an accepted one sets exactly the options that it
\* gives, each to the last value that it gives for it.
THEOREM SetAsGiven == Spec => []ParsedAsGiven
<1>1. Safe /\ GivenInvariant => ParsedAsGiven
  <2> SUFFICES ASSUME Safe, GivenInvariant, pc = "ok", NEW o \in Options
               PROVE  LET at == {k \in 2 .. argc : Valued(argv, k, o)}
                      IN  IF o \in HasValue
                            THEN /\ o \in has <=> at # {}
                                 /\ actual[o] = IF at = {} THEN Default[o]
                                    ELSE ValueAt(argv, CHOOSE k \in at : \A l \in at : l <= k)
                            ELSE o \in has <=> \E k \in 2 .. argc : Flagged(argv, k, o)
    BY Zenon DEF ParsedAsGiven
  <2>1. FlagsGiven(argv, argc, has) /\ ValuesGiven(argv, argc, has, actual)
    <3>1. argc >= 1
      BY DEF Safe, ParserInvariant
    <3>2. errors = {} /\ Ended
      BY DEF GivenInvariant, Ended
    <3>3. ~ Ambiguous
      BY <3>2, Zenon DEF GivenInvariant
    <3>4. AsGiven(argc)
      BY <3>1, <3>2, <3>3, Zenon DEF GivenInvariant
    <3>. QED
      BY <3>2, <3>4 DEF AsGiven
  <2> DEFINE at == {k \in 2 .. argc : Valued(argv, k, o)}
  <2>2. CASE o \in HasValue
    <3>1. CASE /\ o \notin has /\ actual[o] = Default[o]
               /\ \A k \in 2 .. argc : ~ Valued(argv, k, o)
      <4>1. at = {}
        BY <3>1
      <4>. QED
        BY <2>2, <3>1, <4>1
    <3>2. CASE /\ o \in has
               /\ \E k \in 2 .. argc : LastGiven(argv, argc, o, k) /\ actual[o] = ValueAt(argv, k)
      <4>1. PICK k \in 2 .. argc : LastGiven(argv, argc, o, k) /\ actual[o] = ValueAt(argv, k)
        BY <3>2
      <4>2. k \in at /\ \A l \in at : l <= k
        BY <4>1 DEF LastGiven
      <4>3. \A j \in at : (\A l \in at : l <= j) => j = k
        BY <4>2
      <4> HIDE DEF at
      <4>4. (CHOOSE j \in at : \A l \in at : l <= j) = k
        BY <4>2, <4>3
      <4>. QED
        BY <2>2, <3>2, <4>1, <4>2, <4>4 DEF at
    <3>. QED
      BY <2>1, <2>2, <3>1, <3>2 DEF ValuesGiven
  <2>3. CASE o \notin HasValue
    BY <2>1, <2>3 DEF FlagsGiven
  <2>. QED
    BY <2>2, <2>3
<1>. QED
  BY <1>1, GivenCorrect, PTL

\* For every command line: the usage is printed if help is asked for anywhere
\* but in the place of a value, whatever else is wrong, or if nothing is given
\* though something is needed, and only then.
THEOREM HelpFirst == Spec => []HelpWins
<1>1. Safe /\ GivenInvariant => HelpWins
  <2> SUFFICES ASSUME Safe, GivenInvariant, pc \in {"usage", "error", "ok"}, argc >= 1, ~ Ambiguous
               PROVE  pc = "usage" <=> \/ argc = 1 /\ Need # {}
                                       \/ \E k \in 2 .. argc : Flagged(argv, k, "help")
    BY DEF HelpWins
  <2>1. /\ FlagsGiven(argv, argc, has)
        /\ argc = 1 => (errors # {} <=> Need # {})
    BY DEF GivenInvariant, Ended, AsGiven
  <2>2. "help" \in has <=> \E k \in 2 .. argc : Flagged(argv, k, "help")
    BY <2>1, OptionsAssumption DEF FlagsGiven
  <2>. QED
    BY <2>1, <2>2 DEF GivenInvariant
<1>. QED
  BY <1>1, GivenCorrect, PTL

-----------------------------------------------------------------------------
(* The values that are refused.                                            *)

Invalid(o) == [kind |-> "option value is invalid", name |-> o]

LEMMA FailAdds ==
  ASSUME NEW st \in OptionStates, NEW kind, NEW name
  PROVE  Fail(st, kind, name).errors = st.errors \cup {[kind |-> kind, name |-> name]}
  BY DEF Fail, OptionStates

LEMMA OtherKind ==
  ASSUME NEW st \in OptionStates, NEW kind, NEW name, kind # "option value is invalid"
  PROVE  \A o : Invalid(o) \in Fail(st, kind, name).errors <=> Invalid(o) \in st.errors
<1> DEFINE e == [kind |-> kind, name |-> name]
<1>1. \A o : Invalid(o) # e
  BY DEF Invalid
<1>2. Fail(st, kind, name).errors = st.errors \cup {e}
  BY FailAdds
<1> HIDE DEF e
<1>. QED
  BY <1>1, <1>2, Zenon

\* Flags refuse no values.
LEMMA FlagRefuses ==
  ASSUME NEW st \in OptionStates, NEW name \in STRING
  PROVE  \A o : Invalid(o) \in set_option(st, name).errors <=> Invalid(o) \in st.errors
<1>1. CASE name \notin Options
  BY <1>1, OtherKind DEF set_option
<1>2. CASE name \in Options \cap HasValue
  BY <1>2, OtherKind DEF set_option
<1>3. CASE name \in Options \ HasValue
  <2>1. set_option(st, name) = [st EXCEPT !.has = @ \cup {name}]
    BY <1>3 DEF set_option
  <2>. QED
    BY <2>1 DEF OptionStates
<1>. QED
  BY <1>1, <1>2, <1>3

LEMMA LetterRefuses ==
  ASSUME NEW st \in OptionStates, NEW c \in STRING
  PROVE  \A o : Invalid(o) \in SetLetter(st, c).errors <=> Invalid(o) \in st.errors
<1>1. CASE c \in Letters
  <2>1. lookup(c) \in STRING /\ SetLetter(st, c) = set_option(st, lookup(c))
    BY <1>1, LookupType, OptionsAssumption DEF SetLetter
  <2>. QED
    BY <2>1, FlagRefuses
<1>2. CASE c \notin Letters
  BY <1>2, OtherKind DEF SetLetter
<1>. QED
  BY <1>1, <1>2

LEMMA LettersRefuse ==
  ASSUME NEW st \in OptionStates, NEW letters \in Seq(STRING)
  PROVE  \A o : Invalid(o) \in SetLetters(st, letters).errors <=> Invalid(o) \in st.errors
<1> DEFINE flags    == UNION {SetLetter(st, c).has : c \in Range(letters)}
           failures == UNION {SetLetter(st, c).errors : c \in Range(letters)}
<1>1. Range(letters) \subseteq STRING
  BY ElementOfSeq DEF Range
<1>2. \A o : Invalid(o) \in failures => Invalid(o) \in st.errors
  <2>1. \A c \in Range(letters) : \A o :
          Invalid(o) \in SetLetter(st, c).errors <=> Invalid(o) \in st.errors
    BY <1>1, LetterRefuses
  <2>. QED
    BY <2>1, Zenon
<1>3. SetLetters(st, letters) =
        [st EXCEPT !.has = @ \cup flags, !.errors = @ \cup failures]
  BY DEF SetLetters
<1> HIDE DEF flags, failures
<1>4. SetLetters(st, letters).errors = st.errors \cup failures
  BY <1>3 DEF OptionStates
<1>. QED
  BY <1>2, <1>4

LEMMA ValueRefuses ==
  ASSUME NEW st \in OptionStates, NEW name \in STRING, NEW value \in STRING
  PROVE  \A o \in HasValue :
           Invalid(o) \in set_option_value(st, name, value).errors
             <=> Invalid(o) \in st.errors \/ (o = name /\ ~ Reads(name, value))
<1>0. HasValue \subseteq Options
  BY OptionsAssumption
<1>1. CASE name \notin Options
  BY <1>0, <1>1, OtherKind DEF set_option_value
<1>2. CASE name \in Options /\ (name \notin HasValue \/ ~ Reads(name, value))
  <2>1. set_option_value(st, name, value).errors = st.errors \cup {Invalid(name)}
    BY <1>2, FailAdds DEF set_option_value, Invalid
  <2>2. \A o : Invalid(o) = Invalid(name) <=> o = name
    BY DEF Invalid
  <2>. QED
    BY <1>2, <2>1, <2>2
<1>3. CASE name \in Options \cap HasValue /\ Reads(name, value)
  <2> DEFINE newActual == [st.actual EXCEPT ![name] = value]
  <2>1. set_option_value(st, name, value) = [st EXCEPT !.has = @ \cup {name}, !.actual = newActual]
    BY <1>3 DEF set_option_value, OptionStates
  <2> HIDE DEF newActual
  <2>2. set_option_value(st, name, value).errors = st.errors
    BY <2>1 DEF OptionStates
  <2>. QED
    BY <1>3, <2>2
<1>. QED
  BY <1>1, <1>2, <1>3

\* The invalid values are those that the arguments up to n give.
RefusedUpTo(line, n, failures) ==
  \A o \in HasValue :
    Invalid(o) \in failures <=> \E k \in 2 .. n : Refused(line, k, o)

RefusedInvariant ==
  /\ pc = "parsing" => RefusedUpTo(argv, i - 1, errors)
  /\ Ended /\ argc >= 1 /\ ~ Ambiguous => RefusedUpTo(argv, argc, errors)

LEMMA RefusedNext ==
  ASSUME NEW line, NEW n, NEW m, Passes(line, n, m), NEW before, NEW after,
         RefusedUpTo(line, n - 1, before),
         \A o \in HasValue :
           Invalid(o) \in after <=> Invalid(o) \in before \/ Refused(line, n, o)
  PROVE  RefusedUpTo(line, m - 1, after)
<1> SUFFICES ASSUME NEW o \in HasValue
             PROVE  Invalid(o) \in after <=> \E k \in 2 .. m - 1 : Refused(line, k, o)
  BY DEF RefusedUpTo
<1>1. /\ n \in Nat /\ m \in Nat /\ n <= m - 1
      /\ \A k \in 2 .. m - 1 : k \in 2 .. n - 1 \/ k = n \/ ~ OptionAt(line, k)
  BY NextOption
<1>2. n \in 2 .. m - 1 /\ \A k \in 2 .. n - 1 : k \in 2 .. m - 1
  <2>1. n >= 2
    BY DEF Passes
  <2>. QED
    BY <1>1, <2>1
<1>3. \A k : Refused(line, k, o) => OptionAt(line, k)
  BY DEF Refused, Valued
<1>4. Invalid(o) \in before <=> \E k \in 2 .. n - 1 : Refused(line, k, o)
  BY DEF RefusedUpTo
<1>. QED
  BY <1>1, <1>2, <1>3, <1>4, Zenon

LEMMA RefusedRead ==
  ASSUME RefusedInvariant, pc = "parsing", pc' = pc, argv' = argv, Passes(argv, i, i'),
         NEW st, Becomes(st),
         \A o \in HasValue :
           Invalid(o) \in st.errors <=> Invalid(o) \in errors \/ Refused(argv, i, o)
  PROVE  RefusedInvariant'
<1>1. RefusedUpTo(argv, i - 1, errors) /\ errors' = st.errors
  BY DEF RefusedInvariant, Becomes
<1>2. RefusedUpTo(argv, i' - 1, st.errors)
  BY <1>1, RefusedNext
<1>. QED
  BY <1>1, <1>2 DEF RefusedInvariant, Ended

LEMMA RefusedStep ==
  ASSUME Safe, GivenInvariant, RefusedInvariant, [Next]_vars
  PROVE  RefusedInvariant'
<1>1. /\ argv \in Seq(Argument) /\ argc \in Nat /\ argc = Len(argv)
      /\ i \in Nat /\ i >= 2
      /\ Cardinality(has \cap HasValue) \in Nat
  BY LenProperties, ValuesFinite DEF Safe, TypeOK, ParserInvariant, argc
<1>2. \A k \in 1 .. argc : argv[k] \in Argument
  BY <1>1, ElementOfSeq
<1>3. OptionState \in OptionStates /\ OptionState.errors = errors
  BY CurrentState DEF OptionState
<1>4. ASSUME NEW form, Reading(form)
      PROVE  /\ pc = "parsing" /\ pc' = pc /\ argv' = argv /\ i <= argc
             /\ i \in 2 .. argc /\ i \in 1 .. argc /\ argv[i] \in Argument /\ argv[i].form = form
             /\ i < argc => argv[i + 1] \in Argument
             /\ ~ IsValue(argv)[i] /\ ~ Ambiguous
             /\ OptionAt(argv, i)
  BY <1>1, <1>2, <1>4 DEF Reading, GivenInvariant, OptionAt
<1>5. CASE RefuseToParse
  <2>1. pc' = "parsed" /\ argc' = argc /\ (argc < 1 \/ Ambiguous)
    BY <1>5 DEF RefuseToParse, argc
  <2>. QED
    BY <1>1, <2>1 DEF RefusedInvariant, Ended
<1>6. CASE StartParsing
  <2>1. pc' = "parsing" /\ argv' = argv /\ i' = 2 /\ errors' = {}
    BY <1>6 DEF StartParsing, optionVars, GivenInvariant
  <2>2. \A k \in 2 .. i' - 1 : FALSE
    BY <2>1
  <2>3. RefusedUpTo(argv, i' - 1, errors')
    BY <2>1, <2>2 DEF RefusedUpTo
  <2>. QED
    BY <2>1, <2>3 DEF RefusedInvariant, Ended
<1>7. CASE ReadAssign
  <2> DEFINE name  == argv[i].name
             value == argv[i].value
             st    == set_option_value(OptionState, name, value)
  <2>1. /\ name \in STRING /\ value \in STRING /\ ~ AwaitsValue(argv[i])
        /\ argv[i].form = "assign" /\ OptionAt(argv, i)
    BY <1>4, <1>7 DEF ReadAssign, Argument, AwaitsValue
  <2>2. \A o : Valued(argv, i, o) <=> o = name
    BY <2>1 DEF Valued
  <2>3. ValueAt(argv, i) = value
    BY <2>1 DEF ValueAt
  <2>4. \A o : Refused(argv, i, o) <=> o = name /\ ~ Reads(name, value)
    BY <2>1, <2>2, <2>3 DEF Refused
  <2>5. Becomes(st) /\ i' = i + 1
    BY <1>7 DEF ReadAssign
  <2>6. Passes(argv, i, i')
    BY <1>1, <1>4, <1>7, <2>1, <2>5 DEF ReadAssign, Passes
  <2> HIDE DEF name, value
  <2>7. \A o \in HasValue :
          Invalid(o) \in st.errors <=> Invalid(o) \in errors \/ Refused(argv, i, o)
    BY <1>3, <2>1, <2>4, ValueRefuses
  <2> HIDE DEF st
  <2>. QED
    BY <1>4, <1>7, <2>5, <2>6, <2>7, RefusedRead DEF ReadAssign
<1>8. CASE ReadLong
  <2> DEFINE name == argv[i].name
  <2>1. name \in STRING /\ (i < argc => argv[i + 1].text \in STRING) /\ argv[i].form = "long"
    BY <1>4, <1>8 DEF ReadLong, Argument
  <2>2. AwaitsValue(argv[i]) <=> name \in HasValue
    BY <2>1 DEF AwaitsValue
  <2>3. \A o \in HasValue : Valued(argv, i, o) <=> o = name
    BY <1>4, <1>8, <2>1, <2>2 DEF ReadLong, Valued
  <2>4. CASE name \in HasValue /\ i < argc
    <3> DEFINE value == argv[i + 1].text
               st    == set_option_value(OptionState, name, value)
    <3>1. value \in STRING /\ ValueAt(argv, i) = value
      BY <2>1, <2>4 DEF ValueAt
    <3>2. Becomes(st) /\ i' = i + 2
      BY <1>8, <2>4 DEF ReadLong
    <3>3. Passes(argv, i, i')
      BY <1>1, <1>4, <1>8, <2>2, <2>4, <3>2 DEF ReadLong, Passes
    <3> HIDE DEF name, value
    <3>4. \A o \in HasValue : Refused(argv, i, o) <=> o = name /\ ~ Reads(name, value)
      BY <1>1, <2>1, <2>3, <2>4, <3>1 DEF Refused
    <3>5. \A o \in HasValue :
            Invalid(o) \in st.errors <=> Invalid(o) \in errors \/ Refused(argv, i, o)
      BY <1>3, <2>1, <3>1, <3>4, ValueRefuses
    <3> HIDE DEF st
    <3>. QED
      BY <1>4, <1>8, <3>2, <3>3, <3>5, RefusedRead DEF ReadLong
  <2>5. CASE ~ (name \in HasValue /\ i < argc)
    <3> DEFINE st == set_option(OptionState, name)
    <3>1. Becomes(st) /\ i' = i + 1
      BY <1>8, <2>5 DEF ReadLong
    <3>2. Passes(argv, i, i')
      BY <1>1, <1>4, <1>8, <2>2, <2>5, <3>1 DEF ReadLong, Passes
    <3> HIDE DEF name
    <3>3. \A o \in HasValue : ~ Refused(argv, i, o)
      BY <1>1, <2>1, <2>3, <2>5 DEF Refused
    <3>4. \A o : Invalid(o) \in st.errors <=> Invalid(o) \in errors
      BY <1>3, <2>1, FlagRefuses
    <3> HIDE DEF st
    <3>. QED
      BY <1>4, <1>8, <3>1, <3>2, <3>3, <3>4, RefusedRead DEF ReadLong
  <2>. QED
    BY <2>4, <2>5
<1>9. CASE ReadDash \/ ReadWord
  <2>1. /\ argv[i].form = "word" \/ (argv[i].form = "short" /\ argv[i].letters = << >>)
        /\ \E form : Reading(form)
    BY <1>4, <1>9 DEF ReadDash, ReadWord
  <2>2. ~ AwaitsValue(argv[i])
    BY <2>1 DEF AwaitsValue
  <2>3. \A o : ~ Refused(argv, i, o)
    BY <2>1, <2>2 DEF Refused, Valued
  <2>4. Becomes(OptionState) /\ i' = i + 1
    BY <1>9 DEF ReadDash, ReadWord, Becomes, OptionState, optionVars
  <2>5. Passes(argv, i, i')
    BY <1>1, <1>4, <2>1, <2>2, <2>4 DEF Passes
  <2>. QED
    BY <1>3, <1>4, <2>1, <2>3, <2>4, <2>5, RefusedRead
<1>10. CASE ReadShort
  <2> DEFINE letters == argv[i].letters
             last    == Last(letters)
             front   == Front(letters)
             flags   == SetLetters(OptionState, front)
  <2>1. letters \in Seq(STRING) /\ (i < argc => argv[i + 1].text \in STRING)
        /\ argv[i].form = "short" /\ letters # << >>
    BY <1>4, <1>10 DEF ReadShort, Argument
  <2>2. Len(letters) \in Nat \ {0} /\ \A k \in 1 .. Len(letters) : letters[k] \in STRING
    BY <2>1, LenProperties, ElementOfSeq, EmptySeq
  <2>3. last \in STRING /\ front \in Seq(STRING)
    BY <2>1, <2>2, SubSeqProperties DEF Last, Front
  <2>4. AwaitsValue(argv[i]) <=> last \in Letters /\ lookup(last) \in HasValue
    BY <2>1 DEF AwaitsValue
  <2>5. \A o : Valued(argv, i, o) <=> AwaitsValue(argv[i]) /\ o = lookup(last)
    BY <1>4, <1>10, <2>1 DEF ReadShort, Valued
  <2>6. Becomes(IF last \in Letters /\ lookup(last) \in HasValue /\ i < argc
                  THEN set_option_value(flags, lookup(last), argv[i + 1].text)
                  ELSE SetLetter(flags, last))
    BY <1>10 DEF ReadShort
  <2>7. i' = IF last \in Letters /\ lookup(last) \in HasValue /\ i < argc THEN i + 2 ELSE i + 1
    BY <1>10 DEF ReadShort
  <2>8. Passes(argv, i, i')
    BY <1>1, <1>4, <1>10, <2>4, <2>7 DEF ReadShort, Passes
  <2> HIDE DEF letters, last, front
  <2>9. /\ flags \in OptionStates
        /\ \A o : Invalid(o) \in flags.errors <=> Invalid(o) \in errors
    BY <1>3, <2>3, SetFlagLetters, LettersRefuse
  <2> HIDE DEF flags
  <2>10. CASE last \in Letters /\ lookup(last) \in HasValue /\ i < argc
    <3> DEFINE name  == lookup(last)
               value == argv[i + 1].text
               st    == set_option_value(flags, name, value)
    <3>1. name \in STRING /\ value \in STRING /\ ValueAt(argv, i) = value
      BY <2>1, <2>10, OptionsAssumption DEF ValueAt
    <3>2. Becomes(st)
      BY <2>6, <2>10
    <3>3. \A o : Valued(argv, i, o) <=> o = name
      BY <2>4, <2>5, <2>10
    <3> HIDE DEF name, value
    <3>4. \A o \in HasValue : Refused(argv, i, o) <=> o = name /\ ~ Reads(name, value)
      BY <1>1, <2>10, <3>1, <3>3 DEF Refused
    <3>5. \A o \in HasValue :
            Invalid(o) \in st.errors <=> Invalid(o) \in errors \/ Refused(argv, i, o)
      BY <2>9, <3>1, <3>4, ValueRefuses
    <3> HIDE DEF st
    <3>. QED
      BY <1>4, <1>10, <2>8, <3>2, <3>5, RefusedRead DEF ReadShort
  <2>11. CASE ~ (last \in Letters /\ lookup(last) \in HasValue /\ i < argc)
    <3> DEFINE st == SetLetter(flags, last)
    <3>1. Becomes(st)
      BY <2>6, <2>11
    <3>2. \A o : ~ Refused(argv, i, o)
      BY <1>1, <2>1, <2>4, <2>5, <2>11 DEF Refused
    <3>3. \A o : Invalid(o) \in st.errors <=> Invalid(o) \in errors
      BY <2>3, <2>9, LetterRefuses
    <3> HIDE DEF st
    <3>. QED
      BY <1>4, <1>10, <2>8, <3>1, <3>2, <3>3, RefusedRead DEF ReadShort
  <2>. QED
    BY <2>10, <2>11
<1>11. CASE Validate
  <2>1. /\ pc = "parsing" /\ pc' = "parsed" /\ i > argc /\ argv' = argv /\ argc' = argc
        /\ errors' = errors \cup {[kind |-> "need option", name |-> o] : o \in Need \ has}
    BY <1>11 DEF Validate, argc
  <2>2. \A o : Invalid(o) \in errors' <=> Invalid(o) \in errors
    BY <2>1 DEF Invalid
  <2>3. i - 1 = argc
    <3>1. i <= argc + 1 /\ i > argc
      BY <2>1, Zenon DEF GivenInvariant
    <3>. QED
      BY <1>1, <3>1
  <2>4. RefusedUpTo(argv, argc, errors)
    BY <2>1, <2>3 DEF RefusedInvariant
  <2>5. RefusedUpTo(argv, argc, errors')
    BY <2>2, <2>4, Zenon DEF RefusedUpTo
  <2>. QED
    BY <2>1, <2>5 DEF RefusedInvariant, Ended
<1>12. CASE PrintUsage \/ PrintError \/ Accept
  <2>1. Ended /\ argv' = argv /\ argc' = argc /\ errors' = errors /\ pc' # "parsing"
    BY <1>12 DEF PrintUsage, PrintError, Accept, Check, optionVars, argc, Ended
  <2>. QED
    BY <2>1 DEF RefusedInvariant
<1>13. CASE UNCHANGED vars
  <2>1. pc' = pc /\ argv' = argv /\ argc' = argc /\ i' = i /\ errors' = errors
    BY <1>13 DEF vars, optionVars, argc
  <2>. QED
    BY <2>1 DEF RefusedInvariant, Ended
<1>. QED
  BY <1>5, <1>6, <1>7, <1>8, <1>9, <1>10, <1>11, <1>12, <1>13 DEF Next

\* For every command line and every reader: an option has an invalid value among
\* the errors exactly if some value that is given for it is refused, also one
\* that a later value replaces.
THEOREM EachValueIsRead == Spec => []ValuesAreRead
<1>1. Init => RefusedInvariant
  BY DEF Init, RefusedInvariant, Ended
<1>2. RefusedInvariant => ValuesAreRead
  BY DEF RefusedInvariant, RefusedUpTo, ValuesAreRead, Ended, Invalid
<1>. QED
  BY <1>1, <1>2, RefusedStep, GivenCorrect, PTL DEF Spec

=============================================================================
