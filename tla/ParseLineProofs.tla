--------------------------- MODULE ParseLineProofs ---------------------------
(***************************************************************************)
(* Theorems about ParseLine, for every set of texts, of any letters and    *)
(* any length, and any number of calls.                                    *)
(***************************************************************************)
EXTENDS ParseLine, SequenceTheorems, FiniteSetTheorems, WellFoundedInduction, TLAPS

-----------------------------------------------------------------------------
(* Escaped letters.  Before a letter stands a run of backslashes, possibly *)
(* empty; a letter is escaped if the run is odd.                           *)

RunBefore(t, k, j) ==
  /\ j \in 0 .. k - 1
  /\ \A l \in j + 1 .. k - 1 : t[l] = Backslash
  /\ j > 0 => t[j] # Backslash

HasRun(t, k) == \E j \in 0 .. k - 1 : RunBefore(t, k, j)

LEMMA EscapedByRun ==
  ASSUME NEW t, NEW k
  PROVE  Escaped(t, k) <=> \E j \in 0 .. k - 1 : RunBefore(t, k, j) /\ (k - 1 - j) % 2 = 1
  BY DEF Escaped, RunBefore

LEMMA OneRun ==
  ASSUME NEW t, NEW k \in Nat, NEW j, NEW m, RunBefore(t, k, j), RunBefore(t, k, m)
  PROVE  j = m
<1>1. j \in Nat /\ m \in Nat /\ j < k /\ m < k
  BY DEF RunBefore
<1>2. ASSUME j < m PROVE FALSE
  <2>1. m \in j + 1 .. k - 1 /\ m > 0
    BY <1>1, <1>2
  <2>. QED
    BY <2>1 DEF RunBefore
<1>3. ASSUME m < j PROVE FALSE
  <2>1. j \in m + 1 .. k - 1 /\ j > 0
    BY <1>1, <1>3
  <2>. QED
    BY <2>1 DEF RunBefore
<1>. QED
  BY <1>1, <1>2, <1>3

\* The run before the first letter is empty.
LEMMA FirstRun == ASSUME NEW t PROVE HasRun(t, 1) /\ ~ Escaped(t, 1)
<1>1. RunBefore(t, 1, 0) /\ 0 \in 0 .. 1 - 1
  BY DEF RunBefore
<1>2. \A j \in 0 .. 1 - 1 : (1 - 1 - j) % 2 = 0
  OBVIOUS
<1>. QED
  BY <1>1, <1>2, EscapedByRun DEF HasRun

\* A backslash makes the run longer by one, any other letter ends it.
LEMMA RunAfterBackslash ==
  ASSUME NEW t, NEW k \in Nat \ {0}, t[k] = Backslash, NEW j, RunBefore(t, k, j)
  PROVE  RunBefore(t, k + 1, j)
<1>1. j \in 0 .. k - 1
  BY DEF RunBefore
<1>2. ASSUME NEW l \in j + 1 .. (k + 1) - 1 PROVE t[l] = Backslash
  <2>1. l = k \/ l \in j + 1 .. k - 1
    BY <1>1
  <2>. QED
    BY <2>1 DEF RunBefore
<1>. QED
  BY <1>1, <1>2 DEF RunBefore

LEMMA RunAfterOther ==
  ASSUME NEW t, NEW k \in Nat \ {0}, t[k] # Backslash
  PROVE  RunBefore(t, k + 1, k)
  BY DEF RunBefore

LEMMA NextRun ==
  ASSUME NEW t, NEW k \in Nat \ {0}, HasRun(t, k)
  PROVE  HasRun(t, k + 1)
<1>1. CASE t[k] = Backslash
  <2>1. PICK j \in 0 .. k - 1 : RunBefore(t, k, j)
    BY DEF HasRun
  <2>2. RunBefore(t, k + 1, j) /\ j \in 0 .. (k + 1) - 1
    BY <1>1, <2>1, RunAfterBackslash
  <2>. QED
    BY <2>2 DEF HasRun
<1>2. CASE t[k] # Backslash
  <2>1. RunBefore(t, k + 1, k) /\ k \in 0 .. (k + 1) - 1
    BY <1>2, RunAfterOther
  <2>. QED
    BY <2>1 DEF HasRun
<1>. QED
  BY <1>1, <1>2

\* A letter is escaped exactly if a backslash that is not escaped is before it.
LEMMA EscapedNext ==
  ASSUME NEW t, NEW k \in Nat \ {0}, HasRun(t, k)
  PROVE  Escaped(t, k + 1) <=> t[k] = Backslash /\ ~ Escaped(t, k)
<1>1. CASE t[k] = Backslash
  <2>1. PICK j \in 0 .. k - 1 : RunBefore(t, k, j)
    BY DEF HasRun
  <2>2. RunBefore(t, k + 1, j) /\ j \in 0 .. (k + 1) - 1
    BY <1>1, <2>1, RunAfterBackslash
  <2>3. Escaped(t, k) <=> (k - 1 - j) % 2 = 1
    <3>1. \A m : RunBefore(t, k, m) => m = j
      BY <2>1, OneRun
    <3>. QED
      BY <2>1, <3>1, EscapedByRun
  <2>4. Escaped(t, k + 1) <=> ((k + 1) - 1 - j) % 2 = 1
    <3>1. \A m : RunBefore(t, k + 1, m) => m = j
      BY <2>2, OneRun
    <3>. QED
      BY <2>2, <3>1, EscapedByRun
  <2>5. ((k + 1) - 1 - j) % 2 = 1 <=> ~ ((k - 1 - j) % 2 = 1)
    BY <2>1
  <2>. QED
    BY <1>1, <2>3, <2>4, <2>5
<1>2. CASE t[k] # Backslash
  <2>1. RunBefore(t, k + 1, k)
    BY <1>2, RunAfterOther
  <2>2. \A m : RunBefore(t, k + 1, m) => m = k
    BY <2>1, OneRun
  <2>3. ~ (((k + 1) - 1 - k) % 2 = 1)
    OBVIOUS
  <2>. QED
    BY <1>2, <2>2, <2>3, EscapedByRun
<1>. QED
  BY <1>1, <1>2

-----------------------------------------------------------------------------
(* Quoted letters.                                                         *)

LEMMA QuotesFinite ==
  ASSUME NEW t, NEW k \in Nat
  PROVE  IsFiniteSet(Quotes(t, k)) /\ Cardinality(Quotes(t, k)) \in Nat
<1>1. IsFiniteSet(1 .. k - 1)
  BY FS_Interval
<1>2. Quotes(t, k) \subseteq 1 .. k - 1
  BY DEF Quotes
<1>. QED
  BY <1>1, <1>2, FS_Subset, FS_CardinalityType

LEMMA FirstUnquoted == ASSUME NEW t PROVE ~ Quoted(t, 1)
<1>1. Quotes(t, 1) = {}
  BY DEF Quotes
<1>. QED
  BY <1>1, FS_EmptySet DEF Quoted

\* A quote that is not escaped begins or ends a quotation; nothing else does.
LEMMA QuotedNext ==
  ASSUME NEW t, NEW k \in Nat \ {0}
  PROVE  Quoted(t, k + 1) <=> (IF t[k] = Quote /\ ~ Escaped(t, k) THEN ~ Quoted(t, k)
                                                               ELSE Quoted(t, k))
<1>1. IsFiniteSet(Quotes(t, k)) /\ Cardinality(Quotes(t, k)) \in Nat
  BY QuotesFinite
<1>2. 1 .. (k + 1) - 1 = (1 .. k - 1) \cup {k} /\ k \notin 1 .. k - 1
  OBVIOUS
<1>3. CASE t[k] = Quote /\ ~ Escaped(t, k)
  <2>1. Quotes(t, k + 1) = Quotes(t, k) \cup {k} /\ k \notin Quotes(t, k)
    BY <1>2, <1>3 DEF Quotes
  <2>2. Cardinality(Quotes(t, k + 1)) = Cardinality(Quotes(t, k)) + 1
    BY <1>1, <2>1, FS_AddElement
  <2>. QED
    BY <1>1, <1>3, <2>2 DEF Quoted
<1>4. CASE ~ (t[k] = Quote /\ ~ Escaped(t, k))
  <2>1. Quotes(t, k + 1) = Quotes(t, k)
    BY <1>2, <1>4 DEF Quotes
  <2>. QED
    BY <1>4, <2>1 DEF Quoted
<1>. QED
  BY <1>3, <1>4

-----------------------------------------------------------------------------
(* Types.                                                                  *)

\* Between the calls the local variables are as a call finds them.
AtRest == pc = "ready" => i = 1 /\ in_quote = FALSE

LEMMA RestStep == AtRest /\ [Next]_vars => AtRest'
  BY DEF AtRest, Next, Call, Scan, ToggleQuote, EndArgument, TakeEscaped, TakeLetter,
     BackslashAtEnd, QuoteNotClosed, LastArgument, ParseArguments, Abort, Fail, Return,
     GoOn, AtLetter, vars, scanVars

LEMMA TypeStep == TypeOK /\ AtRest /\ [Next]_vars => TypeOK'
<1> SUFFICES ASSUME TypeOK, AtRest, [Next]_vars
             PROVE  TypeOK'
  OBVIOUS
<1> USE DEF TypeOK
<1>1. Len(arg) \in Nat /\ i \in Nat /\ << >> \in Seq(STRING) /\ << >> \in Seq(Seq(STRING))
  OBVIOUS
<1>2. ASSUME AtLetter PROVE i <= Len(arg) /\ i \in 1 .. Len(arg) /\ arg[i] \in STRING
  BY <1>1, <1>2 DEF AtLetter
<1>3. ASSUME NEW e \in Kinds PROVE Append(errors, e) \in Seq(Kinds)
  BY AppendProperties
<1>4. ASSUME NEW result \in BOOLEAN, Return(result), errors' \in Seq(Kinds)
      PROVE  TypeOK'
  <2>1. << >> \in Seq(STRING) /\ << >> \in Seq(Seq(STRING)) /\ 1 \in 1 .. Len(<< >>) + 1
    OBVIOUS
  <2>. QED
    BY <1>4, <2>1 DEF Return
<1>5. ASSUME NEW t \in Texts, Call(t)
      PROVE  TypeOK'
  <2>1. t \in Seq(STRING) /\ i' = 1 /\ arg' = t
    BY <1>5, TextsAssumption DEF Call, AtRest
  <2>2. 1 \in 1 .. Len(t) + 1
    BY <2>1
  <2>. QED
    BY <1>5, <2>1, <2>2 DEF Call
<1>6. CASE ToggleQuote
  BY <1>1, <1>2, <1>6 DEF ToggleQuote, GoOn
<1>7. CASE EndArgument
  <2>1. Append(args, buf) \in Seq(Seq(STRING))
    BY AppendProperties
  <2>. QED
    BY <1>1, <1>2, <1>7, <2>1 DEF EndArgument, GoOn
<1>8. CASE TakeEscaped
  <2>1. i < Len(arg) /\ AtLetter
    BY <1>8 DEF TakeEscaped
  <2>2. i + 1 \in 1 .. Len(arg) /\ i + 2 \in 1 .. Len(arg) + 1
    BY <1>1, <2>1
  <2>3. Append(buf, arg[i + 1]) \in Seq(STRING)
    BY <2>2, AppendProperties
  <2>. QED
    BY <1>1, <1>8, <2>2, <2>3 DEF TakeEscaped, GoOn
<1>9. CASE TakeLetter
  <2>1. Append(buf, arg[i]) \in Seq(STRING)
    BY <1>2, <1>9, AppendProperties DEF TakeLetter
  <2>. QED
    BY <1>1, <1>2, <1>9, <2>1 DEF TakeLetter, GoOn
<1>10. CASE BackslashAtEnd \/ QuoteNotClosed
  BY <1>3, <1>4, <1>10 DEF BackslashAtEnd, QuoteNotClosed, Fail, Kinds
<1>11. CASE LastArgument
  <2>1. Append(args, buf) \in Seq(Seq(STRING))
    BY AppendProperties
  <2>. QED
    BY <1>11, <2>1 DEF LastArgument
<1>12. CASE ParseArguments
  <2>1. << >> \in Seq(Kinds) /\ \A e \in Kinds : <<e>> \in Seq(Kinds)
    OBVIOUS
  <2>2. errors' \in Seq(Kinds)
    BY <1>12, <2>1 DEF ParseArguments, Kinds
  <2>3. PICK ok \in BOOLEAN : Return(ok)
    BY <1>12 DEF ParseArguments
  <2>. QED
    BY <1>4, <2>2, <2>3
<1>13. CASE UNCHANGED vars
  BY <1>13 DEF vars, scanVars
<1>14. CASE Abort
  BY <1>14 DEF Abort, scanVars
<1>. QED
  BY <1>5, <1>6, <1>7, <1>8, <1>9, <1>10, <1>11, <1>12, <1>13, <1>14 DEF Next, Scan

\* Whatever texts are parsed, the reading position stays in the text or right
\* after it, and arguments are texts.
THEOREM TypeCorrect == Spec => []TypeOK
<1>1. Init => TypeOK /\ AtRest
  <2>1. /\ << >> \in Seq(STRING) /\ << >> \in Seq(Seq(STRING)) /\ << >> \in Seq(Kinds)
        /\ 1 \in 1 .. Len(<< >>) + 1
    OBVIOUS
  <2>. QED
    BY <2>1 DEF Init, TypeOK, AtRest
<1>. QED
  BY <1>1, TypeStep, RestStep, PTL DEF Spec

-----------------------------------------------------------------------------
(* The scan.                                                               *)

Scanned == pc \in {"scanning", "split"} => HasRun(arg, i)

ScanIsRight == AtRest /\ Scanned /\ ScanInvariant

LEMMA ScanStep == TypeOK /\ ScanIsRight /\ [Next]_vars => ScanIsRight'
<1> SUFFICES ASSUME TypeOK, ScanIsRight, [Next]_vars
             PROVE  ScanIsRight'
  OBVIOUS
<1> USE DEF ScanIsRight, AtRest, Scanned, ScanInvariant
<1>1. i \in Nat \ {0} /\ i + 1 \in Nat \ {0} /\ (i + 1) + 1 = i + 2 /\ Len(arg) \in Nat
  BY DEF TypeOK
<1>2. ASSUME AtLetter
      PROVE  /\ HasRun(arg, i) /\ HasRun(arg, i + 1) /\ ~ Escaped(arg, i)
             /\ Escaped(arg, i + 1) <=> arg[i] = Backslash
             /\ Quoted(arg, i + 1) <=> (IF arg[i] = Quote THEN ~ in_quote ELSE in_quote)
  BY <1>1, <1>2, NextRun, EscapedNext, QuotedNext DEF AtLetter
<1>3. ASSUME pc' = "ready", i' = 1, in_quote' = FALSE
      PROVE  ScanIsRight'
  BY <1>3
<1>4. ASSUME NEW t \in Texts, Call(t)
      PROVE  ScanIsRight'
  BY <1>4, FirstRun, FirstUnquoted DEF Call
<1>5. CASE ToggleQuote
  BY <1>2, <1>5 DEF ToggleQuote, GoOn, AtLetter, Quote, Backslash
<1>6. CASE EndArgument
  BY <1>2, <1>6 DEF EndArgument, GoOn, AtLetter, Quote, Backslash, Blank
<1>7. CASE TakeEscaped
  <2>1. AtLetter /\ arg[i] = Backslash
    BY <1>7 DEF TakeEscaped
  <2>2. HasRun(arg, i + 1) /\ Escaped(arg, i + 1) /\ (Quoted(arg, i + 1) <=> in_quote)
    BY <1>2, <2>1 DEF Quote, Backslash
  <2>3. HasRun(arg, i + 2) /\ ~ Escaped(arg, i + 2) /\ (Quoted(arg, i + 2) <=> in_quote)
    BY <1>1, <2>2, NextRun, EscapedNext, QuotedNext
  <2>. QED
    BY <1>7, <2>3 DEF TakeEscaped, GoOn, AtLetter
<1>8. CASE TakeLetter
  BY <1>2, <1>8 DEF TakeLetter, GoOn, AtLetter
<1>9. CASE BackslashAtEnd \/ QuoteNotClosed \/ ParseArguments
  BY <1>3, <1>9 DEF BackslashAtEnd, QuoteNotClosed, ParseArguments, Fail, Return
<1>10. CASE LastArgument
  <2>1. i = Len(arg) + 1
    BY <1>10 DEF LastArgument, AtEnd, TypeOK
  <2>. QED
    BY <1>10, <2>1 DEF LastArgument, AtEnd
<1>11. CASE UNCHANGED vars
  BY <1>11 DEF vars, scanVars
<1>12. CASE Abort
  BY <1>12 DEF Abort
<1>. QED
  BY <1>4, <1>5, <1>6, <1>7, <1>8, <1>9, <1>10, <1>11, <1>12 DEF Next, Scan

LEMMA ScanCorrect == Spec => [](TypeOK /\ ScanIsRight)
<1>1. Init => ScanIsRight
  BY DEF Init, ScanIsRight, AtRest, Scanned, ScanInvariant
<1>. QED
  BY <1>1, ScanStep, TypeCorrect, PTL DEF Spec

\* The letter that is read next is never an escaped one, and in_quote says
\* whether it is quoted.
THEOREM ScanFollowsText == Spec => []ScanInvariant
<1>1. ScanIsRight => ScanInvariant
  BY DEF ScanIsRight
<1>. QED
  BY <1>1, ScanCorrect, PTL

\* A text is split exactly if no backslash escapes its end and no quote is open
\* there, however its quotes and backslashes follow each other.
THEOREM ErrorsFound == Spec => SplitIfClosed
<1> DEFINE A == /\ pc = "scanning" /\ pc' = "split" =>
                     ~ Escaped(arg, Len(arg) + 1) /\ ~ Quoted(arg, Len(arg) + 1)
                /\ pc = "scanning" /\ pc' = "ready" =>
                     Escaped(arg, Len(arg) + 1) \/ Quoted(arg, Len(arg) + 1)
<1>1. TypeOK /\ ScanIsRight /\ [Next]_vars => [A]_vars
  <2> SUFFICES ASSUME TypeOK, ScanIsRight, Next, pc = "scanning", pc' \in {"split", "ready"}
               PROVE  A
    OBVIOUS
  <2> USE DEF ScanIsRight, Scanned, ScanInvariant
  <2>1. i \in Nat \ {0} /\ Len(arg) \in Nat
    BY DEF TypeOK
  <2>2. CASE BackslashAtEnd
    <3>1. pc' = "ready" /\ arg[i] = Backslash /\ i = Len(arg)
      BY <2>2 DEF BackslashAtEnd, Fail, Return
    <3>2. Escaped(arg, i + 1)
      BY <2>1, <3>1, EscapedNext
    <3>. QED
      BY <3>1, <3>2
  <2>3. CASE QuoteNotClosed
    <3>1. i = Len(arg) + 1
      <4>1. AtEnd
        BY <2>3, Zenon DEF QuoteNotClosed
      <4>. QED
        BY <4>1 DEF AtEnd, TypeOK
    <3>2. pc' = "ready" /\ in_quote
      BY <2>3 DEF QuoteNotClosed, Fail, Return
    <3>3. Quoted(arg, i)
      BY <3>2, Zenon
    <3>. QED
      BY <3>1, <3>2, <3>3
  <2>4. CASE LastArgument
    <3>1. i = Len(arg) + 1 /\ pc' = "split" /\ ~ Quoted(arg, i) /\ ~ Escaped(arg, i)
      BY <2>4 DEF LastArgument, AtEnd, TypeOK
    <3>. QED
      BY <3>1
  <2>. QED
    BY <2>2, <2>3, <2>4 DEF Next, Call, Scan, ToggleQuote, EndArgument, TakeEscaped, TakeLetter,
       GoOn, ParseArguments, Abort
<1>. QED
  BY <1>1, ScanCorrect, PTL DEF Spec, SplitIfClosed

-----------------------------------------------------------------------------
(* Positions in a text, and the letters that stand there.                  *)

Before(t, k) == {s \in Separators(t) : s < k}

LEMMA PositionsFinite ==
  ASSUME NEW t \in Seq(STRING)
  PROVE  /\ DOMAIN t = 1 .. Len(t) /\ Len(t) \in Nat /\ IsFiniteSet(1 .. Len(t))
         /\ Separators(t) \subseteq 1 .. Len(t) /\ IsFiniteSet(Separators(t))
         /\ Kept(t) \subseteq 1 .. Len(t)
         /\ \A k : /\ IsFiniteSet(Before(t, k))
                   /\ Cardinality(Before(t, k)) \in Nat
                   /\ Before(t, k) \subseteq 1 .. Len(t)
         /\ \A n : Piece(t, n) \subseteq 1 .. Len(t) /\ IsFiniteSet(Piece(t, n))
<1>1. DOMAIN t = 1 .. Len(t) /\ Len(t) \in Nat
  BY LenProperties
<1>2. IsFiniteSet(1 .. Len(t))
  BY <1>1, FS_Interval
<1>3. Separators(t) \subseteq 1 .. Len(t) /\ IsFiniteSet(Separators(t))
  BY <1>1, <1>2, FS_Subset DEF Separators
<1>4. Kept(t) \subseteq 1 .. Len(t)
  BY <1>1 DEF Kept
<1>5. ASSUME NEW k
      PROVE  /\ IsFiniteSet(Before(t, k))
             /\ Cardinality(Before(t, k)) \in Nat
             /\ Before(t, k) \subseteq 1 .. Len(t)
  <2>1. Before(t, k) \subseteq Separators(t)
    BY DEF Before
  <2>. QED
    BY <1>3, <2>1, FS_Subset, FS_CardinalityType
<1>6. ASSUME NEW n PROVE Piece(t, n) \subseteq 1 .. Len(t) /\ IsFiniteSet(Piece(t, n))
  <2>1. Piece(t, n) \subseteq Kept(t)
    BY DEF Piece
  <2>. QED
    BY <1>2, <1>4, <2>1, FS_Subset
<1>. QED
  BY <1>1, <1>2, <1>3, <1>4, <1>5, <1>6

\* A position behind all the others adds its letter at the end.
LEMMA LettersMore ==
  ASSUME NEW t, NEW S \in SUBSET Nat, IsFiniteSet(S), NEW k \in Nat, \A l \in S : l < k
  PROVE  Letters(t, S \cup {k}) = Append(Letters(t, S), t[k])
<1> DEFINE n     == Cardinality(S)
           more  == S \cup {k}
           Rank(T, j) == Cardinality({l \in T : l <= j})
           old   == Letters(t, S)
           new   == Letters(t, more)
           T     == {old[m] : m \in 1 .. n} \cup {t[k]}
<1>1. n \in Nat /\ k \notin S
  BY FS_CardinalityType
<1>2. Cardinality(more) = n + 1
  BY <1>1, FS_AddElement
<1>3. \A j \in S : Rank(more, j) = Rank(S, j)
  <2>1. \A j \in S : {l \in more : l <= j} = {l \in S : l <= j}
    OBVIOUS
  <2>. QED
    BY <2>1, Zenon
<1>4. Rank(more, k) = n + 1
  <2>1. \A l \in more : l <= k
    OBVIOUS
  <2>2. {l \in more : l <= k} = more
    BY <2>1
  <2>. QED
    BY <1>2, <2>2
<1>5. old = [m \in 1 .. n |-> t[CHOOSE j \in S : Rank(S, j) = m]]
  BY DEF Letters
<1>6. new = [m \in 1 .. n + 1 |-> t[CHOOSE j \in more : Rank(more, j) = m]]
  BY <1>2 DEF Letters
<1>7. \A j \in S : Rank(S, j) \in Nat /\ Rank(S, j) <= n
  <2> TAKE j \in S
  <2>1. {l \in S : l <= j} \subseteq S
    OBVIOUS
  <2>. QED
    BY <2>1, FS_Subset, FS_CardinalityType
<1> HIDE DEF n, old, new, Rank
<1>8. ASSUME NEW m \in 1 .. n PROVE new[m] = old[m]
  <2>1. \A j : j \in more /\ Rank(more, j) = m <=> j \in S /\ Rank(S, j) = m
    <3>1. m # n + 1
      BY <1>1
    <3>. QED
      BY <1>3, <1>4, <3>1
  <2>2. (CHOOSE j \in more : Rank(more, j) = m) = (CHOOSE j \in S : Rank(S, j) = m)
    BY <2>1, Zenon
  <2>3. m \in 1 .. n + 1
    BY <1>1
  <2>. QED
    BY <1>5, <1>6, <2>2, <2>3
<1>9. new[n + 1] = t[k]
  <2>1. \A j \in more : Rank(more, j) = n + 1 <=> j = k
    <3>1. \A j \in S : Rank(S, j) # n + 1
      BY <1>1, <1>7
    <3>. QED
      BY <1>1, <1>3, <1>4, <3>1
  <2>2. (CHOOSE j \in more : Rank(more, j) = n + 1) = k
    <3>1. k \in more
      OBVIOUS
    <3>. QED
      BY <2>1, <3>1
  <2>3. n + 1 \in 1 .. n + 1
    BY <1>1
  <2>. QED
    BY <1>6, <2>2, <2>3
<1>10. old \in Seq(T) /\ Len(old) = n /\ t[k] \in T
  <2>1. old \in [1 .. n -> T]
    BY <1>5
  <2> HIDE DEF T
  <2>2. old \in Seq(T) /\ Len(old) = n
    BY <1>1, <2>1
  <2>. QED
    BY <2>2 DEF T
<1>11. new \in Seq(T) /\ Len(new) = n + 1
  <2>1. \A m \in 1 .. n + 1 : new[m] \in T
    <3>1. \A m \in 1 .. n + 1 : m \in 1 .. n \/ m = n + 1
      BY <1>1
    <3>. QED
      BY <1>8, <1>9, <3>1
  <2>2. new = [m \in 1 .. n + 1 |-> new[m]]
    BY <1>6
  <2> HIDE DEF T
  <2>3. new \in [1 .. n + 1 -> T]
    BY <2>1, <2>2
  <2>. QED
    BY <1>1, <2>3
<1> DEFINE longer == Append(old, t[k])
<1>12. /\ longer \in Seq(T) /\ Len(longer) = n + 1
       /\ \A m \in 1 .. n : longer[m] = old[m]
       /\ longer[n + 1] = t[k]
  BY <1>1, <1>10, AppendProperties
<1> HIDE DEF T, longer, more
<1>13. \A m \in 1 .. n + 1 : longer[m] = new[m]
  <2>1. \A m \in 1 .. n + 1 : m \in 1 .. n \/ m = n + 1
    BY <1>1
  <2>. QED
    BY <1>8, <1>9, <1>12, <2>1
<1>14. longer = new
  BY <1>11, <1>12, <1>13, SeqEqual
<1>. QED
  BY <1>14 DEF longer, old, new, more

LEMMA NoLetters == ASSUME NEW t PROVE Letters(t, {}) = << >>
  BY FS_EmptySet DEF Letters

\* A position that is a separator counts for the positions behind it.
LEMMA BeforeNext ==
  ASSUME NEW t \in Seq(STRING), NEW k \in Nat
  PROVE  Cardinality(Before(t, k + 1)) =
           Cardinality(Before(t, k)) + (IF k \in Separators(t) THEN 1 ELSE 0)
<1>1. /\ IsFiniteSet(Before(t, k)) /\ Cardinality(Before(t, k)) \in Nat
      /\ Separators(t) \subseteq Nat
  BY PositionsFinite
<1>2. CASE k \in Separators(t)
  <2>1. Before(t, k + 1) = Before(t, k) \cup {k} /\ k \notin Before(t, k)
    BY <1>1, <1>2 DEF Before
  <2>. QED
    BY <1>1, <1>2, <2>1, FS_AddElement
<1>3. CASE k \notin Separators(t)
  <2>1. Before(t, k + 1) = Before(t, k)
    BY <1>1, <1>3 DEF Before
  <2>. QED
    BY <1>1, <1>3, <2>1
<1>. QED
  BY <1>2, <1>3

LEMMA BeforeMore ==
  ASSUME NEW t \in Seq(STRING), NEW k \in Nat, NEW l \in Nat, k <= l
  PROVE  Cardinality(Before(t, k)) <= Cardinality(Before(t, l))
<1>1. Separators(t) \subseteq Nat /\ IsFiniteSet(Before(t, l))
  BY PositionsFinite
<1>2. Before(t, k) \subseteq Before(t, l)
  BY <1>1 DEF Before
<1>. QED
  BY <1>1, <1>2, FS_Subset

-----------------------------------------------------------------------------
(***************************************************************************)
(* What is read when the parser stands at position k: the pieces that the  *)
(* separators before k end, and what there is so far of the piece of k.    *)
(***************************************************************************)
Passed(t, k) == Cardinality(Before(t, k))

ArgsRead(t, k) == [n \in 1 .. Passed(t, k) |-> Letters(t, Piece(t, n - 1))]

Begun(t, k) == {l \in Piece(t, Passed(t, k)) : l < k}

BufRead(t, k) == Letters(t, Begun(t, k))

LEMMA NothingRead ==
  ASSUME NEW t \in Seq(STRING)
  PROVE  ArgsRead(t, 1) = << >> /\ BufRead(t, 1) = << >>
<1>1. Before(t, 1) = {}
  BY PositionsFinite DEF Before
<1>2. Passed(t, 1) = 0
  BY <1>1, FS_EmptySet DEF Passed
<1>3. Begun(t, 1) = {}
  BY PositionsFinite DEF Begun
<1>4. ArgsRead(t, 1) = [n \in 1 .. 0 |-> Letters(t, Piece(t, n - 1))]
  BY <1>2 DEF ArgsRead
<1>5. ArgsRead(t, 1) = << >>
  <2> DEFINE s == ArgsRead(t, 1)
  <2>1. s = [n \in 1 .. 0 |-> s[n]]
    BY <1>4, Zenon
  <2> HIDE DEF s
  <2>2. s \in Seq({}) /\ Len(s) = 0
    <3>1. \A n \in 1 .. 0 : s[n] \in {}
      OBVIOUS
    <3>2. s \in [1 .. 0 -> {}]
      BY <2>1, <3>1
    <3>. QED
      BY <3>2
  <2>3. s = << >>
    BY <2>2, EmptySeq
  <2>. QED
    BY <2>3 DEF s
<1>. QED
  BY <1>3, <1>5, NoLetters DEF BufRead

LEMMA ReadPassesOver ==
  ASSUME NEW t \in Seq(STRING), NEW k \in Nat, k \notin Separators(t), k \notin Kept(t)
  PROVE  ArgsRead(t, k + 1) = ArgsRead(t, k) /\ BufRead(t, k + 1) = BufRead(t, k)
<1>1. Passed(t, k + 1) = Passed(t, k)
  BY BeforeNext, PositionsFinite DEF Passed
<1>2. Begun(t, k + 1) = Begun(t, k)
  <2>1. \A n : Piece(t, n) \subseteq Nat /\ Piece(t, n) \subseteq Kept(t)
    BY PositionsFinite DEF Piece
  <2>. QED
    BY <1>1, <2>1 DEF Begun
<1>. QED
  BY <1>1, <1>2 DEF ArgsRead, BufRead

LEMMA ReadTakes ==
  ASSUME NEW t \in Seq(STRING), NEW k \in Nat, k \in Kept(t)
  PROVE  ArgsRead(t, k + 1) = ArgsRead(t, k) /\ BufRead(t, k + 1) = Append(BufRead(t, k), t[k])
<1>1. k \notin Separators(t)
  BY DEF Kept
<1>2. Passed(t, k + 1) = Passed(t, k)
  BY <1>1, BeforeNext, PositionsFinite DEF Passed
<1>3. Begun(t, k + 1) = Begun(t, k) \cup {k}
  <2>1. \A n : Piece(t, n) \subseteq Nat
    BY PositionsFinite
  <2>2. k \in Piece(t, Passed(t, k))
    BY DEF Piece, Passed, Before
  <2>. QED
    BY <1>2, <2>1, <2>2 DEF Begun
<1>4. Begun(t, k) \in SUBSET Nat /\ IsFiniteSet(Begun(t, k)) /\ \A l \in Begun(t, k) : l < k
  <2>1. Begun(t, k) \subseteq Piece(t, Passed(t, k)) /\ \A l \in Begun(t, k) : l < k
    BY DEF Begun
  <2>. QED
    BY <2>1, PositionsFinite, FS_Subset
<1>5. BufRead(t, k + 1) = Append(BufRead(t, k), t[k])
  BY <1>3, <1>4, LettersMore DEF BufRead
<1>. QED
  BY <1>2, <1>5 DEF ArgsRead

\* At the position k the piece that it belongs to is complete, if a separator or
\* the end of the text is there.
LEMMA PieceEnds ==
  ASSUME NEW t \in Seq(STRING), NEW k \in Nat, k \in Separators(t) \/ k > Len(t)
  PROVE  BufRead(t, k) = Letters(t, Piece(t, Passed(t, k)))
<1>1. ASSUME NEW l \in Piece(t, Passed(t, k)) PROVE l < k
  <2>1. l \in 1 .. Len(t) /\ l \in Kept(t) /\ Passed(t, l) = Passed(t, k)
    BY PositionsFinite DEF Piece, Passed, Before
  <2>2. CASE k > Len(t)
    BY <2>1, <2>2, PositionsFinite
  <2>3. CASE k \in Separators(t)
    <3>1. l # k
      BY <2>1, <2>3 DEF Kept
    <3>2. ASSUME k + 1 <= l PROVE FALSE
      <4>1. Passed(t, k + 1) = Passed(t, k) + 1 /\ Passed(t, k) \in Nat
        BY <2>3, BeforeNext, PositionsFinite DEF Passed
      <4>2. Passed(t, k + 1) <= Passed(t, l)
        BY <2>1, <3>2, BeforeMore DEF Passed
      <4>. QED
        BY <2>1, <4>1, <4>2
    <3>. QED
      BY <2>1, <3>1, <3>2
  <2>. QED
    BY <2>2, <2>3
<1>2. Begun(t, k) = Piece(t, Passed(t, k))
  BY <1>1 DEF Begun
<1>. QED
  BY <1>2 DEF BufRead

\* Sequences that are given by their elements grow by the next one.
LEMMA OneMore ==
  ASSUME NEW n \in Nat, NEW F(_)
  PROVE  [m \in 1 .. n + 1 |-> F(m)] = Append([m \in 1 .. n |-> F(m)], F(n + 1))
<1> DEFINE s == [m \in 1 .. n |-> F(m)]
           l == [m \in 1 .. n + 1 |-> F(m)]
           T == {F(m) : m \in 1 .. n + 1}
           a == Append(s, F(n + 1))
<1>1. s \in [1 .. n -> T] /\ l \in [1 .. n + 1 -> T] /\ F(n + 1) \in T
  OBVIOUS
<1>2. /\ \A m \in 1 .. n : s[m] = F(m)
      /\ \A m \in 1 .. n + 1 : l[m] = F(m)
  OBVIOUS
<1> HIDE DEF s, l, T
<1>3. s \in Seq(T) /\ Len(s) = n /\ l \in Seq(T) /\ Len(l) = n + 1
  BY <1>1
<1>4. /\ a \in Seq(T) /\ Len(a) = n + 1
      /\ \A m \in 1 .. n : a[m] = s[m]
      /\ a[n + 1] = F(n + 1)
  BY <1>1, <1>3, AppendProperties
<1>5. \A m \in 1 .. n + 1 : m \in 1 .. n \/ m = n + 1
  OBVIOUS
<1> HIDE DEF a
<1>6. a = l
  BY <1>2, <1>3, <1>4, <1>5, SeqEqual
<1>. QED
  BY <1>6 DEF a, l, s

LEMMA ReadSeparates ==
  ASSUME NEW t \in Seq(STRING), NEW k \in Nat, k \in Separators(t)
  PROVE  ArgsRead(t, k + 1) = Append(ArgsRead(t, k), BufRead(t, k)) /\ BufRead(t, k + 1) = << >>
<1> DEFINE n == Passed(t, k)
           F(m) == Letters(t, Piece(t, m - 1))
<1>1. n \in Nat /\ Passed(t, k + 1) = n + 1
  BY BeforeNext, PositionsFinite DEF Passed
<1>2. BufRead(t, k) = Letters(t, Piece(t, n))
  BY PieceEnds
<1>3. ArgsRead(t, k) = [m \in 1 .. n |-> F(m)] /\ ArgsRead(t, k + 1) = [m \in 1 .. n + 1 |-> F(m)]
  BY <1>1 DEF ArgsRead
<1>4. F(n + 1) = BufRead(t, k)
  <2>1. (n + 1) - 1 = n
    BY <1>1
  <2>. QED
    BY <1>2, <2>1
<1>5. Begun(t, k + 1) = {}
  <2> SUFFICES ASSUME NEW l \in Piece(t, n + 1), l < k + 1
               PROVE  FALSE
    BY <1>1 DEF Begun
  <2>1. l \in Nat /\ Passed(t, l) = n + 1
    BY PositionsFinite DEF Piece, Passed, Before
  <2>2. Passed(t, l) <= n
    BY <2>1, BeforeMore DEF Passed
  <2>. QED
    BY <1>1, <2>1, <2>2
<1> HIDE DEF n, F
<1>6. [m \in 1 .. n + 1 |-> F(m)] = Append([m \in 1 .. n |-> F(m)], F(n + 1))
  BY <1>1, OneMore
<1>. QED
  BY <1>3, <1>4, <1>5, <1>6, NoLetters DEF BufRead

LEMMA ReadAll ==
  ASSUME NEW t \in Seq(STRING), NEW k, k = Len(t) + 1
  PROVE  Pieces(t) = Append(ArgsRead(t, k), BufRead(t, k))
<1> DEFINE n == Passed(t, k)
           F(m) == Letters(t, Piece(t, m - 1))
<1>1. k \in Nat /\ k > Len(t)
  BY PositionsFinite
<1>2. Before(t, k) = Separators(t)
  BY <1>1, PositionsFinite DEF Before
<1>3. n \in Nat /\ n = Cardinality(Separators(t))
  BY <1>2, PositionsFinite DEF Passed
<1>4. Pieces(t) = [m \in 1 .. n + 1 |-> F(m)]
  BY <1>3 DEF Pieces
<1>5. ArgsRead(t, k) = [m \in 1 .. n |-> F(m)]
  BY DEF ArgsRead
<1>6. F(n + 1) = BufRead(t, k)
  <2>1. (n + 1) - 1 = n
    BY <1>3
  <2>2. BufRead(t, k) = Letters(t, Piece(t, n))
    BY <1>1, PieceEnds
  <2>. QED
    BY <2>1, <2>2
<1> HIDE DEF n, F
<1>7. [m \in 1 .. n + 1 |-> F(m)] = Append([m \in 1 .. n |-> F(m)], F(n + 1))
  BY <1>3, OneMore
<1>. QED
  BY <1>4, <1>5, <1>6, <1>7

-----------------------------------------------------------------------------
(* The scan reads the pieces one after the other.                          *)

ReadRight ==
  /\ pc = "ready" => buf = << >> /\ args = << >> /\ i = 1
  /\ pc = "scanning" => args = ArgsRead(arg, i) /\ buf = BufRead(arg, i)
  /\ pc = "split" => SplitAsWritten

LEMMA LastAndFront ==
  ASSUME NEW s \in Seq(Seq(STRING)), NEW e \in Seq(STRING)
  PROVE  Last(Append(s, e)) = e /\ Front(Append(s, e)) = s
<1> DEFINE a == Append(s, e)
           f == SubSeq(a, 1, Len(a) - 1)
<1>1. /\ a \in Seq(Seq(STRING)) /\ Len(a) = Len(s) + 1 /\ Len(s) \in Nat
      /\ \A m \in 1 .. Len(s) : a[m] = s[m]
      /\ a[Len(s) + 1] = e
  BY AppendProperties, LenProperties
<1> HIDE DEF a
<1>2. Len(a) - 1 = Len(s) /\ \A m \in 1 .. Len(s) : m \in 1 .. Len(a)
  BY <1>1
<1>3. f \in Seq(Seq(STRING)) /\ Len(f) = Len(s) /\ \A m \in 1 .. Len(s) : f[m] = a[m]
  BY <1>1, <1>2, SubSeqProperties
<1> HIDE DEF f
<1>4. f = s
  BY <1>1, <1>3, SeqEqual
<1>. QED
  BY <1>1, <1>4 DEF Last, Front, a, f

LEMMA ReadStep ==
  ASSUME TypeOK, ScanIsRight, ReadRight, [Next]_vars
  PROVE  ReadRight'
<1>1. /\ i \in Nat \ {0} /\ i + 1 \in Nat \ {0} /\ (i + 1) + 1 = i + 2 /\ Len(arg) \in Nat
      /\ arg \in Seq(STRING) /\ DOMAIN arg = 1 .. Len(arg)
      /\ buf \in Seq(STRING) /\ args \in Seq(Seq(STRING))
  BY LenProperties DEF TypeOK
<1>2. ASSUME AtLetter
      PROVE  /\ i \in DOMAIN arg /\ pc = "scanning" /\ args = ArgsRead(arg, i) /\ buf = BufRead(arg, i)
             /\ ~ Escaped(arg, i) /\ (Quoted(arg, i) <=> in_quote)
             /\ Escaped(arg, i + 1) <=> arg[i] = Backslash
             /\ i \in Separators(arg) <=> arg[i] = Blank /\ ~ in_quote
             /\ i \in Kept(arg) <=> i \notin Separators(arg) /\ arg[i] \notin {Quote, Backslash}
  <2>1. i \in DOMAIN arg /\ pc = "scanning"
    BY <1>1, <1>2 DEF AtLetter
  <2>2. ~ Escaped(arg, i) /\ (Quoted(arg, i) <=> in_quote) /\ HasRun(arg, i)
    BY <2>1, Zenon DEF ScanIsRight, Scanned, ScanInvariant
  <2>3. Escaped(arg, i + 1) <=> arg[i] = Backslash
    BY <1>1, <2>2, EscapedNext
  <2>. QED
    BY <2>1, <2>2, <2>3 DEF ReadRight, Separators, Kept
<1>3. ASSUME AtLetter, GoOn(1), args' = ArgsRead(arg, i + 1), buf' = BufRead(arg, i + 1)
      PROVE  ReadRight'
  BY <1>2, <1>3 DEF GoOn, ReadRight
<1>4. ASSUME NEW t \in Texts, Call(t)
      PROVE  ReadRight'
  <2>1. t \in Seq(STRING) /\ pc' = "scanning" /\ arg' = t /\ i' = 1 /\ buf' = << >> /\ args' = << >>
    BY <1>4, TextsAssumption DEF Call, ReadRight
  <2>. QED
    BY <2>1, NothingRead DEF ReadRight
<1>5. CASE ToggleQuote
  <2>1. AtLetter /\ GoOn(1) /\ args' = args /\ buf' = buf /\ arg[i] = Quote
    BY <1>5 DEF ToggleQuote
  <2>2. i \notin Separators(arg) /\ i \notin Kept(arg)
    BY <1>2, <2>1 DEF Quote, Blank
  <2>. QED
    BY <1>1, <1>2, <1>3, <2>1, <2>2, ReadPassesOver
<1>6. CASE EndArgument
  <2>1. AtLetter /\ GoOn(1) /\ args' = Append(args, buf) /\ buf' = << >> /\ arg[i] = Blank /\ ~ in_quote
    BY <1>6 DEF EndArgument
  <2>2. i \in Separators(arg)
    BY <1>2, <2>1
  <2>. QED
    BY <1>1, <1>2, <1>3, <2>1, <2>2, ReadSeparates
<1>7. CASE TakeLetter
  <2>1. /\ AtLetter /\ GoOn(1) /\ args' = args /\ buf' = Append(buf, arg[i])
        /\ arg[i] \notin {Quote, Backslash} /\ (arg[i] = Blank => in_quote)
    BY <1>7 DEF TakeLetter
  <2>2. i \in Kept(arg)
    BY <1>2, <2>1
  <2>. QED
    BY <1>1, <1>2, <1>3, <2>1, <2>2, ReadTakes
<1>8. CASE TakeEscaped
  <2>1. /\ AtLetter /\ arg[i] = Backslash /\ i < Len(arg) /\ GoOn(2)
        /\ args' = args /\ buf' = Append(buf, arg[i + 1])
    BY <1>8 DEF TakeEscaped
  <2>2. i \notin Separators(arg) /\ i \notin Kept(arg)
    BY <1>2, <2>1 DEF Backslash, Blank
  <2>3. i + 1 \in DOMAIN arg /\ Escaped(arg, i + 1)
    BY <1>1, <1>2, <2>1
  <2>4. i + 1 \in Kept(arg)
    BY <2>3 DEF Kept, Separators
  <2>5. args' = ArgsRead(arg, i + 1) /\ BufRead(arg, i + 1) = buf
    BY <1>1, <1>2, <2>1, <2>2, ReadPassesOver
  <2>6. args' = ArgsRead(arg, i + 2) /\ buf' = BufRead(arg, i + 2)
    <3> DEFINE k == i + 1
    <3>1. k \in Nat /\ k \in Kept(arg) /\ k + 1 = i + 2
      BY <1>1, <2>4
    <3> HIDE DEF k
    <3>2. ArgsRead(arg, k + 1) = ArgsRead(arg, k) /\ BufRead(arg, k + 1) = Append(BufRead(arg, k), arg[k])
      BY <1>1, <3>1, ReadTakes
    <3>3. ArgsRead(arg, i + 2) = ArgsRead(arg, k) /\ BufRead(arg, i + 2) = Append(BufRead(arg, k), arg[k])
      BY <3>1, <3>2
    <3>. QED
      BY <2>1, <2>5, <3>3 DEF k
  <2>. QED
    BY <1>2, <2>1, <2>6 DEF GoOn, ReadRight
<1>9. CASE BackslashAtEnd \/ QuoteNotClosed \/ ParseArguments
  BY <1>9 DEF BackslashAtEnd, QuoteNotClosed, ParseArguments, Fail, Return, ReadRight
<1>10. CASE LastArgument
  <2>1. /\ pc = "scanning" /\ i = Len(arg) + 1 /\ pc' = "split" /\ arg' = arg
        /\ args' = IF buf = << >> THEN args ELSE Append(args, buf)
    BY <1>1, <1>10 DEF LastArgument, AtEnd, TypeOK
  <2>2. args = ArgsRead(arg, i) /\ buf = BufRead(arg, i)
    BY <2>1 DEF ReadRight
  <2>3. Pieces(arg) = Append(args, buf)
    BY <1>1, <2>1, <2>2, ReadAll
  <2>4. Last(Append(args, buf)) = buf /\ Front(Append(args, buf)) = args
    BY <1>1, LastAndFront
  <2>5. args' = IF Last(Pieces(arg)) = << >> THEN Front(Pieces(arg)) ELSE Pieces(arg)
    BY <2>1, <2>3, <2>4
  <2>6. SplitAsWritten'
    BY <2>1, <2>5 DEF SplitAsWritten
  <2>. QED
    BY <2>1, <2>6 DEF ReadRight
<1>11. CASE UNCHANGED vars
  BY <1>11 DEF vars, scanVars, ReadRight, SplitAsWritten
<1>12. CASE Abort
  BY <1>12 DEF Abort, ReadRight
<1>. QED
  BY <1>4, <1>5, <1>6, <1>7, <1>8, <1>9, <1>10, <1>11, <1>12 DEF Next, Scan

\* A text of any letters and any length is cut at its blanks that are neither
\* escaped nor quoted, into the letters that stand between them; only an empty
\* last piece is dropped.
THEOREM CutAsWritten == Spec => []SplitAsWritten
<1>1. Init => ReadRight
  BY DEF Init, ReadRight
<1>2. ReadRight => SplitAsWritten
  BY DEF ReadRight, SplitAsWritten
<1>. QED
  BY <1>1, <1>2, ReadStep, ScanCorrect, PTL DEF Spec

-----------------------------------------------------------------------------
\* After any number of calls, failed or not, there is an error to show exactly
\* if the last call returned false.
THEOREM ErrorsShown == Spec => []ErrorsTell
<1>1. Init => ErrorsTell
  BY DEF Init, ErrorsTell
<1>2. TypeOK /\ ErrorsTell /\ [Next]_vars => ErrorsTell'
  <2> SUFFICES ASSUME TypeOK, ErrorsTell, [Next]_vars, pc' = "ready"
               PROVE  returned' <=> errors' = << >>
    BY DEF ErrorsTell
  <2>1. ASSUME NEW e, Fail(e) PROVE returned' <=> errors' = << >>
    <3>1. Append(errors, e) # << >>
      <4>1. errors \in Seq(Kinds \cup {e})
        BY DEF TypeOK
      <4>. QED
        BY <4>1, AppendProperties
    <3>. QED
      BY <2>1, <3>1 DEF Fail, Return
  <2>2. CASE BackslashAtEnd \/ QuoteNotClosed
    BY <2>1, <2>2 DEF BackslashAtEnd, QuoteNotClosed
  <2>3. CASE ParseArguments
    <3>1. returned' \in BOOLEAN
      BY <2>3 DEF ParseArguments, Return
    <3>2. \A e : <<e>> # << >>
      OBVIOUS
    <3>. QED
      BY <2>3, <3>1, <3>2 DEF ParseArguments
  <2>4. CASE UNCHANGED vars
    BY <2>4 DEF vars, ErrorsTell
  <2>. QED
    BY <2>2, <2>3, <2>4 DEF Next, Call, Scan, ToggleQuote, EndArgument, TakeEscaped,
       TakeLetter, LastArgument, GoOn, AtLetter, Abort
<1>. QED
  BY <1>1, <1>2, TypeCorrect, PTL DEF Spec

-----------------------------------------------------------------------------
(* Induction over the natural numbers, for sets in place of predicates.    *)

LEMMA LeastNumber ==
  ASSUME NEW T, T \subseteq Nat, T # {}
  PROVE  \E x \in T : \A y \in T : x <= y
<1> DEFINE R == OpToRel(<, Nat)
<1>1. IsWellFoundedOn(R, Nat)
  BY NatLessThanWellFounded
<1>2. ASSUME NEW x \in Nat, NEW y \in Nat, x < y PROVE <<x, y>> \in R
  BY <1>2 DEF OpToRel
<1> HIDE DEF R
<1>3. PICK x \in T : \A y \in T : ~ (<<y, x>> \in R)
  BY <1>1, WFMin
<1>4. ASSUME NEW y \in T PROVE x <= y
  <2>1. x \in Nat /\ y \in Nat /\ ~ (y < x)
    BY <1>2, <1>3
  <2>. QED
    BY <2>1
<1>. QED
  BY <1>4

LEMMA Induction ==
  ASSUME NEW T, 0 \in T, \A n \in Nat : n \in T => n + 1 \in T
  PROVE  \A n \in Nat : n \in T
<1> SUFFICES ASSUME Nat \ T # {} PROVE FALSE
  OBVIOUS
<1>1. PICK m \in Nat \ T : \A k \in Nat \ T : m <= k
  BY LeastNumber
<1>2. m # 0 /\ m - 1 \in Nat
  BY <1>1
<1>3. m - 1 \in T
  BY <1>1, <1>2
<1>. QED
  BY <1>2, <1>3

-----------------------------------------------------------------------------
(***************************************************************************)
(* Sequences that are put together.  FlattenSeq is the value of a          *)
(* recursive function on how many of them it has passed; such a function   *)
(* exists.                                                                 *)
(***************************************************************************)
Flattening(f, ss) == f = [k \in 1 .. Len(ss) |-> IF k = 1 THEN ss[k] ELSE f[k - 1] \o ss[k]]

LEMMA FlatteningExists ==
  ASSUME NEW ss, Len(ss) \in Nat
  PROVE  \E f : Flattening(f, ss)
<1> DEFINE After(f, k) == IF k = 1 THEN ss[k] ELSE f[k - 1] \o ss[k]
           T == {n \in Nat : \E f : f = [k \in 1 .. n |-> After(f, k)]}
<1>1. 0 \in T
  <2> DEFINE f == [k \in 1 .. 0 |-> << >>]
  <2>1. f = [k \in 1 .. 0 |-> After(f, k)]
    OBVIOUS
  <2>. QED
    BY <2>1, Zenon
<1>2. ASSUME NEW n \in Nat, n \in T PROVE n + 1 \in T
  <2>1. PICK f : f = [k \in 1 .. n |-> After(f, k)]
    BY <1>2
  <2> DEFINE g == [k \in 1 .. n + 1 |-> After(f, k)]
  <2>2. \A k \in 1 .. n : g[k] = f[k]
    <3>1. \A k \in 1 .. n : k \in 1 .. n + 1
      OBVIOUS
    <3>2. \A k \in 1 .. n : f[k] = After(f, k)
      BY <2>1
    <3>3. \A k \in 1 .. n + 1 : g[k] = After(f, k)
      OBVIOUS
    <3> HIDE DEF g, After
    <3>. QED
      BY <3>1, <3>2, <3>3
  <2>3. ASSUME NEW k \in 1 .. n + 1
        PROVE  g[k] = After(g, k)
    <3>1. CASE k = 1
      BY <3>1
    <3>2. CASE k # 1
      <4>1. k - 1 \in 1 .. n
        BY <3>2
      <4>2. g[k - 1] = f[k - 1]
        BY <2>2, <4>1
      <4>3. g[k] = After(f, k)
        OBVIOUS
      <4> HIDE DEF g
      <4>. QED
        BY <4>2, <4>3
    <3>. QED
      BY <3>1, <3>2
  <2>4. g = [k \in 1 .. n + 1 |-> g[k]]
    OBVIOUS
  <2> HIDE DEF g, After
  <2>5. g = [k \in 1 .. n + 1 |-> After(g, k)]
    BY <2>3, <2>4, Zenon
  <2>6. n + 1 \in Nat
    OBVIOUS
  <2>. QED
    BY <2>5, <2>6, Zenon
<1> HIDE DEF T
<1>3. Len(ss) \in T
  BY <1>1, <1>2, Induction
<1>4. \E f : f = [k \in 1 .. Len(ss) |-> After(f, k)]
  BY <1>3 DEF T
<1>. QED
  BY <1>4 DEF Flattening

LEMMA FlattenSteps ==
  ASSUME NEW ss, Len(ss) \in Nat, Len(ss) # 0
  PROVE  \E f : /\ FlattenSeq(ss) = f[Len(ss)]
                /\ f[1] = ss[1]
                /\ \A k \in 1 .. Len(ss) : k # 1 => f[k] = f[k - 1] \o ss[k]
<1> DEFINE f == CHOOSE f : Flattening(f, ss)
<1>1. FlattenSeq(ss) = f[Len(ss)]
  BY Zenon DEF FlattenSeq, Flattening
<1>2. Flattening(f, ss)
  BY FlatteningExists, Zenon
<1> HIDE DEF f
<1>3. \A k \in 1 .. Len(ss) : f[k] = IF k = 1 THEN ss[k] ELSE f[k - 1] \o ss[k]
  BY <1>2, Zenon DEF Flattening
<1>4. 1 \in 1 .. Len(ss)
  OBVIOUS
<1>. QED
  BY <1>1, <1>3, <1>4

\* Each of the sequences stands in the whole, behind those before it.
Stands(t, ss, e, n) ==
  \A k \in 1 .. n :
    /\ e[k - 1] \in Nat
    /\ e[k] = e[k - 1] + Len(ss[k])
    /\ e[k] <= Len(t)
    /\ \A j \in 1 .. Len(ss[k]) : t[e[k - 1] + j] = ss[k][j]

LEMMA OneMoreStands ==
  ASSUME NEW ss \in Seq(Seq(STRING)), NEW n \in Nat, n + 1 <= Len(ss), NEW e,
         NEW s \in Seq(STRING), Stands(s, ss, e, n),
         e[n] = Len(s), e[n + 1] = Len(s \o ss[n + 1])
  PROVE  s \o ss[n + 1] \in Seq(STRING) /\ Stands(s \o ss[n + 1], ss, e, n + 1)
<1> DEFINE w == ss[n + 1]
           l == s \o w
<1>1. n + 1 \in 1 .. Len(ss) /\ (n + 1) - 1 = n /\ Len(s) \in Nat
  BY LenProperties
<1>2. w \in Seq(STRING) /\ Len(w) \in Nat
  BY <1>1, ElementOfSeq, LenProperties
<1> HIDE DEF w
<1>3. /\ l \in Seq(STRING) /\ Len(l) = Len(s) + Len(w)
      /\ \A x \in 1 .. Len(s) + Len(w) : l[x] = IF x <= Len(s) THEN s[x] ELSE w[x - Len(s)]
  BY <1>2, ConcatProperties
<1>4. e[n + 1] = Len(l)
  BY DEF w
<1> HIDE DEF l
<1>5. ASSUME NEW k \in 1 .. n
      PROVE  /\ e[k - 1] \in Nat
             /\ e[k] = e[k - 1] + Len(ss[k])
             /\ e[k] <= Len(l)
             /\ \A j \in 1 .. Len(ss[k]) : l[e[k - 1] + j] = ss[k][j]
  <2>1. /\ e[k - 1] \in Nat /\ e[k] = e[k - 1] + Len(ss[k]) /\ e[k] <= Len(s)
        /\ \A j \in 1 .. Len(ss[k]) : s[e[k - 1] + j] = ss[k][j]
    BY DEF Stands
  <2>2. Len(ss[k]) \in Nat
    <3>1. k \in 1 .. Len(ss)
      BY <1>1
    <3>2. ss[k] \in Seq(STRING)
      BY <3>1, ElementOfSeq
    <3>. QED
      BY <3>2, LenProperties
  <2>3. e[k] <= Len(l)
    BY <1>1, <1>2, <1>3, <2>1, <2>2
  <2>4. ASSUME NEW j \in 1 .. Len(ss[k]) PROVE l[e[k - 1] + j] = ss[k][j]
    <3>1. /\ e[k - 1] + j \in 1 .. Len(s) + Len(w) /\ e[k - 1] + j <= Len(s)
      <4>1. e[k - 1] \in Nat /\ e[k] = e[k - 1] + Len(ss[k]) /\ e[k] <= Len(s)
        BY <2>1, Zenon
      <4> DEFINE a == e[k - 1]
                 b == e[k]
                 c == Len(ss[k])
      <4>2. a \in Nat /\ b = a + c /\ b <= Len(s) /\ c \in Nat /\ j \in 1 .. c
        BY <2>2, <4>1
      <4> HIDE DEF a, b, c
      <4>3. a + j \in 1 .. Len(s) + Len(w) /\ a + j <= Len(s)
        BY <1>1, <1>2, <4>2
      <4>. QED
        BY <4>3 DEF a
    <3> DEFINE x == e[k - 1] + j
    <3>2. s[x] = ss[k][j]
      BY <2>1, Zenon
    <3>3. x \in 1 .. Len(s) + Len(w) /\ x <= Len(s)
      BY <3>1
    <3> HIDE DEF x
    <3>4. l[x] = s[x]
      BY <1>3, <3>3
    <3>. QED
      BY <3>2, <3>4 DEF x
  <2>. QED
    BY <2>1, <2>3, <2>4
<1>6. ASSUME NEW j \in 1 .. Len(w) PROVE l[e[n] + j] = w[j]
  <2>1. /\ e[n] + j \in 1 .. Len(s) + Len(w) /\ ~ (e[n] + j <= Len(s)) /\ (e[n] + j) - Len(s) = j
    BY <1>1, <1>2
  <2>. QED
    BY <1>3, <2>1
<1>7. e[n] \in Nat /\ e[n + 1] = e[n] + Len(w) /\ e[n + 1] <= Len(l)
  BY <1>1, <1>2, <1>3, <1>4
<1>8. \A k \in 1 .. n + 1 : k \in 1 .. n \/ k = n + 1
  OBVIOUS
<1>9. Stands(l, ss, e, n + 1)
  <2> SUFFICES ASSUME NEW k \in 1 .. n + 1
               PROVE  /\ e[k - 1] \in Nat
                      /\ e[k] = e[k - 1] + Len(ss[k])
                      /\ e[k] <= Len(l)
                      /\ \A j \in 1 .. Len(ss[k]) : l[e[k - 1] + j] = ss[k][j]
    BY DEF Stands
  <2>1. CASE k = n + 1
    BY <1>1, <1>6, <1>7, <2>1 DEF w
  <2>. QED
    BY <1>5, <1>8, <2>1
<1>. QED
  BY <1>3, <1>9 DEF l, w

LEMMA Flattened ==
  ASSUME NEW ss \in Seq(Seq(STRING))
  PROVE  /\ FlattenSeq(ss) \in Seq(STRING)
         /\ \E e : /\ e[0] = 0
                   /\ e[Len(ss)] = Len(FlattenSeq(ss))
                   /\ Stands(FlattenSeq(ss), ss, e, Len(ss))
<1>1. Len(ss) \in Nat
  BY LenProperties
<1>2. CASE Len(ss) = 0
  <2> DEFINE e == [k \in {0} |-> 0]
  <2>1. FlattenSeq(ss) = ss /\ ss = << >> /\ << >> \in Seq(STRING) /\ e[0] = 0
    BY <1>2, EmptySeq DEF FlattenSeq
  <2>2. Stands(ss, ss, e, 0)
    BY DEF Stands
  <2> HIDE DEF e
  <2>. QED
    BY <1>2, <2>1, <2>2
<1>3. CASE Len(ss) # 0
  <2>1. PICK f : /\ FlattenSeq(ss) = f[Len(ss)]
                 /\ f[1] = ss[1]
                 /\ \A k \in 1 .. Len(ss) : k # 1 => f[k] = f[k - 1] \o ss[k]
    BY <1>1, <1>3, FlattenSteps
  <2> DEFINE e == [k \in 0 .. Len(ss) |-> IF k = 0 THEN 0 ELSE Len(f[k])]
             T == {n \in Nat : n + 1 <= Len(ss) =>
                                 f[n + 1] \in Seq(STRING) /\ Stands(f[n + 1], ss, e, n + 1)}
  <2>2. e[0] = 0 /\ \A k \in 1 .. Len(ss) : e[k] = Len(f[k])
    BY <1>1
  <2> HIDE DEF e
  <2>3. 0 \in T
    <3>1. /\ << >> \in Seq(STRING) /\ Len(<< >>) = 0
      OBVIOUS
    <3>2. Stands(<< >>, ss, e, 0)
      BY DEF Stands
    <3>3. 1 \in 1 .. Len(ss) /\ 0 + 1 = 1
      BY <1>1, <1>3
    <3>4. ss[1] \in Seq(STRING)
      BY <3>3, ElementOfSeq
    <3>5. << >> \o ss[1] = f[1]
      BY <2>1, <3>4, ConcatEmptySeq
    <3>6. e[0 + 1] = Len(<< >> \o ss[0 + 1]) /\ e[0] = Len(<< >>) /\ 0 + 1 <= Len(ss)
      BY <1>1, <1>3, <2>2, <3>1, <3>3, <3>5
    <3>7. f[0 + 1] \in Seq(STRING) /\ Stands(f[0 + 1], ss, e, 0 + 1)
      BY <3>1, <3>2, <3>3, <3>5, <3>6, OneMoreStands
    <3>. QED
      BY <3>7
  <2>4. ASSUME NEW n \in Nat, n \in T PROVE n + 1 \in T
    <3> SUFFICES ASSUME (n + 1) + 1 <= Len(ss)
                 PROVE  f[(n + 1) + 1] \in Seq(STRING) /\ Stands(f[(n + 1) + 1], ss, e, (n + 1) + 1)
      OBVIOUS
    <3>1. /\ n + 1 \in 1 .. Len(ss) /\ (n + 1) + 1 \in 1 .. Len(ss) /\ (n + 1) + 1 # 1
          /\ ((n + 1) + 1) - 1 = n + 1 /\ n + 1 \in Nat
      BY <1>1
    <3>2. f[n + 1] \in Seq(STRING) /\ Stands(f[n + 1], ss, e, n + 1)
      BY <1>1, <2>4, <3>1
    <3> HIDE DEF T
    <3>3. f[(n + 1) + 1] = f[n + 1] \o ss[(n + 1) + 1]
      BY <2>1, <3>1
    <3>4. e[n + 1] = Len(f[n + 1]) /\ e[(n + 1) + 1] = Len(f[n + 1] \o ss[(n + 1) + 1])
      BY <2>2, <3>1, <3>3
    <3> DEFINE m == n + 1
               s == f[m]
    <3>5. m \in Nat /\ m + 1 <= Len(ss) /\ s \in Seq(STRING) /\ Stands(s, ss, e, m)
          /\ e[m] = Len(s) /\ e[m + 1] = Len(s \o ss[m + 1])
      BY <3>1, <3>2, <3>4
    <3>6. f[m + 1] = s \o ss[m + 1]
      BY <3>3
    <3> HIDE DEF m, s
    <3>7. s \o ss[m + 1] \in Seq(STRING) /\ Stands(s \o ss[m + 1], ss, e, m + 1)
      BY <3>5, OneMoreStands
    <3>8. f[m + 1] \in Seq(STRING) /\ Stands(f[m + 1], ss, e, m + 1)
      BY <3>6, <3>7
    <3>. QED
      BY <3>8 DEF m
  <2> HIDE DEF T
  <2>5. Len(ss) - 1 \in T
    <3>1. Len(ss) - 1 \in Nat
      BY <1>1, <1>3
    <3>. QED
      BY <2>3, <2>4, <3>1, Induction
  <2>6. (Len(ss) - 1) + 1 = Len(ss) /\ Len(ss) \in 1 .. Len(ss)
    BY <1>1, <1>3
  <2>7. f[Len(ss)] \in Seq(STRING) /\ Stands(f[Len(ss)], ss, e, Len(ss))
    BY <1>1, <2>5, <2>6 DEF T
  <2>. QED
    BY <2>1, <2>2, <2>6, <2>7
<1>. QED
  BY <1>2, <1>3

-----------------------------------------------------------------------------
(***************************************************************************)
(* A text in which arguments are quoted, by the positions at which what is *)
(* written for their letters begins: at e[m] for the letter m, the closing *)
(* quote being at the last of these positions.                             *)
(***************************************************************************)
Spelled(t, letters, e) ==
  /\ t[e[1] - 1] = Quote
  /\ t[e[Len(letters) + 1]] = Quote
  /\ \A m \in 1 .. Len(letters) + 1 : e[m] \in 2 .. Len(t)
  /\ \A m \in 1 .. Len(letters) :
       IF letters[m] \in {Quote, Backslash}
         THEN t[e[m]] = Backslash /\ t[e[m] + 1] = letters[m] /\ e[m + 1] = e[m] + 2
         ELSE t[e[m]] = letters[m] /\ e[m + 1] = e[m] + 1

\* The texts of the arguments are one behind the other, with a blank between.
Layout(t, given, p) ==
  /\ \A n \in 1 .. Len(given) : Spelled(t, given[n], p[n])
  /\ given = << >> => t = << >>
  /\ given # << >> => p[1][1] = 2 /\ p[Len(given)][Len(given[Len(given)]) + 1] = Len(t)
  /\ \A n \in 1 .. Len(given) - 1 :
       /\ t[p[n][Len(given[n]) + 1] + 1] = Blank
       /\ p[n + 1][1] = p[n][Len(given[n]) + 1] + 3

\* What is written for a letter.
Written(c) == IF c \in {Quote, Backslash} THEN <<Backslash, c>> ELSE <<c>>

LEMMA ShortSequences ==
  ASSUME NEW S, NEW b \in S, NEW c \in S
  PROVE  /\ <<b>> \in Seq(S) /\ Len(<<b>>) = 1 /\ <<b>>[1] = b
         /\ <<b, c>> \in Seq(S) /\ Len(<<b, c>>) = 2 /\ <<b, c>>[1] = b /\ <<b, c>>[2] = c
  OBVIOUS

LEMMA WrittenLetter ==
  ASSUME NEW c \in STRING
  PROVE  /\ Written(c) \in Seq(STRING)
         /\ IF c \in {Quote, Backslash}
              THEN Len(Written(c)) = 2 /\ Written(c)[1] = Backslash /\ Written(c)[2] = c
              ELSE Len(Written(c)) = 1 /\ Written(c)[1] = c
<1>1. Backslash \in STRING
  BY StringsAssumption
<1>2. /\ <<c>> \in Seq(STRING) /\ Len(<<c>>) = 1 /\ <<c>>[1] = c
      /\ <<Backslash, c>> \in Seq(STRING) /\ Len(<<Backslash, c>>) = 2
      /\ <<Backslash, c>>[1] = Backslash /\ <<Backslash, c>>[2] = c
  BY <1>1, ShortSequences
<1>3. CASE c \in {Quote, Backslash}
  <2>1. Written(c) = <<Backslash, c>>
    BY <1>3 DEF Written
  <2>. QED
    BY <1>2, <1>3, <2>1, Zenon
<1>4. CASE c \notin {Quote, Backslash}
  <2>1. Written(c) = <<c>>
    BY <1>4 DEF Written
  <2>. QED
    BY <1>2, <1>4, <2>1, Zenon
<1>. QED
  BY <1>3, <1>4

LEMMA EscapeLayout ==
  ASSUME NEW letters \in Seq(STRING)
  PROVE  /\ Escape(letters) \in Seq(STRING)
         /\ \E e : /\ e[0] = 0
                   /\ e[Len(letters)] = Len(Escape(letters))
                   /\ \A m \in 1 .. Len(letters) :
                        /\ e[m - 1] \in Nat /\ e[m] \in Nat /\ e[m] <= Len(Escape(letters))
                        /\ IF letters[m] \in {Quote, Backslash}
                             THEN /\ Escape(letters)[e[m - 1] + 1] = Backslash
                                  /\ Escape(letters)[e[m - 1] + 2] = letters[m]
                                  /\ e[m] = e[m - 1] + 2
                             ELSE Escape(letters)[e[m - 1] + 1] = letters[m] /\ e[m] = e[m - 1] + 1
<1> DEFINE ss == [n \in DOMAIN letters |-> IF letters[n] \in {Quote, Backslash} THEN <<Backslash, letters[n]>>
                                                                              ELSE <<letters[n]>>]
           t == Escape(letters)
<1>1. DOMAIN letters = 1 .. Len(letters) /\ Len(letters) \in Nat
  BY LenProperties
<1>2. t = FlattenSeq(ss)
  BY DEF Escape
<1>3. ASSUME NEW m \in 1 .. Len(letters)
      PROVE  /\ ss[m] = Written(letters[m])
             /\ ss[m] \in Seq(STRING)
             /\ IF letters[m] \in {Quote, Backslash}
                  THEN Len(ss[m]) = 2 /\ ss[m][1] = Backslash /\ ss[m][2] = letters[m]
                  ELSE Len(ss[m]) = 1 /\ ss[m][1] = letters[m]
  <2>1. ss[m] = Written(letters[m])
    BY <1>1 DEF Written
  <2>2. letters[m] \in STRING
    BY ElementOfSeq
  <2>3. letters[m] \in STRING => /\ Written(letters[m]) \in Seq(STRING)
                                 /\ IF letters[m] \in {Quote, Backslash}
                                      THEN /\ Len(Written(letters[m])) = 2
                                           /\ Written(letters[m])[1] = Backslash
                                           /\ Written(letters[m])[2] = letters[m]
                                      ELSE Len(Written(letters[m])) = 1 /\ Written(letters[m])[1] = letters[m]
    BY WrittenLetter
  <2> HIDE DEF ss
  <2>. QED
    BY <2>1, <2>2, <2>3, Zenon
<1>4. ss \in Seq(Seq(STRING)) /\ Len(ss) = Len(letters)
  <2>1. ss = [n \in 1 .. Len(letters) |-> ss[n]]
    BY <1>1
  <2> HIDE DEF ss
  <2>2. ss \in [1 .. Len(letters) -> Seq(STRING)]
    BY <1>3, <2>1
  <2>. QED
    BY <1>1, <2>2
<1> HIDE DEF ss, t
<1>5. /\ t \in Seq(STRING)
      /\ \E e : /\ e[0] = 0
                /\ e[Len(ss)] = Len(t)
                /\ Stands(t, ss, e, Len(ss))
  BY <1>2, <1>4, Flattened
<1>6. PICK e : e[0] = 0 /\ e[Len(letters)] = Len(t) /\ Stands(t, ss, e, Len(letters))
  BY <1>4, <1>5
<1>7. ASSUME NEW m \in 1 .. Len(letters)
      PROVE  /\ e[m - 1] \in Nat /\ e[m] \in Nat /\ e[m] <= Len(t)
             /\ IF letters[m] \in {Quote, Backslash}
                  THEN t[e[m - 1] + 1] = Backslash /\ t[e[m - 1] + 2] = letters[m] /\ e[m] = e[m - 1] + 2
                  ELSE t[e[m - 1] + 1] = letters[m] /\ e[m] = e[m - 1] + 1
  <2>1. /\ e[m - 1] \in Nat /\ e[m] = e[m - 1] + Len(ss[m]) /\ e[m] <= Len(t)
        /\ \A j \in 1 .. Len(ss[m]) : t[e[m - 1] + j] = ss[m][j]
    BY <1>6 DEF Stands
  <2>2. CASE letters[m] \in {Quote, Backslash}
    <3>1. Len(ss[m]) = 2 /\ ss[m][1] = Backslash /\ ss[m][2] = letters[m]
      BY <1>3, <2>2
    <3>2. 1 \in 1 .. Len(ss[m]) /\ 2 \in 1 .. Len(ss[m])
      BY <3>1
    <3>. QED
      BY <2>1, <2>2, <3>1, <3>2
  <2>3. CASE letters[m] \notin {Quote, Backslash}
    <3>1. Len(ss[m]) = 1 /\ ss[m][1] = letters[m]
      BY <1>3, <2>3
    <3>2. 1 \in 1 .. Len(ss[m])
      BY <3>1
    <3>. QED
      BY <2>1, <2>3, <3>1, <3>2
  <2>. QED
    BY <2>2, <2>3
<1>8. /\ t \in Seq(STRING)
      /\ \E d : /\ d[0] = 0
                /\ d[Len(letters)] = Len(t)
                /\ \A m \in 1 .. Len(letters) :
                     /\ d[m - 1] \in Nat /\ d[m] \in Nat /\ d[m] <= Len(t)
                     /\ IF letters[m] \in {Quote, Backslash}
                          THEN /\ t[d[m - 1] + 1] = Backslash
                               /\ t[d[m - 1] + 2] = letters[m]
                               /\ d[m] = d[m - 1] + 2
                          ELSE t[d[m - 1] + 1] = letters[m] /\ d[m] = d[m - 1] + 1
  BY <1>5, <1>6, <1>7, Zenon
<1>. QED
  BY <1>8 DEF t

LEMMA Surrounded ==
  ASSUME NEW s \in Seq(STRING), NEW q \in STRING
  PROVE  /\ <<q>> \o s \o <<q>> \in Seq(STRING)
         /\ Len(<<q>> \o s \o <<q>>) = Len(s) + 2
         /\ (<<q>> \o s \o <<q>>)[1] = q
         /\ (<<q>> \o s \o <<q>>)[Len(s) + 2] = q
         /\ \A j \in 1 .. Len(s) : (<<q>> \o s \o <<q>>)[j + 1] = s[j]
<1> DEFINE o == <<q>>
           u == o \o s
           t == u \o o
<1>1. o \in Seq(STRING) /\ Len(o) = 1 /\ o[1] = q /\ Len(s) \in Nat
  BY ShortSequences, LenProperties
<1> HIDE DEF o
<1>2. /\ u \in Seq(STRING) /\ Len(u) = Len(s) + 1
      /\ \A j \in 1 .. Len(s) + 1 : u[j] = IF j <= 1 THEN o[j] ELSE s[j - 1]
  <2>1. /\ u \in Seq(STRING) /\ Len(u) = Len(o) + Len(s)
        /\ \A j \in 1 .. Len(o) + Len(s) : u[j] = IF j <= Len(o) THEN o[j] ELSE s[j - Len(o)]
    BY <1>1, ConcatProperties
  <2>2. Len(o) + Len(s) = Len(s) + 1
    BY <1>1
  <2> HIDE DEF u
  <2>. QED
    BY <1>1, <2>1, <2>2
<1> HIDE DEF u
<1>3. /\ t \in Seq(STRING) /\ Len(t) = Len(s) + 2
      /\ \A j \in 1 .. Len(s) + 2 : t[j] = IF j <= Len(s) + 1 THEN u[j] ELSE o[j - (Len(s) + 1)]
  <2>1. /\ t \in Seq(STRING) /\ Len(t) = Len(u) + Len(o)
        /\ \A j \in 1 .. Len(u) + Len(o) : t[j] = IF j <= Len(u) THEN u[j] ELSE o[j - Len(u)]
    BY <1>1, <1>2, ConcatProperties
  <2>2. Len(u) + Len(o) = Len(s) + 2 /\ Len(u) = Len(s) + 1
    BY <1>1, <1>2
  <2> HIDE DEF t
  <2>. QED
    BY <2>1, <2>2
<1> HIDE DEF t
<1>4. t[1] = q /\ t[Len(s) + 2] = q
  <2> DEFINE k == Len(s) + 2
  <2>1. /\ 1 \in 1 .. Len(s) + 1 /\ 1 \in 1 .. k /\ 1 <= Len(s) + 1 /\ 1 <= 1
        /\ k \in 1 .. k /\ ~ (k <= Len(s) + 1) /\ k - (Len(s) + 1) = 1
    BY <1>1
  <2>2. t[1] = u[1] /\ u[1] = o[1]
    BY <1>2, <1>3, <2>1
  <2>3. t[k] = o[1]
    <3>1. \A j \in 1 .. k : t[j] = IF j <= Len(s) + 1 THEN u[j] ELSE o[j - (Len(s) + 1)]
      BY <1>3
    <3> HIDE DEF k
    <3>. QED
      BY <2>1, <3>1
  <2>. QED
    BY <1>1, <2>2, <2>3
<1>5. ASSUME NEW j \in 1 .. Len(s) PROVE t[j + 1] = s[j]
  <2> DEFINE k == j + 1
  <2>1. k \in 1 .. Len(s) + 1 /\ k \in 1 .. Len(s) + 2 /\ k <= Len(s) + 1 /\ ~ (k <= 1) /\ k - 1 = j
    BY <1>1
  <2> HIDE DEF k
  <2>2. t[k] = s[j]
    BY <1>2, <1>3, <2>1
  <2>. QED
    BY <2>2 DEF k
<1>. QED
  BY <1>3, <1>4, <1>5 DEF t, u, o

SpelledAlone(letters, e) ==
  /\ e[1] = 2
  /\ e[Len(letters) + 1] = Len(QuoteArgument(letters))
  /\ Spelled(QuoteArgument(letters), letters, e)

LEMMA ArgumentLayout ==
  ASSUME NEW letters \in Seq(STRING)
  PROVE  /\ QuoteArgument(letters) \in Seq(STRING)
         /\ \E e : SpelledAlone(letters, e)
<1> DEFINE s == Escape(letters)
           t == QuoteArgument(letters)
           len == Len(letters)
<1>1. len \in Nat
  BY LenProperties
<1>2. s \in Seq(STRING)
  BY EscapeLayout
<1>3. PICK d : /\ d[0] = 0
               /\ d[len] = Len(s)
               /\ \A m \in 1 .. len :
                    /\ d[m - 1] \in Nat /\ d[m] \in Nat /\ d[m] <= Len(s)
                    /\ IF letters[m] \in {Quote, Backslash}
                         THEN /\ s[d[m - 1] + 1] = Backslash
                              /\ s[d[m - 1] + 2] = letters[m]
                              /\ d[m] = d[m - 1] + 2
                         ELSE s[d[m - 1] + 1] = letters[m] /\ d[m] = d[m - 1] + 1
  BY EscapeLayout
<1>4. /\ t \in Seq(STRING) /\ Len(t) = Len(s) + 2 /\ t[1] = Quote /\ t[Len(s) + 2] = Quote
      /\ \A j \in 1 .. Len(s) : t[j + 1] = s[j]
      /\ Len(s) \in Nat
  BY <1>2, StringsAssumption, Surrounded, LenProperties DEF QuoteArgument
<1> HIDE DEF s, t, len
<1> DEFINE e == [m \in 1 .. len + 1 |-> d[m - 1] + 2]
<1>5. \A m \in 1 .. len + 1 : e[m] = d[m - 1] + 2
  OBVIOUS
<1> HIDE DEF e
<1>6. 1 \in 1 .. len + 1 /\ len + 1 \in 1 .. len + 1 /\ (len + 1) - 1 = len /\ 1 - 1 = 0
  BY <1>1
<1>7. e[1] = 2 /\ e[len + 1] = Len(t)
  BY <1>3, <1>4, <1>5, <1>6
<1>8. ASSUME NEW m \in 1 .. len + 1
      PROVE  e[m] \in 2 .. Len(t)
  <2>1. CASE m = 1
    BY <1>4, <1>7, <2>1
  <2>2. CASE m # 1
    <3>1. m - 1 \in 1 .. len
      BY <1>1, <2>2
    <3>2. d[m - 1] \in Nat /\ d[m - 1] <= Len(s)
      BY <1>3, <3>1
    <3>. QED
      BY <1>4, <1>5, <3>2
  <2>. QED
    BY <2>1, <2>2
<1>9. ASSUME NEW m \in 1 .. len
      PROVE  IF letters[m] \in {Quote, Backslash}
               THEN t[e[m]] = Backslash /\ t[e[m] + 1] = letters[m] /\ e[m + 1] = e[m] + 2
               ELSE t[e[m]] = letters[m] /\ e[m + 1] = e[m] + 1
  <2> DEFINE a == d[m - 1]
             b == d[m]
  <2>1. m \in 1 .. len + 1 /\ m + 1 \in 1 .. len + 1 /\ (m + 1) - 1 = m
    BY <1>1
  <2>2. e[m] = a + 2 /\ e[m + 1] = b + 2
    BY <1>5, <2>1
  <2>3. a \in Nat /\ b \in Nat /\ b <= Len(s)
    BY <1>3
  <2>4. CASE letters[m] \in {Quote, Backslash}
    <3>1. s[a + 1] = Backslash /\ s[a + 2] = letters[m] /\ b = a + 2
      BY <1>3, <2>4
    <3> HIDE DEF a, b
    <3>2. a + 1 \in 1 .. Len(s) /\ a + 2 \in 1 .. Len(s) /\ (a + 1) + 1 = a + 2 /\ (a + 2) + 1 = (a + 2) + 1
      BY <1>4, <2>3, <3>1
    <3>3. t[a + 2] = Backslash /\ t[(a + 2) + 1] = letters[m]
      BY <1>4, <3>1, <3>2
    <3>4. e[m + 1] = e[m] + 2
      BY <2>2, <2>3, <3>1
    <3>. QED
      BY <2>2, <2>4, <3>3, <3>4
  <2>5. CASE letters[m] \notin {Quote, Backslash}
    <3>1. s[a + 1] = letters[m] /\ b = a + 1
      BY <1>3, <2>5
    <3> HIDE DEF a, b
    <3>2. a + 1 \in 1 .. Len(s) /\ (a + 1) + 1 = a + 2
      BY <1>4, <2>3, <3>1
    <3>3. t[a + 2] = letters[m]
      BY <1>4, <3>1, <3>2
    <3>4. e[m + 1] = e[m] + 1
      BY <2>2, <2>3, <3>1
    <3>. QED
      BY <2>2, <2>5, <3>3, <3>4
  <2>. QED
    BY <2>4, <2>5
<1>10. t[e[1] - 1] = Quote /\ t[e[len + 1]] = Quote
  BY <1>4, <1>7
<1>11. Spelled(t, letters, e)
  BY <1>8, <1>9, <1>10 DEF Spelled, len
<1>12. SpelledAlone(letters, e)
  BY <1>7, <1>11 DEF SpelledAlone, t, len
<1>. QED
  BY <1>4, <1>12 DEF t

\* An argument that stands further behind in a longer text.
LEMMA Shifted ==
  ASSUME NEW s \in Seq(STRING), NEW t \in Seq(STRING), NEW letters \in Seq(STRING), NEW e,
         Spelled(s, letters, e), NEW b \in Nat,
         \A j \in 1 .. Len(s) : b + j \in 1 .. Len(t) /\ t[b + j] = s[j]
  PROVE  Spelled(t, letters, [m \in 1 .. Len(letters) + 1 |-> e[m] + b])
<1> DEFINE len == Len(letters)
           p == [m \in 1 .. len + 1 |-> e[m] + b]
<1>1. len \in Nat /\ Len(s) \in Nat /\ Len(t) \in Nat
  BY LenProperties
<1> HIDE DEF len
<1>2. \A m \in 1 .. len + 1 : p[m] = e[m] + b
  OBVIOUS
<1>3. 1 \in 1 .. len + 1 /\ len + 1 \in 1 .. len + 1
  BY <1>1
<1> HIDE DEF p
<1>4. /\ s[e[1] - 1] = Quote /\ s[e[len + 1]] = Quote
      /\ \A m \in 1 .. len + 1 : e[m] \in 2 .. Len(s)
      /\ \A m \in 1 .. len :
           IF letters[m] \in {Quote, Backslash}
             THEN s[e[m]] = Backslash /\ s[e[m] + 1] = letters[m] /\ e[m + 1] = e[m] + 2
             ELSE s[e[m]] = letters[m] /\ e[m + 1] = e[m] + 1
  BY DEF Spelled, len
<1>5. ASSUME NEW x \in Int, x \in 1 .. Len(s) PROVE x + b \in 1 .. Len(t) /\ t[x + b] = s[x]
  <2>1. b + x = x + b
    BY <1>1
  <2>. QED
    BY <1>5, <2>1
<1>6. ASSUME NEW m \in 1 .. len + 1 PROVE p[m] \in 2 .. Len(t)
  <2>1. e[m] \in Int /\ e[m] \in 1 .. Len(s) /\ 2 <= e[m]
    BY <1>1, <1>4
  <2>2. e[m] + b \in 1 .. Len(t)
    BY <1>5, <2>1
  <2>. QED
    BY <1>1, <1>2, <2>1, <2>2
<1>7. t[p[len + 1]] = Quote
  <2>1. e[len + 1] \in Int /\ e[len + 1] \in 1 .. Len(s)
    <3>1. e[len + 1] \in 2 .. Len(s)
      BY <1>3, <1>4, Zenon
    <3>. QED
      BY <1>1, <3>1
  <2>2. t[e[len + 1] + b] = s[e[len + 1]]
    BY <1>5, <2>1
  <2>. QED
    BY <1>2, <1>3, <1>4, <2>2, Zenon
<1>8. t[p[1] - 1] = Quote
  <2> DEFINE x == e[1] - 1
  <2>1. x \in Int /\ x \in 1 .. Len(s) /\ p[1] - 1 = x + b
    <3>1. p[1] = e[1] + b /\ e[1] \in 2 .. Len(s)
      BY <1>2, <1>3, <1>4, Zenon
    <3>. QED
      BY <1>1, <3>1
  <2>2. s[x] = Quote
    BY <1>4
  <2> HIDE DEF x
  <2>. QED
    BY <1>5, <2>1, <2>2
<1>9. ASSUME NEW m \in 1 .. len
      PROVE  IF letters[m] \in {Quote, Backslash}
               THEN t[p[m]] = Backslash /\ t[p[m] + 1] = letters[m] /\ p[m + 1] = p[m] + 2
               ELSE t[p[m]] = letters[m] /\ p[m + 1] = p[m] + 1
  <2>1. m \in 1 .. len + 1 /\ m + 1 \in 1 .. len + 1
    BY <1>1
  <2> DEFINE x == e[m]
             y == e[m + 1]
  <2>2. p[m] = x + b /\ p[m + 1] = y + b /\ x \in 2 .. Len(s) /\ y \in 2 .. Len(s)
    BY <1>2, <1>4, <2>1
  <2>3. CASE letters[m] \in {Quote, Backslash}
    <3>1. s[x] = Backslash /\ s[x + 1] = letters[m] /\ y = x + 2
      BY <1>4, <2>3, Zenon
    <3> HIDE DEF x, y
    <3>2. /\ x \in Int /\ x \in 1 .. Len(s) /\ x + 1 \in Int /\ x + 1 \in 1 .. Len(s)
          /\ (x + 1) + b = (x + b) + 1 /\ y + b = (x + b) + 2
      <4>1. y = x + 2 /\ x \in 2 .. Len(s) /\ y \in 2 .. Len(s)
        BY <2>2, <3>1, Zenon
      <4>. QED
        BY <1>1, <4>1
    <3>3. t[x + b] = Backslash /\ t[(x + 1) + b] = letters[m]
      BY <1>5, <3>1, <3>2
    <3>. QED
      BY <2>2, <2>3, <3>2, <3>3
  <2>4. CASE letters[m] \notin {Quote, Backslash}
    <3>1. s[x] = letters[m] /\ y = x + 1
      BY <1>4, <2>4
    <3> HIDE DEF x, y
    <3>2. x \in Int /\ x \in 1 .. Len(s) /\ y + b = (x + b) + 1
      BY <1>1, <2>2, <3>1
    <3>3. t[x + b] = letters[m]
      BY <1>5, <3>1, <3>2
    <3>. QED
      BY <2>2, <2>4, <3>2, <3>3
  <2>. QED
    BY <2>3, <2>4
<1>10. Spelled(t, letters, p)
  BY <1>6, <1>7, <1>8, <1>9 DEF Spelled, len
<1>. QED
  BY <1>10 DEF p, len

LEMMA HasLayout ==
  ASSUME NEW given \in Seq(Seq(STRING))
  PROVE  /\ QuoteArguments(given) \in Seq(STRING)
         /\ \E p : Layout(QuoteArguments(given), given, p)
<1> DEFINE ss == [n \in DOMAIN given |-> IF n = 1 THEN QuoteArgument(given[n])
                                             ELSE <<Blank>> \o QuoteArgument(given[n])]
           len == Len(given)
           t == QuoteArguments(given)
           q == [n \in 1 .. len |-> QuoteArgument(given[n])]
           r == [n \in 1 .. len |-> IF n = 1 THEN 0 ELSE 1]
<1>1. len \in Nat /\ DOMAIN given = 1 .. len
  BY LenProperties
<1>2. t = FlattenSeq(ss)
  BY DEF QuoteArguments
<1>3. /\ \A n \in 1 .. len : q[n] = QuoteArgument(given[n])
      /\ \A n \in 1 .. len : r[n] \in Nat /\ (n = 1 => r[n] = 0) /\ (n # 1 => r[n] = 1)
  OBVIOUS
<1>4. \A n \in 1 .. len : ss[n] = IF n = 1 THEN QuoteArgument(given[n]) ELSE <<Blank>> \o QuoteArgument(given[n])
  BY <1>1
<1>5. ss = [n \in 1 .. len |-> ss[n]]
  BY <1>1
<1> HIDE DEF ss, t, len, q, r
<1>6. ASSUME NEW n \in 1 .. len
      PROVE  given[n] \in Seq(STRING) /\ q[n] \in Seq(STRING) /\ Len(q[n]) \in Nat /\ Len(given[n]) \in Nat
  <2>1. given[n] \in Seq(STRING)
    BY ElementOfSeq DEF len
  <2>2. q[n] \in Seq(STRING)
    BY <1>3, <2>1, ArgumentLayout
  <2>. QED
    BY <2>1, <2>2, LenProperties
<1>7. ASSUME NEW n \in 1 .. len
      PROVE  /\ ss[n] \in Seq(STRING)
             /\ Len(ss[n]) = r[n] + Len(q[n])
             /\ \A j \in 1 .. Len(q[n]) : ss[n][r[n] + j] = q[n][j]
             /\ n # 1 => ss[n][1] = Blank
  <2> DEFINE w == q[n]
             u == ss[n]
  <2>1. w \in Seq(STRING) /\ Len(w) \in Nat
    BY <1>6
  <2>2. CASE n = 1
    <3>1. u = w /\ r[n] = 0
      BY <1>3, <1>4, <2>2
    <3> HIDE DEF u, w
    <3>2. Len(u) = 0 + Len(w) /\ \A j \in 1 .. Len(w) : u[0 + j] = w[j]
      BY <2>1, <3>1
    <3>. QED
      BY <2>1, <2>2, <3>1, <3>2 DEF u, w
  <2>3. CASE n # 1
    <3> DEFINE o == <<Blank>>
    <3>1. u = o \o w /\ r[n] = 1
      BY <1>3, <1>4, <2>3
    <3>2. o \in Seq(STRING) /\ Len(o) = 1 /\ o[1] = Blank
      BY StringsAssumption, ShortSequences
    <3> HIDE DEF u, w, o
    <3>3. /\ u \in Seq(STRING) /\ Len(u) = Len(o) + Len(w)
          /\ \A j \in 1 .. Len(o) + Len(w) : u[j] = IF j <= Len(o) THEN o[j] ELSE w[j - Len(o)]
      BY <2>1, <3>1, <3>2, ConcatProperties
    <3>4. u[1] = Blank /\ Len(u) = 1 + Len(w)
      BY <2>1, <3>2, <3>3
    <3>5. ASSUME NEW j \in 1 .. Len(w) PROVE u[1 + j] = w[j]
      <4> DEFINE k == 1 + j
      <4>1. k \in 1 .. Len(o) + Len(w) /\ ~ (k <= Len(o)) /\ k - Len(o) = j
        BY <2>1, <3>2
      <4> HIDE DEF k
      <4>2. u[k] = w[j]
        BY <3>3, <4>1
      <4>. QED
        BY <4>2 DEF k
    <3>. QED
      BY <3>1, <3>3, <3>4, <3>5 DEF u, w
  <2>. QED
    BY <2>2, <2>3
<1>8. ss \in Seq(Seq(STRING)) /\ Len(ss) = len
  <2>1. ss \in [1 .. len -> Seq(STRING)]
    BY <1>5, <1>7
  <2>. QED
    BY <1>1, <2>1
<1>9. /\ t \in Seq(STRING)
      /\ \E e : e[0] = 0 /\ e[Len(ss)] = Len(t) /\ Stands(t, ss, e, Len(ss))
  BY <1>2, <1>8, Flattened
<1>10. PICK d : d[0] = 0 /\ d[len] = Len(t) /\ Stands(t, ss, d, len)
  BY <1>8, <1>9
<1>11. Len(t) \in Nat
  BY <1>9, LenProperties
<1>12. CASE len = 0
  <2>1. given = << >> /\ t = << >>
    <3>1. Len(t) = 0
      BY <1>10, <1>12
    <3>. QED
      BY <1>9, <1>12, <3>1, EmptySeq DEF len
  <2>2. Layout(t, given, << >>)
    BY <1>12, <2>1 DEF Layout, len
  <2>. QED
    BY <1>9, <2>2 DEF t
<1>13. CASE len # 0
  <2> DEFINE Own == [n \in 1 .. len |-> CHOOSE e : SpelledAlone(given[n], e)]
             b == [n \in 1 .. len |-> d[n - 1] + r[n]]
             p == [n \in 1 .. len |-> [m \in 1 .. Len(given[n]) + 1 |-> Own[n][m] + b[n]]]
  <2>1. ASSUME NEW n \in 1 .. len PROVE SpelledAlone(given[n], Own[n])
    <3>1. \E e : SpelledAlone(given[n], e)
      BY <1>6, ArgumentLayout
    <3>2. Own[n] = CHOOSE e : SpelledAlone(given[n], e)
      OBVIOUS
    <3> HIDE DEF Own
    <3>. QED
      BY <3>1, <3>2, Zenon
  <2> HIDE DEF Own
  <2>2. \A n \in 1 .. len : p[n] = [m \in 1 .. Len(given[n]) + 1 |-> Own[n][m] + b[n]]
    OBVIOUS
  <2> HIDE DEF p
  <2>3. \A n \in 1 .. len : b[n] = d[n - 1] + r[n]
    OBVIOUS
  <2> HIDE DEF b
  <2>4. \A n \in 1 .. len : r[n] \in Nat
    BY <1>3
  <2>5. ASSUME NEW n \in 1 .. len
        PROVE  /\ d[n - 1] \in Nat /\ d[n] = d[n - 1] + Len(ss[n]) /\ d[n] <= Len(t)
               /\ \A j \in 1 .. Len(ss[n]) : t[d[n - 1] + j] = ss[n][j]
    BY <1>10 DEF Stands
  <2>6. ASSUME NEW n \in 1 .. len
        PROVE  /\ b[n] \in Nat /\ d[n] = b[n] + Len(q[n])
               /\ \A j \in 1 .. Len(q[n]) : b[n] + j \in 1 .. Len(t) /\ t[b[n] + j] = q[n][j]
    <3> DEFINE a == d[n - 1]
               c == d[n]
               u == ss[n]
               w == q[n]
               x == r[n]
    <3>1. /\ a \in Nat /\ c = a + Len(u) /\ c <= Len(t)
          /\ \A j \in 1 .. Len(u) : t[a + j] = u[j]
      BY <2>5
    <3>2. Len(w) \in Nat /\ Len(u) = x + Len(w) /\ \A j \in 1 .. Len(w) : u[x + j] = w[j]
      BY <1>6, <1>7, Zenon
    <3>3. x \in Nat /\ b[n] = a + x
      BY <2>3, <2>4, Zenon
    <3> HIDE DEF a, c, u, w, x
    <3>4. b[n] \in Nat /\ c = b[n] + Len(w)
      BY <3>1, <3>2, <3>3
    <3>5. ASSUME NEW j \in 1 .. Len(w) PROVE b[n] + j \in 1 .. Len(t) /\ t[b[n] + j] = w[j]
      <4> DEFINE k == x + j
      <4>1. k \in 1 .. Len(u) /\ a + k = b[n] + j /\ b[n] + j \in 1 .. Len(t)
        BY <1>11, <3>1, <3>2, <3>3
      <4>2. u[k] = w[j]
        BY <3>2
      <4> HIDE DEF k
      <4>3. t[a + k] = u[k]
        BY <3>1, <4>1
      <4>. QED
        BY <4>1, <4>2, <4>3
    <3>. QED
      BY <3>4, <3>5 DEF c, w
  <2>7. ASSUME NEW n \in 1 .. len
        PROVE  Spelled(t, given[n], p[n]) /\ p[n][1] = 2 + b[n] /\ p[n][Len(given[n]) + 1] = d[n]
    <3> DEFINE e == Own[n]
               a == given[n]
               s == q[n]
               x == b[n]
               v == [m \in 1 .. Len(a) + 1 |-> e[m] + x]
    <3>1. p[n] = v
      BY <2>2
    <3>2. a \in Seq(STRING) /\ s \in Seq(STRING) /\ Len(a) \in Nat /\ Len(s) \in Nat
      BY <1>6
    <3>3. Spelled(s, a, e) /\ e[1] = 2 /\ e[Len(a) + 1] = Len(s)
      <4>1. s = QuoteArgument(a)
        BY <1>3
      <4>2. SpelledAlone(a, e)
        BY <2>1
      <4> HIDE DEF a, e, s
      <4>. QED
        BY <4>1, <4>2 DEF SpelledAlone
    <3>4. x \in Nat /\ d[n] = x + Len(s)
          /\ \A j \in 1 .. Len(s) : x + j \in 1 .. Len(t) /\ t[x + j] = s[j]
      BY <2>6
    <3> HIDE DEF e, a, s, x
    <3>5. Spelled(t, a, v)
      BY <1>9, <3>2, <3>3, <3>4, Shifted
    <3>6. 1 \in 1 .. Len(a) + 1 /\ Len(a) + 1 \in 1 .. Len(a) + 1
      BY <3>2
    <3>7. v[1] = 2 + x /\ v[Len(a) + 1] = Len(s) + x
      BY <3>3, <3>6
    <3> HIDE DEF v
    <3>8. Len(s) + x = d[n]
      BY <3>2, <3>4
    <3>. QED
      BY <3>1, <3>5, <3>7, <3>8 DEF a, x
  <2>8. 1 \in 1 .. len /\ len \in 1 .. len
    BY <1>1, <1>13
  <2>9. given # << >>
    <3>1. Len(<< >>) = 0
      OBVIOUS
    <3>. QED
      BY <1>13, <3>1, Zenon DEF len
  <2>10. p[1][1] = 2 /\ p[len][Len(given[len]) + 1] = Len(t)
    <3>1. b[1] = 0
      <4>1. b[1] = d[0] + 0
        <5>1. b[1] = d[1 - 1] + r[1] /\ r[1] = 0
          BY <1>3, <2>3, <2>8, Zenon
        <5>. QED
          BY <5>1
      <4>. QED
        BY <1>10, <4>1
    <3>2. p[1][1] = 2 + b[1] /\ p[len][Len(given[len]) + 1] = d[len]
      BY <2>7, <2>8, Zenon
    <3>. QED
      BY <1>10, <3>1, <3>2
  <2>11. ASSUME NEW n \in 1 .. len - 1
         PROVE  /\ t[p[n][Len(given[n]) + 1] + 1] = Blank
                /\ p[n + 1][1] = p[n][Len(given[n]) + 1] + 3
    <3> DEFINE k == n + 1
    <3>1. n \in 1 .. len /\ k \in 1 .. len /\ k # 1 /\ k - 1 = n
      BY <1>1
    <3> HIDE DEF k
    <3>2. d[n] \in Nat /\ \A j \in 1 .. Len(ss[k]) : t[d[n] + j] = ss[k][j]
      BY <2>5, <3>1
    <3>3. r[k] = 1
      BY <1>3, <3>1
    <3>4. 1 \in 1 .. Len(ss[k]) /\ ss[k][1] = Blank
      <4>1. Len(ss[k]) = r[k] + Len(q[k]) /\ ss[k][1] = Blank /\ Len(q[k]) \in Nat
        BY <1>6, <1>7, <3>1, Zenon
      <4>. QED
        BY <3>3, <4>1
    <3>5. b[k] = d[n] + 1
      BY <2>3, <3>1, <3>3
    <3>6. t[d[n] + 1] = Blank
      BY <3>2, <3>4
    <3>7. p[k][1] = d[n] + 3
      <4>1. p[k][1] = 2 + b[k]
        BY <2>7, <3>1, Zenon
      <4>. QED
        BY <3>2, <3>5, <4>1
    <3>8. p[n][Len(given[n]) + 1] = d[n]
      BY <2>7, <3>1, Zenon
    <3>. QED
      BY <3>6, <3>7, <3>8 DEF k
  <2>12. Layout(t, given, p)
    <3>1. \A n \in 1 .. len : Spelled(t, given[n], p[n])
      BY <2>7
    <3>. QED
      BY <2>9, <2>10, <2>11, <3>1, Zenon DEF Layout, len
  <2>. QED
    BY <1>9, <2>12 DEF t
<1>. QED
  BY <1>12, <1>13

-----------------------------------------------------------------------------
(* The scan of such a text.                                                *)

\* Before the opening quote of the argument n, at its letter m + 1 or its closing
\* quote, or right after that.
Reached(given, p) ==
  \/ given = << >> /\ i = 1 /\ ~ in_quote /\ buf = << >> /\ args = << >>
  \/ \E n \in 1 .. Len(given) :
       /\ args = SubSeq(given, 1, n - 1)
       /\ \/ i = p[n][1] - 1 /\ ~ in_quote /\ buf = << >>
          \/ \E m \in 0 .. Len(given[n]) :
               i = p[n][m + 1] /\ in_quote /\ buf = SubSeq(given[n], 1, m)
          \/ i = p[n][Len(given[n]) + 1] + 1 /\ ~ in_quote /\ buf = given[n]

ComesBack(given) == args = IF given # << >> /\ Last(given) = << >> THEN Front(given) ELSE given

\* The scan of a text that has such a layout passes the arguments one by one.
QuotedRead ==
  \A given \in Seq(Seq(STRING)) : \A p : Layout(arg, given, p) =>
    /\ pc = "scanning" => Reached(given, p)
    /\ pc = "split" => ComesBack(given)

LEMMA SubSeqGrows ==
  ASSUME NEW S, NEW s \in Seq(S), NEW n \in Nat, n + 1 <= Len(s)
  PROVE  SubSeq(s, 1, n + 1) = Append(SubSeq(s, 1, n), s[n + 1])
<1> DEFINE k == n + 1
           a == SubSeq(s, 1, n)
<1>1. 1 \in 1 .. Len(s) /\ k \in 1 .. Len(s) /\ k \in Int /\ k - 1 = n /\ Len(s) \in Nat
  BY LenProperties
<1>2. k \in 1 .. Len(s) /\ s[k] \in S
  BY <1>1, ElementOfSeq
<1>3. a \in Seq(S)
  <2>1. \A j \in 1 .. n : s[j] \in S
    <3>1. \A j \in 1 .. n : j \in 1 .. Len(s)
      BY <1>1
    <3>. QED
      BY <3>1, ElementOfSeq
  <2>. QED
    BY <2>1, SubSeqProperties
<1>4. SubSeq(s, 1, k) = SubSeq(s, 1, k - 1) \o <<s[k]>>
  <2> HIDE DEF k
  <2>1. k \in 1 .. Len(s)
    BY <1>1
  <2>. QED
    BY <1>1, <2>1, SubSeqRecursiveSecond
<1> HIDE DEF a, k
<1>5. Append(a, s[k]) = a \o <<s[k]>>
  BY <1>2, <1>3, AppendIsConcat
<1>6. SubSeq(s, 1, k) = Append(a, s[k])
  BY <1>1, <1>4, <1>5 DEF a
<1>. QED
  BY <1>6 DEF k, a

\* A text begins with its first argument.
LEMMA FirstAt ==
  ASSUME NEW t \in Seq(STRING), NEW given \in Seq(Seq(STRING)), NEW p, Layout(t, given, p),
         i = 1, ~ in_quote, buf = << >>, args = << >>
  PROVE  Reached(given, p)
<1>1. CASE given = << >>
  BY <1>1 DEF Reached
<1>2. CASE given # << >>
  <2>1. Len(given) \in Nat \ {0}
    BY <1>2, EmptySeq
  <2>2. 1 \in 1 .. Len(given) /\ 2 - 1 = 1
    BY <2>1
  <2>3. p[1][1] = 2
    BY <1>2, Zenon DEF Layout
  <2>4. SubSeq(given, 1, 1 - 1) = << >>
    BY SubSeqEmpty
  <2>5. i = p[1][1] - 1
    BY <2>2, <2>3
  <2>. QED
    BY <2>2, <2>4, <2>5, Zenon DEF Reached
<1>. QED
  BY <1>1, <1>2

\* What a step of the scan does is decided by the letter that it reads.
LEMMA ScanReads ==
  ASSUME Scan, i \in Nat, i <= Len(arg), Len(arg) \in Nat
  PROVE  /\ arg[i] = Quote =>
              /\ i' = i + 1 /\ in_quote' = ~ in_quote /\ buf' = buf /\ args' = args
              /\ pc' = "scanning"
         /\ arg[i] = Blank /\ ~ in_quote =>
              /\ i' = i + 1 /\ ~ in_quote' /\ buf' = << >> /\ args' = Append(args, buf)
              /\ pc' = "scanning"
         /\ arg[i] = Backslash /\ i < Len(arg) =>
              /\ i' = i + 2 /\ in_quote' = in_quote /\ buf' = Append(buf, arg[i + 1]) /\ args' = args
              /\ pc' = "scanning"
         /\ arg[i] \notin {Quote, Backslash} /\ in_quote =>
              /\ i' = i + 1 /\ in_quote' = in_quote /\ buf' = Append(buf, arg[i]) /\ args' = args
              /\ pc' = "scanning"
<1>1. Quote # Blank /\ Quote # Backslash /\ Blank # Backslash
  BY DEF Quote, Blank, Backslash
<1>2. ~ AtEnd /\ ~ QuoteNotClosed /\ ~ LastArgument
  <2>1. ~ (i > Len(arg))
    OBVIOUS
  <2>. QED
    BY <2>1, Zenon DEF AtEnd, QuoteNotClosed, LastArgument
<1>3. ToggleQuote \/ EndArgument \/ TakeEscaped \/ TakeLetter \/ BackslashAtEnd
  BY <1>2, Zenon DEF Scan
<1>4. CASE ToggleQuote
  BY <1>1, <1>4 DEF ToggleQuote, AtLetter, GoOn
<1>5. CASE EndArgument
  BY <1>1, <1>5 DEF EndArgument, AtLetter, GoOn
<1>6. CASE TakeEscaped
  BY <1>1, <1>6 DEF TakeEscaped, AtLetter, GoOn
<1>7. CASE TakeLetter
  BY <1>1, <1>7 DEF TakeLetter, AtLetter, GoOn
<1>8. CASE BackslashAtEnd
  <2>1. arg[i] = Backslash /\ i = Len(arg)
    BY <1>8 DEF BackslashAtEnd
  <2>. QED
    BY <1>1, <2>1
<1>. QED
  BY <1>3, <1>4, <1>5, <1>6, <1>7, <1>8

LEMMA ScanEnds ==
  ASSUME Scan, i \in Nat, Len(arg) \in Nat, i > Len(arg), ~ in_quote
  PROVE  pc' = "split" /\ args' = IF buf = << >> THEN args ELSE Append(args, buf)
<1>1. ~ AtLetter
  BY DEF AtLetter
<1>2. LastArgument
  BY <1>1, Zenon DEF Scan, ToggleQuote, EndArgument, TakeEscaped, TakeLetter, BackslashAtEnd, QuoteNotClosed
<1>. QED
  BY <1>2 DEF LastArgument

LEMMA AtStep ==
  ASSUME TypeOK, Scan,
         NEW given \in Seq(Seq(STRING)), NEW p, Layout(arg, given, p), Reached(given, p)
  PROVE  /\ pc' = "scanning" => Reached(given, p)'
         /\ pc' = "split" => ComesBack(given)'
<1>1. i \in Nat /\ Len(arg) \in Nat
  BY DEF TypeOK
<1>2. CASE given = << >> /\ i = 1 /\ ~ in_quote /\ buf = << >> /\ args = << >>
  <2>1. Len(arg) = 0
    BY <1>2, EmptySeq DEF Layout
  <2>2. pc' = "split" /\ args' = << >>
    BY <1>1, <1>2, <2>1, ScanEnds
  <2>. QED
    BY <1>2, <2>2 DEF ComesBack
<1>3. ASSUME NEW n \in 1 .. Len(given), args = SubSeq(given, 1, n - 1),
             \/ i = p[n][1] - 1 /\ ~ in_quote /\ buf = << >>
             \/ \E m \in 0 .. Len(given[n]) :
                  i = p[n][m + 1] /\ in_quote /\ buf = SubSeq(given[n], 1, m)
             \/ i = p[n][Len(given[n]) + 1] + 1 /\ ~ in_quote /\ buf = given[n]
      PROVE  /\ pc' = "scanning" => Reached(given, p)'
             /\ pc' = "split" => ComesBack(given)'
  <2> DEFINE a == given[n]
             e == p[n]
             len == Len(a)
  <2>1. a \in Seq(STRING) /\ len \in Nat /\ Len(given) \in Nat
    BY ElementOfSeq, LenProperties
  <2>2. /\ arg[e[1] - 1] = Quote
        /\ arg[e[len + 1]] = Quote
        /\ \A m \in 1 .. len + 1 : e[m] \in 2 .. Len(arg)
        /\ \A m \in 1 .. len :
             IF a[m] \in {Quote, Backslash}
               THEN arg[e[m]] = Backslash /\ arg[e[m] + 1] = a[m] /\ e[m + 1] = e[m] + 2
               ELSE arg[e[m]] = a[m] /\ e[m + 1] = e[m] + 1
    <3>1. Spelled(arg, given[n], p[n])
      BY DEF Layout
    <3>. QED
      BY <3>1 DEF Spelled
  <2>3. CASE i = e[1] - 1 /\ ~ in_quote /\ buf = << >>
    <3>1. e[1] \in 2 .. Len(arg)
      <4>1. 1 \in 1 .. len + 1
        BY <2>1
      <4>. QED
        BY <2>2, <4>1, Zenon
    <3>2. i <= Len(arg) /\ arg[i] = Quote
      <4>1. i = e[1] - 1
        BY <2>3
      <4>2. arg[e[1] - 1] = Quote
        BY <2>2
      <4>3. e[1] - 1 <= Len(arg)
        BY <1>1, <3>1
      <4>. QED
        BY <4>1, <4>2, <4>3
    <3>3. /\ i' = i + 1 /\ in_quote' = ~ in_quote /\ buf' = buf /\ args' = args
          /\ pc' = "scanning"
      BY <1>1, <3>2, ScanReads
    <3>4. i' = e[0 + 1] /\ in_quote' /\ 0 \in 0 .. len
      <4>1. i = e[1] - 1 /\ i' = i + 1
        BY <2>3, <3>3
      <4>2. e[1] \in Int /\ 0 + 1 = 1 /\ 0 \in 0 .. len
        BY <1>1, <2>1, <3>1
      <4>3. i' = e[1]
        BY <4>1, <4>2
      <4>4. in_quote'
        BY <2>3, <3>3, Zenon
      <4>. QED
        BY <4>2, <4>3, <4>4
    <3>5. buf' = SubSeq(a, 1, 0)
      BY <2>3, <3>3, SubSeqEmpty
    <3>6. Reached(given, p)'
      BY <1>3, <3>3, <3>4, <3>5, Zenon DEF Reached
    <3>. QED
      BY <3>3, <3>6
  <2>4. ASSUME NEW m \in 0 .. len, i = e[m + 1], in_quote, buf = SubSeq(a, 1, m)
        PROVE  pc' = "scanning" /\ Reached(given, p)'
    <3>1. m + 1 \in 1 .. len + 1 /\ m \in Nat
      BY <2>1
    <3>2. i \in 2 .. Len(arg) /\ i <= Len(arg)
      <4>1. i \in 2 .. Len(arg)
        BY <2>2, <2>4, <3>1, Zenon
      <4>. QED
        BY <1>1, <4>1
    <3>3. CASE m = len
      <4>1. arg[i] = Quote
        BY <2>2, <2>4, <3>3
      <4>2. /\ i' = i + 1 /\ in_quote' = ~ in_quote /\ buf' = buf /\ args' = args
            /\ pc' = "scanning"
        BY <1>1, <3>2, <4>1, ScanReads
      <4>3. buf' = a
        BY <2>1, <2>4, <3>3, <4>2, SubSeqFull
      <4>4. i' = e[len + 1] + 1 /\ ~ in_quote'
        BY <2>4, <3>3, <4>2
      <4>5. Reached(given, p)'
        BY <1>3, <4>2, <4>3, <4>4, Zenon DEF Reached
      <4>. QED
        BY <4>2, <4>5
    <3>4. CASE m # len
      <4> DEFINE k == m + 1
      <4>1. k \in 1 .. len /\ k \in 0 .. len /\ k <= len
        BY <2>1, <3>4
      <4>2. SubSeq(a, 1, k) = Append(SubSeq(a, 1, m), a[k])
        BY <2>1, <3>1, <4>1, SubSeqGrows
      <4>3. i = e[k]
        BY <2>4
      <4> HIDE DEF k
      <4>4. CASE a[k] \in {Quote, Backslash}
        <5>1. arg[i] = Backslash /\ arg[i + 1] = a[k] /\ e[k + 1] = i + 2
          BY <2>2, <4>1, <4>3, <4>4
        <5>2. i < Len(arg)
          <6>1. k + 1 \in 1 .. len + 1
            BY <2>1, <4>1
          <6>2. e[k + 1] \in 2 .. Len(arg)
            BY <2>2, <6>1, Zenon
          <6>. QED
            BY <1>1, <5>1, <6>2
        <5>3. /\ i' = i + 2 /\ in_quote' = in_quote /\ buf' = Append(buf, arg[i + 1]) /\ args' = args
              /\ pc' = "scanning"
          BY <1>1, <3>2, <5>1, <5>2, ScanReads
        <5>4. i' = e[k + 1] /\ in_quote' /\ buf' = SubSeq(a, 1, k)
          BY <2>4, <4>2, <5>1, <5>3
        <5>5. Reached(given, p)'
          BY <1>3, <4>1, <5>3, <5>4, Zenon DEF Reached
        <5>. QED
          BY <5>3, <5>5
      <4>5. CASE a[k] \notin {Quote, Backslash}
        <5>1. arg[i] = a[k] /\ e[k + 1] = i + 1
          BY <2>2, <4>1, <4>3, <4>5
        <5>2. /\ i' = i + 1 /\ in_quote' = in_quote /\ buf' = Append(buf, arg[i]) /\ args' = args
              /\ pc' = "scanning"
          BY <1>1, <2>4, <3>2, <4>5, <5>1, ScanReads
        <5>3. i' = e[k + 1] /\ in_quote' /\ buf' = SubSeq(a, 1, k)
          BY <2>4, <4>2, <5>1, <5>2
        <5>4. Reached(given, p)'
          BY <1>3, <4>1, <5>2, <5>3, Zenon DEF Reached
        <5>. QED
          BY <5>2, <5>4
      <4>. QED
        BY <4>4, <4>5
    <3>. QED
      BY <3>3, <3>4
  <2>5. CASE i = e[len + 1] + 1 /\ ~ in_quote /\ buf = a
    <3> DEFINE c == e[len + 1]
    <3>1. c \in 2 .. Len(arg)
      <4>1. len + 1 \in 1 .. len + 1
        BY <2>1
      <4>. QED
        BY <2>2, <4>1, Zenon
    <3>2. /\ n - 1 \in Nat /\ (n - 1) + 1 = n /\ (n - 1) + 1 <= Len(given)
      BY <2>1
    <3>3. SubSeq(given, 1, n) = Append(args, a)
      <4> DEFINE k == n - 1
      <4>1. k \in Nat /\ k + 1 <= Len(given) /\ k + 1 = n /\ args = SubSeq(given, 1, k)
        BY <1>3, <3>2
      <4> HIDE DEF k
      <4>2. SubSeq(given, 1, k + 1) = Append(SubSeq(given, 1, k), given[k + 1])
        BY <4>1, SubSeqGrows
      <4>. QED
        BY <4>1, <4>2
    <3>4. CASE n = Len(given)
      <4>1. i > Len(arg)
        <5>1. given # << >> => c = Len(arg)
          BY <3>4 DEF Layout
        <5>2. given # << >>
          <6>1. Len(<< >>) = 0
            OBVIOUS
          <6>2. Len(given) # 0
            BY <2>1
          <6>. QED
            BY <6>1, <6>2
        <5>. QED
          BY <1>1, <2>5, <5>1, <5>2
      <4>2. pc' = "split" /\ args' = IF a = << >> THEN args ELSE Append(args, a)
        BY <1>1, <2>5, <4>1, ScanEnds
      <4>3. given = Append(args, a)
        BY <3>3, <3>4, SubSeqFull
      <4>4. args \in Seq(Seq(STRING))
        BY DEF TypeOK
      <4>5. Last(given) = a /\ Front(given) = args /\ given # << >>
        <5> HIDE DEF a
        <5>. QED
          BY <2>1, <4>3, <4>4, LastAndFront, AppendProperties
      <4>6. ComesBack(given)'
        BY <4>2, <4>3, <4>5, Zenon DEF ComesBack
      <4>. QED
        BY <4>2, <4>6
    <3>5. CASE n # Len(given)
      <4> DEFINE k == n + 1
      <4>1. n \in 1 .. Len(given) - 1 /\ k \in 1 .. Len(given) /\ k - 1 = n
        BY <2>1, <3>5
      <4>2. arg[c + 1] = Blank /\ p[k][1] = c + 3
        BY <4>1, Zenon DEF Layout
      <4> HIDE DEF k
      <4>3. p[k][1] \in 2 .. Len(arg)
        <5>1. given[k] \in Seq(STRING) /\ Spelled(arg, given[k], p[k])
          BY <4>1, ElementOfSeq DEF Layout
        <5>2. 1 \in 1 .. Len(given[k]) + 1
          BY <5>1, LenProperties
        <5>. QED
          BY <5>1, <5>2, Zenon DEF Spelled
      <4>4. i = c + 1 /\ i <= Len(arg) /\ p[k][1] - 1 = i + 1
        <5>1. i = c + 1
          BY <2>5
        <5>2. p[k][1] = c + 3
          BY <4>2
        <5> HIDE DEF c
        <5>. QED
          BY <1>1, <3>1, <4>3, <5>1, <5>2
      <4>5. /\ i' = i + 1 /\ ~ in_quote' /\ buf' = << >> /\ args' = Append(args, buf)
            /\ pc' = "scanning"
        BY <1>1, <2>5, <4>2, <4>4, ScanReads
      <4>6. args' = SubSeq(given, 1, k - 1) /\ i' = p[k][1] - 1
        BY <2>5, <3>3, <4>1, <4>4, <4>5
      <4>7. Reached(given, p)'
        BY <4>1, <4>5, <4>6, Zenon DEF Reached
      <4>. QED
        BY <4>5, <4>7
    <3>. QED
      BY <3>4, <3>5
  <2>. QED
    BY <1>3, <2>3, <2>4, <2>5
<1>. QED
  BY <1>2, <1>3 DEF Reached


\* What a scan begins with.
BeginsEmpty == pc = "ready" => i = 1 /\ ~ in_quote /\ buf = << >> /\ args = << >>

LEMMA QuotedStep ==
  TypeOK /\ AtRest /\ ReadRight /\ QuotedRead /\ [Next]_vars => QuotedRead'
<1> SUFFICES ASSUME TypeOK, BeginsEmpty, QuotedRead, [Next]_vars,
                    NEW given \in Seq(Seq(STRING)), NEW p, Layout(arg, given, p)'
             PROVE  /\ pc' = "scanning" => Reached(given, p)'
                    /\ pc' = "split" => ComesBack(given)'
  <2>1. AtRest /\ ReadRight => BeginsEmpty
    BY DEF AtRest, ReadRight, BeginsEmpty
  <2>. QED
    BY <2>1, Zenon DEF QuotedRead
<1>1. ASSUME NEW t \in Texts, Call(t)
      PROVE  /\ pc' = "scanning" => Reached(given, p)'
             /\ pc' = "split" => ComesBack(given)'
  <2>1. arg' = t /\ t \in Seq(STRING) /\ pc' = "scanning"
    BY <1>1, TextsAssumption DEF Call
  <2>2. Layout(t, given, p)
    BY <2>1
  <2>3. i = 1 /\ ~ in_quote /\ buf = << >> /\ args = << >>
    BY <1>1 DEF Call, BeginsEmpty
  <2>4. Reached(given, p)
    BY <2>1, <2>2, <2>3, FirstAt
  <2>5. UNCHANGED <<i, in_quote, buf, args>>
    BY <1>1 DEF Call
  <2>6. Reached(given, p)'
    BY <2>4, <2>5, Zenon DEF Reached
  <2>. QED
    BY <2>1, <2>6
<1>2. CASE Scan
  <2>1. CASE pc' = "ready"
    BY <2>1
  <2>2. CASE pc' # "ready"
    <3>1. pc = "scanning" /\ arg' = arg
      BY <1>2, <2>2 DEF Scan, ToggleQuote, EndArgument, TakeEscaped, TakeLetter, BackslashAtEnd,
         QuoteNotClosed, LastArgument, Fail, Return, GoOn, AtLetter, AtEnd
    <3>2. Layout(arg, given, p)
      BY <3>1
    <3>3. Reached(given, p)
      BY <3>1, <3>2, Zenon DEF QuotedRead
    <3>. QED
      BY <1>2, <3>2, <3>3, AtStep
  <2>. QED
    BY <2>1, <2>2
<1>3. CASE ParseArguments
  BY <1>3 DEF ParseArguments, Return
<1>4. CASE UNCHANGED vars
  <2>1. UNCHANGED <<pc, arg, i, in_quote, buf, args>>
    BY <1>4 DEF vars, scanVars
  <2>2. Layout(arg, given, p)
    BY <2>1
  <2>3. /\ pc = "scanning" => Reached(given, p)
        /\ pc = "split" => ComesBack(given)
    BY <2>2, Zenon DEF QuotedRead
  <2>4. Reached(given, p) => Reached(given, p)'
    BY <2>1, Zenon DEF Reached
  <2>5. ComesBack(given) => ComesBack(given)'
    BY <2>1, Zenon DEF ComesBack
  <2>. QED
    BY <2>1, <2>3, <2>4, <2>5
<1>5. CASE Abort
  BY <1>5 DEF Abort
<1>. QED
  BY <1>1, <1>2, <1>3, <1>4, <1>5 DEF Next

\* Arguments that are put into a text in quotes, with a backslash before each
\* quote and backslash, are what the text is cut into, however many they are and
\* whatever letters they have; only an empty last one is lost.
THEOREM QuotedBack == Spec => []QuotedComesBack
<1>1. Init => QuotedRead
  BY DEF Init, QuotedRead
<1>2. QuotedRead => QuotedComesBack
  <2> SUFFICES ASSUME QuotedRead, pc = "split", NEW given \in Given, arg = TextOf[given]
               PROVE  ComesBack(given)
    BY DEF QuotedComesBack, ComesBack
  <2>1. given \in Seq(Seq(STRING)) /\ arg = QuoteArguments(given)
    BY GivenAssumption DEF TextOf
  <2>2. PICK p : Layout(arg, given, p)
    BY <2>1, HasLayout
  <2>. QED
    BY <2>1, <2>2 DEF QuotedRead
<1>3. Init => ReadRight
  BY DEF Init, ReadRight
<1>4. Spec => [](TypeOK /\ AtRest /\ ReadRight)
  <2>1. ScanIsRight => AtRest
    BY DEF ScanIsRight
  <2>. QED
    BY <1>3, <2>1, ReadStep, ScanCorrect, PTL DEF Spec
<1>. QED
  BY <1>1, <1>2, <1>4, QuotedStep, PTL DEF Spec

=============================================================================
