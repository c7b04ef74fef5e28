----------------------------- MODULE ReplProofs -----------------------------
(***************************************************************************)
(* Theorems about Repl, for every set of lines and every std::stoi.        *)
(***************************************************************************)
EXTENDS Repl, SequenceTheorems, TLAPS

(* Texts. *)

\* A non-empty text is what it is without its last piece, and that piece.
LEMMA ValidStrType ==
  ASSUME NEW l \in Text, l # << >>
  PROVE  validStr(l) \in Text
<1>1. Len(l) \in Nat /\ \A i \in 1 .. Len(l) : l[i] \in STRING
  BY LenProperties, ElementOfSeq DEF Text
<1>. QED
  BY <1>1, SubSeqProperties DEF validStr, Text

\* Joining two texts gives a text, empty only if both are.
LEMMA JoinType ==
  ASSUME NEW s \in Text, NEW t \in Text
  PROVE  /\ s \o t \in Text
         /\ t # << >> => s \o t # << >>
  BY ConcatProperties, ConcatEqualIffEmpty DEF Text

\* An empty buffer adds nothing to the line that follows it.
LEMMA JoinEmpty ==
  ASSUME NEW t \in Text
  PROVE  << >> \o t = t
  BY ConcatEmptySeq DEF Text

-----------------------------------------------------------------------------
LEMMA EmptyTexts == << >> \in Text /\ << >> \in Seq(Text)
  BY EmptySeq DEF Text

\* What the typed lines ask for stays in its type.
LEMMA AskType ==
  ASSUME NEW a \in Asks, NEW l \in Text, l # << >>
  PROVE  Ask(a, l) \in Asks
<1>1. a.commands \in Seq(Text) /\ a.pending \in Text /\ a.parts \in Nat
  BY DEF Asks
<1>2. a.pending \o validStr(l) \in Text /\ a.pending \o l \in Text
  BY <1>1, ValidStrType, JoinType
<1>3. CASE l = QuitLine
  BY <1>3 DEF Ask
<1>4. CASE l # QuitLine /\ Continued(l)
  <2>1. a.parts + 1 \in Nat
    BY <1>1
  <2>. QED
    BY <1>2, <1>4, <2>1 DEF Ask, Asks
<1>5. CASE l # QuitLine /\ ~ Continued(l)
  <2> DEFINE cs == Append(a.commands, a.pending \o l)
             sw == a.splitWidth \/ (a.parts > 0 /\ IsWidth(a.pending \o l))
  <2>1. Ask(a, l) = [commands |-> cs, pending |-> << >>, parts |-> 0, splitWidth |-> sw]
    BY <1>5 DEF Ask
  <2>2. cs \in Seq(Text)
    BY <1>1, <1>2
  <2>3. sw \in BOOLEAN
    OBVIOUS
  <2>4. << >> \in Text /\ 0 \in Nat
    BY EmptyTexts
  <2> HIDE DEF cs, sw
  <2>. QED
    BY <2>1, <2>2, <2>3, <2>4 DEF Asks
<1>. QED
  BY <1>3, <1>4, <1>5

-----------------------------------------------------------------------------
\* The loop keeps every variable in its type.
THEOREM TypeCorrect == Spec => []TypeOK
<1>1. Init => TypeOK
  <2> SUFFICES ASSUME Init PROVE TypeOK
    OBVIOUS
  <2>1. asked \in Asks
    BY EmptyTexts DEF Init, NothingAsked, Asks
  <2>2. 80 \in Int
    OBVIOUS
  <2>. QED
    BY <2>1, <2>2, EmptyTexts DEF Init, TypeOK
<1>2. TypeOK /\ [Next]_vars => TypeOK'
  <2> SUFFICES ASSUME TypeOK, [Next]_vars
               PROVE  TypeOK'
    OBVIOUS
  <2> USE DEF TypeOK
  <2>1. ASSUME NEW l \in Lines, EnterLine(l)
        PROVE  TypeOK'
    <3>1. l \in Text /\ l # << >>
      BY LinesAssumption
    <3>2. asked' \in Asks
      BY <2>1, <3>1, AskType DEF EnterLine
    <3>3. typed' \in Seq(Text)
      BY <2>1, <3>1 DEF EnterLine
    <3>. QED
      BY <2>1, <3>1, <3>2, <3>3 DEF EnterLine, loopVars, fileVars
  <2>2. CASE EnterNothing
    BY <2>2, EmptyTexts DEF EnterNothing, loopVars, fileVars
  <2>3. CASE InputEnds
    BY <2>3 DEF InputEnds, loopVars, fileVars
  <2>4. CASE SkipLine
    BY <2>4 DEF SkipLine, loopVars, fileVars
  <2>5. CASE Quit
    <3>1. lineHistory' \in Seq(Text)
      BY <2>5 DEF Quit, Remember, IsQuit
    <3>. QED
      BY <2>5, <3>1 DEF Quit, Remember, IsQuit, loopVars
  <2>6. CASE Continue
    <3>1. line \in Text /\ line # << >>
      BY <2>6 DEF Continue, Remember, IsQuit
    <3>2. validStr(line) \in Text /\ cmd \o validStr(line) \in Text
      BY <3>1, ValidStrType, JoinType
    <3>3. cmd' \in Text /\ lineHistory' \in Seq(Text)
      BY <2>6, <3>1, <3>2 DEF Continue, Remember, IsQuit
    <3>. QED
      BY <2>6, <3>1, <3>3 DEF Continue, Remember, IsQuit
  <2>7. ASSUME Complete
        PROVE  /\ cmd' \in Text
               /\ lineHistory' \in Seq(Text)
               /\ executed' \in Seq(Text)
               /\ UNCHANGED <<line, isMultiLine, savedHistory, inputOpen, typed, asked>>
    <3>1. line \in Text /\ line # << >>
      BY <2>7 DEF Complete, Remember, IsQuit
    <3>2. cmd' \in Text
      BY <2>7, <3>1, JoinType DEF Complete
    <3>. QED
      BY <2>7, <3>1, <3>2 DEF Complete, Remember, IsQuit
  <2>8. CASE ShowWidth
    BY <2>8, <2>7 DEF ShowWidth
  <2>9. CASE SetWidth
    <3>1. g_display_width' \in Int
      BY <2>9 DEF SetWidth
    <3>. QED
      BY <2>9, <2>7, <3>1 DEF SetWidth
  <2>10. CASE RunShell
    BY <2>10, <2>7 DEF RunShell
  <2>11. CASE RunServer
    BY <2>11, <2>7 DEF RunServer
  <2>12. CASE RunReturns
    BY <2>12, EmptyTexts DEF RunReturns, ResetCommand, fileVars
  <2>13. CASE RunThrows
    BY <2>13, EmptyTexts DEF RunThrows, ResetCommand, fileVars
  <2>14. CASE Close
    BY <2>14 DEF Close, loopVars, fileVars
  <2>15. CASE Kill
    BY <2>15 DEF Kill, loopVars, fileVars
  <2>16. CASE UNCHANGED vars
    BY <2>16 DEF vars, loopVars, fileVars
  <2>. QED
    BY <2>1, <2>2, <2>3, <2>4, <2>5, <2>6, <2>8, <2>9, <2>10, <2>11, <2>12,
       <2>13, <2>14, <2>15, <2>16 DEF Next, HandleLine
<1>. QED
  BY <1>1, <1>2, PTL DEF Spec

-----------------------------------------------------------------------------
\* A line that completes a command makes the buffer the text it was due to be.
LEMMA CompleteJoins ==
  ASSUME TypeOK, Complete
  PROVE  /\ cmd' = Buffer \o line
         /\ line \in Text /\ line # << >>
<1>1. line \in Text /\ line # << >>
  BY DEF Complete, Remember, IsQuit, TypeOK
<1>2. << >> \o line = line
  BY <1>1, JoinEmpty
<1>. QED
  BY <1>1, <1>2 DEF Complete, Buffer

\* The loop invariant is inductive: each line changes the buffer as it changes
\* the unfinished text, and each way a command ends leaves both empty.
LEMMA LoopInvariantStep ==
  ASSUME TypeOK, LoopInvariant, [Next]_vars
  PROVE  LoopInvariant'
<1> SUFFICES ASSUME ~ asked'.splitWidth
             PROVE  LoopInvariant'
  BY DEF LoopInvariant
<1>1. ASSUME NEW l \in Lines, EnterLine(l)
      PROVE  LoopInvariant'
  <2>1. l \in Text /\ l # << >> /\ l # NULL
    BY LinesAssumption
  <2>2. pc' = "line" /\ line' = l /\ asked' = Ask(asked, l)
    BY <1>1 DEF EnterLine
  <2>3. UNCHANGED <<cmd, isMultiLine, executed>> /\ Buffer' = Buffer
    BY <1>1 DEF EnterLine, loopVars, Buffer
  <2>4. ~ asked.splitWidth
    BY <2>2 DEF Ask
  <2>5. BufferIsPending
    BY <1>1, <2>4 DEF EnterLine, LoopInvariant
  <2>6. CASE l = QuitLine
    BY <2>2, <2>3, <2>5, <2>6 DEF Ask, LoopInvariant, BufferIsPending
  <2>7. CASE l # QuitLine /\ Continued(l)
    <3>1. LineContinues'
      BY <2>2, <2>3, <2>5, <2>7 DEF Ask, BufferIsPending, LineContinues, TypeOK, Asks
    <3>. QED
      BY <2>1, <2>2, <2>7, <3>1 DEF LoopInvariant
  <2>8. CASE l # QuitLine /\ ~ Continued(l)
    <3>1. LineCompletes'
      BY <2>2, <2>3, <2>5, <2>8 DEF Ask, BufferIsPending, LineCompletes, Buffer
    <3>. QED
      BY <2>1, <2>2, <2>8, <3>1 DEF LoopInvariant
  <2>. QED
    BY <2>6, <2>7, <2>8
<1>2. CASE EnterNothing
  BY <1>2 DEF EnterNothing, LoopInvariant, BufferIsPending, Buffer, loopVars
<1>3. CASE InputEnds
  BY <1>3 DEF InputEnds, LoopInvariant, BufferIsPending, Buffer, LineContinues,
              LineCompletes, CommandRuns, loopVars
<1>4. CASE SkipLine
  BY <1>4 DEF SkipLine, LoopInvariant, BufferIsPending, Buffer, loopVars
<1>5. CASE Quit
  BY <1>5 DEF Quit, Remember, IsQuit, LoopInvariant, BufferIsPending, Buffer, loopVars
<1>6. CASE Continue
  <2>1. LineContinues
    BY <1>6 DEF Continue, Remember, IsQuit, LoopInvariant
  <2>2. line \in Text /\ line # << >>
    BY <1>6 DEF Continue, Remember, IsQuit, TypeOK
  <2>3. cmd' = Buffer \o validStr(line)
    BY <1>6, <2>2, ValidStrType, JoinEmpty DEF Continue, Buffer
  <2>4. BufferIsPending'
    BY <1>6, <2>1, <2>3 DEF Continue, Remember, IsQuit, LineContinues, BufferIsPending, Buffer
  <2>. QED
    BY <1>6, <2>4 DEF Continue, LoopInvariant
<1>7. ASSUME Complete
      PROVE  LineCompletes /\ CommandRuns'
  <2>1. LineCompletes
    BY <1>7 DEF Complete, Remember, IsQuit, LoopInvariant
  <2>. QED
    BY <1>7, <2>1, CompleteJoins DEF Complete, Remember, IsQuit, LineCompletes, CommandRuns
<1>8. ASSUME Complete, IsWidth(cmd'), pc' = "prompt"
      PROVE  LoopInvariant'
  <2>1. LineCompletes /\ CommandRuns'
    BY <1>7, <1>8
  <2>2. ~ isMultiLine
    BY <1>8, <2>1 DEF Complete, LineCompletes
  <2>3. BufferIsPending'
    BY <1>8, <2>1, <2>2 DEF Complete, CommandRuns, BufferIsPending, Buffer
  <2>. QED
    BY <1>8, <2>3 DEF LoopInvariant
<1>9. CASE ShowWidth
  BY <1>8, <1>9 DEF ShowWidth, IsWidth
<1>10. CASE SetWidth
  BY <1>8, <1>10 DEF SetWidth, IsWidth
<1>11. CASE RunShell
  BY <1>7, <1>11 DEF RunShell, LoopInvariant
<1>12. CASE RunServer
  BY <1>7, <1>12 DEF RunServer, LoopInvariant
<1>13. CASE RunReturns
  BY <1>13 DEF RunReturns, ResetCommand, LoopInvariant, CommandRuns, BufferIsPending, Buffer
<1>14. CASE RunThrows
  BY <1>14 DEF RunThrows, ResetCommand, LoopInvariant, CommandRuns, BufferIsPending, Buffer
<1>15. CASE Close
  BY <1>15 DEF Close, LoopInvariant, BufferIsPending, Buffer, loopVars
<1>16. CASE Kill
  BY <1>16 DEF Kill, LoopInvariant
<1>17. CASE UNCHANGED vars
  BY <1>17 DEF vars, loopVars, LoopInvariant, BufferIsPending, Buffer, LineContinues,
               LineCompletes, CommandRuns
<1>. QED
  BY <1>1, <1>2, <1>3, <1>4, <1>5, <1>6, <1>9, <1>10, <1>11, <1>12, <1>13,
     <1>14, <1>15, <1>16, <1>17 DEF Next, HandleLine

\* Whatever the lines, and whatever the commands return or throw: as long as no
\* width command is typed over several lines, the commands handled are the
\* commands typed.
THEOREM CommandsKeptApart == Spec => []AsTypedUnlessWidthSplit
<1>1. Init => LoopInvariant
  BY DEF Init, NothingAsked, LoopInvariant, BufferIsPending, Buffer
<1>2. TypeOK /\ LoopInvariant /\ [Next]_vars => LoopInvariant'
  BY LoopInvariantStep
<1>3. TypeOK /\ LoopInvariant => AsTypedUnlessWidthSplit
  BY DEF TypeOK, LoopInvariant, BufferIsPending, CommandRuns,
         AsTypedUnlessWidthSplit, CommandsAsTyped
<1>. QED
  BY <1>1, <1>2, <1>3, TypeCorrect, PTL DEF Spec

-----------------------------------------------------------------------------
\* A session keeps every non-empty line, and quit saves them all.
THEOREM HistoryKept == Spec => []HistoryIsTyped
<1>1. Init => HistoryInvariant
  BY DEF Init, HistoryInvariant
<1>2. TypeOK /\ HistoryInvariant /\ [Next]_vars => HistoryInvariant'
  <2> SUFFICES ASSUME TypeOK, HistoryInvariant, [Next]_vars
               PROVE  HistoryInvariant'
    OBVIOUS
  <2> USE DEF HistoryInvariant
  <2>1. ASSUME NEW l \in Lines, EnterLine(l)
        PROVE  HistoryInvariant'
    <3>1. l \notin {NULL, << >>}
      BY LinesAssumption
    <3>. QED
      BY <2>1, <3>1 DEF EnterLine, fileVars
  <2>2. CASE EnterNothing
    BY <2>2 DEF EnterNothing, fileVars
  <2>3. CASE InputEnds
    BY <2>3 DEF InputEnds, fileVars
  <2>4. CASE SkipLine
    BY <2>4 DEF SkipLine, fileVars
  <2>5. CASE Quit
    BY <2>5 DEF Quit, Remember, IsQuit
  <2>6. CASE Continue
    BY <2>6 DEF Continue, Remember, IsQuit
  <2>7. ASSUME Complete, pc' \in {"prompt", "shell", "server"}
        PROVE  HistoryInvariant'
    BY <2>7 DEF Complete, Remember, IsQuit
  <2>8. CASE ShowWidth \/ SetWidth \/ RunShell \/ RunServer
    BY <2>7, <2>8 DEF ShowWidth, SetWidth, RunShell, RunServer
  <2>9. CASE RunReturns \/ RunThrows
    BY <2>9 DEF RunReturns, RunThrows, fileVars
  <2>10. CASE Close
    BY <2>10 DEF Close, fileVars
  <2>11. CASE Kill
    BY <2>11 DEF Kill, fileVars
  <2>12. CASE UNCHANGED vars
    BY <2>12 DEF vars, fileVars
  <2>. QED
    BY <2>1, <2>2, <2>3, <2>4, <2>5, <2>6, <2>8, <2>9, <2>10, <2>11, <2>12
    DEF Next, HandleLine
<1>3. HistoryInvariant => HistoryIsTyped
  BY DEF HistoryInvariant, HistoryIsTyped
<1>. QED
  BY <1>1, <1>2, <1>3, TypeCorrect, PTL DEF Spec

-----------------------------------------------------------------------------
\* No command handled is empty.
THEOREM NoCommandEmpty == Spec => []NoEmptyCommand
<1>1. Init => NoEmptyCommand
  BY DEF Init, NoEmptyCommand
<1>2. TypeOK /\ NoEmptyCommand /\ [Next]_vars => NoEmptyCommand'
  <2> SUFFICES ASSUME TypeOK, NoEmptyCommand, [Next]_vars
               PROVE  NoEmptyCommand'
    OBVIOUS
  <2>1. ASSUME Complete
        PROVE  NoEmptyCommand'
    <3>1. line \in Text /\ line # << >> /\ cmd \in Text
      BY <2>1 DEF Complete, Remember, IsQuit, TypeOK
    <3>2. cmd' # << >>
      BY <2>1, <3>1, JoinType DEF Complete
    <3>. QED
      BY <2>1, <3>2 DEF Complete, NoEmptyCommand, TypeOK
  <2>2. CASE UNCHANGED executed
    BY <2>2 DEF NoEmptyCommand
  <2>. QED
    BY <2>1, <2>2 DEF Next, HandleLine, EnterLine, EnterNothing, InputEnds, SkipLine,
       Quit, Continue, ShowWidth, SetWidth, RunShell, RunServer, RunReturns, RunThrows,
       Close, Kill, vars
<1>. QED
  BY <1>1, <1>2, TypeCorrect, PTL DEF Spec

-----------------------------------------------------------------------------
(* The width.                                                              *)

\* A command handled last sets the width if it is a width command with a number.
LEMMA WidthsAppend ==
  ASSUME NEW cs \in Seq(Text), NEW c \in Text, NEW w, WidthFrom(cs, w)
  PROVE  WidthFrom(Append(cs, c),
                   IF IsSetWidth(c) /\ Stoi(WidthText(c)) \in Int
                     THEN Stoi(WidthText(c)) ELSE w)
<1> DEFINE ds == Append(cs, c)
           n == Len(cs) + 1
<1>1. n \in Nat /\ Len(ds) = n /\ ds[n] = c
      /\ \A k \in 1 .. Len(cs) : ds[k] = cs[k]
  BY AppendProperties, LenProperties
<1>2. WidthsSet(ds) =
        WidthsSet(cs) \cup {k \in {n} : IsSetWidth(c) /\ Stoi(WidthText(c)) \in Int}
  <2>1. 1 .. n = (1 .. Len(cs)) \cup {n} /\ n \notin 1 .. Len(cs)
    BY LenProperties
  <2> HIDE DEF ds, n
  <2>. QED
    BY <1>1, <2>1, Zenon DEF WidthsSet
<1>3. \A k \in WidthsSet(cs) : k \in 1 .. Len(cs) /\ k <= n /\ ds[k] = cs[k]
  BY <1>1, LenProperties DEF WidthsSet
<1>4. CASE IsSetWidth(c) /\ Stoi(WidthText(c)) \in Int
  <2>1. n \in WidthsSet(ds) /\ \A j \in WidthsSet(ds) : j <= n
    BY <1>1, <1>2, <1>3, <1>4
  <2>2. WidthFrom(ds, Stoi(WidthText(c)))
    <3> HIDE DEF ds, n
    <3>. QED
      BY <1>1, <2>1, Zenon DEF WidthFrom
  <2>. QED
    BY <1>4, <2>2
<1>5. CASE ~ (IsSetWidth(c) /\ Stoi(WidthText(c)) \in Int)
  <2>1. WidthsSet(ds) = WidthsSet(cs)
    BY <1>2, <1>5
  <2>2. WidthFrom(ds, w)
    <3> HIDE DEF ds, n
    <3>. QED
      BY <1>3, <2>1, Zenon DEF WidthFrom
  <2>. QED
    BY <1>5, <2>2
<1>. QED
  BY <1>4, <1>5

\* The two ways to ask for and to set the width do not overlap.
LEMMA ShowsOrSets ==
  ASSUME NEW c, IsShowWidth(c)
  PROVE  ~ IsSetWidth(c)
<1>1. CASE c = <<Backslash, "w">>
  BY <1>1 DEF IsSetWidth
<1>2. CASE c = <<Backslash, "w", "idth">>
  <2>1. c[3] = "idth" /\ Len(c) = 3
    BY <1>2
  <2>2. c \in Seq({Backslash, "w", "idth"})
    BY <1>2
  <2>3. SubSeq(c, 1, 3)[3] = c[3]
    BY <2>1, <2>2, SubSeqProperties
  <2>4. <<Backslash, "w", " ">>[3] = " "
    OBVIOUS
  <2>. QED
    BY <2>1, <2>3, <2>4 DEF IsSetWidth
<1>. QED
  BY <1>1, <1>2 DEF IsShowWidth

\* For every set of lines and every std::stoi: between two lines the width is
\* what the last width command with a number in it asked for.
THEOREM WidthKept == Spec => []WidthAsAsked
<1> DEFINE WidthIsSet == WidthFrom(executed, g_display_width)
<1>1. Init => WidthIsSet
  BY DEF Init, WidthFrom, WidthsSet
<1>2. TypeOK /\ WidthIsSet /\ [Next]_vars => WidthIsSet'
  <2> SUFFICES ASSUME TypeOK, WidthIsSet, [Next]_vars
               PROVE  WidthIsSet'
    OBVIOUS
  <2>1. ASSUME Complete
        PROVE  /\ WidthFrom(executed', IF IsSetWidth(cmd') /\ Stoi(WidthText(cmd')) \in Int
                                         THEN Stoi(WidthText(cmd')) ELSE g_display_width)
    <3>1. cmd' \in Text
      BY <2>1, JoinType DEF Complete, Remember, IsQuit, TypeOK
    <3>2. executed \in Seq(Text) /\ executed' = Append(executed, cmd')
      BY <2>1 DEF Complete, TypeOK
    <3>. QED
      BY <3>1, <3>2, WidthsAppend
  <2>2. CASE SetWidth
    BY <2>1, <2>2 DEF SetWidth
  <2>3. CASE ShowWidth \/ RunShell \/ RunServer
    <3>1. Complete /\ ~ IsSetWidth(cmd') /\ UNCHANGED g_display_width
      BY <2>3, ShowsOrSets DEF ShowWidth, RunShell, RunServer, IsWidth
    <3>. QED
      BY <2>1, <3>1
  <2>4. CASE UNCHANGED <<executed, g_display_width>>
    BY <2>4
  <2>. QED
    BY <2>2, <2>3, <2>4 DEF Next, HandleLine, EnterLine, EnterNothing, InputEnds,
       SkipLine, Quit, Continue, RunReturns, RunThrows, Close, Kill, loopVars, vars
<1>3. WidthIsSet /\ AsTypedUnlessWidthSplit => WidthAsAsked
  BY DEF AsTypedUnlessWidthSplit, CommandsAsTyped, WidthAsAsked
<1>. QED
  BY <1>1, <1>2, <1>3, TypeCorrect, CommandsKeptApart, PTL DEF Spec

=============================================================================
