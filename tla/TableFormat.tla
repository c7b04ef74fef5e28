---------------------------- MODULE TableFormat ----------------------------
(***************************************************************************)
(* How a result is laid out on the terminal: getTermWidth()                *)
(* (TerminalUtil.cpp) and toString() (Client.cpp:15-101), between commands *)
(* that set the width, resizes of the terminal, and results to print.      *)
(*                                                                         *)
(* A text is its length: a column is the length of its name and those of   *)
(* its cells.                                                              *)
(***************************************************************************)
EXTENDS Integers, Sequences, SequencesExt, FiniteSetsExt

CONSTANTS
  Tables,    \* the tables the server may return
  Settings,  \* the numbers that may be set with \w
  COLUMNS,   \* what atoi makes of the variable COLUMNS, 0 if it is not set
  Sizes,     \* the widths of the terminal, 0 if there is none
  MaxRows    \* rows that are printed at most

Column == [name : Nat, cells : Seq(Nat)]

IsTable(t) ==
  /\ t \in Seq(Column)
  /\ \A c, d \in DOMAIN t : Len(t[c].cells) = Len(t[d].cells)

ASSUME TablesAssumption == \A t \in Tables : IsTable(t)

ASSUME WidthsAssumption ==
  /\ Settings \subseteq Int
  /\ COLUMNS \in Int
  /\ Sizes \subseteq Nat
  /\ MaxRows \in Nat \ {0}

VARIABLES
  g_display_width,
  ws_col,            \* what ioctl says of standard output, 0 if nothing
  printed,           \* the result on the screen and how it was laid out
  running            \* no division by zero has ended the process

vars == <<g_display_width, ws_col, printed, running>>

-----------------------------------------------------------------------------
(* getTermWidth *)

getTermWidth ==
  IF g_display_width > 0 THEN g_display_width
  ELSE IF COLUMNS > 0 THEN COLUMNS
  ELSE IF ws_col > 0 THEN ws_col
  ELSE 80

-----------------------------------------------------------------------------
(* toString *)

Larger(a, b) == IF a > b THEN a ELSE b
Smaller(a, b) == IF a < b THEN a ELSE b

totalCols(t) == Len(t)

Rows(t) == Len(t[1].cells)

printRows(t) == Smaller(Rows(t), MaxRows)

\* A faulty availableWidth: the separators are not counted.
availableWidthUnseparated(t, termWidth) == Larger(10, termWidth - 5)

\* A faulty availableWidth: a terminal that is too narrow counts as 80 wide.
availableWidthDefault(t, termWidth) ==
  LET w == termWidth - 5 - totalCols(t) * 3 IN IF w < 10 THEN 80 ELSE w

availableWidth(t, termWidth) == Larger(10, termWidth - 5 - totalCols(t) * 3)

\* A faulty maxLen: the rows that are left out count too.
maxLenOfAll(t, c) == Max({t[c].name} \cup {t[c].cells[r] : r \in 1 .. Rows(t)})

\* The longest text of a column, its name included, among the printed rows.
maxLen(t, c) ==
  Max({t[c].name} \cup {t[c].cells[r] : r \in 1 .. printRows(t)})

Total(widths) == FoldLeft(+, 0, widths)

naturalWidths(t) == [c \in DOMAIN t |-> maxLen(t, c)]

maxDataWidth(t) == Larger(Total(naturalWidths(t)), totalCols(t) * 5)

\* A faulty colWidths: every table is squeezed.
colWidthsAlways(t, termWidth) ==
  LET avgWidth == availableWidth(t, termWidth) \div totalCols(t)
  IN  [c \in DOMAIN t |-> Larger(5, Smaller(maxLen(t, c), avgWidth))]

\* A faulty colWidths: the separators are taken off twice.
colWidthsNarrow(t, termWidth) ==
  LET available == availableWidth(t, termWidth)
      avgWidth  == available \div totalCols(t)
  IN  IF maxDataWidth(t) > available
        THEN [c \in DOMAIN t |-> Smaller(maxLen(t, c), avgWidth - 3)]
        ELSE naturalWidths(t)

colWidths(t, termWidth) ==
  LET available == availableWidth(t, termWidth)
      avgWidth  == available \div totalCols(t)
  IN  IF maxDataWidth(t) > available
        THEN [c \in DOMAIN t |-> Larger(5, Smaller(maxLen(t, c), avgWidth))]
        ELSE naturalWidths(t)

tooNarrow(t, termWidth) == availableWidth(t, termWidth) \div totalCols(t) < 5

\* A text longer than its column loses its end to three dots; std::setw pads a
\* shorter one.
Cut(length, width) == IF length > width THEN width - 3 ELSE length

Shown(length, width) ==
  Larger(width, IF length > width THEN Cut(length, width) + 3 ELSE length)

\* Only the first rows are printed, and a note says so.
MoreRows(t) == Rows(t) > MaxRows

\* The name and the printed cells of every column as they are laid out.
Texts(t, c) == <<t[c].name>> \o SubSeq(t[c].cells, 1, printRows(t))

\* The line of the texts at r: the names, or a row.
TextLine(t, widths, r) == Total([c \in DOMAIN t |-> Shown(Texts(t, c)[r], widths[c]) + 3])

\* A faulty DashLine: as many dashes as the name has letters, padded.
DashLineOfNames(t, widths) == Total([c \in DOMAIN t |-> Larger(widths[c], t[c].name) + 3])

\* The line under the names: each column is filled with dashes.
DashLine(t, widths) == Total([c \in DOMAIN t |-> widths[c] + 3])

Layout(t, termWidth) ==
  LET widths == colWidths(t, termWidth)
  IN  [kept  |-> [c \in DOMAIN t |-> [r \in 1 .. printRows(t) + 1 |->
                                        Cut(Texts(t, c)[r], widths[c])]],
       lines |-> <<TextLine(t, widths, 1), DashLine(t, widths)>>
                   \o [r \in 1 .. printRows(t) |-> TextLine(t, widths, r + 1)],
       note  |-> MoreRows(t)]

Nothing == [table |-> << >>, width |-> 0, warning |-> FALSE,
            kept |-> << >>, lines |-> << >>, note |-> FALSE]

-----------------------------------------------------------------------------
Init ==
  /\ g_display_width = 80
  /\ ws_col \in Sizes
  /\ printed = Nothing
  /\ running = TRUE

SetWidth ==
  /\ running
  /\ g_display_width' \in Settings
  /\ printed' = Nothing
  /\ UNCHANGED <<ws_col, running>>

Resize ==
  /\ running
  /\ ws_col' \in Sizes
  /\ printed' = Nothing
  /\ UNCHANGED <<g_display_width, running>>

\* The warning is printed instead of the table.
PrintWarning(t) ==
  /\ running
  /\ totalCols(t) # 0
  /\ tooNarrow(t, getTermWidth)
  /\ printed' = [Nothing EXCEPT !.table = t, !.width = getTermWidth, !.warning = TRUE]
  /\ UNCHANGED <<g_display_width, ws_col, running>>

PrintTable(t) ==
  /\ running
  /\ totalCols(t) # 0
  /\ ~ tooNarrow(t, getTermWidth)
  /\ LET l == Layout(t, getTermWidth)
     IN  printed' = [table |-> t, width |-> getTermWidth, warning |-> FALSE,
                     kept |-> l.kept, lines |-> l.lines, note |-> l.note]
  /\ UNCHANGED <<g_display_width, ws_col, running>>

\* Without columns the division at line 57 is by zero: a processor that traps it
\* ends the process; on another one any quotient, and so any answer, is possible.
PrintNoColumns(t) ==
  /\ running
  /\ totalCols(t) = 0
  /\ printed' \in {[Nothing EXCEPT !.table = t, !.width = getTermWidth, !.warning = w] :
                     w \in BOOLEAN}
  /\ running' \in BOOLEAN
  /\ UNCHANGED <<g_display_width, ws_col>>

\* A null, and a result that is no table, are printed as they are.
PrintOther ==
  /\ running
  /\ printed' = Nothing
  /\ UNCHANGED <<g_display_width, ws_col, running>>

Next ==
  \/ SetWidth
  \/ Resize
  \/ \E t \in Tables : PrintWarning(t) \/ PrintTable(t) \/ PrintNoColumns(t)
  \/ PrintOther

Spec == Init /\ [][Next]_vars

-----------------------------------------------------------------------------
TypeOK ==
  /\ g_display_width \in Settings \cup {80}
  /\ ws_col \in Sizes
  /\ DOMAIN printed = DOMAIN Nothing
  /\ printed.table \in Tables \cup {<< >>}
  /\ printed.width \in Nat
  /\ running \in BOOLEAN

TableShown == printed.table # << >> /\ ~ printed.warning

\* No line of a table, that of the dashes included, is longer than the terminal,
\* unless the terminal is so narrow that the least width of 10 is used.
LinesFit ==
  TableShown =>
    \A r \in DOMAIN printed.lines :
      printed.lines[r] <= Larger(printed.width - 5, 10 + 3 * Len(printed.table))

\* All lines of a table have the same length, that of the dashes and those with
\* texts that were cut included: the columns are aligned.
LinesAligned ==
  TableShown => \A r, q \in DOMAIN printed.lines : printed.lines[r] = printed.lines[q]

\* What the column c shows of its text at r, the dots included.
Displayed(t, kept, c, r) ==
  IF kept[c][r] = Texts(t, c)[r] THEN kept[c][r] ELSE kept[c][r] + 3

\* The longest of them, and no less than the least width of a column.
LongestDisplayed(t, kept, c) ==
  Max({5} \cup {Displayed(t, kept, c, r) : r \in 1 .. printRows(t) + 1})

\* No column is wider than the longest text that it shows, or five: a text in a
\* row that is left out, or one that is cut, does not widen it (Client.cpp:40).
NoWiderThanShown ==
  TableShown =>
    \A r \in DOMAIN printed.lines :
      printed.lines[r] <=
        Total([c \in DOMAIN printed.table |->
                 LongestDisplayed(printed.table, printed.kept, c) + 3])

\* A text that is cut keeps at least two characters before the dots, so that the
\* length given to substr (Client.cpp:69, 87) is never negative.
CutsKeepText ==
  TableShown =>
    \A c \in DOMAIN printed.table, r \in 1 .. printRows(printed.table) + 1 :
      LET length == Texts(printed.table, c)[r]
          kept   == printed.kept[c][r]
      IN  kept = length \/ (2 <= kept /\ kept < length)

\* A table that fits into the width that there is for it is shown uncut.
NoNeedlessCut ==
  TableShown /\ Total(naturalWidths(printed.table)) <= availableWidth(printed.table, printed.width) =>
    \A c \in DOMAIN printed.table, r \in 1 .. printRows(printed.table) + 1 :
      printed.kept[c][r] = Texts(printed.table, c)[r]

\* A wider terminal shows no less: the table that was shown is shown, and each of
\* its texts keeps at least as much.
WiderShowsMore ==
  TableShown =>
    \A w \in Settings :
      w >= printed.width =>
        /\ ~ tooNarrow(printed.table, w)
        /\ \A c \in DOMAIN printed.table, r \in 1 .. printRows(printed.table) + 1 :
             printed.kept[c][r] <= Layout(printed.table, w).kept[c][r]

\* The rows that are left out are announced, and only then.
RowsAnnounced ==
  TableShown => (printed.note <=> Len(printed.lines) - 2 < Rows(printed.table))

=============================================================================
