----------------------------- MODULE RecentLog -----------------------------
(***************************************************************************)
(* What CommandHistory promises (CommandHistory.h, the comment over the    *)
(* class): a log of every command, of which the Depth newest are shown,    *)
(* newest first.  The file holds a start of what was shown at some time,   *)
(* the last line possibly torn, and a restart begins with the file.        *)
(***************************************************************************)
EXTENDS Integers, Sequences

CONSTANTS
  Depth,    \* how many commands are shown
  Torn,     \* a line of which only a part reached the file
  NoFile    \* there is no file

VARIABLES
  log,      \* every command since the start, after those of the file
  shown,    \* the commands that can be recalled
  saved     \* the file

logVars == <<log, shown, saved>>

Recent(s) == SubSeq(s, 1, IF Len(s) < Depth THEN Len(s) ELSE Depth)

Prefixes(s) == {SubSeq(s, 1, n) : n \in 0 .. Len(s)}

LogInit ==
  /\ log = << >>
  /\ shown = << >>

Add ==
  /\ log' # << >>
  /\ Tail(log') = log
  /\ shown' = Recent(log')
  /\ UNCHANGED saved

Save ==
  /\ \E p \in Prefixes(shown) : saved' \in {p, Append(p, Torn)}
  /\ UNCHANGED <<log, shown>>

Forget ==
  /\ log' = << >>
  /\ shown' = << >>
  /\ \/ UNCHANGED saved
     \/ \E p \in Prefixes(shown) : saved' = Append(p, Torn)

Restart ==
  /\ saved # NoFile
  /\ log' = Recent(saved)
  /\ shown' = log'
  /\ UNCHANGED saved

LogNext == Add \/ Save \/ Forget \/ Restart

LogSpec == LogInit /\ [][LogNext]_logVars

=============================================================================
