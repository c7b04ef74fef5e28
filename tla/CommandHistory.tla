--------------------------- MODULE CommandHistory ---------------------------
(***************************************************************************)
(* The class CommandHistory: the deque of the newest commands, the         *)
(* position of the last lookup in it, and the file ~/.cli_history that the *)
(* constructor reads and store() writes.  One process owns the file; it    *)
(* can stop at any point, also in the middle of store().                   *)
(*                                                                         *)
(* The n-th command ever added stands for its text.                        *)
(***************************************************************************)
EXTENDS Integers, Sequences

CONSTANTS
  DEPTH,        \* capacity of the deque
  Torn,         \* a line of which only a part reached the file
  NoFile,       \* there is no file; no store since a damage; no lookup
  Throws,       \* std::deque::at throws
  MaxCommands   \* bound on the number of commands

ASSUME DepthAssumption == DEPTH \in Nat \ {0} /\ MaxCommands \in Nat

ASSUME ValuesAssumption ==
  /\ Torn \notin Nat
  /\ Throws \notin Nat \cup {Torn}
  /\ NoFile \notin Nat \cup {Torn, Throws}
  /\ NoFile \notin Seq(Nat \cup {Torn})

VARIABLES
  pc,               \* "down" no process, "up" between two calls, "storing"
  history,
  currentPosition,
  historyFile,      \* the lines of the file
  got,              \* what the last lookup returned
  written,          \* lines store() has written
  count,            \* history variable: commands added by all processes
  log,              \* history variable: commands loaded and added
  stored            \* history variable: the deque as last stored in full,
                    \* NoFile if that file was overwritten since

vars == <<pc, history, currentPosition, historyFile, got, written, count, log, stored>>

Entry == Nat \cup {Torn}

Least(a, b) == IF a < b THEN a ELSE b

First(s, n) == SubSeq(s, 1, Least(n, Len(s)))

-----------------------------------------------------------------------------
\* The file may be missing, or left by earlier processes with any number of
\* lines: the history of another DEPTH, a file edited by hand.
Init ==
  /\ pc = "down"
  /\ history = << >>
  /\ currentPosition = 0
  /\ count \in 0 .. DEPTH + 1
  /\ historyFile \in {NoFile, [i \in 1 .. count |-> count + 1 - i]}
  /\ got = NoFile
  /\ written = 0
  /\ log = << >>
  /\ stored = NoFile

\* A faulty Construct: every line is put in front of those before it.
ConstructReversed ==
  /\ pc = "down"
  /\ \/ /\ historyFile # NoFile
        /\ LET f == First(historyFile, DEPTH)
           IN  history' = [k \in 1 .. Len(f) |-> f[Len(f) - k + 1]]
     \/ history' = << >>
  /\ currentPosition' = 0
  /\ got' = NoFile
  /\ log' = history'
  /\ pc' = "up"
  /\ UNCHANGED <<historyFile, written, count, stored>>

\* A faulty Construct: the counter of lines starts at one.
ConstructLoadsLess ==
  /\ pc = "down"
  /\ \/ historyFile # NoFile /\ history' = First(historyFile, DEPTH - 1)
     \/ history' = << >>
  /\ currentPosition' = 0
  /\ got' = NoFile
  /\ log' = history'
  /\ pc' = "up"
  /\ UNCHANGED <<historyFile, written, count, stored>>

\* The constructor: it loads the file if there is one and it opens, and starts
\* with an empty deque if not (no permission to read and write, no descriptor).
Construct ==
  /\ pc = "down"
  /\ \/ historyFile # NoFile /\ history' = First(historyFile, DEPTH)
     \/ history' = << >>
  /\ currentPosition' = 0
  /\ got' = NoFile
  /\ log' = history'
  /\ pc' = "up"
  /\ UNCHANGED <<historyFile, written, count, stored>>

\* A faulty add: the deque grows to one more than DEPTH.
addOneTooMany ==
  /\ pc = "up"
  /\ count < MaxCommands
  /\ count' = count + 1
  /\ history' = <<count'>> \o (IF Len(history) <= DEPTH
                               THEN history
                               ELSE SubSeq(history, 1, Len(history) - 1))
  /\ currentPosition' = 0
  /\ got' = NoFile
  /\ log' = <<count'>> \o log
  /\ UNCHANGED <<pc, historyFile, written, stored>>

\* A new command goes in front; a full deque loses its last one.
add ==
  /\ pc = "up"
  /\ count < MaxCommands
  /\ count' = count + 1
  /\ history' = <<count'>> \o (IF Len(history) < DEPTH
                               THEN history
                               ELSE SubSeq(history, 1, Len(history) - 1))
  /\ currentPosition' = 0
  /\ got' = NoFile
  /\ log' = <<count'>> \o log
  /\ UNCHANGED <<pc, historyFile, written, stored>>

\* A faulty LookUp: positions are counted from one.
LookUpShifted(index) ==
  /\ pc = "up"
  /\ currentPosition' = index
  /\ got' = IF index + 1 < Len(history) THEN history[index + 2] ELSE Throws
  /\ UNCHANGED <<pc, history, historyFile, written, count, log, stored>>

\* deque::at: the position is moved even when there is nothing there.
LookUp(index) ==
  /\ pc = "up"
  /\ currentPosition' = index
  /\ got' = IF index < Len(history) THEN history[index + 1] ELSE Throws
  /\ UNCHANGED <<pc, history, historyFile, written, count, log, stored>>

\* A faulty getPrev: it stops one position too far.
getPrevTooFar == LookUp(IF currentPosition = DEPTH THEN currentPosition
                                                   ELSE currentPosition + 1)

getPrev == LookUp(IF currentPosition = DEPTH - 1 THEN currentPosition
                                                 ELSE currentPosition + 1)

getNext == LookUp(IF currentPosition = 0 THEN 0 ELSE currentPosition - 1)

-----------------------------------------------------------------------------
(* store(): opening the file empties it, then the lines reach it in order. *)
(* A file that does not open leaves everything as it was.                  *)

\* A faulty storeOpens: the file is opened to append.
storeAppends ==
  /\ pc = "up"
  /\ pc' = "storing"
  /\ historyFile' = IF historyFile = NoFile THEN << >> ELSE historyFile
  /\ written' = 0
  /\ stored' = NoFile
  /\ UNCHANGED <<history, currentPosition, got, count, log>>

storeOpens ==
  /\ pc = "up"
  /\ pc' = "storing"
  /\ historyFile' = << >>
  /\ written' = 0
  /\ stored' = NoFile
  /\ UNCHANGED <<history, currentPosition, got, count, log>>

storeWrites ==
  /\ pc = "storing"
  /\ written < Len(history)
  /\ written' = written + 1
  /\ historyFile' = Append(historyFile, history[written'])
  /\ UNCHANGED <<pc, history, currentPosition, got, count, log, stored>>

storeCloses ==
  /\ pc = "storing"
  /\ written = Len(history)
  /\ pc' = "up"
  /\ stored' = history
  /\ UNCHANGED <<history, currentPosition, historyFile, got, written, count, log>>

TearLine ==
  /\ written < Len(history)
  /\ historyFile' = Append(historyFile, Torn)

\* The disk is full: the stream drops the rest, and store() returns true.
storeLosesRest ==
  /\ pc = "storing"
  /\ written < Len(history)
  /\ pc' = "up"
  /\ TearLine \/ UNCHANGED historyFile
  /\ UNCHANGED <<history, currentPosition, got, written, count, log, stored>>

\* The process ends or is killed, whatever it is doing.
Stop ==
  /\ pc \in {"up", "storing"}
  /\ pc' = "down"
  /\ history' = << >>
  /\ log' = << >>
  /\ \/ pc = "storing" /\ TearLine
     \/ UNCHANGED historyFile
  /\ UNCHANGED <<currentPosition, got, written, count, stored>>

-----------------------------------------------------------------------------
Next ==
  \/ Construct
  \/ add
  \/ getPrev
  \/ getNext
  \/ storeOpens
  \/ storeWrites
  \/ storeCloses
  \/ storeLosesRest
  \/ Stop

Spec == Init /\ [][Next]_vars

-----------------------------------------------------------------------------
TypeOK ==
  /\ pc \in {"down", "up", "storing"}
  /\ history \in Seq(Entry)
  /\ currentPosition \in 0 .. DEPTH - 1
  /\ historyFile \in Seq(Entry) \cup {NoFile}
  /\ got \in Entry \cup {Throws, NoFile}
  /\ written \in Nat
  /\ count \in Nat
  /\ log \in Seq(Entry)
  /\ stored \in Seq(Entry) \cup {NoFile}

\* However many commands are added, and whatever file the process started from,
\* the deque holds the DEPTH newest commands, newest first (CommandHistory.h,
\* "insert at head, delete at tail if it was full").
HistoryIsRecent == history = First(log, DEPTH)

\* Once the deque is full no lookup throws: every position that getPrev and
\* getNext can reach has an entry.
FullHistoryAnswers == Len(history) = DEPTH => got # Throws

\* In the deque and in the file newer commands come before older ones, through
\* any number of stores, crashes in the middle of one, and restarts.
Descending(s) ==
  \A i, j \in 1 .. Len(s) : i < j /\ {s[i], s[j]} \subseteq Nat => s[i] > s[j]

NewestFirst ==
  /\ Descending(history)
  /\ historyFile # NoFile => Descending(historyFile)

\* Unless a later store was cut short, a process starts with the whole history
\* that was stored last, or, if the file does not open, with none of it: never
\* with a part, and in no other order (CommandHistory.cpp:12-20).
WholeOrNothing ==
  [][pc = "down" /\ pc' = "up" /\ stored # NoFile => history' \in {stored, << >>}]_vars

(***************************************************************************)
(* What the properties rest on: an unfinished store has written a start of *)
(* the deque, and a file that was stored in full is still there.           *)
(***************************************************************************)
FileInvariant ==
  /\ pc = "down" => history = << >> /\ log = << >>
  /\ pc = "storing" =>
       /\ written <= Len(history)
       /\ historyFile = SubSeq(history, 1, written)
       /\ stored = NoFile
  /\ stored # NoFile => historyFile = stored /\ Len(stored) <= DEPTH

\* The class implements the bounded log.
Abstract == INSTANCE RecentLog
              WITH Depth <- DEPTH, shown <- history, saved <- historyFile

ImplementsRecentLog == Abstract!LogSpec

=============================================================================
