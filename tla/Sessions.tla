------------------------------ MODULE Sessions ------------------------------
(***************************************************************************)
(* Several runs of the program by one user.  They share two files: the     *)
(* lines of linenoise in ~/.ddbclient_history, loaded at the start of      *)
(* main() and saved at quit, and ~/.cli_history, loaded by the constructor *)
(* of CommandHistory and stored by client.close().  No file is locked.     *)
(*                                                                         *)
(* Lines are numbered as they are typed.  What a session writes fits into  *)
(* the buffer of its stream: it reaches the file in one piece, some time   *)
(* after the file was opened and emptied.                                  *)
(***************************************************************************)
EXTENDS Integers, Sequences, SequencesExt

CONSTANTS
  Session,   \* the runs of the program
  DEPTH,     \* capacity of the deque of CommandHistory
  Lines,     \* the lines the first session may find in ~/.ddbclient_history
  Commands,  \* and in ~/.cli_history
  Torn,      \* the end of a line of which the beginning was overwritten
  MaxLines   \* bound on the number of lines typed

ASSUME SessionsAssumption ==
  /\ DEPTH \in Nat \ {0}
  /\ Lines \in Seq(Nat)
  /\ Commands \in Seq(Nat)
  /\ Torn \notin Nat
  /\ MaxLines \in Nat

VARIABLES
  pc,                 \* "none", "parse", "loop", "saving", "close", "storing", "exited"
  lines,              \* the lines linenoise remembers in each session
  history,            \* the deque of each session
  ddbclient_history,  \* the two files
  cli_history,
  count,              \* the lines typed in all sessions
  behind,             \* history variable: the sessions that do not know what
                      \* there is, or what another one has saved since they
                      \* have loaded
  before              \* history variable: ~/.ddbclient_history before the last
                      \* session opened it to save

vars == <<pc, lines, history, ddbclient_history, cli_history, count, behind, before>>

Smaller(a, b) == IF a < b THEN a ELSE b

Init ==
  /\ pc = [s \in Session |-> "none"]
  /\ lines = [s \in Session |-> << >>]
  /\ history = [s \in Session |-> << >>]
  /\ ddbclient_history = Lines
  /\ cli_history = Commands
  /\ count = Len(Lines)
  /\ behind = {}
  /\ before = Lines

Goto(s, from, to) ==
  /\ pc[s] = from
  /\ pc' = [pc EXCEPT ![s] = to]

-----------------------------------------------------------------------------
\* linenoiseHistoryLoad, whose result nobody looks at: the file may not open.  A
\* session that loads while another one is saving does not see what that one
\* saves, and one that cannot load sees nothing.
Load(s) ==
  /\ Goto(s, "none", "parse")
  /\ \/ /\ lines' = [lines EXCEPT ![s] = ddbclient_history]
        /\ behind' = IF \E t \in Session : pc[t] = "saving" THEN behind \cup {s} ELSE behind
     \/ /\ lines' = [lines EXCEPT ![s] = << >>]
        /\ behind' = behind \cup {s}
  /\ UNCHANGED <<history, ddbclient_history, cli_history, count, before>>

\* The Client is constructed, and with it the CommandHistory, whose file may not
\* open.
Construct(s) ==
  /\ Goto(s, "parse", "loop")
  /\ \E h \in {<< >>, SubSeq(cli_history, 1, Smaller(DEPTH, Len(cli_history)))} :
       history' = [history EXCEPT ![s] = h]
  /\ UNCHANGED <<lines, ddbclient_history, cli_history, count, behind, before>>

Remember(s) ==
  /\ count < MaxLines
  /\ count' = count + 1
  /\ lines' = [lines EXCEPT ![s] = Append(@, count')]

EnterLine(s) ==
  /\ pc[s] = "loop"
  /\ Remember(s)
  /\ UNCHANGED <<pc, history, ddbclient_history, cli_history, behind, before>>

\* The line "quit", which is remembered too; linenoiseHistorySave opens its
\* file and so empties it.
Quit(s) ==
  /\ Goto(s, "loop", "saving")
  /\ Remember(s)
  /\ before' = ddbclient_history
  /\ ddbclient_history' = << >>
  /\ behind' = behind \cup {t \in Session : t # s /\ pc[t] \in {"parse", "loop", "saving"}}
  /\ UNCHANGED <<history, cli_history>>

\* The same if linenoiseHistorySave cannot open its file.
QuitUnsaved(s) ==
  /\ Goto(s, "loop", "close")
  /\ Remember(s)
  /\ UNCHANGED <<history, ddbclient_history, cli_history, behind, before>>

\* A session writes from the start of the file.  What another one has written
\* there meanwhile remains behind the end, from the middle of a line or not.
Remains(new, old) ==
  {SubSeq(old, k, Len(old)) : k \in 1 .. Len(old) + 1}
  \cup {<<Torn>> \o SubSeq(old, k, Len(old)) : k \in 2 .. Len(old) + 1}

\* A faulty SaveWrites: only the lines of this session are saved.
SaveWritesOwn(s) ==
  /\ Goto(s, "saving", "close")
  /\ ddbclient_history' = SubSeq(lines[s], Len(before) + 1, Len(lines[s]))
  /\ UNCHANGED <<lines, history, cli_history, count, behind, before>>

SaveWrites(s) ==
  /\ Goto(s, "saving", "close")
  /\ \E rest \in Remains(lines[s], ddbclient_history) : ddbclient_history' = lines[s] \o rest
  /\ UNCHANGED <<lines, history, cli_history, count, behind, before>>

\* client.close(): the file is emptied, then written.
StoreOpens(s) ==
  /\ Goto(s, "close", "storing")
  /\ cli_history' = << >>
  /\ UNCHANGED <<lines, history, ddbclient_history, count, behind, before>>

\* The bytes of ~/.cli_history are the same in all sessions, as far as they go:
\* what remains is the rest of the lines that are there.
Over(new, old) == new \o SubSeq(old, Len(new) + 1, Len(old))

\* A faulty StoreWrites: the file is opened to append.
StoreAppends(s) ==
  /\ Goto(s, "storing", "exited")
  /\ cli_history' = cli_history \o history[s]
  /\ UNCHANGED <<lines, history, ddbclient_history, count, behind, before>>

StoreWrites(s) ==
  /\ Goto(s, "storing", "exited")
  /\ cli_history' = Over(history[s], cli_history)
  /\ UNCHANGED <<lines, history, ddbclient_history, count, behind, before>>

\* A script was run, an exception or a signal ended the session: it writes no
\* more, and what it has emptied stays so.
Leave(s) ==
  /\ pc[s] \notin {"none", "exited"}
  /\ Goto(s, pc[s], "exited")
  /\ UNCHANGED <<lines, history, ddbclient_history, cli_history, count, behind, before>>

Next ==
  \E s \in Session :
    \/ Load(s) \/ Construct(s)
    \/ EnterLine(s) \/ Quit(s) \/ QuitUnsaved(s) \/ SaveWrites(s)
    \/ StoreOpens(s) \/ StoreWrites(s)
    \/ Leave(s)

Spec == Init /\ [][Next]_vars

-----------------------------------------------------------------------------
TypeOK ==
  /\ pc \in [Session -> {"none", "parse", "loop", "saving", "close", "storing", "exited"}]
  /\ lines \in [Session -> Seq(Nat \cup {Torn})]
  /\ history \in [Session -> Seq(Nat)]
  /\ ddbclient_history \in Seq(Nat \cup {Torn})
  /\ cli_history \in Seq(Nat)
  /\ count \in Nat
  /\ behind \subseteq Session
  /\ before \in Seq(Nat \cup {Torn})

\* A session that knows what all others have saved adds its lines to theirs: no
\* line is lost to a save, whatever sessions run beside it, begin, end or are
\* killed, as long as none of them has saved since this one has loaded, which it
\* must have been able to.
SaveAddsLines ==
  [][\A s \in Session :
       pc[s] = "saving" /\ pc'[s] = "close" /\ s \notin behind
         => ddbclient_history' = lines[s] /\ IsPrefix(before, lines[s])]_vars

\* Nothing adds to the CommandHistory of a session, so the file is rewritten
\* with what was read: however the sessions open, write and read it, it and what
\* they show of it is a start of what was there, in its order and with no line
\* twice.
OnlyStarts ==
  /\ IsPrefix(cli_history, Commands)
  /\ \A s \in Session : IsPrefix(history[s], Commands)

(***************************************************************************)
(* What SaveAddsLines rests on: while a session knows what all others have *)
(* saved, none of them is saving, and its lines begin with those of the    *)
(* file.                                                                   *)
(***************************************************************************)
FreshInvariant ==
  \A s \in Session \ behind :
    /\ pc[s] \in {"parse", "loop", "saving"} => \A t \in Session \ {s} : pc[t] # "saving"
    /\ pc[s] \in {"parse", "loop"} => IsPrefix(ddbclient_history, lines[s])
    /\ pc[s] = "saving" => ddbclient_history = << >> /\ IsPrefix(before, lines[s])

=============================================================================
