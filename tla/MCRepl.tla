------------------------------- MODULE MCRepl -------------------------------
(***************************************************************************)
(* An instance of Repl for TLC.  "7", "0" and "-" are the characters of    *)
(* numbers, "q", "uit" and "ls" stand for any other text.                  *)
(***************************************************************************)
EXTENDS Repl

\* Digits at the head of a text, and the number they spell after n.
RECURSIVE DigitsValue(_, _)
DigitsValue(t, n) ==
  IF t = << >> \/ t[1] \notin {"0", "7"} THEN n
  ELSE DigitsValue(Tail(t), 10 * n + (IF t[1] = "7" THEN 7 ELSE 0))

StartsWithDigit(t) == t # << >> /\ t[1] \in {"0", "7"}

\* Leading blanks are skipped, a sign is accepted, text after the digits is
\* ignored, no digits is an exception.
RECURSIVE MCStoi(_)
MCStoi(t) ==
  IF t # << >> /\ t[1] = " " THEN MCStoi(Tail(t))
  ELSE IF StartsWithDigit(t)
    THEN DigitsValue(t, 0)
  ELSE IF t # << >> /\ t[1] = "-" /\ StartsWithDigit(Tail(t))
    THEN - DigitsValue(Tail(t), 0)
  ELSE NULL

\* Whole commands, lines to be continued, and lines that turn what they
\* continue into a width command, a shell command or "quit".
MCLines ==
  { <<"q">>, <<"q", "\\">>, <<"\\">>,
    <<"\\", "w">>, <<"\\", "w", " ", "-", "7">>, <<"\\", "w", " ", "q">>,
    <<"\\", "w", "\\">>, <<"idth">>, <<" ", "7", "0">>,
    <<"!", "ls">>, <<"uit">>, QuitLine }

=============================================================================
