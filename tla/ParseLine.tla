----------------------------- MODULE ParseLine -----------------------------
(***************************************************************************)
(* The parser's parse(const std::string&), include/cmdline.h:374-424: a    *)
(* command line given as one text is cut into arguments at its blanks,     *)
(* with quotes and backslashes, and the arguments are parsed.  A parser    *)
(* may be called any number of times; errors is what the calls share.      *)
(*                                                                         *)
(* What becomes of the arguments is the module Cmdline.  Here it is only   *)
(* a list of errors, empty or not, in place of those that were there.      *)
(***************************************************************************)
EXTENDS Integers, Sequences, FiniteSets, SequencesExt

CONSTANTS
  Texts,     \* the texts that are parsed
  Given,     \* arguments that callers put into a text in quotes
  MaxErrors  \* bound on the calls that fail one after the other

ASSUME TextsAssumption == Texts \subseteq Seq(STRING) /\ MaxErrors \in Nat

ASSUME GivenAssumption == Given \subseteq Seq(Seq(STRING))

VARIABLES
  pc,        \* "ready" for a call, "scanning", "split" the arguments are there,
             \* "aborted" the process has ended
  arg,       \* the text
  i,         \* the letter that is read next
  in_quote,
  buf,       \* the argument that is read
  args,      \* the arguments before it
  errors,    \* the errors, oldest first
  returned   \* what the last call returned

scanVars == <<arg, i, in_quote, buf, args>>
vars == <<pc, scanVars, errors, returned>>

Quote == "\""
Backslash == "\\"
Blank == " "

\* The literals are strings.
ASSUME StringsAssumption == {Quote, Backslash, Blank} \subseteq STRING

Kinds == {"backslash at the end", "quote is not closed", "no arguments", "bad arguments"}

-----------------------------------------------------------------------------
Init ==
  /\ pc = "ready"
  /\ arg = << >>
  /\ i = 1
  /\ in_quote = FALSE
  /\ buf = << >>
  /\ args = << >>
  /\ errors = << >>
  /\ returned = TRUE

Call(t) ==
  /\ pc = "ready"
  /\ Len(errors) < MaxErrors
  /\ pc' = "scanning"
  /\ arg' = t
  /\ UNCHANGED <<i, in_quote, buf, args, errors, returned>>

\* The local variables end with the call.
Return(result) ==
  /\ returned' = result
  /\ pc' = "ready"
  /\ arg' = << >>
  /\ i' = 1
  /\ in_quote' = FALSE
  /\ buf' = << >>
  /\ args' = << >>

AtLetter == pc = "scanning" /\ i <= Len(arg)

AtEnd == pc = "scanning" /\ i > Len(arg)

GoOn(n) ==
  /\ i' = i + n
  /\ UNCHANGED <<pc, arg, errors, returned>>

ToggleQuote ==
  /\ AtLetter /\ arg[i] = Quote
  /\ in_quote' = ~ in_quote
  /\ GoOn(1)
  /\ UNCHANGED <<buf, args>>

\* A faulty EndArgument: blanks end an argument in quotes too.
EndArgumentInQuote ==
  /\ AtLetter /\ arg[i] = Blank
  /\ args' = Append(args, buf)
  /\ buf' = << >>
  /\ GoOn(1)
  /\ UNCHANGED in_quote

\* A blank ends an argument, also an empty one.
EndArgument ==
  /\ AtLetter /\ arg[i] = Blank /\ ~ in_quote
  /\ args' = Append(args, buf)
  /\ buf' = << >>
  /\ GoOn(1)
  /\ UNCHANGED in_quote

\* The letter after a backslash is taken whatever it is.
TakeEscaped ==
  /\ AtLetter /\ arg[i] = Backslash /\ i < Len(arg)
  /\ buf' = Append(buf, arg[i + 1])
  /\ GoOn(2)
  /\ UNCHANGED <<in_quote, args>>

TakeLetter ==
  /\ AtLetter /\ arg[i] \notin {Quote, Backslash} /\ (arg[i] = Blank => in_quote)
  /\ buf' = Append(buf, arg[i])
  /\ GoOn(1)
  /\ UNCHANGED <<in_quote, args>>

Fail(kind) ==
  /\ errors' = Append(errors, kind)
  /\ Return(FALSE)

BackslashAtEnd ==
  /\ AtLetter /\ arg[i] = Backslash /\ i = Len(arg)
  /\ Fail("backslash at the end")

\* A faulty QuoteNotClosed: the end of the text closes the quote.
QuoteNotClosedTaken ==
  /\ AtEnd /\ in_quote
  /\ args' = Append(args, buf)
  /\ pc' = "split"
  /\ UNCHANGED <<arg, i, in_quote, buf, errors, returned>>

QuoteNotClosed ==
  /\ AtEnd /\ in_quote
  /\ Fail("quote is not closed")

\* A faulty LastArgument: the last argument is pushed also if it is empty.
LastArgumentAlways ==
  /\ AtEnd /\ ~ in_quote
  /\ args' = Append(args, buf)
  /\ pc' = "split"
  /\ UNCHANGED <<arg, i, in_quote, buf, errors, returned>>

LastArgument ==
  /\ AtEnd /\ ~ in_quote
  /\ args' = IF buf = << >> THEN args ELSE Append(args, buf)
  /\ pc' = "split"
  /\ UNCHANGED <<arg, i, in_quote, buf, errors, returned>>

\* A faulty ParseArguments: the errors of earlier calls are kept.
ParseArgumentsUncleared ==
  /\ pc = "split"
  /\ \E ok \in IF args = << >> THEN {FALSE} ELSE BOOLEAN : Return(ok)
  /\ errors' = IF returned' THEN errors
               ELSE Append(errors, IF args = << >> THEN "no arguments" ELSE "bad arguments")

\* parse(args), and from there parse(argc, argv), which forgets all errors first.
ParseArguments ==
  /\ pc = "split"
  /\ \E ok \in IF args = << >> THEN {FALSE} ELSE BOOLEAN : Return(ok)
  /\ errors' = IF returned' THEN << >>
               ELSE << IF args = << >> THEN "no arguments" ELSE "bad arguments" >>

\* Without arguments line 423 takes the address of the first element of an empty
\* vector, which is undefined: a library that checks its indices ends the process,
\* another one goes on with a pointer that nobody reads (ParseArguments).
Abort ==
  /\ pc = "split" /\ args = << >>
  /\ pc' = "aborted"
  /\ UNCHANGED <<scanVars, errors, returned>>

Scan ==
  \/ ToggleQuote \/ EndArgument \/ TakeEscaped \/ TakeLetter
  \/ BackslashAtEnd \/ QuoteNotClosed \/ LastArgument

Next ==
  \/ \E t \in Texts : Call(t)
  \/ Scan
  \/ ParseArguments
  \/ Abort

Spec == Init /\ [][Next]_vars

-----------------------------------------------------------------------------
(***************************************************************************)
(* A text read from the outside, by what stands before each letter: it is  *)
(* escaped if an odd number of backslashes is right before it, and quoted  *)
(* if an odd number of quotes that are not escaped is anywhere before it.  *)
(***************************************************************************)
Escaped(t, k) ==
  \E j \in 0 .. k - 1 :
    /\ \A l \in j + 1 .. k - 1 : t[l] = Backslash
    /\ j > 0 => t[j] # Backslash
    /\ (k - 1 - j) % 2 = 1

Quotes(t, k) == {l \in 1 .. k - 1 : t[l] = Quote /\ ~ Escaped(t, l)}

Quoted(t, k) == Cardinality(Quotes(t, k)) % 2 = 1

Separators(t) == {k \in DOMAIN t : t[k] = Blank /\ ~ Escaped(t, k) /\ ~ Quoted(t, k)}

\* The positions of the letters that belong to an argument.
Kept(t) == {k \in DOMAIN t \ Separators(t) : Escaped(t, k) \/ t[k] \notin {Quote, Backslash}}

\* The letters that stand at the positions S, in their order.
Letters(t, S) ==
  [m \in 1 .. Cardinality(S) |-> t[CHOOSE k \in S : Cardinality({l \in S : l <= k}) = m]]

\* Those that are behind n separators.
Piece(t, n) == {k \in Kept(t) : Cardinality({s \in Separators(t) : s < k}) = n}

Pieces(t) == [n \in 1 .. Cardinality(Separators(t)) + 1 |-> Letters(t, Piece(t, n - 1))]

(***************************************************************************)
(* Arguments put into a text the way a careful caller does: each one in    *)
(* quotes, with a backslash before every quote and backslash.              *)
(***************************************************************************)
Escape(letters) ==
  FlattenSeq([n \in DOMAIN letters |->
                IF letters[n] \in {Quote, Backslash} THEN <<Backslash, letters[n]>>
                                                     ELSE <<letters[n]>>])

QuoteArgument(letters) == <<Quote>> \o Escape(letters) \o <<Quote>>

QuoteArguments(given) ==
  FlattenSeq([n \in DOMAIN given |-> IF n = 1 THEN QuoteArgument(given[n])
                                          ELSE <<Blank>> \o QuoteArgument(given[n])])

TextOf == [given \in Given |-> QuoteArguments(given)]

TypeOK ==
  /\ pc \in {"ready", "scanning", "split", "aborted"}
  /\ arg \in Seq(STRING)
  /\ i \in 1 .. Len(arg) + 1
  /\ in_quote \in BOOLEAN
  /\ buf \in Seq(STRING)
  /\ args \in Seq(Seq(STRING))
  /\ errors \in Seq(Kinds)
  /\ returned \in BOOLEAN

\* A text is cut at its blanks that are neither escaped nor quoted and nowhere
\* else, into the letters that stand there; only an empty last piece is dropped.
SplitAsWritten ==
  pc = "split" =>
    LET p == Pieces(arg) IN args = IF Last(p) = << >> THEN Front(p) ELSE p

(***************************************************************************)
(* While a text is scanned the letter that is read next is not escaped,    *)
(* and in_quote says whether it is quoted.                                 *)
(***************************************************************************)
ScanInvariant ==
  pc \in {"scanning", "split"} =>
    /\ ~ Escaped(arg, i)
    /\ in_quote <=> Quoted(arg, i)
    /\ pc = "split" => i = Len(arg) + 1 /\ ~ in_quote

\* What is wrong with a text is found, and nothing else: a text is split exactly
\* if no backslash at its end escapes nothing and each of its quotes is closed,
\* also when quotes are escaped or backslashes are quoted.
SplitIfClosed ==
  [][ /\ pc = "scanning" /\ pc' = "split" =>
           ~ Escaped(arg, Len(arg) + 1) /\ ~ Quoted(arg, Len(arg) + 1)
      /\ pc = "scanning" /\ pc' = "ready" =>
           Escaped(arg, Len(arg) + 1) \/ Quoted(arg, Len(arg) + 1) ]_vars

\* Arguments that a caller puts in quotes come back as they were, whatever
\* letters they have, but for an empty last one (cmdline.h:407).
QuotedComesBack ==
  pc = "split" =>
    \A given \in Given :
      arg = TextOf[given] =>
        args = IF given # << >> /\ Last(given) = << >> THEN Front(given) ELSE given

\* Whatever calls went before, the parser has an error to show exactly if the
\* last call returned false (cmdline.h:524 and the early returns).
ErrorsTell == pc = "ready" => (returned <=> errors = << >>)

=============================================================================
