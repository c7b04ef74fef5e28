----------------------------- MODULE Completion -----------------------------
(***************************************************************************)
(* Completion of what the user has typed: getKeyWords() (Client.cpp:125)   *)
(* asks the server for its names once, before the loop, and linenoise      *)
(* calls completionHook() (ClientMain.cpp:210) whenever TAB is pressed.    *)
(*                                                                         *)
(* A text is a sequence of letters.  What linenoise does with the offers   *)
(* is not modelled.                                                        *)
(*                                                                         *)
(* The server's defs() is taken to list no name twice: the query asks for  *)
(* no distinct names, and a name listed twice would be offered twice.      *)
(*                                                                         *)
(* The formulas bear the name of the module so that ClientProofs, which    *)
(* extends TableFormat, can extend it too.                                 *)
(***************************************************************************)
EXTENDS Integers, Sequences, FiniteSets, SequencesExt, FiniteSetsExt

CONSTANTS
  Letters,      \* the letters the user may type, the dot among them
  Names,        \* the names the server may define
  Before(_, _), \* the order by name: Before(v, w)
  WordLetters,  \* a letter or a digit: what a key word begins with
  MaxLength     \* bound on what is typed

Dot == "."

ASSUME LettersAssumption ==
  /\ Dot \in Letters
  /\ Names \subseteq Seq(STRING)
  /\ IsFiniteSet(Names)

\* The names have an order.
ASSUME OrderAssumption ==
  /\ \A v \in Names : ~ Before(v, v)
  /\ \A u, v, w \in Names : Before(u, v) /\ Before(v, w) => Before(u, w)
  /\ \A v, w \in Names : v # w => Before(v, w) \/ Before(w, v)

VARIABLES
  keyWords,  \* the names to offer, none before the loop
  key,       \* "none" before the loop, then the last key: "tab" or "other"
  input,     \* what stands on the line
  offers     \* what TAB offered, << >> after any other key

completionVars == <<keyWords, key, input, offers>>

-----------------------------------------------------------------------------
(* getKeyWords: the where clause and the order of the query, each name of  *)
(* defs being listed once.                                                 *)

IsKeyWord(n) == Len(n) >= 3 /\ n[1] \in WordLetters

InOrder(s) == \A k, l \in DOMAIN s : k < l => Before(s[k], s[l])

getKeyWords(defs) ==
  LET names == {n \in defs : IsKeyWord(n)}
  IN  CHOOSE words \in [1 .. Cardinality(names) -> names] : InOrder(words)

-----------------------------------------------------------------------------
(* completionHook: std::string's find, find_last_of and substr.            *)

\* The positions at which a text stands in another, the first one being 1.
Occurrences(str, substr) ==
  {k \in 1 .. Len(str) - Len(substr) + 1 : SubSeq(str, k, k + Len(substr) - 1) = substr}

contains(str, substr) == Occurrences(str, substr) # {}

\* A faulty currentInput: what stands after the first dot.
currentInputFirstDot(text) ==
  IF contains(text, <<Dot>>) THEN SubSeq(text, Min(Occurrences(text, <<Dot>>)) + 1, Len(text))
                             ELSE text

currentInput(text) ==
  IF contains(text, <<Dot>>) THEN SubSeq(text, Max(Occurrences(text, <<Dot>>)) + 1, Len(text))
                             ELSE text

\* func.find(currentInput) == 0
Offered(text, func) ==
  LET at == Occurrences(func, currentInput(text)) IN at # {} /\ Min(at) = 1

\* The loop over the key words.
completionHook(text) ==
  LET offered[k \in 0 .. Len(keyWords)] ==
        IF k = 0 THEN << >>
        ELSE IF Offered(text, keyWords[k]) THEN Append(offered[k - 1], keyWords[k])
        ELSE offered[k - 1]
  IN  offered[Len(keyWords)]

-----------------------------------------------------------------------------
CompletionInit ==
  /\ keyWords = << >>
  /\ key = "none"
  /\ input = << >>
  /\ offers = << >>

\* The server has some of the names; the loop starts.
AskKeyWords(defs) ==
  /\ key = "none"
  /\ keyWords' = getKeyWords(defs)
  /\ key' = "other"
  /\ UNCHANGED <<input, offers>>

\* linenoise reads another key and shows the text on the line.
Edit(text) ==
  /\ key # "none"
  /\ key' = "other"
  /\ input' = text
  /\ offers' = << >>
  /\ UNCHANGED keyWords

Type(c) ==
  /\ Len(input) < MaxLength
  /\ Edit(Append(input, c))

Erase ==
  /\ input # << >>
  /\ Edit(Front(input))

\* A faulty PressTab: what fits nothing is offered itself.
PressTabEcho ==
  /\ key # "none"
  /\ key' = "tab"
  /\ offers' = IF completionHook(input) = << >> THEN <<input>> ELSE completionHook(input)
  /\ UNCHANGED <<keyWords, input>>

PressTab ==
  /\ key # "none"
  /\ key' = "tab"
  /\ offers' = completionHook(input)
  /\ UNCHANGED <<keyWords, input>>

CompletionNext ==
  \/ \E defs \in SUBSET Names : AskKeyWords(defs)
  \/ \E c \in Letters : Type(c)
  \/ Erase
  \/ PressTab

CompletionSpec == CompletionInit /\ [][CompletionNext]_completionVars

-----------------------------------------------------------------------------
CompletionTypeOK ==
  /\ keyWords \in Seq(Names)
  /\ key \in {"none", "tab", "other"}
  /\ input \in Seq(Letters)
  /\ offers \in Seq(Names)

\* Whatever was typed before it, a key word that has begun is offered, and what
\* is offered has begun: the line is some text, empty or up to a dot, and a start
\* of the word without a dot (README.md:174, where "a.msu" offers msum).  The
\* offers are in the order of their names; that none is made twice comes from the
\* server, which lists each name once.
OffersWhatHasBegun ==
  key = "tab" =>
    /\ \A w \in Names :
         Contains(offers, w) <=>
           /\ Contains(keyWords, w)
           /\ \E k \in 0 .. Len(input) :
                /\ k > 0 => input[k] = Dot
                /\ \A l \in k + 1 .. Len(input) : input[l] # Dot
                /\ IsPrefix(SubSeq(input, k + 1, Len(input)), w)
    /\ InOrder(offers)

=============================================================================
