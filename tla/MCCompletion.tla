---------------------------- MODULE MCCompletion ----------------------------
(***************************************************************************)
(* An instance of Completion for TLC: names that begin alike, repeat their *)
(* own beginning, are too short, or begin with what no key word does.      *)
(***************************************************************************)
EXTENDS Completion

MCLetters == {"a", "b", "."}

MCNames ==
  { <<"a", "b", "a">>, <<"a", "b", "a", "b">>, <<"b", "a", "b">>, <<"a", "a", "b", "b">>,
    <<"b", "b", "b">>, <<"a", "b">>, <<"_", "a", "b">> }

Rank(c) == CASE c = "a" -> 1 [] c = "b" -> 2 [] c = "_" -> 0

\* By the first letter that differs; a start of a word comes before it.
MCBefore(v, w) ==
  \/ IsStrictPrefix(v, w)
  \/ \E k \in DOMAIN v \cap DOMAIN w :
       /\ SubSeq(v, 1, k - 1) = SubSeq(w, 1, k - 1)
       /\ Rank(v[k]) < Rank(w[k])

=============================================================================
