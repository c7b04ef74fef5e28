---------------------------- MODULE MCParseLine ----------------------------
(***************************************************************************)
(* An instance of ParseLine for TLC: every text of up to MaxLength letters,*)
(* and texts that quote given arguments.                                   *)
(***************************************************************************)
EXTENDS ParseLine

CONSTANT MaxLength

MCGiven == BoundedSeq(BoundedSeq({"a", Blank, Quote, Backslash}, 2), 2)

MCTexts == BoundedSeq({"a", Blank, Quote, Backslash}, MaxLength) \cup Range(TextOf)

=============================================================================
