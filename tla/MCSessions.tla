----------------------------- MODULE MCSessions -----------------------------
(***************************************************************************)
(* An instance of Sessions for TLC.                                        *)
(***************************************************************************)
EXTENDS Sessions, TLC

MCLines == <<1>>
MCCommands == <<1, 2, 3>>

Symmetry == Permutations(Session)

=============================================================================
