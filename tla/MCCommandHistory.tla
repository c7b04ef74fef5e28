-------------------------- MODULE MCCommandHistory --------------------------
(***************************************************************************)
(* An instance of CommandHistory for TLC.                                  *)
(***************************************************************************)
EXTENDS CommandHistory

=============================================================================
