--------------------------- MODULE MCTableFormat ---------------------------
(***************************************************************************)
(* An instance of TableFormat for TLC: tables of one or two columns with   *)
(* different texts, tables of many columns with more rows than are printed,*)
(* of which the last one may be longer, and one without columns.           *)
(***************************************************************************)
EXTENDS TableFormat

MCSettings == {-5, 0, 15, 16, 17, 21, 24, 33, 79, 300}

MCColumns(n) == [name : {1, 6}, cells : [1 .. n -> {4, 30}]]

MCTables ==
  {<< >>} \cup
  UNION {[1 .. k -> MCColumns(n)] : k \in 1 .. 2, n \in {0, 2}}
  \cup {[c \in 1 .. k |-> [name |-> w, cells |-> <<1, w, last>>]] :
          k \in {3, 6, 9, 10, 16}, w \in {1, 4, 6, 40}, last \in {1, 50}}

=============================================================================
