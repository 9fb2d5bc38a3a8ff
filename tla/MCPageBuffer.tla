---------------------------- MODULE MCPageBuffer ----------------------------
(***************************************************************************)
(* Values of PageBuffer's constants for TLC: those of the source, and a    *)
(* server with up to six clients whose histories are full.                 *)
(***************************************************************************)
EXTENDS PageBuffer

MCTables == {[c \in 1 .. n |-> HISTORY_SIZE] : n \in 0 .. 6}
=============================================================================
