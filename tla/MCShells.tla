------------------------------ MODULE MCShells ------------------------------
(***************************************************************************)
(* The shells with the three outputs of the board.                         *)
(***************************************************************************)
EXTENDS Shells

Outputs == {"USB", "PORT_A", "PORT_B"}
=============================================================================
