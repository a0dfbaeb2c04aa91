------------------------- MODULE MCDefaultConnection -------------------------
(* A connection that lives on, for TLC. *)
EXTENDS DefaultConnection
=============================================================================
