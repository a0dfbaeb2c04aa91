-------------------------- MODULE MCDefaultSocket --------------------------
(* A socket and a few threads that write to it, for TLC. *)
EXTENDS DefaultSocket
=============================================================================
