------------------------ MODULE MCConnectionLifetime ------------------------
(* Connections of a few sends, and their end, for TLC. *)
EXTENDS ConnectionLifetime
=============================================================================
