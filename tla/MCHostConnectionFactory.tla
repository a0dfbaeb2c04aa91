---------------------- MODULE MCHostConnectionFactory ----------------------
(* Processes of a few connections and sends, for TLC. *)
EXTENDS HostConnectionFactory
=============================================================================
