------------------------------ MODULE MCDaemon ------------------------------
(***************************************************************************)
(* Small instances of Daemon for TLC.  The sessions make three requests    *)
(* between them, a brief one no more than one; the daemon starts without   *)
(* logs of an earlier run: what becomes of those is checked with           *)
(* SessionFiles.                                                           *)
(***************************************************************************)
EXTENDS Daemon, TLC

CONSTANT Brief

WithinBounds ==
  /\ \A s \in Brief : asked'[s] <= 1
  /\ \A r, s \in Session : r # s => asked'[r] + asked'[s] <= 3

MCInit == DaemonInit /\ exists = {}
MCNext == DaemonNext /\ WithinBounds
MCSpec == MCInit /\ [][MCNext]_daemonVars /\ Fairness
=============================================================================
