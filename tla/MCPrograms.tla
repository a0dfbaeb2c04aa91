----------------------------- MODULE MCPrograms -----------------------------
(***************************************************************************)
(* Small instances of Programs for TLC: one application that does what it  *)
(* likes, or two programs that log to one file, one of which may lose its  *)
(* connection.  The daemon starts without logs of an earlier run: what     *)
(* becomes of those is checked with SessionFiles.                          *)
(***************************************************************************)
EXTENDS Programs, TLC

CONSTANT MaxAnyActs   \* bound: requests of the application on a session

MCInit ==
  /\ ProgramsInit
  /\ exists = {}
  /\ \E a \in App :
       \/ program[a] = Anything /\ \A b \in App \ {a} : program[b] = Nothing
       \/ program[a] = loglinetofile /\ \A b \in App \ {a} : program[b] \in Program

WithinBounds ==
  IF Anything \in {program[a] : a \in App}
    THEN \A a \in App, s \in Session :
           acts[s] >= MaxAnyActs => call'[a] \in {NoCall, call[a]} \/ call'[a].session # s
    ELSE /\ \A a, b \in App : NoPath \in {argv1'[a], argv1'[b]} \/ argv1'[a] = argv1'[b]
         /\ Cardinality(broken') <= 1

MCSpec == MCInit /\ [][ProgramsNext /\ WithinBounds]_allVars

Symmetry == Permutations(Session) \cup Permutations(Path)
              \cup Permutations(Log) \cup Permutations(App)
=============================================================================
