------------------------------ MODULE Programs ------------------------------
(***************************************************************************)
(* Programs that log: those of the system tests, each through another      *)
(* front of the library, which are C++ (Log and Host), an OutStream, C and *)
(* Python.  A program opens one log, says a number of lines and goes; the  *)
(* fronts differ in what they make of an exception.  Beside them an        *)
(* application of module ClientLog, which does what it likes.              *)
(***************************************************************************)
EXTENDS ClientLog

CONSTANTS
  Lines,     \* what a program has to say: argv[2] and on
  Anything,  \* an application of ClientLog
  Nothing    \* no application

\* With nothing to say the programs return at once.
ASSUME LinesAssumption == Lines \in Nat \ {0}

\* A program: what it says, whether over an OutStream; where it goes, and what
\* it will return, if its log does not open; where if a line is not written.
\* An exception that nothing catches ends the process; so does one that would
\* leave a function called from C.
loglinetofile ==
  [says |-> Lines, stream |-> FALSE,
   unopened |-> "killed", code |-> 1, unwritten |-> "killed"]

logviastream ==
  [says |-> Lines, stream |-> TRUE,
   unopened |-> "killed", code |-> 1, unwritten |-> "said"]

\* It returns without logsvc_disconnect.
cloglinetofile ==
  [says |-> Lines, stream |-> FALSE,
   unopened |-> "ended", code |-> -3, unwritten |-> "killed"]

\* The programs that are named for Log and OutStream say nothing.
LogTest ==
  [says |-> 0, stream |-> FALSE,
   unopened |-> "leaving", code |-> -1, unwritten |-> "killed"]

OutStreamTest ==
  [says |-> 0, stream |-> FALSE,
   unopened |-> "killed", code |-> 1, unwritten |-> "killed"]

\* Exceptions are Python's.  Where a line is not written the function ends, and
\* with it its Host before its Log, which is then destroyed over a connection
\* that is gone.
py_log_line_to_file_test ==
  [says |-> Lines, stream |-> FALSE,
   unopened |-> "leaving", code |-> 1, unwritten |-> "undefined"]

\* The one named for Host makes Hosts, which do not connect before a Log does.
HostTest ==
  [says |-> 0, stream |-> FALSE,
   unopened |-> "killed", code |-> 0, unwritten |-> "killed"]

Program == {loglinetofile, logviastream, cloglinetofile, LogTest,
            OutStreamTest, py_log_line_to_file_test, HostTest}

ASSUME AnyAssumption == Anything \notin Program /\ Nothing \notin Program

VARIABLES
  program,   \* of each application: one of these, Anything or Nothing
  at,        \* where it stands
  argv1,     \* the log it opens
  own,       \* the session it has for it
  said,      \* lines, or words of a stream, so far
  buffer,    \* LogBuf: words not yet written
  code       \* what main returns; for Python, 1 is an exception that is raised

programVars == <<program, at, argv1, own, said, buffer, code>>
allVars == <<clientVars, programVars>>

ProgramsInit ==
  /\ ClientInit
  /\ program \in [App -> Program \cup {Anything, Nothing}]
  /\ at = [a \in App |-> "main"]
  /\ argv1 = [a \in App |-> NoPath]
  /\ own = [a \in App |-> NoSession]
  /\ said = [a \in App |-> 0]
  /\ buffer = [a \in App |-> 0]
  /\ code = [a \in App |-> 0]

Goes(a, from, to) ==
  at[a] = from /\ a \notin terminated /\ at' = [at EXCEPT ![a] = to]

Exits(a, n) == code' = [code EXCEPT ![a] = n]

-----------------------------------------------------------------------------
(* Opening the log; a Host connects only for its first Log. *)

Open(a, p, s) ==
  /\ program[a] # HostTest
  /\ Goes(a, "main", "opening")
  /\ argv1' = [argv1 EXCEPT ![a] = p]
  /\ own' = [own EXCEPT ![a] = s]
  /\ \E l \in Log : ConnectAndOpen(a, l, p, s)
  /\ UNCHANGED <<program, said, buffer, code>>

\* UnableToConnectError
CannotConnect(a) ==
  /\ program[a] # HostTest
  /\ Goes(a, "main", program[a].unopened)
  /\ Exits(a, program[a].code)
  /\ UNCHANGED <<clientVars, program, argv1, own, said, buffer>>

\* A Host, or two, that are destroyed without a Log
MakeHosts(a) ==
  /\ program[a] = HostTest
  /\ Goes(a, "main", "leaving")
  /\ UNCHANGED <<clientVars, program, argv1, own, said, buffer, code>>

OpenSucceeds(a) == ~Throws(a) /\ Answer(a) \in {"clnh", "filh"}

\* OutStream's constructor: a LogBuf of its own
OutStream(a) == buffer' = [buffer EXCEPT ![a] = 0]

\* One of Log's constructor's two requests is answered.
OpenReturns(a) ==
  /\ Return(a)
  /\ IF OpenSucceeds(a)
       THEN /\ Goes(a, "opening", IF call[a].op = "clnt" THEN "opening" ELSE "logging")
            /\ OutStream(a)
            /\ UNCHANGED code
       ELSE /\ Goes(a, "opening", program[a].unopened)
            /\ Exits(a, program[a].code)
            /\ UNCHANGED buffer
  /\ UNCHANGED <<program, argv1, own, said>>

-----------------------------------------------------------------------------
(* Saying something *)

\* logln, in C logsvc_logln
logln(a) ==
  /\ ~program[a].stream
  /\ said[a] < program[a].says
  /\ Goes(a, "logging", "writing")
  /\ \E l \in Log : WriteLine(a, l)
  /\ UNCHANGED <<program, argv1, own, said, buffer, code>>

loglnReturns(a) ==
  /\ ~program[a].stream
  /\ Return(a)
  /\ Goes(a, "writing", IF Succeeds(a) THEN "logging" ELSE program[a].unwritten)
  /\ said' = [said EXCEPT ![a] = IF Succeeds(a) THEN @ + 1 ELSE @]
  /\ UNCHANGED <<program, argv1, own, buffer, code>>

\* OutStream's operator<<: xsputn, or overflow for a single character
xsputn(a) ==
  /\ program[a].stream
  /\ said[a] < program[a].says
  /\ Goes(a, "logging", "logging")
  /\ said' = [said EXCEPT ![a] = @ + 1]
  /\ buffer' = [buffer EXCEPT ![a] = @ + 1]
  /\ UNCHANGED <<clientVars, program, argv1, own, code>>

\* Mutant: sync leaves it at the buffer.
sync_WritesNothing(a) ==
  /\ program[a].stream
  /\ said[a] = program[a].says
  /\ Goes(a, "logging", "said")
  /\ buffer' = [buffer EXCEPT ![a] = 0]
  /\ UNCHANGED <<clientVars, program, argv1, own, said, code>>

\* OutStream's flush: sync, which is one call of logln
sync(a) ==
  /\ program[a].stream
  /\ said[a] = program[a].says
  /\ Goes(a, "logging", "writing")
  /\ \E l \in Log : WriteLine(a, l)
  /\ UNCHANGED <<program, argv1, own, said, buffer, code>>

\* The stream catches what logln throws, and is bad from then on.
syncReturns(a) ==
  /\ program[a].stream
  /\ Return(a)
  /\ Goes(a, "writing", IF Succeeds(a) THEN "said" ELSE program[a].unwritten)
  /\ buffer' = [buffer EXCEPT ![a] = IF Succeeds(a) THEN 0 ELSE @]
  /\ UNCHANGED <<program, argv1, own, said, code>>

-----------------------------------------------------------------------------
(* Going *)

\* ~Log, logsvc_close, or Log.close of Python.  What an OutStream still holds
\* is lost before.
Close(a) ==
  /\ said[a] = program[a].says
  /\ at[a] = "said" \/ (at[a] = "logging" /\ ~program[a].stream)
  /\ Goes(a, at[a], "closing")
  /\ \E l \in Log : CloseLog(a, l)
  /\ UNCHANGED <<program, argv1, own, said, buffer, code>>

CloseReturns(a) ==
  /\ Return(a)
  /\ Goes(a, "closing", IF Kills(a) THEN "killed" ELSE "leaving")
  /\ UNCHANGED <<program, argv1, own, said, buffer, code>>

\* ~Host or logsvc_disconnect, of a Host that has or has not connected
Leave(a) ==
  \/ /\ Goes(a, "leaving", "disconnecting")
     /\ \E l \in Log : DestroyHost(a, l)
     /\ UNCHANGED <<program, argv1, own, said, buffer, code>>
  \/ /\ Goes(a, "leaving", "ended")
     /\ local_client[a] = NoSession
     /\ UNCHANGED <<clientVars, program, argv1, own, said, buffer, code>>

LeaveReturns(a) ==
  /\ Return(a)
  /\ Goes(a, "disconnecting", "ended")
  /\ UNCHANGED <<program, argv1, own, said, buffer, code>>

-----------------------------------------------------------------------------
Main(a) ==
  /\ program[a] \in Program
  /\ \/ \E p \in Path, s \in Session : Open(a, p, s)
     \/ MakeHosts(a) \/ CannotConnect(a) \/ OpenReturns(a)
     \/ logln(a) \/ loglnReturns(a)
     \/ xsputn(a) \/ sync(a) \/ syncReturns(a)
     \/ Close(a) \/ CloseReturns(a)
     \/ Leave(a) \/ LeaveReturns(a)

AnyApp(a) ==
  /\ program[a] = Anything
  /\ Return(a) \/ \E l \in Log : Calls(a, l)
  /\ UNCHANGED programVars

ProgramsNext ==
  \/ \E a \in App : Main(a) \/ AnyApp(a)
  \/ \E s \in Session : Surroundings(s) /\ UNCHANGED programVars

ProgramsSpec == ProgramsInit /\ [][ProgramsNext]_allVars

-----------------------------------------------------------------------------
(* Properties *)

\* The lines a front makes of what it is given: the stream one of it all
Told(p) == IF p.stream THEN 1 ELSE p.says

\* The whole story of a program is in its log, and nothing else of it in any:
\* opened, what it had to say, closed.
StoryTold(a) ==
  LET s   == own[a]
      log == disk[argv1[a]]
  IN  /\ \E first, last \in DOMAIN log :
           /\ first < last
           /\ log[first].by = s /\ log[last].by = s
           /\ \A p \in Path : \A n \in DOMAIN disk[p] : disk[p][n].by = s =>
                /\ p = argv1[a] /\ n \in first..last
                /\ disk[p][n].what = IF n = first THEN "opened"
                                     ELSE IF n = last THEN "closed"
                                     ELSE "message"
      /\ Cardinality(Messages(s)) = Told(program[a])

\* A program that ends as if nothing had happened has told its story, every
\* line of it once; whatever became of its connection, and whoever else writes
\* there.  One that says it could not open its log has no line of its own in
\* any.  (check_logged_lines of systest.py; for Python it holds when the log
\* has been closed.)
ExitMeansLogged ==
  \A a \in App :
    /\ /\ program[a] \in Program \ {HostTest} /\ code[a] = 0
       /\ at[a] \in {"leaving", "disconnecting", "ended"}
       => StoryTold(a)
    /\ code[a] # 0 => Messages(own[a]) = {}
=============================================================================
