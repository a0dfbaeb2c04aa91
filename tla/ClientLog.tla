------------------------------ MODULE ClientLog ------------------------------
(***************************************************************************)
(* The client library seen by an application: a Host, its LocalClient and  *)
(* the Logs (each a ConnectedLogFile) opened through it, against the       *)
(* executors of module SessionFiles.                                       *)
(*                                                                         *)
(* A Host is used by one thread, and every library call blocks on the      *)
(* future of its request, so an application has one call under way.        *)
(* Module RequestReply says what the connection makes of a request, and    *)
(* here it is a request on the wire, executed once or lost, and a reply or *)
(* a SocketError.  A Host outlives its Logs, which refer to its            *)
(* connection.                                                             *)
(***************************************************************************)
EXTENDS SessionFiles

CONSTANTS
  App,         \* applications, each with one Host
  Log,         \* the places an application keeps its Logs in
  NoSession, NoCall, NoRequest, NoPath

\* The executor's operations, a call of the library, a request on the wire
Op      == {"clnt", "open", "mesg", "clos", "disc"}
Call    == [op : Op, log : Log, session : Session]
Request == [op : Op, path : Path \cup {NoPath}, file : Handle \cup {NoHandle}]

ASSUME ActsAssumption == MaxActs > 1
ASSUME NoneAssumption == /\ NoSession \notin Session /\ NoPath \notin Path
                         /\ NoCall \notin Call /\ NoRequest \notin Request

\* A ConnectedLogFile; "overtaken" is a note of the model: another Log of the
\* Host on the same path has sent CloseFile since this one was opened.
NoLog == [state |-> "none", path |-> NoPath, file |-> NoHandle,
          error |-> FALSE, overtaken |-> FALSE]

VARIABLES
  local_client,  \* Host: the session its LocalClient is connected to
  remote_file,   \* each application's Logs
  call,          \* the call each application is blocked in
  terminated,    \* applications killed by std::terminate
  wire,          \* the request on its way to each session
  broken,        \* sessions whose connection is lost
  deaf,          \* sessions that have executed a final message
  returned       \* writeln calls of each session that returned normally

appVars == <<local_client, remote_file, call, terminated, returned>>
netVars == <<wire, broken, deaf>>
clientVars == <<vars, appVars, netVars>>

ClientInit ==
  /\ Init
  /\ local_client = [a \in App |-> NoSession]
  /\ remote_file = [a \in App |-> [l \in Log |-> NoLog]]
  /\ call = [a \in App |-> NoCall]
  /\ terminated = {}
  /\ wire = [s \in Session |-> NoRequest]
  /\ broken = {}
  /\ deaf = {}
  /\ returned = [s \in Session |-> 0]

-----------------------------------------------------------------------------
(* Calls *)

Idle(a) == a \notin terminated /\ call[a] = NoCall

\* SessionConnection::send, and the wait for its future
send(a, s, op, l, path, file) ==
  /\ acts[s] < MaxActs
  /\ call' = [call EXCEPT ![a] = [op |-> op, log |-> l, session |-> s]]
  /\ wire' = IF s \in broken THEN wire
             ELSE [wire EXCEPT ![s] = [op |-> op, path |-> path, file |-> file]]

Opening(a, l, p) ==
  remote_file' =
    [remote_file EXCEPT ![a][l] = [NoLog EXCEPT !.state = "opening", !.path = p]]

\* Log's constructor on a Host without a LocalClient, which connects, is
\* accepted by the daemon and sends its description.  A connection refused
\* throws, and leaves the Host as it was.
ConnectAndOpen(a, l, p, s) ==
  /\ Idle(a)
  /\ remote_file[a][l] = NoLog
  /\ local_client[a] = NoSession
  /\ CreateSession(s)
  /\ Opening(a, l, p)
  /\ send(a, s, "clnt", l, NoPath, NoHandle)
  /\ UNCHANGED <<local_client, terminated, returned, broken, deaf>>

\* Log's constructor on a Host that has a LocalClient, whatever has become of
\* its connection
OpenLog(a, l, p) ==
  /\ Idle(a)
  /\ remote_file[a][l] = NoLog
  /\ local_client[a] # NoSession
  /\ Opening(a, l, p)
  /\ send(a, local_client[a], "open", l, p, NoHandle)
  /\ UNCHANGED <<vars, local_client, terminated, returned, broken, deaf>>

WriteLine(a, l) ==
  /\ Idle(a)
  /\ remote_file[a][l].state = "open"
  /\ send(a, local_client[a], "mesg", l, NoPath, remote_file[a][l].file)
  /\ UNCHANGED <<vars, local_client, remote_file, terminated, returned,
                 broken, deaf>>

\* Mutant: a Log goes away without a word.
CloseLog_Silently(a, l) ==
  /\ Idle(a)
  /\ remote_file[a][l].state = "open"
  /\ remote_file' = [remote_file EXCEPT ![a][l] = NoLog]
  /\ UNCHANGED <<vars, local_client, call, terminated, returned, netVars>>

CloseLog(a, l) ==
  LET f == remote_file[a][l]
  IN  /\ Idle(a)
      /\ f.state = "open"
      /\ send(a, local_client[a], "clos", l, NoPath, f.file)
      /\ remote_file' = [remote_file EXCEPT ![a] =
           [k \in Log |-> IF k # l /\ @[k].path = f.path
                            THEN [@[k] EXCEPT !.overtaken = TRUE] ELSE @[k]]]
      /\ UNCHANGED <<vars, local_client, terminated, returned, broken, deaf>>

\* Host's destructor destroys its LocalClient, whose destructor disconnects.
DestroyHost(a, l) ==
  /\ Idle(a)
  /\ local_client[a] # NoSession
  /\ \A k \in Log : remote_file[a][k] = NoLog
  /\ send(a, local_client[a], "disc", l, NoPath, NoHandle)
  /\ UNCHANGED <<vars, local_client, remote_file, terminated, returned,
                 broken, deaf>>

-----------------------------------------------------------------------------
(* Daemon and network *)

Act(s, req) ==
  \/ req.op = "clnt" /\ SetClientInfo(s)
  \/ req.op = "open" /\ OpenFile(s, req.path)
  \/ req.op = "mesg" /\ WriteMessage(s, req.file)
  \/ req.op = "clos" /\ CloseFile(s, req.file)
  \/ req.op = "disc" /\ DisconnectClient(s, client_handle[s])

ServeRequest(s) ==
  /\ wire[s] # NoRequest
  /\ Act(s, wire[s])
  /\ wire' = [wire EXCEPT ![s] = NoRequest]
  /\ deaf' = IF wire[s].op = "disc" THEN deaf \cup {s} ELSE deaf
  /\ UNCHANGED <<appVars, broken>>

Uses(a, s) == \/ local_client[a] = s
              \/ call[a] # NoCall /\ call[a].session = s

\* The connection is lost, and with it the request under way or only its reply.
LoseConnection(s) ==
  /\ \E a \in App : Uses(a, s)
  /\ s \notin broken
  /\ broken' = broken \cup {s}
  /\ wire' \in {wire, [wire EXCEPT ![s] = NoRequest]}
  /\ UNCHANGED <<vars, appVars, deaf>>

\* The daemon notices, unless the session no longer reads.
EndSession(s) ==
  /\ s \in broken \ deaf
  /\ wire[s] = NoRequest
  /\ DestroySession(s)
  /\ UNCHANGED <<appVars, netVars>>

-----------------------------------------------------------------------------
(* Returns: the future is ready, and the reply acts on its ClientExecutor *)

\* What a call's future holds: the reply, or the exception SocketError.
Ready(a) == LET s == call[a].session
            IN  call[a] # NoCall /\ (s \in broken \/ wire[s] = NoRequest)
Throws(a) == call[a].session \in broken
Answer(a) == reply[call[a].session]

\* LocalClient's constructor: it goes on to open the file, or it throws and its
\* connection is closed without a Disconnect.
Connected(a) ==
  LET s == call[a].session
      l == call[a].log
  IN  /\ call[a].op = "clnt"
      /\ IF ~Throws(a) /\ Answer(a) = "clnh"
           THEN /\ local_client' = [local_client EXCEPT ![a] = s]
                /\ send(a, s, "open", l, remote_file[a][l].path, NoHandle)
                /\ UNCHANGED <<remote_file, broken>>
           ELSE /\ call' = [call EXCEPT ![a] = NoCall]
                /\ remote_file' = [remote_file EXCEPT ![a][l] = NoLog]
                /\ broken' = broken \cup {s}
                /\ UNCHANGED <<local_client, wire>>
      /\ UNCHANGED <<terminated, returned, deaf>>

\* Mutant: the handle the daemon sent does not get into the Log.
FileOf_Default(a) == 0

FileOf(a) ==
  open_filehandles[call[a].session][remote_file[a][call[a].log].path]

\* ConnectedLogFile's constructor: a file handle, OpenFileError or SocketError
Opened(a) ==
  /\ call[a].op = "open"
  /\ call' = [call EXCEPT ![a] = NoCall]
  /\ remote_file' = [remote_file EXCEPT ![a][call[a].log] =
       IF ~Throws(a) /\ Answer(a) = "filh"
         THEN [@ EXCEPT !.state = "open", !.file = FileOf(a)]
         ELSE NoLog]
  /\ UNCHANGED <<local_client, terminated, returned, netVars>>

\* Mutant: a SocketError is swallowed.
Succeeds_Regardless(a) == Throws(a) \/ Answer(a) # "nack"

\* writeln returns normally; an error left over from before would make it throw.
Succeeds(a) == /\ ~Throws(a)
               /\ Answer(a) # "nack"
               /\ ~remote_file[a][call[a].log].error

\* Whatever the daemon's refusal, writeln takes it out of the Log again.
Wrote(a) ==
  /\ call[a].op = "mesg"
  /\ call' = [call EXCEPT ![a] = NoCall]
  /\ remote_file' = IF Throws(a) THEN remote_file
       ELSE [remote_file EXCEPT ![a][call[a].log].error = FALSE]
  /\ returned' = IF Succeeds(a)
                   THEN [returned EXCEPT ![call[a].session] = @ + 1]
                   ELSE returned
  /\ UNCHANGED <<local_client, terminated, netVars>>

\* Mutant: the destructor throws the daemon's refusal, as writeln does.
Kills_Refused(a) == Throws(a) \/ Answer(a) = "nack"

\* An exception that leaves a destructor ends the process.
Kills(a) == Throws(a)

\* ConnectedLogFile's destructor: the daemon's refusal is only printed.
Closed(a) ==
  /\ call[a].op = "clos"
  /\ call' = [call EXCEPT ![a] = NoCall]
  /\ IF Kills(a)
       THEN /\ terminated' = terminated \cup {a}
            /\ UNCHANGED remote_file
       ELSE /\ remote_file' = [remote_file EXCEPT ![a][call[a].log] = NoLog]
            /\ UNCHANGED terminated
  /\ UNCHANGED <<local_client, returned, netVars>>

\* LocalClient's destructor waits, and does not look at what came.
Disconnected(a) ==
  /\ call[a].op = "disc"
  /\ call' = [call EXCEPT ![a] = NoCall]
  /\ local_client' = [local_client EXCEPT ![a] = NoSession]
  /\ UNCHANGED <<remote_file, terminated, returned, netVars>>

Return(a) ==
  /\ Ready(a)
  /\ Connected(a) \/ Opened(a) \/ Wrote(a) \/ Closed(a) \/ Disconnected(a)
  /\ UNCHANGED vars

Calls(a, l) ==
  \/ \E p \in Path : OpenLog(a, l, p)
  \/ \E p \in Path, s \in Session : ConnectAndOpen(a, l, p, s)
  \/ WriteLine(a, l)
  \/ CloseLog(a, l)
  \/ DestroyHost(a, l)

Surroundings(s) == ServeRequest(s) \/ LoseConnection(s) \/ EndSession(s)

ClientNext ==
  \/ \E a \in App, l \in Log : Calls(a, l)
  \/ \E s \in Session : Surroundings(s)
  \/ \E a \in App : Return(a)

ClientSpec == ClientInit /\ [][ClientNext]_clientVars

-----------------------------------------------------------------------------
(* Properties *)

Messages(s) ==
  UNION {{<<p, n>> : n \in {k \in DOMAIN disk[p] :
                              disk[p][k] = [by |-> s, what |-> "message"]}}
           : p \in Path}

\* What writeln tells its caller is true, where the daemon can write all paths:
\* a line for which it returned is in a log, one for which it threw
\* FileWriteError is not, and at most the last line of a connection that was
\* lost is in doubt (ConnectedLogFile::writeln, RealSession::write_message).
AtMostOneLineInDoubt ==
  \A s \in Session :
    LET inDoubt == Cardinality(Messages(s)) - returned[s]
    IN  /\ inDoubt \in {0, 1}
        /\ inDoubt = 1 => \/ s \in broken
                          \/ \E a \in App : call[a] # NoCall
                               /\ call[a].op = "mesg" /\ call[a].session = s

\* While its connection lasts, and as long as no other Log of the Host has
\* closed the path, what an open Log writes goes to the path it was opened for,
\* however other Logs and refused opens come and go (ConnectedLogFile's file
\* handle against RealSession's maps).
LogStaysOpen ==
  \A a \in App, l \in Log :
    LET s == local_client[a]
        f == remote_file[a][l]
    IN  /\ f.state = "open" /\ ~f.overtaken /\ s \notin broken
        /\ ~(call[a] # NoCall /\ call[a].op = "clos" /\ call[a].log = l)
        => /\ f.file # NoHandle
           /\ IsOpen(s, f.file)
           /\ open_files[s][f.file].filepath = f.path

\* A Host that is connected and not in a call has no file open at the daemon
\* without a Log for it: a refused open, or closing one of two Logs on a path,
\* leaks none (ConnectedLogFile's constructor and destructor).
NoFileLeaked ==
  \A a \in App :
    LET s == local_client[a]
    IN  s # NoSession /\ s \notin broken /\ call[a] = NoCall =>
          \A p \in Held(s) :
            \E l \in Log : remote_file[a][l].state = "open"
                             /\ remote_file[a][l].path = p

\* Closing a Log the daemon has already closed, for another Log on the path, is
\* harmless; the destructor ends the process only when the connection is lost
\* (ConnectedLogFile::~ConnectedLogFile).
RefusedCloseHarmless ==
  \A a \in terminated : local_client[a] \in broken
=============================================================================
