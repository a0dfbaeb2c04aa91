--------------------------- MODULE ClientLogProofs ---------------------------
(***************************************************************************)
(* What is proved of applications, the client library and the daemon       *)
(* together, for any number of applications, Logs, sessions, paths and     *)
(* requests: what the client library is told is what has become of the     *)
(* logs.  The invariant says of each application where its call stands     *)
(* (Standing), what it can count on while its connection lasts (Served),   *)
(* and of each session how the lines written relate to the calls that      *)
(* returned (Doubt).                                                       *)
(***************************************************************************)
EXTENDS ClientLog, SessionFilesProofs

-----------------------------------------------------------------------------
(* The invariant *)

\* What SessionFilesProofs knows of the daemon
DaemonInv == /\ TypeOK /\ CollectionCurrent /\ LinesExist
             /\ HandlesCounted /\ HandleNamesPath

LogObject == [state : {"none", "opening", "open"}, path : Path \cup {NoPath},
              file : Handle \cup {NoHandle}, error : {FALSE},
              overtaken : BOOLEAN]

ClientTypeOK ==
  /\ local_client \in [App -> Session \cup {NoSession}]
  /\ remote_file \in [App -> [Log -> LogObject]]
  /\ call \in [App -> Call \cup {NoCall}]
  /\ terminated \subseteq App
  /\ wire \in [Session -> Request \cup {NoRequest}]
  /\ broken \subseteq Session
  /\ deaf \subseteq Session
  /\ returned \in [Session -> Nat]

Calling(a, op) == call[a] # NoCall /\ call[a].op = op

\* Where an application's call stands, whatever becomes of its connection
Standing(a) ==
  /\ call[a] # NoCall =>
       call[a].session = local_client[a] <=> call[a].op # "clnt"
  /\ Calling(a, "clnt") => local_client[a] = NoSession
  /\ Calling(a, "clnt") \/ Calling(a, "open") =>
       remote_file[a][call[a].log].state = "opening"
  /\ Calling(a, "mesg") \/ Calling(a, "clos") =>
       remote_file[a][call[a].log].state = "open"
  /\ Calling(a, "disc") => \A l \in Log : remote_file[a][l] = NoLog
  /\ Calling(a, "clos") =>
       \A l \in Log \ {call[a].log} :
         remote_file[a][l].path = remote_file[a][call[a].log].path =>
           remote_file[a][l].overtaken
  /\ \A l \in Log :
       /\ remote_file[a][l].state # "none" => remote_file[a][l].path \in Path
       /\ remote_file[a][l].state = "open" => local_client[a] # NoSession
       /\ remote_file[a][l].state = "none" => remote_file[a][l] = NoLog
  /\ a \in terminated => call[a] = NoCall /\ local_client[a] \in broken

\* No session has two users, and one that is used has been created.
UsersApart ==
  \A a \in App, s \in Session :
    Uses(a, s) => /\ status[s] # "none"
                  /\ \A b \in App : Uses(b, s) => a = b

\* The request of an application's call
Asked(a) ==
  LET f == remote_file[a][call[a].log]
  IN  [op   |-> call[a].op,
       path |-> IF call[a].op = "open" THEN f.path ELSE NoPath,
       file |-> IF call[a].op \in {"mesg", "clos"} THEN f.file ELSE NoHandle]

\* What the executor may return for it
Fitting(op) == CASE op = "clnt" -> {"clnh"}
                 [] op = "open" -> {"filh", "nack"}
                 [] op = "disc" -> {"ackn"}
                 [] OTHER       -> {"ackn", "nack"}

\* a's call has been executed, and its reply not acted upon yet.
Executed(a, s) == call[a] # NoCall /\ wire[s] = NoRequest

HandleFor(a, s, l) == open_filehandles[s][remote_file[a][l].path]

\* While its connection lasts, the request on the wire is the one of the call
\* under way, and once it has been executed the reply is one to it.
Answered(a, s) ==
  /\ wire[s] # NoRequest => call[a] # NoCall /\ wire[s] = Asked(a)
  /\ Executed(a, s) => reply[s] \in Fitting(call[a].op)
  /\ Executed(a, s) /\ call[a].op = "open" /\ reply[s] = "filh" =>
       /\ HandleFor(a, s, call[a].log) \in Handle
       /\ IsOpen(s, HandleFor(a, s, call[a].log))

\* An open Log has the handle of its path, with a file under it unless another
\* Log has closed it, or this one is about to.
LogServed(a, s, l) ==
  remote_file[a][l].state = "open" =>
    /\ remote_file[a][l].file \in Handle
    /\ remote_file[a][l].file = HandleFor(a, s, l)
    /\ \/ remote_file[a][l].overtaken
       \/ Calling(a, "clos") /\ call[a].log = l
       \/ IsOpen(s, remote_file[a][l].file)

\* A path that is held open has a Log that is not closed yet, or one whose
\* opening is being told to the application.
HeldFor(a, s, p) ==
  \/ \E l \in Log :
       /\ remote_file[a][l].state = "open"
       /\ remote_file[a][l].path = p
       /\ ~(Executed(a, s) /\ call[a].op = "clos" /\ call[a].log = l)
  \/ /\ Executed(a, s) /\ call[a].op = "open" /\ reply[s] = "filh"
     /\ remote_file[a][call[a].log].path = p

\* What an application can count on while its connection lasts
Served(a, s) ==
  /\ Answered(a, s)
  /\ \A l \in Log : LogServed(a, s, l)
  /\ \A p \in Held(s) : HeldFor(a, s, p)

\* Only who uses a session has a request on its wire; the wire of a lost
\* connection may hold what its user no longer waits for.  A session holds
\* nothing before it is created.
WiresInUse ==
  \A s \in Session :
    /\ wire[s] # NoRequest =>
         /\ wire[s].op = "open" => wire[s].path \in Path
         /\ wire[s].op \in {"mesg", "clos"} => wire[s].file \in Handle
         /\ s \notin broken => \E a \in App : Uses(a, s)
    /\ status[s] = "none" => Held(s) = {}

ClientInv ==
  /\ ClientTypeOK
  /\ UsersApart
  /\ WiresInUse
  /\ \A a \in App : Standing(a)
  /\ \A a \in App, s \in Session : s \notin broken /\ Uses(a, s) => Served(a, s)

\* The line of a's writeln has been written, and a not told yet.
Confirmed(a, s) ==
  Calling(a, "mesg") /\ call[a].session = s /\ wire[s] = NoRequest
    /\ reply[s] = "ackn"

\* A line of a session more than calls returned: while the connection lasts it
\* is one whose writer is being told, and after that at most one, which may
\* have been on its way when the connection was lost.
Doubt(s) ==
  LET n == Cardinality(Messages(s))
  IN  /\ IsFiniteSet(Messages(s))
      /\ IF s \notin broken
           THEN n = returned[s] + (IF \E a \in App : Confirmed(a, s) THEN 1 ELSE 0)
           ELSE /\ n \in {returned[s], returned[s] + 1}
                /\ wire[s] # NoRequest /\ wire[s].op = "mesg" => n = returned[s]

DoubtInv == \A s \in Session : Doubt(s)

-----------------------------------------------------------------------------
(* The daemon's side *)

LEMMA DaemonStart == Init => DaemonInv
BY TypeInit, HandlesInit, FilesInit DEF DaemonInv

LEMMA DaemonStep == DaemonInv /\ [Next]_vars => DaemonInv'
BY TypeStep, CollectionStep, HandlesStep, LinesExistStep DEF DaemonInv

\* What is on a wire can be executed.
LEMMA ServeExecutes ==
  ASSUME TypeOK, ClientTypeOK, WiresInUse, NEW s \in Session, ServeRequest(s)
  PROVE  Execute(s)
<1>1. wire[s] \in Request /\ wire[s] # NoRequest /\ Act(s, wire[s])
  BY DEF ServeRequest, ClientTypeOK
<1>2. wire[s].op \in Op
  BY <1>1 DEF Request
<1>3. CASE wire[s].op = "open"
  BY <1>1, <1>3 DEF WiresInUse, Act, Execute
<1>4. CASE wire[s].op = "mesg"
  BY <1>1, <1>4 DEF WiresInUse, Act, Execute
<1>5. CASE wire[s].op = "clos"
  BY <1>1, <1>5 DEF WiresInUse, Act, Execute
<1>6. CASE wire[s].op = "clnt"
  BY <1>1, <1>6 DEF Act, Execute
<1>7. CASE wire[s].op = "disc"
  BY <1>1, <1>7 DEF Act, Execute, TypeOK
<1> QED
  BY <1>2, <1>3, <1>4, <1>5, <1>6, <1>7 DEF Op

LEMMA ClientStepsNext ==
  ASSUME TypeOK, ClientTypeOK, WiresInUse, [ClientNext]_clientVars
  PROVE  [Next]_vars
<1>1. ASSUME NEW a \in App, NEW l \in Log, Calls(a, l) PROVE [Next]_vars
  BY <1>1 DEF Calls, OpenLog, ConnectAndOpen, WriteLine, CloseLog, DestroyHost,
              Next
<1>2. ASSUME NEW s \in Session, Surroundings(s) PROVE [Next]_vars
  BY <1>2, ServeExecutes DEF Surroundings, LoseConnection, EndSession, Next
<1>3. ASSUME NEW a \in App, Return(a) PROVE UNCHANGED vars
  BY <1>3 DEF Return
<1>4. CASE UNCHANGED clientVars
  BY <1>4 DEF clientVars
<1> QED
  BY <1>1, <1>2, <1>3, <1>4 DEF ClientNext

\* All that an application knows of its session
SessionKept(s) ==
  /\ reply'[s] = reply[s]
  /\ open_files'[s] = open_files[s]
  /\ open_filehandles'[s] = open_filehandles[s]

\* A request leaves the other sessions as they are.
LEMMA OtherSessionsKept ==
  ASSUME TypeOK, NEW s \in Session, Execute(s)
  PROVE  status' = status /\ \A t \in Session \ {s} : SessionKept(t)
<1>1. ASSUME NEW p \in Path, OpenFile(s, p)
      PROVE  status' = status /\ \A t \in Session \ {s} : SessionKept(t)
  BY <1>1 DEF OpenFile, OpenFileAgain, OpenFileShared, OpenFileNew,
     OpenFileThrows, get_filehandle_for_path, Executes, Returns, SessionKept,
     TypeOK
<1>2. CASE \/ SetClientInfo(s) \/ Refuse(s)
           \/ \E fh \in Handle : WriteMessage(s, fh) \/ CloseFile(s, fh)
           \/ \E ch \in Handle : DisconnectClient(s, ch)
  BY <1>2 DEF SetClientInfo, Refuse, WriteMessage, CloseFile,
     DisconnectClient, Executes, Returns, SessionKept, TypeOK
<1> QED
  BY <1>1, <1>2 DEF Execute

\* What opening a path does to the session that asks: files that were open stay
\* so, handles given out stay, and success opens the path under its handle.
LEMMA OpenEffect ==
  ASSUME DaemonInv, NEW s \in Session, NEW p \in Path, OpenFile(s, p)
  PROVE  /\ reply'[s] \in {"filh", "nack"}
         /\ \A q \in Path : open_filehandles[s][q] # NoHandle =>
              open_filehandles'[s][q] = open_filehandles[s][q]
         /\ \A h \in Handle : IsOpen(s, h) => IsOpen(s, h)'
         /\ Held(s)' = IF reply'[s] = "filh" THEN Held(s) \cup {p} ELSE Held(s)
         /\ reply'[s] = "filh" =>
              /\ open_filehandles'[s][p] \in Handle
              /\ IsOpen(s, open_filehandles[s][p])'
              /\ \E f \in File : /\ f.filepath = p
                               /\ disk' = Written(disk, f, s, "opened")
                               /\ exists' = Touched(p)
         /\ reply'[s] = "nack" => disk' = disk
<1> DEFINE fh == HandleOf(s, p)
<1>1. fh \in Handle /\ fh # NoHandle
  BY HandleOfType, SentinelAssumption DEF DaemonInv
<1>2. \A q \in Path : open_filehandles'[s][q] =
                        IF q = p THEN fh ELSE open_filehandles[s][q]
  BY DEF OpenFile, OpenFileAgain, OpenFileShared, OpenFileNew, OpenFileThrows,
         get_filehandle_for_path, DaemonInv, TypeOK
<1>3. \A q \in Path : open_filehandles[s][q] # NoHandle =>
        open_filehandles'[s][q] = open_filehandles[s][q]
  BY <1>2 DEF HandleOf
<1>4. CASE OpenFileThrows(s, p)
  <2>1. reply'[s] = "nack" /\ open_files' = open_files /\ disk' = disk
    BY <1>4 DEF OpenFileThrows, Returns, DaemonInv, TypeOK, fileVars
  <2> QED
    BY <1>3, <2>1 DEF Held, IsOpen
<1>5. CASE ~OpenFileThrows(s, p)
  <2>1. reply'[s] = "filh"
    BY <1>5 DEF OpenFile, OpenFileAgain, OpenFileShared, OpenFileNew, Returns,
                DaemonInv, TypeOK
  <2>2. PICK f \in File :
          /\ disk' = Written(disk, f, s, "opened")
          /\ exists' = Touched(f.filepath)
          /\ open_files[s][fh] \in {f, NoFile}
          /\ \A h \in Handle : open_files'[s][h] =
               IF h = fh THEN f ELSE open_files[s][h]
    BY <1>5, OpenFileAppends DEF DaemonInv
  <2>3. f # NoFile /\ open_files'[s][fh] # NoFile
    BY <1>1, <2>2, SentinelAssumption DEF IsOpen
  <2>4. f.filepath = p
    <3>1. HandleNamesPath'
      BY HandlesOpened DEF DaemonInv
    <3>2. open_filehandles'[s][f.filepath] = fh
      BY <1>1, <2>2, <2>3, <3>1 DEF HandleNamesPath, IsOpen
    <3>3. f.filepath \in Path /\ open_filehandles'[s][p] = fh
      BY <1>2 DEF File
    <3> QED
      BY <1>1, <3>1, <3>2, <3>3 DEF HandleNamesPath
  <2>5. Held(s)' = Held(s) \cup {p}
    BY <1>1, <2>2, <2>3, <2>4 DEF Held, IsOpen
  <2>6. \A h \in Handle : IsOpen(s, h) => IsOpen(s, h)'
    BY <2>2, <2>3 DEF IsOpen
  <2>7. open_filehandles'[s][p] = fh
    BY <1>2
  <2> QED
    BY <1>1, <1>3, <2>1, <2>2, <2>3, <2>4, <2>5, <2>6, <2>7 DEF IsOpen
<1> QED
  BY <1>4, <1>5

\* Closing a handle, whether a file is open under it or not, leaves just the
\* paths that have another handle.
LEMMA CloseEffect ==
  ASSUME DaemonInv, NEW s \in Session, NEW fh \in Handle, CloseFile(s, fh)
  PROVE  /\ reply'[s] \in {"ackn", "nack"}
         /\ open_filehandles'[s] = open_filehandles[s]
         /\ \A h \in Handle \ {fh} : IsOpen(s, h) => IsOpen(s, h)'
         /\ Held(s)' = {p \in Held(s) : open_filehandles[s][p] # fh}
<1>1. /\ reply'[s] \in {"ackn", "nack"}
      /\ open_filehandles' = open_filehandles
  BY DEF CloseFile, Refuse, Returns, DaemonInv, TypeOK
<1>2. \A h \in Handle : IsOpen(s, h) =>
        open_filehandles[s][open_files[s][h].filepath] = h
  BY DEF DaemonInv, HandleNamesPath
<1>3. \A h \in Handle : open_files'[s][h] =
                          IF h = fh THEN NoFile ELSE open_files[s][h]
  BY DEF CloseFile, Refuse, IsOpen, DaemonInv, TypeOK
<1>4. \A h \in Handle \ {fh} : IsOpen(s, h) => IsOpen(s, h)'
  BY <1>3 DEF IsOpen
<1>5. Held(s)' = {p \in Held(s) : open_filehandles[s][p] # fh}
  BY <1>2, <1>3 DEF Held, IsOpen
<1> QED
  BY <1>1, <1>4, <1>5

\* The other requests leave the session's files alone.
LEMMA OtherEffects ==
  ASSUME TypeOK, NEW s \in Session
  PROVE  /\ \A fh \in Handle : WriteMessage(s, fh) =>
              /\ reply'[s] \in {"ackn", "nack"}
              /\ UNCHANGED <<open_files, open_filehandles>>
         /\ SetClientInfo(s) =>
              /\ reply'[s] = "clnh"
              /\ UNCHANGED <<open_files, open_filehandles>>
         /\ DisconnectClient(s, client_handle[s]) =>
              /\ reply'[s] = "ackn"
              /\ UNCHANGED <<open_files, open_filehandles>>
BY DEF WriteMessage, SetClientInfo, DisconnectClient, Refuse, Returns, TypeOK

-----------------------------------------------------------------------------
(* Who is not concerned by a step keeps what it can count on. *)

AppKept(b) ==
  /\ local_client'[b] = local_client[b]
  /\ remote_file'[b] = remote_file[b]
  /\ call'[b] = call[b]
  /\ b \in terminated' <=> b \in terminated

LEMMA Bystander ==
  ASSUME NEW b \in App, AppKept(b), broken \subseteq broken',
         Standing(b),
         \A s \in Session : s \notin broken /\ Uses(b, s) => Served(b, s),
         \A s \in Session : s \notin broken' /\ Uses(b, s) =>
           SessionKept(s) /\ wire'[s] = wire[s]
  PROVE  /\ Standing(b)'
         /\ \A s \in Session : Uses(b, s)' <=> Uses(b, s)
         /\ \A s \in Session : s \notin broken' /\ Uses(b, s)' => Served(b, s)'
<1>1. Standing(b)'
  BY DEF AppKept, Standing, Calling
<1>2. \A s \in Session : Uses(b, s)' <=> Uses(b, s)
  BY DEF AppKept, Uses
<1>3. ASSUME NEW s \in Session, s \notin broken', Uses(b, s)'
      PROVE  Served(b, s)'
  <2>1. Served(b, s) /\ SessionKept(s) /\ wire'[s] = wire[s]
    BY <1>2, <1>3
  <2>2. Held(s)' = Held(s)
    BY <2>1 DEF Held, IsOpen, SessionKept
  <2>3. /\ reply'[s] = reply[s]
        /\ open_files'[s] = open_files[s]
        /\ open_filehandles'[s] = open_filehandles[s]
        /\ remote_file'[b] = remote_file[b]
        /\ call'[b] = call[b]
        /\ wire'[s] = wire[s]
    BY <2>1 DEF AppKept, SessionKept
  <2>4. Answered(b, s)'
    BY <2>1, <2>3 DEF Served, Answered, HandleFor, IsOpen, Executed, Asked
  <2>5. ASSUME NEW l \in Log PROVE LogServed(b, s, l)'
    <3>1. HandleFor(b, s, l)' = HandleFor(b, s, l)
      BY <2>3 DEF HandleFor
    <3>2. Calling(b, "clos")' <=> Calling(b, "clos")
      BY <2>3 DEF Calling
    <3>3. IsOpen(s, remote_file[b][l].file)' <=> IsOpen(s, remote_file[b][l].file)
      BY <2>3 DEF IsOpen
    <3> QED
      BY <2>1, <2>3, <3>1, <3>2, <3>3 DEF Served, LogServed
  <2>6. \A p \in Held(s) : HeldFor(b, s, p)'
    BY <2>1, <2>3 DEF Served, HeldFor, Executed
  <2> QED
    BY <2>2, <2>4, <2>5, <2>6 DEF Served
<1> QED
  BY <1>1, <1>2, <1>3

\* A call or a return of one application, seen from all of them
LEMMA AppStep ==
  ASSUME ClientInv, ClientTypeOK', broken \subseteq broken',
         NEW a \in App,
         \A b \in App \ {a} : AppKept(b),
         \A s \in Session :
           /\ SessionKept(s)
           /\ \/ status'[s] = status[s]
              \/ status[s] = "none" /\ status'[s] = "live"
           /\ \/ wire'[s] = wire[s]
              \/ s \notin broken' /\ Uses(a, s)' /\ wire'[s] = Asked(a)'
           /\ Uses(a, s) /\ s \notin broken' /\ wire'[s] # NoRequest =>
                Uses(a, s)'
           /\ Uses(a, s)' =>
                /\ status'[s] # "none"
                /\ Uses(a, s) \/ status[s] = "none"
           /\ Uses(a, s)' /\ s \notin broken' =>
                Served(a, s)',
         Standing(a)'
  PROVE  ClientInv'
<1>1. ASSUME NEW b \in App \ {a}, NEW s \in Session, Uses(b, s)
      PROVE  wire'[s] = wire[s]
  <2>1. status[s] # "none" /\ ~Uses(a, s)
    BY <1>1 DEF ClientInv, UsersApart
  <2> QED
    BY <2>1
<1>2. ASSUME NEW b \in App \ {a}
      PROVE  /\ Standing(b)'
             /\ \A s \in Session : Uses(b, s)' <=> Uses(b, s)
             /\ \A s \in Session : s \notin broken' /\ Uses(b, s)' => Served(b, s)'
  BY <1>1, <1>2, Bystander DEF ClientInv
<1>3. UsersApart'
  <2> SUFFICES ASSUME NEW b \in App, NEW s \in Session, Uses(b, s)'
               PROVE  status'[s] # "none" /\ \A c \in App : Uses(c, s)' => b = c
    BY DEF UsersApart
  <2>1. status'[s] # "none"
    BY <1>2 DEF ClientInv, UsersApart
  <2>2. ASSUME NEW c \in App, Uses(c, s)' PROVE b = c
    BY <1>2, <2>2 DEF ClientInv, UsersApart
  <2> QED
    BY <2>1, <2>2
<1>4. WiresInUse'
  <2> SUFFICES ASSUME NEW s \in Session
               PROVE  /\ wire'[s] # NoRequest =>
                           /\ wire'[s].op = "open" => wire'[s].path \in Path
                           /\ wire'[s].op \in {"mesg", "clos"} =>
                                wire'[s].file \in Handle
                           /\ s \notin broken' => \E b \in App : Uses(b, s)'
                      /\ status'[s] = "none" => Held(s)' = {}
    BY DEF WiresInUse
  <2>1. status'[s] = "none" => Held(s)' = {}
    BY DEF ClientInv, WiresInUse, SessionKept, Held, IsOpen
  <2>2. CASE wire'[s] = wire[s]
    BY <1>2, <2>1, <2>2 DEF ClientInv, WiresInUse
  <2>3. CASE /\ s \notin broken' /\ Uses(a, s)' /\ wire'[s] = Asked(a)'
             /\ wire'[s] # NoRequest
    <3>1. Served(a, s)' /\ call'[a] # NoCall /\ call'[a].log \in Log
      <4>1. Served(a, s)'
        BY <2>3
      <4>2. call'[a] # NoCall
        BY <2>3, <4>1 DEF Served, Answered
      <4> QED
        BY <4>1, <4>2 DEF ClientTypeOK, Call
    <3>2. /\ wire'[s].op = call'[a].op
          /\ call'[a].op = "open" =>
               wire'[s].path = remote_file'[a][call'[a].log].path
          /\ call'[a].op \in {"mesg", "clos"} =>
               wire'[s].file = remote_file'[a][call'[a].log].file
      BY <2>3 DEF Asked
    <3>3. call'[a].op = "open" => wire'[s].path \in Path
      BY <3>1, <3>2 DEF Standing, Calling
    <3>4. call'[a].op \in {"mesg", "clos"} => wire'[s].file \in Handle
      BY <3>1, <3>2 DEF Standing, Calling, Served, LogServed
    <3> QED
      BY <2>1, <2>3, <3>2, <3>3, <3>4
  <2> QED
    BY <2>1, <2>2, <2>3
<1> QED
  BY <1>2, <1>3, <1>4 DEF ClientInv

-----------------------------------------------------------------------------
(* Calls *)

LEMMA NoLogType == NoLog \in LogObject
BY DEF NoLog, LogObject

LEMMA SendEffect ==
  ASSUME ClientTypeOK, NEW a \in App, NEW s \in Session,
         NEW c \in Call, call' = [call EXCEPT ![a] = c],
         NEW req \in Request,
         wire' = IF s \in broken THEN wire ELSE [wire EXCEPT ![s] = req]
  PROVE  /\ call' \in [App -> Call \cup {NoCall}]
         /\ wire' \in [Session -> Request \cup {NoRequest}]
         /\ call'[a] # NoCall
         /\ call'[a] = c
         /\ \A b \in App \ {a} : call'[b] = call[b]
         /\ \A t \in Session : wire'[t] = wire[t] \/ (t = s /\ s \notin broken)
         /\ s \notin broken => wire'[s] # NoRequest /\ wire'[s] = req
<1>1. c # NoCall /\ req # NoRequest
  BY NoneAssumption
<1>2. /\ call' \in [App -> Call \cup {NoCall}]
      /\ call'[a] = c
      /\ \A b \in App \ {a} : call'[b] = call[b]
  BY DEF ClientTypeOK
<1>3. /\ wire' \in [Session -> Request \cup {NoRequest}]
      /\ \A t \in Session : wire'[t] = wire[t] \/ (t = s /\ s \notin broken)
      /\ s \notin broken => wire'[s] = req
  <2>1. wire \in [Session -> Request \cup {NoRequest}]
    BY DEF ClientTypeOK
  <2>2. CASE s \in broken
    BY <2>1, <2>2
  <2>3. CASE s \notin broken
    BY <2>1, <2>3
  <2> QED
    BY <2>2, <2>3
<1> QED
  BY <1>1, <1>2, <1>3

\* Two Logs that are the same to a session, or one overtaken by the other's call
SameLog(f, g) == /\ g.state = f.state /\ g.path = f.path /\ g.file = f.file
                 /\ f.overtaken => g.overtaken

\* An application that is not in a call makes one on the session it has.
LEMMA CallStep ==
  ASSUME ClientInv, NEW a \in App, Idle(a),
         NEW s \in Session, local_client[a] = s,
         NEW op \in Op, NEW l \in Log, NEW p \in Path \cup {NoPath},
         NEW f \in Handle \cup {NoHandle},
         op # "clnt", send(a, s, op, l, p, f),
         s \notin broken => Asked(a)' = [op |-> op, path |-> p, file |-> f],
         UNCHANGED <<vars, local_client, terminated, returned, broken, deaf>>,
         remote_file' \in [App -> [Log -> LogObject]],
         \A b \in App \ {a} : remote_file'[b] = remote_file[b],
         \A k \in Log : \/ SameLog(remote_file[a][k], remote_file'[a][k])
                        \/ remote_file'[a][k].state = "opening" /\ remote_file[a][k] = NoLog,
         Standing(a)'
  PROVE  ClientInv'
<1>1. ClientTypeOK
  BY DEF ClientInv
<1> DEFINE c == [op |-> op, log |-> l, session |-> s]
           req == [op |-> op, path |-> p, file |-> f]
<1>2. /\ call' \in [App -> Call \cup {NoCall}]
      /\ wire' \in [Session -> Request \cup {NoRequest}]
      /\ call'[a] # NoCall
      /\ call'[a] = c
      /\ \A b \in App \ {a} : call'[b] = call[b]
      /\ \A t \in Session : wire'[t] = wire[t] \/ (t = s /\ s \notin broken)
      /\ s \notin broken => wire'[s] # NoRequest /\ wire'[s] = req
  <2>1. c \in Call /\ req \in Request
    BY DEF Call, Request
  <2>2. /\ call' = [call EXCEPT ![a] = c]
        /\ wire' = IF s \in broken THEN wire ELSE [wire EXCEPT ![s] = req]
    BY DEF send
  <2> HIDE DEF c, req
  <2> QED
    BY <1>1, <2>1, <2>2, SendEffect, ZenonT(30)
<1>3. ClientTypeOK'
  BY <1>1, <1>2 DEF ClientTypeOK
<1>4. /\ call[a] = NoCall /\ status' = status /\ broken' = broken
      /\ local_client'[a] = s /\ a \notin terminated
  BY DEF Idle, vars, sessionVars
<1>5. \A t \in Session : SessionKept(t)
  BY DEF SessionKept, vars, sessionVars
<1>6. \A b \in App \ {a} : AppKept(b)
  BY <1>2 DEF AppKept
<1>7. \A t \in Session : Uses(a, t)' <=> t = s
  BY <1>2, <1>4 DEF Uses
<1>8. \A t \in Session : Uses(a, t) <=> t = s
  BY <1>4 DEF Uses
<1>9. ASSUME s \notin broken
      PROVE  Served(a, s)'
  <2>1. Served(a, s)
    BY <1>8, <1>9 DEF ClientInv
  <2>2. ~Executed(a, s)' /\ ~Executed(a, s)
    BY <1>2, <1>4, <1>9 DEF Executed
  <2>3. Answered(a, s)'
    BY <1>2, <1>9, <2>2 DEF Answered
  <2>4. ASSUME NEW k \in Log PROVE LogServed(a, s, k)'
    <3>1. ASSUME remote_file'[a][k].state = "open"
          PROVE  SameLog(remote_file[a][k], remote_file'[a][k])
      BY <3>1
    <3>2. LogServed(a, s, k) /\ ~Calling(a, "clos")
      BY <1>4, <2>1 DEF Served, Calling
    <3>3. ASSUME remote_file'[a][k].state = "open"
          PROVE  /\ HandleFor(a, s, k)' = HandleFor(a, s, k)
                 /\ IsOpen(s, remote_file[a][k].file)' <=>
                      IsOpen(s, remote_file[a][k].file)
      BY <1>5, <3>1, <3>3 DEF HandleFor, IsOpen, SameLog, SessionKept
    <3> QED
      BY <3>1, <3>2, <3>3 DEF LogServed, SameLog
  <2>5. Held(s)' = Held(s)
    BY <1>5 DEF Held, IsOpen, SessionKept
  <2>6. ASSUME NEW q \in Held(s) PROVE HeldFor(a, s, q)'
    <3>1. PICK k \in Log : /\ remote_file[a][k].state = "open"
                           /\ remote_file[a][k].path = q
      BY <2>1, <2>2 DEF Served, HeldFor
    <3>2. remote_file'[a][k].state = "open" /\ remote_file'[a][k].path = q
      BY <3>1 DEF SameLog, NoLog
    <3> QED
      BY <2>2, <3>2 DEF HeldFor
  <2> QED
    BY <2>3, <2>4, <2>5, <2>6 DEF Served
<1>10. status[s] # "none"
  BY <1>8 DEF ClientInv, UsersApart
<1> QED
  BY <1>2, <1>3, <1>4, <1>5, <1>6, <1>7, <1>8, <1>9, <1>10, AppStep

\* A Host has a LocalClient exactly with a session.
LEMMA HasSession ==
  ASSUME ClientTypeOK, NEW a \in App, local_client[a] # NoSession
  PROVE  local_client[a] \in Session
BY DEF ClientTypeOK

LEMMA OvertakenLog ==
  ASSUME NEW f \in LogObject
  PROVE  LET g == [f EXCEPT !.overtaken = TRUE]
         IN  g \in LogObject /\ SameLog(f, g) /\ g.overtaken
BY DEF LogObject, SameLog

LEMMA OpenLogStep ==
  ASSUME ClientInv, NEW a \in App, NEW l \in Log, NEW p \in Path,
         OpenLog(a, l, p)
  PROVE  ClientInv'
<1> DEFINE s == local_client[a]
           new == [NoLog EXCEPT !.state = "opening", !.path = p]
<1>1. ClientTypeOK /\ Standing(a)
  BY DEF ClientInv
<1>2. /\ Idle(a) /\ remote_file[a][l] = NoLog /\ s # NoSession
      /\ send(a, s, "open", l, p, NoHandle)
      /\ UNCHANGED <<vars, local_client, terminated, returned, broken, deaf>>
  BY DEF OpenLog
<1>3. s \in Session
  BY <1>1, <1>2, HasSession
<1>4. /\ new \in LogObject /\ new.state = "opening" /\ new.path = p
      /\ new.file = NoHandle
  BY DEF NoLog, LogObject
<1> HIDE DEF new
<1>5. /\ remote_file' \in [App -> [Log -> LogObject]]
      /\ \A b \in App \ {a} : remote_file'[b] = remote_file[b]
      /\ remote_file'[a][l] = new
      /\ \A k \in Log \ {l} : remote_file'[a][k] = remote_file[a][k]
  BY <1>1, <1>4 DEF OpenLog, Opening, ClientTypeOK, new
<1>6. "open" \in Op /\ "open" # "clnt"
  BY DEF Op
<1>7. call'[a] # NoCall /\ call'[a] = [op |-> "open", log |-> l, session |-> s]
  <2> DEFINE c == [op |-> "open", log |-> l, session |-> s]
  <2>1. call' = [call EXCEPT ![a] = c]
    BY <1>2 DEF send
  <2>2. c \in Call /\ c # NoCall
    BY <1>3, <1>6, NoneAssumption DEF Call
  <2> HIDE DEF c
  <2>3. call'[a] = c
    BY <1>1, <2>1 DEF ClientTypeOK
  <2> QED
    BY <2>2, <2>3 DEF c
<1>8. Asked(a)' = [op |-> "open", path |-> p, file |-> NoHandle]
  BY <1>4, <1>5, <1>7 DEF Asked
<1>9. \A k \in Log : \/ SameLog(remote_file[a][k], remote_file'[a][k])
                     \/ /\ remote_file'[a][k].state = "opening"
                        /\ remote_file[a][k] = NoLog
  BY <1>2, <1>4, <1>5 DEF SameLog
<1>10. Standing(a)'
  <2>1. local_client'[a] = s /\ a \notin terminated'
    BY <1>2 DEF Idle
  <2> QED
    BY <1>1, <1>3, <1>4, <1>5, <1>7, <2>1, NoneAssumption DEF Standing, Calling
<1> QED
  BY <1>2, <1>3, <1>5, <1>6, <1>8, <1>9, <1>10, CallStep

LEMMA WriteLineStep ==
  ASSUME ClientInv, NEW a \in App, NEW l \in Log, WriteLine(a, l)
  PROVE  ClientInv'
<1> DEFINE s == local_client[a]
           f == remote_file[a][l]
<1>1. ClientTypeOK /\ Standing(a)
  BY DEF ClientInv
<1>2. /\ Idle(a) /\ f.state = "open"
      /\ send(a, s, "mesg", l, NoPath, f.file)
      /\ UNCHANGED <<vars, local_client, remote_file, terminated, returned,
                     broken, deaf>>
  BY DEF WriteLine
<1>3. s \in Session
  BY <1>1, <1>2, HasSession DEF Standing
<1>4. f \in LogObject /\ f.file \in Handle \cup {NoHandle}
  BY <1>1 DEF ClientTypeOK, LogObject
<1>5. "mesg" \in Op /\ "mesg" # "clnt"
  BY DEF Op
<1>6. call'[a] # NoCall /\ call'[a] = [op |-> "mesg", log |-> l, session |-> s]
  <2> DEFINE c == [op |-> "mesg", log |-> l, session |-> s]
  <2>1. call' = [call EXCEPT ![a] = c]
    BY <1>2 DEF send
  <2>2. c \in Call /\ c # NoCall
    BY <1>3, <1>5, NoneAssumption DEF Call
  <2> HIDE DEF c
  <2>3. call'[a] = c
    BY <1>1, <2>1 DEF ClientTypeOK
  <2> QED
    BY <2>2, <2>3 DEF c
<1>7. Asked(a)' = [op |-> "mesg", path |-> NoPath, file |-> f.file]
  BY <1>2, <1>6 DEF Asked
<1>8. \A k \in Log : SameLog(remote_file[a][k], remote_file'[a][k])
  BY <1>2 DEF SameLog
<1>9. Standing(a)'
  <2>1. local_client'[a] = s /\ a \notin terminated' /\ remote_file' = remote_file
    BY <1>2 DEF Idle
  <2> QED
    BY <1>1, <1>2, <1>3, <1>6, <2>1, NoneAssumption DEF Standing, Calling
<1>10. remote_file' \in [App -> [Log -> LogObject]]
  BY <1>1, <1>2 DEF ClientTypeOK
<1> QED
  BY <1>2, <1>3, <1>4, <1>5, <1>7, <1>8, <1>9, <1>10, CallStep

LEMMA CloseLogStep ==
  ASSUME ClientInv, NEW a \in App, NEW l \in Log, CloseLog(a, l)
  PROVE  ClientInv'
<1> DEFINE s == local_client[a]
           f == remote_file[a][l]
<1>1. ClientTypeOK /\ Standing(a)
  BY DEF ClientInv
<1>2. /\ Idle(a) /\ f.state = "open"
      /\ send(a, s, "clos", l, NoPath, f.file)
      /\ UNCHANGED <<vars, local_client, terminated, returned, broken, deaf>>
  BY DEF CloseLog
<1>3. s \in Session
  BY <1>1, <1>2, HasSession DEF Standing
<1>4. f \in LogObject /\ f.file \in Handle \cup {NoHandle}
  BY <1>1 DEF ClientTypeOK, LogObject
<1>5. "clos" \in Op /\ "clos" # "clnt"
  BY DEF Op
<1>6. call'[a] # NoCall /\ call'[a] = [op |-> "clos", log |-> l, session |-> s]
  <2> DEFINE c == [op |-> "clos", log |-> l, session |-> s]
  <2>1. call' = [call EXCEPT ![a] = c]
    BY <1>2 DEF send
  <2>2. c \in Call /\ c # NoCall
    BY <1>3, <1>5, NoneAssumption DEF Call
  <2> HIDE DEF c
  <2>3. call'[a] = c
    BY <1>1, <2>1 DEF ClientTypeOK
  <2> QED
    BY <2>2, <2>3 DEF c
<1>7. \A k \in Log :
        /\ remote_file[a][k] \in LogObject
        /\ remote_file'[a][k] =
             IF k # l /\ remote_file[a][k].path = f.path
               THEN [remote_file[a][k] EXCEPT !.overtaken = TRUE]
               ELSE remote_file[a][k]
  BY <1>1 DEF CloseLog, ClientTypeOK
<1>8. ASSUME NEW k \in Log
      PROVE  /\ remote_file'[a][k] \in LogObject
             /\ SameLog(remote_file[a][k], remote_file'[a][k])
             /\ k # l /\ remote_file[a][k].path = f.path =>
                  remote_file'[a][k].overtaken
  <2>1. CASE k # l /\ remote_file[a][k].path = f.path
    BY <1>7, <2>1, OvertakenLog
  <2>2. CASE ~(k # l /\ remote_file[a][k].path = f.path)
    BY <1>7, <2>2 DEF SameLog
  <2> QED
    BY <2>1, <2>2
<1>9. remote_file'[a][l] = f
  BY <1>7
<1>10. /\ remote_file' \in [App -> [Log -> LogObject]]
       /\ \A b \in App \ {a} : remote_file'[b] = remote_file[b]
  BY <1>1, <1>8 DEF CloseLog, ClientTypeOK
<1>11. Asked(a)' = [op |-> "clos", path |-> NoPath, file |-> f.file]
  BY <1>6, <1>9 DEF Asked
<1>12. Standing(a)'
  <2>1. local_client'[a] = s /\ a \notin terminated'
    BY <1>2 DEF Idle
  <2>2. ASSUME NEW k \in Log
        PROVE  /\ remote_file'[a][k].state = remote_file[a][k].state
               /\ remote_file'[a][k].path = remote_file[a][k].path
    BY <1>8 DEF SameLog
  <2>3. ASSUME NEW k \in Log, remote_file[a][k].state = "none"
        PROVE  remote_file'[a][k] = NoLog
    <3>1. remote_file[a][k].path \notin Path /\ f.path \in Path
      BY <1>1, <1>2, <2>3, NoneAssumption DEF Standing, NoLog
    <3>2. remote_file'[a][k] = remote_file[a][k]
      BY <1>7, <3>1
    <3> QED
      BY <1>1, <2>3, <3>2 DEF Standing
  <2> QED
    BY <1>1, <1>2, <1>3, <1>6, <1>8, <1>9, <2>1, <2>2, <2>3, NoneAssumption
       DEF Standing, Calling
<1> QED
  BY <1>2, <1>3, <1>4, <1>5, <1>8, <1>10, <1>11, <1>12, CallStep

LEMMA DestroyHostStep ==
  ASSUME ClientInv, NEW a \in App, NEW l \in Log, DestroyHost(a, l)
  PROVE  ClientInv'
<1> DEFINE s == local_client[a]
<1>1. ClientTypeOK /\ Standing(a)
  BY DEF ClientInv
<1>2. /\ Idle(a) /\ s # NoSession
      /\ \A k \in Log : remote_file[a][k] = NoLog
      /\ send(a, s, "disc", l, NoPath, NoHandle)
      /\ UNCHANGED <<vars, local_client, remote_file, terminated, returned,
                     broken, deaf>>
  BY DEF DestroyHost
<1>3. s \in Session
  BY <1>1, <1>2, HasSession
<1>4. "disc" \in Op /\ "disc" # "clnt"
  BY DEF Op
<1>5. call'[a] # NoCall /\ call'[a] = [op |-> "disc", log |-> l, session |-> s]
  <2> DEFINE c == [op |-> "disc", log |-> l, session |-> s]
  <2>1. call' = [call EXCEPT ![a] = c]
    BY <1>2 DEF send
  <2>2. c \in Call /\ c # NoCall
    BY <1>3, <1>4, NoneAssumption DEF Call
  <2> HIDE DEF c
  <2>3. call'[a] = c
    BY <1>1, <2>1 DEF ClientTypeOK
  <2> QED
    BY <2>2, <2>3 DEF c
<1>6. Asked(a)' = [op |-> "disc", path |-> NoPath, file |-> NoHandle]
  BY <1>5 DEF Asked
<1>7. \A k \in Log : SameLog(remote_file[a][k], remote_file'[a][k])
  BY <1>2 DEF SameLog
<1>8. Standing(a)'
  <2>1. local_client'[a] = s /\ a \notin terminated' /\ remote_file' = remote_file
    BY <1>2 DEF Idle
  <2> QED
    BY <1>1, <1>2, <1>3, <1>5, <2>1, NoneAssumption DEF Standing, Calling
<1>9. remote_file' \in [App -> [Log -> LogObject]]
  BY <1>1, <1>2 DEF ClientTypeOK
<1> QED
  BY <1>2, <1>3, <1>4, <1>6, <1>7, <1>8, <1>9, CallStep

\* A new session has no user, and nothing open.
LEMMA ConnectStep ==
  ASSUME TypeOK, ClientInv, NEW a \in App, NEW l \in Log, NEW p \in Path,
         NEW s \in Session, ConnectAndOpen(a, l, p, s)
  PROVE  ClientInv'
<1> DEFINE new == [NoLog EXCEPT !.state = "opening", !.path = p]
<1>1. ClientTypeOK /\ Standing(a)
  BY DEF ClientInv
<1>2. /\ Idle(a) /\ remote_file[a][l] = NoLog /\ local_client[a] = NoSession
      /\ send(a, s, "clnt", l, NoPath, NoHandle)
      /\ UNCHANGED <<local_client, terminated, returned, broken, deaf>>
  BY DEF ConnectAndOpen
<1>3. /\ status[s] = "none"
      /\ status' = [status EXCEPT ![s] = "live"]
      /\ UNCHANGED <<open_files, open_filehandles, reply>>
  BY DEF ConnectAndOpen, CreateSession
<1>4. new \in LogObject /\ new.state = "opening" /\ new.path = p
  BY DEF NoLog, LogObject
<1> HIDE DEF new
<1>5. /\ remote_file' \in [App -> [Log -> LogObject]]
      /\ \A b \in App \ {a} : remote_file'[b] = remote_file[b]
      /\ remote_file'[a][l] = new
      /\ \A k \in Log \ {l} : remote_file'[a][k] = remote_file[a][k]
  BY <1>1, <1>4 DEF ConnectAndOpen, Opening, ClientTypeOK, new
<1> DEFINE c == [op |-> "clnt", log |-> l, session |-> s]
           req == [op |-> "clnt", path |-> NoPath, file |-> NoHandle]
<1>6. /\ call' \in [App -> Call \cup {NoCall}]
      /\ wire' \in [Session -> Request \cup {NoRequest}]
      /\ call'[a] # NoCall
      /\ call'[a] = c
      /\ \A b \in App \ {a} : call'[b] = call[b]
      /\ \A t \in Session : wire'[t] = wire[t] \/ (t = s /\ s \notin broken)
      /\ s \notin broken => wire'[s] # NoRequest /\ wire'[s] = req
  <2>1. c \in Call /\ req \in Request
    BY DEF Call, Request, Op
  <2>2. /\ call' = [call EXCEPT ![a] = c]
        /\ wire' = IF s \in broken THEN wire ELSE [wire EXCEPT ![s] = req]
    BY <1>2 DEF send
  <2> HIDE DEF c, req
  <2> QED
    BY <1>1, <2>1, <2>2, SendEffect
<1>7. ClientTypeOK'
  BY <1>1, <1>2, <1>5, <1>6 DEF ClientTypeOK
<1>8. Asked(a)' = req
  BY <1>6 DEF Asked
<1>9. \A k \in Log : /\ remote_file'[a][k].state # "open"
                     /\ remote_file[a][k].state # "open"
  BY <1>1, <1>2, <1>4, <1>5 DEF Standing, NoLog
<1>10. call[a] = NoCall /\ a \notin terminated' /\ local_client'[a] = NoSession
  BY <1>2 DEF Idle
<1>11. Standing(a)'
  BY <1>1, <1>4, <1>5, <1>6, <1>9, <1>10, NoneAssumption DEF Standing, Calling
<1>12. \A t \in Session : Uses(a, t)' <=> t = s
  BY <1>6, <1>10, NoneAssumption DEF Uses
<1>13. \A t \in Session : ~Uses(a, t)
  BY <1>2, <1>10, NoneAssumption DEF Uses
<1>14. ASSUME s \notin broken PROVE Served(a, s)'
  <2>1. ~Executed(a, s)'
    BY <1>6, <1>14 DEF Executed
  <2>2. Answered(a, s)'
    BY <1>6, <1>8, <1>14, <2>1 DEF Answered
  <2>3. \A k \in Log : LogServed(a, s, k)'
    BY <1>9 DEF LogServed
  <2>4. Held(s)' = {}
    BY <1>3 DEF ClientInv, WiresInUse, Held, IsOpen
  <2> QED
    BY <2>2, <2>3, <2>4 DEF Served
<1>15. \A b \in App \ {a} : AppKept(b)
  BY <1>2, <1>5, <1>6 DEF AppKept
<1>16. \A t \in Session : SessionKept(t)
  BY <1>3 DEF SessionKept
<1>17. \A t \in Session : \/ status'[t] = status[t] /\ t # s
                          \/ status[t] = "none" /\ status'[t] = "live" /\ t = s
  BY <1>3 DEF TypeOK
<1> QED
  BY <1>2, <1>6, <1>7, <1>8, <1>11, <1>12, <1>13, <1>14, <1>15, <1>16, <1>17,
     AppStep

-----------------------------------------------------------------------------
(* Returns *)

\* a's call on s has come to an end: there is an answer, or no connection.
Returning(a, s, l) ==
  /\ call[a] # NoCall /\ call[a].session = s /\ call[a].log = l
  /\ \A t \in Session : Uses(a, t) <=> t = s
  /\ s \notin broken => /\ wire[s] = NoRequest
                        /\ Executed(a, s)
                        /\ Served(a, s)

LEMMA ReturnFacts ==
  ASSUME ClientInv, NEW a \in App, Ready(a)
  PROVE  \E s \in Session, l \in Log : Returning(a, s, l)
<1>1. ClientTypeOK /\ Standing(a)
  BY DEF ClientInv
<1>2. call[a] # NoCall /\ call[a] \in Call
  BY <1>1 DEF Ready, ClientTypeOK
<1>3. call[a].session \in Session /\ call[a].log \in Log
  BY <1>2 DEF Call
<1>4. \A t \in Session : Uses(a, t) <=> t = call[a].session
  BY <1>1, <1>2, <1>3, NoneAssumption DEF Uses, Standing, Calling
<1>5. call[a].session \notin broken => wire[call[a].session] = NoRequest
  BY DEF Ready
<1> QED
  BY <1>2, <1>3, <1>4, <1>5 DEF Returning, ClientInv, Executed

\* A return that does not call again, and leaves the wires alone
LEMMA ReturnStep ==
  ASSUME ClientInv, NEW a \in App, NEW s \in Session, NEW l \in Log,
         Returning(a, s, l), UNCHANGED <<vars, wire, deaf>>,
         call' = [call EXCEPT ![a] = NoCall],
         ClientTypeOK', broken \subseteq broken',
         \A b \in App \ {a} : AppKept(b),
         local_client'[a] \in {local_client[a], NoSession},
         Standing(a)',
         local_client'[a] = s /\ s \notin broken' =>
           /\ \A k \in Log : LogServed(a, s, k)'
           /\ \A p \in Held(s) : HeldFor(a, s, p)'
  PROVE  ClientInv'
<1>1. call'[a] = NoCall
  BY DEF ClientInv, ClientTypeOK
<1>2. \A t \in Session : /\ SessionKept(t) /\ status'[t] = status[t]
                         /\ wire'[t] = wire[t]
  BY DEF SessionKept, vars, sessionVars
<1>3. \A t \in Session : Uses(a, t)' => t = s /\ local_client'[a] = s
  BY <1>1, NoneAssumption DEF Returning, Uses
<1>4. Uses(a, s) /\ status[s] # "none"
  BY DEF Returning, ClientInv, UsersApart
<1>5. ASSUME Uses(a, s)', s \notin broken' PROVE Served(a, s)'
  <2>1. local_client'[a] = s /\ wire'[s] = NoRequest
    BY <1>2, <1>3, <1>5 DEF Returning
  <2>2. Answered(a, s)'
    BY <1>1, <2>1 DEF Answered, Executed
  <2>3. Held(s)' = Held(s)
    BY <1>2 DEF SessionKept, Held, IsOpen
  <2> QED
    BY <1>5, <2>1, <2>2, <2>3 DEF Served
<1>6. \A t \in Session : Uses(a, t) /\ t \notin broken' /\ wire'[t] # NoRequest
        => Uses(a, t)'
  BY <1>2 DEF Returning
<1> QED
  BY <1>2, <1>3, <1>4, <1>5, <1>6, AppStep

\* The session's description has been accepted, and the Log is opened on it.
LEMMA ConnectedStep ==
  ASSUME ClientInv, NEW a \in App, Ready(a), Connected(a), UNCHANGED vars
  PROVE  ClientInv'
<1>1. ClientTypeOK /\ Standing(a)
  BY DEF ClientInv
<1>2. PICK s \in Session, l \in Log : Returning(a, s, l)
  BY ReturnFacts
<1>3. /\ call[a] # NoCall /\ call[a].session = s /\ call[a].log = l
      /\ call[a].op = "clnt" /\ local_client[a] = NoSession
      /\ remote_file[a][l].state = "opening" /\ remote_file[a][l].path \in Path
      /\ UNCHANGED <<terminated, returned, deaf>>
      /\ a \notin terminated
  BY <1>1, <1>2 DEF Returning, Connected, Standing, Calling
<1>4. \A k \in Log : remote_file[a][k].state # "open"
  BY <1>1, <1>3 DEF Standing
<1>5. CASE ~Throws(a) /\ Answer(a) = "clnh"
  <2> DEFINE c == [op |-> "open", log |-> l, session |-> s]
             req == [op |-> "open", path |-> remote_file[a][l].path,
                     file |-> NoHandle]
  <2>1. /\ local_client' = [local_client EXCEPT ![a] = s]
        /\ call' = [call EXCEPT ![a] = c]
        /\ wire' = IF s \in broken THEN wire ELSE [wire EXCEPT ![s] = req]
        /\ UNCHANGED <<remote_file, broken>>
    BY <1>3, <1>5 DEF Connected, send
  <2>2. c \in Call /\ req \in Request
    BY <1>3 DEF Call, Request, Op
  <2>3. s \notin broken
    BY <1>3, <1>5 DEF Throws
  <2> HIDE DEF c, req
  <2>4. /\ call' \in [App -> Call \cup {NoCall}]
        /\ wire' \in [Session -> Request \cup {NoRequest}]
        /\ call'[a] # NoCall
        /\ call'[a] = c
        /\ \A b \in App \ {a} : call'[b] = call[b]
        /\ \A t \in Session : wire'[t] = wire[t] \/ (t = s /\ s \notin broken)
        /\ s \notin broken => wire'[s] # NoRequest /\ wire'[s] = req
    BY <1>1, <2>1, <2>2, SendEffect, ZenonT(30)
  <2>5. ClientTypeOK'
    BY <1>1, <1>3, <2>1, <2>4 DEF ClientTypeOK
  <2>6. local_client'[a] = s /\ \A b \in App \ {a} : AppKept(b)
    BY <1>1, <1>3, <2>1, <2>4 DEF AppKept, ClientTypeOK
  <2>7. Asked(a)' = req
    BY <2>1, <2>4 DEF Asked, c, req
  <2>8. Standing(a)'
    BY <1>1, <1>3, <1>4, <2>1, <2>4, <2>6, NoneAssumption
       DEF Standing, Calling, c
  <2>9. \A t \in Session : Uses(a, t)' <=> t = s
    BY <2>4, <2>6 DEF Uses, c
  <2>10. Served(a, s)'
    <3>1. ~Executed(a, s)'
      BY <2>3, <2>4 DEF Executed
    <3>2. Answered(a, s)'
      BY <2>3, <2>4, <2>7, <3>1 DEF Answered
    <3>3. \A k \in Log : LogServed(a, s, k)'
      BY <1>4, <2>1 DEF LogServed
    <3>4. Held(s) = {}
      BY <1>2, <1>3, <1>4, <2>3 DEF Returning, Served, HeldFor
    <3>5. Held(s)' = {}
      BY <3>4 DEF Held, IsOpen, vars, sessionVars
    <3> QED
      BY <3>2, <3>3, <3>5 DEF Served
  <2>11. \A t \in Session : Uses(a, t) <=> t = s
    BY <1>2 DEF Returning
  <2>12. status[s] # "none"
    BY <2>11 DEF ClientInv, UsersApart
  <2>13. \A t \in Session : SessionKept(t) /\ status'[t] = status[t]
    BY DEF SessionKept, vars, sessionVars
  <2> QED
    BY <2>1, <2>3, <2>4, <2>5, <2>6, <2>7, <2>8, <2>9, <2>10, <2>11, <2>12,
       <2>13, AppStep
<1>6. CASE ~(~Throws(a) /\ Answer(a) = "clnh")
  <2>1. /\ call' = [call EXCEPT ![a] = NoCall]
        /\ remote_file' = [remote_file EXCEPT ![a][l] = NoLog]
        /\ broken' = broken \cup {s}
        /\ UNCHANGED <<local_client, wire>>
    BY <1>3, <1>6 DEF Connected
  <2>2. /\ remote_file' \in [App -> [Log -> LogObject]]
        /\ \A b \in App \ {a} : remote_file'[b] = remote_file[b]
        /\ \A k \in Log : remote_file'[a][k] \in {remote_file[a][k], NoLog}
    BY <1>1, <2>1, NoLogType DEF ClientTypeOK
  <2>3. ClientTypeOK'
    BY <1>1, <1>3, <2>1, <2>2 DEF ClientTypeOK
  <2>4. /\ \A b \in App \ {a} : AppKept(b)
        /\ call'[a] = NoCall
    BY <1>1, <1>3, <2>1, <2>2 DEF AppKept, ClientTypeOK
  <2>5. Standing(a)'
    BY <1>1, <1>3, <1>4, <2>1, <2>2, <2>4 DEF Standing, Calling, NoLog
  <2>6. local_client'[a] # s
    BY <1>3, <2>1, NoneAssumption
  <2> QED
    BY <1>2, <1>3, <2>1, <2>3, <2>4, <2>5, <2>6, ReturnStep
<1> QED
  BY <1>5, <1>6

\* What an application keeps of its Logs when one has been opened, closed or
\* refused: the others, on the same path too.
LEMMA OpenedStep ==
  ASSUME ClientInv, NEW a \in App, Ready(a), Opened(a), UNCHANGED vars
  PROVE  ClientInv'
<1> DEFINE success == ~Throws(a) /\ Answer(a) = "filh"
<1>1. ClientTypeOK /\ Standing(a)
  BY DEF ClientInv
<1>2. PICK s \in Session, l \in Log : Returning(a, s, l)
  BY ReturnFacts
<1> DEFINE f == remote_file[a][l]
           opened == [f EXCEPT !.state = "open", !.file = HandleFor(a, s, l)]
<1>3. /\ call[a] # NoCall /\ call[a].session = s /\ call[a].log = l
      /\ call[a].op = "open" /\ local_client[a] = s
      /\ f.state = "opening" /\ f.path \in Path /\ f \in LogObject
      /\ UNCHANGED <<local_client, terminated, returned, netVars>>
      /\ a \notin terminated
  BY <1>1, <1>2 DEF Returning, Opened, Standing, Calling, ClientTypeOK
<1>4. FileOf(a) = HandleFor(a, s, l)
  BY <1>3 DEF FileOf, HandleFor
<1>5. remote_file' = [remote_file EXCEPT ![a][l] = IF success THEN opened ELSE NoLog]
  BY <1>3, <1>4 DEF Opened
<1>6. success => /\ s \notin broken /\ reply[s] = "filh"
                 /\ HandleFor(a, s, l) \in Handle
                 /\ IsOpen(s, HandleFor(a, s, l))
  BY <1>2, <1>3 DEF Throws, Answer, Returning, Served, Answered
<1>7. success => /\ opened \in LogObject /\ opened.state = "open"
                 /\ opened.path = f.path /\ opened.file = HandleFor(a, s, l)
  BY <1>3, <1>6 DEF LogObject
<1>8. ~success /\ s \notin broken => reply[s] # "filh"
  BY <1>3 DEF Throws, Answer
<1>9. call' = [call EXCEPT ![a] = NoCall]
  BY DEF Opened
<1> HIDE DEF opened, success
<1>10. /\ remote_file' \in [App -> [Log -> LogObject]]
       /\ \A b \in App \ {a} : remote_file'[b] = remote_file[b]
       /\ remote_file'[a][l] = IF success THEN opened ELSE NoLog
       /\ \A k \in Log \ {l} : remote_file'[a][k] = remote_file[a][k]
  BY <1>1, <1>5, <1>7, NoLogType DEF ClientTypeOK
<1>11. ClientTypeOK'
  BY <1>1, <1>3, <1>9, <1>10 DEF ClientTypeOK, netVars
<1>12. /\ \A b \in App \ {a} : AppKept(b)
       /\ call'[a] = NoCall
  BY <1>1, <1>3, <1>9, <1>10 DEF AppKept, ClientTypeOK
<1>13. Standing(a)'
  <2>1. local_client'[a] = s /\ s # NoSession /\ a \notin terminated'
    BY <1>3, NoneAssumption
  <2>2. ASSUME NEW k \in Log
        PROVE  /\ remote_file'[a][k].state # "none" =>
                    remote_file'[a][k].path \in Path
               /\ remote_file'[a][k].state = "none" =>
                    remote_file'[a][k] = NoLog
    <3>1. CASE k = l /\ success
      BY <1>3, <1>7, <1>10, <3>1
    <3>2. CASE k = l /\ ~success
      BY <1>10, <3>2 DEF NoLog
    <3>3. CASE k # l
      BY <1>1, <1>10, <3>3 DEF Standing
    <3> QED
      BY <3>1, <3>2, <3>3
  <2> QED
    BY <1>12, <2>1, <2>2 DEF Standing, Calling
<1>14. ASSUME s \notin broken
       PROVE  /\ \A k \in Log : LogServed(a, s, k)'
              /\ \A p \in Held(s) : HeldFor(a, s, p)'
  <2>1. Served(a, s)
    BY <1>2, <1>14 DEF Returning
  <2>2. UNCHANGED <<open_files, open_filehandles>>
    BY DEF vars, sessionVars
  <2>3. ASSUME NEW k \in Log PROVE LogServed(a, s, k)'
    <3>1. CASE k = l /\ success
      <4>1. HandleFor(a, s, k)' = HandleFor(a, s, l)
        BY <1>7, <1>10, <2>2, <3>1 DEF HandleFor
      <4> QED
        BY <1>6, <1>7, <1>10, <2>2, <3>1, <4>1 DEF LogServed, IsOpen
    <3>2. CASE k = l /\ ~success
      BY <1>10, <3>2 DEF LogServed, NoLog
    <3>3. CASE k # l
      <4>1. HandleFor(a, s, k)' = HandleFor(a, s, k)
        BY <1>10, <2>2, <3>3 DEF HandleFor
      <4>2. LogServed(a, s, k) /\ ~Calling(a, "clos")
        BY <1>3, <2>1 DEF Served, Calling
      <4> QED
        BY <1>10, <2>2, <3>3, <4>1, <4>2 DEF LogServed, IsOpen
    <3> QED
      BY <3>1, <3>2, <3>3
  <2>4. ASSUME NEW p \in Held(s) PROVE HeldFor(a, s, p)'
    <3>1. HeldFor(a, s, p) /\ ~Executed(a, s)'
      BY <1>12, <2>1 DEF Served, Executed
    <3>2. CASE success /\ f.path = p
      BY <1>7, <1>10, <3>1, <3>2 DEF HeldFor
    <3>3. CASE ~(success /\ f.path = p)
      <4>1. PICK k \in Log : remote_file[a][k].state = "open"
                               /\ remote_file[a][k].path = p
        BY <1>3, <1>8, <1>14, <3>1, <3>3 DEF HeldFor
      <4> QED
        BY <1>3, <1>10, <3>1, <4>1 DEF HeldFor
    <3> QED
      BY <3>2, <3>3
  <2> QED
    BY <2>3, <2>4
<1> QED
  BY <1>2, <1>3, <1>9, <1>11, <1>12, <1>13, <1>14, ReturnStep DEF netVars

\* No error stays behind in a Log, so there is none to be taken out.
LEMMA NoErrorLeft ==
  ASSUME NEW files \in [App -> [Log -> LogObject]], NEW a \in App, NEW l \in Log
  PROVE  [files EXCEPT ![a][l].error = FALSE] = files
<1>1. ASSUME NEW f \in LogObject PROVE [f EXCEPT !.error = FALSE] = f
  BY DEF LogObject
<1>2. [files[a][l] EXCEPT !.error = FALSE] = files[a][l]
  BY <1>1
<1>3. [files[a] EXCEPT ![l].error = FALSE] = files[a]
  BY <1>2
<1> QED
  BY <1>3

LEMMA WroteStep ==
  ASSUME ClientInv, NEW a \in App, Ready(a), Wrote(a), UNCHANGED vars
  PROVE  ClientInv' /\ remote_file' = remote_file
<1>1. ClientTypeOK /\ Standing(a)
  BY DEF ClientInv
<1>2. PICK s \in Session, l \in Log : Returning(a, s, l)
  BY ReturnFacts
<1>3. /\ call[a] # NoCall /\ call[a].session = s /\ call[a].log = l
      /\ call[a].op = "mesg" /\ local_client[a] = s
      /\ call' = [call EXCEPT ![a] = NoCall]
      /\ UNCHANGED <<local_client, terminated, netVars>>
      /\ a \notin terminated
  BY <1>1, <1>2 DEF Returning, Wrote, Standing, Calling
<1>4. remote_file' = remote_file
  <2>1. remote_file \in [App -> [Log -> LogObject]]
    BY <1>1 DEF ClientTypeOK
  <2>2. remote_file' \in {remote_file, [remote_file EXCEPT ![a][l].error = FALSE]}
    BY <1>3 DEF Wrote
  <2> QED
    BY <2>1, <2>2, NoErrorLeft
<1>5. returned' \in [Session -> Nat]
  BY <1>1, <1>3 DEF Wrote, ClientTypeOK
<1>6. ClientTypeOK'
  BY <1>1, <1>3, <1>4, <1>5 DEF ClientTypeOK, netVars
<1>7. /\ \A b \in App \ {a} : AppKept(b)
      /\ call'[a] = NoCall
  BY <1>1, <1>3, <1>4 DEF AppKept, ClientTypeOK
<1>8. Standing(a)'
  BY <1>1, <1>3, <1>4, <1>7 DEF Standing, Calling
<1>9. ASSUME s \notin broken
      PROVE  /\ \A k \in Log : LogServed(a, s, k)'
             /\ \A p \in Held(s) : HeldFor(a, s, p)'
  <2>1. Served(a, s)
    BY <1>2, <1>9 DEF Returning
  <2>2. ~Calling(a, "clos") /\ ~Executed(a, s)'
    BY <1>3, <1>7 DEF Calling, Executed
  <2>3. UNCHANGED <<open_files, open_filehandles>>
    BY DEF vars, sessionVars
  <2>4. \A k \in Log : LogServed(a, s, k)'
    BY <1>4, <2>1, <2>2, <2>3 DEF Served, LogServed, HandleFor, IsOpen
  <2>5. \A p \in Held(s) : HeldFor(a, s, p)'
    BY <1>3, <1>4, <2>1, <2>2 DEF Served, HeldFor
  <2> QED
    BY <2>4, <2>5
<1> QED
  BY <1>2, <1>3, <1>4, <1>6, <1>7, <1>8, <1>9, ReturnStep DEF netVars

LEMMA ClosedStep ==
  ASSUME ClientInv, NEW a \in App, Ready(a), Closed(a), UNCHANGED vars
  PROVE  ClientInv'
<1>1. ClientTypeOK /\ Standing(a)
  BY DEF ClientInv
<1>2. PICK s \in Session, l \in Log : Returning(a, s, l)
  BY ReturnFacts
<1>3. /\ call[a] # NoCall /\ call[a].session = s /\ call[a].log = l
      /\ call[a].op = "clos" /\ local_client[a] = s
      /\ call' = [call EXCEPT ![a] = NoCall]
      /\ UNCHANGED <<local_client, returned, netVars>>
      /\ a \notin terminated
  BY <1>1, <1>2 DEF Returning, Closed, Standing, Calling
<1>4. Kills(a) <=> s \in broken
  BY <1>3 DEF Kills, Throws
<1>5. /\ s \in broken => /\ terminated' = terminated \cup {a}
                         /\ remote_file' = remote_file
      /\ s \notin broken =>
           /\ terminated' = terminated
           /\ remote_file' = [remote_file EXCEPT ![a][l] = NoLog]
  BY <1>3, <1>4 DEF Closed
<1>6. /\ remote_file' \in [App -> [Log -> LogObject]]
      /\ \A b \in App \ {a} : remote_file'[b] = remote_file[b]
      /\ \A k \in Log : remote_file'[a][k] \in {remote_file[a][k], NoLog}
      /\ \A k \in Log \ {l} : remote_file'[a][k] = remote_file[a][k]
      /\ s \notin broken => remote_file'[a][l] = NoLog
  <2>1. remote_file \in [App -> [Log -> LogObject]]
    BY <1>1 DEF ClientTypeOK
  <2>2. CASE s \in broken
    BY <1>5, <2>1, <2>2
  <2>3. CASE s \notin broken
    BY <1>5, <2>1, <2>3, NoLogType
  <2> QED
    BY <2>2, <2>3
<1>7. terminated' \subseteq App
  BY <1>1, <1>5 DEF ClientTypeOK
<1>8. ClientTypeOK'
  BY <1>1, <1>3, <1>6, <1>7 DEF ClientTypeOK, netVars
<1>9. /\ \A b \in App \ {a} : AppKept(b)
      /\ call'[a] = NoCall
  BY <1>1, <1>3, <1>5, <1>6 DEF AppKept, ClientTypeOK
<1>10. Standing(a)'
  <2>1. a \in terminated' => local_client'[a] \in broken'
    BY <1>3, <1>5 DEF netVars
  <2> QED
    <3>1. NoLog.state = "none" /\ local_client'[a] = local_client[a]
      BY <1>3 DEF NoLog
    <3> QED
      BY <1>1, <1>6, <1>9, <2>1, <3>1 DEF Standing, Calling
<1>11. ASSUME s \notin broken
       PROVE  /\ \A k \in Log : LogServed(a, s, k)'
              /\ \A p \in Held(s) : HeldFor(a, s, p)'
  <2>1. Served(a, s) /\ Executed(a, s)
    BY <1>2, <1>11 DEF Returning
  <2>2. ~Executed(a, s)'
    BY <1>9 DEF Executed
  <2>3. UNCHANGED <<open_files, open_filehandles>>
    BY DEF vars, sessionVars
  <2>4. ASSUME NEW k \in Log PROVE LogServed(a, s, k)'
    <3>1. CASE k = l
      BY <1>6, <1>11, <3>1 DEF LogServed, NoLog
    <3>2. CASE k # l
      <4>1. HandleFor(a, s, k)' = HandleFor(a, s, k)
        BY <1>6, <2>3, <3>2 DEF HandleFor
      <4>2. LogServed(a, s, k)
        BY <2>1 DEF Served
      <4> QED
        BY <1>3, <1>6, <2>3, <3>2, <4>1, <4>2 DEF LogServed, IsOpen
    <3> QED
      BY <3>1, <3>2
  <2>5. ASSUME NEW p \in Held(s) PROVE HeldFor(a, s, p)'
    <3>1. PICK k \in Log : /\ remote_file[a][k].state = "open"
                           /\ remote_file[a][k].path = p
                           /\ k # l
      BY <1>3, <2>1 DEF Served, HeldFor
    <3> QED
      BY <1>6, <2>2, <3>1 DEF HeldFor
  <2> QED
    BY <2>4, <2>5
<1> QED
  BY <1>2, <1>3, <1>8, <1>9, <1>10, <1>11, ReturnStep DEF netVars

LEMMA DisconnectedStep ==
  ASSUME ClientInv, NEW a \in App, Ready(a), Disconnected(a), UNCHANGED vars
  PROVE  ClientInv'
<1>1. ClientTypeOK /\ Standing(a)
  BY DEF ClientInv
<1>2. PICK s \in Session, l \in Log : Returning(a, s, l)
  BY ReturnFacts
<1>3. /\ call[a] # NoCall /\ call[a].op = "disc"
      /\ call' = [call EXCEPT ![a] = NoCall]
      /\ local_client' = [local_client EXCEPT ![a] = NoSession]
      /\ UNCHANGED <<remote_file, terminated, returned, netVars>>
      /\ a \notin terminated
      /\ \A k \in Log : remote_file[a][k] = NoLog
  BY <1>1, <1>2 DEF Returning, Disconnected, Standing, Calling
<1>4. ClientTypeOK'
  BY <1>1, <1>3 DEF ClientTypeOK, netVars
<1>5. /\ \A b \in App \ {a} : AppKept(b)
      /\ call'[a] = NoCall /\ local_client'[a] = NoSession
  BY <1>1, <1>3 DEF AppKept, ClientTypeOK
<1>6. Standing(a)'
  <2>1. \A k \in Log : /\ remote_file'[a][k] = NoLog
                       /\ remote_file'[a][k].state = "none"
    <3>1. NoLog.state = "none"
      BY DEF NoLog
    <3> QED
      BY <1>3, <3>1
  <2>2. a \notin terminated'
    BY <1>3
  <2> QED
    BY <1>5, <2>1, <2>2 DEF Standing, Calling
<1> QED
  BY <1>2, <1>3, <1>4, <1>5, <1>6, NoneAssumption, ReturnStep DEF netVars

-----------------------------------------------------------------------------
(* The daemon and the network *)

\* A step on one session, seen from all applications
LEMMA SessionStep ==
  ASSUME ClientInv, ClientTypeOK', UNCHANGED appVars,
         broken \subseteq broken', NEW s \in Session,
         \A t \in Session \ {s} : /\ SessionKept(t) /\ wire'[t] = wire[t]
                                  /\ status'[t] = status[t],
         wire'[s] \in {wire[s], NoRequest},
         status[s] # "none", status'[s] # "none",
         s \notin broken' => \A a \in App : Uses(a, s) => Served(a, s)'
  PROVE  ClientInv'
<1>1. \A a \in App, t \in Session : Uses(a, t)' <=> Uses(a, t)
  BY DEF appVars, Uses
<1>2. UsersApart'
  BY <1>1 DEF ClientInv, UsersApart
<1>3. WiresInUse'
  <2> SUFFICES ASSUME NEW t \in Session
               PROVE  /\ wire'[t] # NoRequest =>
                           /\ wire'[t].op = "open" => wire'[t].path \in Path
                           /\ wire'[t].op \in {"mesg", "clos"} =>
                                wire'[t].file \in Handle
                           /\ t \notin broken' => \E a \in App : Uses(a, t)'
                      /\ status'[t] = "none" => Held(t)' = {}
    BY DEF WiresInUse
  <2>1. wire'[t] # NoRequest => wire'[t] = wire[t]
    OBVIOUS
  <2>2. status'[t] = "none" => Held(t)' = {}
    BY DEF ClientInv, WiresInUse, SessionKept, Held, IsOpen
  <2> QED
    BY <1>1, <2>1, <2>2 DEF ClientInv, WiresInUse
<1>4. \A a \in App : AppKept(a)
  BY DEF appVars, AppKept
<1>5. \A a \in App : Standing(a)'
  BY <1>4 DEF ClientInv, appVars, Standing, Calling
<1>6. ASSUME NEW a \in App, NEW t \in Session, t \notin broken', Uses(a, t)'
      PROVE  Served(a, t)'
  <2>1. CASE t = s
    BY <1>1, <1>6, <2>1
  <2>2. CASE t # s
    <3>1. \A u \in Session : Uses(a, u) /\ u # t => FALSE
      <4>1. Standing(a) /\ ClientTypeOK /\ Uses(a, t)
        BY <1>1, <1>6 DEF ClientInv
      <4> QED
        BY <4>1, NoneAssumption DEF Uses, Standing, Calling, ClientTypeOK
    <3> QED
      BY <1>4, <1>6, <2>2, <3>1, Bystander DEF ClientInv
  <2> QED
    BY <2>1, <2>2
<1> QED
  BY <1>2, <1>3, <1>5, <1>6 DEF ClientInv

LEMMA LoseConnectionStep ==
  ASSUME ClientInv, NEW s \in Session, LoseConnection(s)
  PROVE  ClientInv'
<1>1. /\ UNCHANGED <<vars, appVars, deaf>> /\ broken' = broken \cup {s}
      /\ wire' \in {wire, [wire EXCEPT ![s] = NoRequest]}
      /\ \E a \in App : Uses(a, s)
  BY DEF LoseConnection
<1>2. ClientTypeOK /\ UsersApart
  BY DEF ClientInv
<1>3. ClientTypeOK'
  BY <1>1, <1>2 DEF ClientTypeOK, appVars
<1>4. \A t \in Session : SessionKept(t) /\ status'[t] = status[t]
  BY <1>1 DEF SessionKept, vars, sessionVars
<1>5. status[s] # "none"
  BY <1>1, <1>2 DEF UsersApart
<1>6. /\ \A t \in Session \ {s} : wire'[t] = wire[t]
      /\ wire'[s] \in {wire[s], NoRequest}
  BY <1>1, <1>2 DEF ClientTypeOK
<1> QED
  BY <1>1, <1>3, <1>4, <1>5, <1>6, SessionStep

LEMMA EndSessionStep ==
  ASSUME TypeOK, ClientInv, NEW s \in Session, EndSession(s)
  PROVE  ClientInv'
<1>1. /\ UNCHANGED <<appVars, wire, broken, deaf>> /\ s \in broken
      /\ status[s] = "live" /\ status' = [status EXCEPT ![s] = "gone"]
      /\ open_files' = [open_files EXCEPT ![s] = [fh \in Handle |-> NoFile]]
      /\ UNCHANGED <<open_filehandles, reply>>
  BY DEF EndSession, DestroySession, netVars
<1>2. ClientTypeOK'
  BY <1>1 DEF ClientInv, ClientTypeOK, appVars
<1>3. \A t \in Session \ {s} : SessionKept(t) /\ status'[t] = status[t]
  BY <1>1 DEF SessionKept, TypeOK
<1>4. status'[s] # "none"
  BY <1>1 DEF TypeOK
<1> QED
  BY <1>1, <1>2, <1>3, <1>4, SessionStep

\* What an application can count on once its request has been executed
LEMMA ServedStep ==
  ASSUME DaemonInv, DaemonInv', ClientInv, NEW s \in Session, ServeRequest(s),
         s \notin broken, NEW a \in App, Uses(a, s)
  PROVE  Served(a, s)'
<1>1. ClientTypeOK /\ Standing(a) /\ Served(a, s) /\ WiresInUse
  BY DEF ClientInv
<1>2. /\ wire[s] # NoRequest /\ Act(s, wire[s])
      /\ wire' = [wire EXCEPT ![s] = NoRequest]
      /\ UNCHANGED <<local_client, remote_file, call>>
  BY DEF ServeRequest, appVars
<1>3. wire'[s] = NoRequest
  BY <1>1, <1>2 DEF ClientTypeOK
<1>4. call[a] # NoCall /\ wire[s] = Asked(a)
  BY <1>1, <1>2 DEF Served, Answered
<1>5. call[a] \in Call /\ call[a].log \in Log /\ call[a].op \in Op
  BY <1>1, <1>4 DEF ClientTypeOK, Call
<1> DEFINE l == call[a].log
           f == remote_file[a][l]
           op == call[a].op
<1>6. wire[s].op = op /\ ~Executed(a, s) /\ Executed(a, s)'
  BY <1>2, <1>3, <1>4 DEF Asked, Executed
<1>7. \A k \in Log : LogServed(a, s, k)
  BY <1>1 DEF Served
<1>8. \A p \in Held(s) : \E k \in Log : /\ remote_file[a][k].state = "open"
                                       /\ remote_file[a][k].path = p
  BY <1>1, <1>6 DEF Served, HeldFor
<1>9. ASSUME reply'[s] \in Fitting(op), op # "open", op # "clos",
             UNCHANGED <<open_files, open_filehandles>>
      PROVE  Served(a, s)'
  <2>1. Answered(a, s)'
    BY <1>2, <1>3, <1>9 DEF Answered
  <2>2. \A k \in Log : LogServed(a, s, k)'
    BY <1>2, <1>7, <1>9 DEF LogServed, Calling, HandleFor, IsOpen
  <2>3. Held(s)' = Held(s)
    BY <1>9 DEF Held, IsOpen
  <2>4. \A p \in Held(s) : HeldFor(a, s, p)'
    BY <1>2, <1>8, <1>9 DEF HeldFor
  <2> QED
    BY <2>1, <2>2, <2>3, <2>4 DEF Served
<1>10. CASE op = "clnt"
  <2>1. SetClientInfo(s)
    BY <1>2, <1>6, <1>10 DEF Act
  <2>2. reply'[s] \in Fitting("clnt")
    BY <2>1, OtherEffects DEF DaemonInv, Fitting
  <2> QED
    BY <1>9, <1>10, <2>1, <2>2, OtherEffects DEF DaemonInv
<1>11. CASE op = "disc"
  <2>1. DisconnectClient(s, client_handle[s])
    BY <1>2, <1>6, <1>11 DEF Act
  <2>2. reply'[s] \in Fitting("disc")
    BY <2>1, OtherEffects DEF DaemonInv, Fitting
  <2> QED
    BY <1>9, <1>11, <2>1, <2>2, OtherEffects DEF DaemonInv
<1>12. CASE op = "mesg"
  <2>1. WriteMessage(s, wire[s].file) /\ wire[s].file \in Handle
    BY <1>1, <1>2, <1>6, <1>12 DEF Act, WiresInUse
  <2>2. reply'[s] \in Fitting("mesg")
    BY <2>1, OtherEffects DEF DaemonInv, Fitting
  <2> QED
    BY <1>9, <1>12, <2>1, <2>2, OtherEffects DEF DaemonInv
<1>13. CASE op = "open"
  <2>1. OpenFile(s, f.path) /\ f.path \in Path
    BY <1>1, <1>2, <1>4, <1>6, <1>13 DEF Act, WiresInUse, Asked
  <2> DEFINE p == f.path
  <2>2. /\ reply'[s] \in {"filh", "nack"}
        /\ \A q \in Path : open_filehandles[s][q] # NoHandle =>
             open_filehandles'[s][q] = open_filehandles[s][q]
        /\ \A h \in Handle : IsOpen(s, h) => IsOpen(s, h)'
        /\ Held(s)' = IF reply'[s] = "filh" THEN Held(s) \cup {p} ELSE Held(s)
        /\ reply'[s] = "filh" =>
             /\ open_filehandles'[s][p] \in Handle
             /\ open_files'[s][open_filehandles'[s][p]] # NoFile
    BY <2>1, OpenEffect DEF IsOpen
  <2>3. Answered(a, s)'
    <3>1. reply'[s] \in Fitting(call'[a].op)
      BY <1>2, <1>13, <2>2 DEF Fitting
    <3> QED
      BY <1>2, <1>3, <2>2, <3>1 DEF Answered, HandleFor, IsOpen
  <2>4. ASSUME NEW k \in Log PROVE LogServed(a, s, k)'
    <3> SUFFICES ASSUME remote_file[a][k].state = "open" PROVE LogServed(a, s, k)'
      BY <1>2 DEF LogServed
    <3>1. /\ remote_file[a][k].file \in Handle
          /\ remote_file[a][k].file = HandleFor(a, s, k)
          /\ remote_file[a][k].overtaken \/ IsOpen(s, remote_file[a][k].file)
          /\ remote_file[a][k].path \in Path
      BY <1>1, <1>7, <1>13 DEF LogServed, Calling, Standing
    <3>2. HandleFor(a, s, k)' = HandleFor(a, s, k)
      BY <1>2, <2>2, <3>1, SentinelAssumption DEF HandleFor
    <3> QED
      BY <1>2, <2>2, <3>1, <3>2 DEF LogServed, IsOpen
  <2>5. ASSUME NEW q \in Held(s)' PROVE HeldFor(a, s, q)'
    <3>1. CASE q \in Held(s)
      BY <1>2, <1>8, <1>13, <3>1 DEF HeldFor
    <3>2. CASE reply'[s] = "filh" /\ q = p
      BY <1>2, <1>6, <1>13, <3>2 DEF HeldFor
    <3> QED
      BY <2>2, <2>5, <3>1, <3>2
  <2> QED
    BY <2>3, <2>4, <2>5 DEF Served
<1>14. CASE op = "clos"
  <2>1. CloseFile(s, f.file) /\ f.file \in Handle
    BY <1>1, <1>2, <1>4, <1>6, <1>14 DEF Act, WiresInUse, Asked
  <2>2. /\ reply'[s] \in {"ackn", "nack"}
        /\ open_filehandles'[s] = open_filehandles[s]
        /\ \A h \in Handle \ {f.file} : IsOpen(s, h) => IsOpen(s, h)'
        /\ Held(s)' = {p \in Held(s) : open_filehandles[s][p] # f.file}
    BY <2>1, CloseEffect
  <2>3. Answered(a, s)'
    <3>1. reply'[s] \in Fitting(call'[a].op)
      BY <1>2, <1>14, <2>2 DEF Fitting
    <3> QED
      BY <1>2, <1>3, <1>14, <3>1 DEF Answered
  <2>4. /\ f.state = "open" /\ f.path \in Path /\ f.file = HandleFor(a, s, l)
        /\ \A k \in Log \ {l} : remote_file[a][k].path = f.path =>
             remote_file[a][k].overtaken
    BY <1>1, <1>4, <1>5, <1>7, <1>14 DEF Standing, Calling, LogServed
  <2>5. ASSUME NEW k \in Log PROVE LogServed(a, s, k)'
    <3> SUFFICES ASSUME remote_file[a][k].state = "open" PROVE LogServed(a, s, k)'
      BY <1>2 DEF LogServed
    <3>1. /\ remote_file[a][k].file \in Handle
          /\ remote_file[a][k].file = HandleFor(a, s, k)
          /\ \/ remote_file[a][k].overtaken
             \/ k = l
             \/ IsOpen(s, remote_file[a][k].file)
          /\ remote_file[a][k].path \in Path
      BY <1>1, <1>7 DEF LogServed, Calling, Standing
    <3>2. HandleFor(a, s, k)' = HandleFor(a, s, k)
      BY <1>2, <2>2 DEF HandleFor
    <3>3. remote_file[a][k].path # f.path => remote_file[a][k].file # f.file
      BY <2>4, <3>1, SentinelAssumption DEF DaemonInv, HandleNamesPath, HandleFor
    <3>4. \/ remote_file[a][k].overtaken
          \/ k = l
          \/ IsOpen(s, remote_file[a][k].file)'
      BY <1>2, <2>2, <2>4, <3>1, <3>3 DEF IsOpen
    <3>5. k = l => Calling(a, "clos")' /\ call'[a].log = k
      BY <1>2, <1>4, <1>14 DEF Calling
    <3> QED
      BY <1>2, <3>1, <3>2, <3>4, <3>5 DEF LogServed
  <2>6. ASSUME NEW q \in Held(s)' PROVE HeldFor(a, s, q)'
    <3>1. q \in Held(s) /\ open_filehandles[s][q] # f.file
      BY <2>2, <2>6
    <3>2. PICK k \in Log : /\ remote_file[a][k].state = "open"
                           /\ remote_file[a][k].path = q
      BY <1>8, <3>1
    <3>3. k # l
      BY <2>4, <3>1, <3>2 DEF HandleFor
    <3> QED
      BY <1>2, <3>2, <3>3 DEF HeldFor
  <2> QED
    BY <2>3, <2>5, <2>6 DEF Served
<1> QED
  BY <1>5, <1>10, <1>11, <1>12, <1>13, <1>14 DEF Op

LEMMA ServeStep ==
  ASSUME DaemonInv, DaemonInv', ClientInv, NEW s \in Session, ServeRequest(s)
  PROVE  ClientInv'
<1>1. ClientTypeOK /\ WiresInUse
  BY DEF ClientInv
<1>2. /\ wire' = [wire EXCEPT ![s] = NoRequest]
      /\ deaf' \subseteq deaf \cup {s}
      /\ UNCHANGED <<appVars, broken>>
  BY DEF ServeRequest
<1>3. Execute(s)
  BY <1>1, ServeExecutes DEF DaemonInv
<1>4. status[s] = "live"
  BY <1>3 DEF Execute, OpenFile, OpenFileAgain, OpenFileShared, OpenFileNew,
     OpenFileThrows, Refuse, WriteMessage, CloseFile, SetClientInfo,
     DisconnectClient, Executes
<1>5. status' = status /\ \A t \in Session \ {s} : SessionKept(t)
  BY <1>3, OtherSessionsKept DEF DaemonInv
<1>6. ClientTypeOK'
  BY <1>1, <1>2 DEF ClientTypeOK, appVars
<1>7. /\ \A t \in Session \ {s} : wire'[t] = wire[t]
      /\ wire'[s] = NoRequest
  BY <1>1, <1>2 DEF ClientTypeOK
<1>8. s \notin broken => \A a \in App : Uses(a, s) => Served(a, s)'
  BY ServedStep
<1> QED
  BY <1>2, <1>4, <1>5, <1>6, <1>7, <1>8, SessionStep

-----------------------------------------------------------------------------
(* The invariant holds, and the library is a client of the daemon. *)

LEMMA ClientStart == ClientInit => DaemonInv /\ ClientInv
<1> SUFFICES ASSUME ClientInit PROVE DaemonInv /\ ClientInv
  OBVIOUS
<1>1. DaemonInv
  BY DaemonStart DEF ClientInit
<1>2. ClientTypeOK
  BY NoLogType DEF ClientInit, ClientTypeOK
<1>3. \A a \in App, s \in Session : ~Uses(a, s)
  BY NoneAssumption DEF ClientInit, Uses
<1>4. UsersApart
  BY <1>3 DEF UsersApart
<1>5. WiresInUse
  BY DEF ClientInit, Init, WiresInUse, Held, IsOpen
<1>6. ASSUME NEW a \in App PROVE Standing(a)
  <2>1. /\ call[a] = NoCall
        /\ \A l \in Log : remote_file[a][l] = NoLog
        /\ a \notin terminated
    BY DEF ClientInit
  <2>2. NoLog.state = "none"
    BY DEF NoLog
  <2> QED
    BY <2>1, <2>2 DEF Standing, Calling
<1> QED
  BY <1>1, <1>2, <1>3, <1>4, <1>5, <1>6 DEF ClientInv

LEMMA ClientStep ==
  DaemonInv /\ ClientInv /\ [ClientNext]_clientVars => DaemonInv' /\ ClientInv'
<1> SUFFICES ASSUME DaemonInv, ClientInv, [ClientNext]_clientVars
             PROVE  DaemonInv' /\ ClientInv'
  OBVIOUS
<1>1. [Next]_vars
  BY ClientStepsNext DEF DaemonInv, ClientInv
<1>2. DaemonInv'
  BY <1>1, DaemonStep
<1>3. ASSUME NEW a \in App, NEW l \in Log, Calls(a, l) PROVE ClientInv'
  <2>1. ASSUME NEW p \in Path, OpenLog(a, l, p) PROVE ClientInv'
    BY <2>1, OpenLogStep
  <2>2. ASSUME NEW p \in Path, NEW s \in Session, ConnectAndOpen(a, l, p, s)
        PROVE  ClientInv'
    BY <2>2, ConnectStep DEF DaemonInv
  <2>3. CASE WriteLine(a, l)
    BY <2>3, WriteLineStep
  <2>4. CASE CloseLog(a, l)
    BY <2>4, CloseLogStep
  <2>5. CASE DestroyHost(a, l)
    BY <2>5, DestroyHostStep
  <2> QED
    BY <1>3, <2>1, <2>2, <2>3, <2>4, <2>5 DEF Calls
<1>4. ASSUME NEW s \in Session, Surroundings(s) PROVE ClientInv'
  <2>1. CASE ServeRequest(s)
    BY <1>2, <2>1, ServeStep
  <2>2. CASE LoseConnection(s)
    BY <2>2, LoseConnectionStep
  <2>3. CASE EndSession(s)
    BY <2>3, EndSessionStep DEF DaemonInv
  <2> QED
    BY <1>4, <2>1, <2>2, <2>3 DEF Surroundings
<1>5. ASSUME NEW a \in App, Return(a) PROVE ClientInv'
  <2>1. Ready(a) /\ UNCHANGED vars
    BY <1>5 DEF Return
  <2>2. CASE Connected(a)
    BY <2>1, <2>2, ConnectedStep
  <2>3. CASE Opened(a)
    BY <2>1, <2>3, OpenedStep
  <2>4. CASE Wrote(a)
    BY <2>1, <2>4, WroteStep
  <2>5. CASE Closed(a)
    BY <2>1, <2>5, ClosedStep
  <2>6. CASE Disconnected(a)
    BY <2>1, <2>6, DisconnectedStep
  <2> QED
    BY <1>5, <2>2, <2>3, <2>4, <2>5, <2>6 DEF Return
<1>6. CASE UNCHANGED clientVars
  <2>1. /\ UNCHANGED <<local_client, remote_file, call, terminated, wire, broken,
                       deaf, returned, status, open_files>>
        /\ \A s \in Session : SessionKept(s)
    BY <1>6 DEF clientVars, vars, sessionVars, appVars, netVars, SessionKept
  <2>2. \A a \in App : AppKept(a)
    BY <2>1 DEF AppKept
  <2>3. ClientTypeOK'
    BY <2>1 DEF ClientInv, ClientTypeOK
  <2>4. \A a \in App :
          /\ Standing(a)'
          /\ \A s \in Session : Uses(a, s)' <=> Uses(a, s)
          /\ \A s \in Session : s \notin broken' /\ Uses(a, s)' => Served(a, s)'
    BY <2>1, <2>2, Bystander DEF ClientInv
  <2>5. UsersApart'
    BY <2>1, <2>4 DEF ClientInv, UsersApart
  <2>6. WiresInUse'
    <3>1. \A s \in Session : Held(s)' = Held(s)
      BY <2>1 DEF Held, IsOpen
    <3> QED
      BY <2>1, <2>4, <3>1 DEF ClientInv, WiresInUse
  <2>7. \A a \in App, s \in Session : s \notin broken' /\ Uses(a, s)' => Served(a, s)'
    BY <2>4
  <2>8. \A a \in App : Standing(a)'
    BY <2>4
  <2> QED
    BY <1>2, <2>3, <2>5, <2>6, <2>7, <2>8 DEF ClientInv
<1> QED
  BY <1>2, <1>3, <1>4, <1>5, <1>6 DEF ClientNext

LEMMA ClientInvariant == ClientSpec => [](DaemonInv /\ ClientInv)
BY ClientStart, ClientStep, PTL DEF ClientSpec

\* Whatever the applications do with the library, to the daemon it is a client
\* of module SessionFiles, so what is proved of that module's steps holds with
\* the library in front of it (ClientExecutor's requests, RealSession's act).
THEOREM ClientImplements == ClientSpec => Spec
<1>1. ClientInit => Init
  BY DEF ClientInit
<1>2. DaemonInv /\ ClientInv /\ [ClientNext]_clientVars => [Next]_vars
  BY ClientStepsNext DEF DaemonInv, ClientInv
<1> QED
  BY <1>1, <1>2, ClientInvariant, PTL DEF ClientSpec, Spec

-----------------------------------------------------------------------------
(* What it says of a Log and of its Host *)

LEMMA OpenLogsStayOpen == DaemonInv /\ ClientInv => LogStaysOpen
<1> SUFFICES ASSUME DaemonInv, ClientInv, NEW a \in App, NEW l \in Log,
                    remote_file[a][l].state = "open",
                    ~remote_file[a][l].overtaken,
                    local_client[a] \notin broken,
                    ~(call[a] # NoCall /\ call[a].op = "clos" /\ call[a].log = l)
             PROVE  /\ remote_file[a][l].file # NoHandle
                    /\ IsOpen(local_client[a], remote_file[a][l].file)
                    /\ open_files[local_client[a]][remote_file[a][l].file].filepath
                         = remote_file[a][l].path
  BY DEF LogStaysOpen
<1>1. /\ local_client[a] \in Session
      /\ remote_file[a][l].path \in Path
      /\ Uses(a, local_client[a])
  BY HasSession DEF ClientInv, Standing, Uses
<1> DEFINE s == local_client[a]
           h == remote_file[a][l].file
           p == remote_file[a][l].path
<1>2. h \in Handle /\ h = open_filehandles[s][p] /\ IsOpen(s, h)
  BY <1>1 DEF ClientInv, Served, LogServed, HandleFor, Calling
<1>3. open_files[s][h].filepath \in Path
  BY <1>1, <1>2 DEF DaemonInv, TypeOK, IsOpen, File
<1>4. open_filehandles[s][open_files[s][h].filepath] = h
  BY <1>1, <1>2 DEF DaemonInv, HandleNamesPath
<1> QED
  BY <1>1, <1>2, <1>3, <1>4, SentinelAssumption DEF DaemonInv, HandleNamesPath

\* What an open Log writes goes to the path it was opened for: its handle is
\* one the session has that path's file open under, as long as its connection
\* lasts and no other Log of the Host has closed the path.
THEOREM LogsStayOpen == ClientSpec => []LogStaysOpen
BY ClientInvariant, OpenLogsStayOpen, PTL

LEMMA FilesHaveLogs == ClientInv => NoFileLeaked
<1> SUFFICES ASSUME ClientInv, NEW a \in App, local_client[a] # NoSession,
                    local_client[a] \notin broken, call[a] = NoCall,
                    NEW p \in Held(local_client[a])
             PROVE  \E l \in Log : remote_file[a][l].state = "open"
                                     /\ remote_file[a][l].path = p
  BY DEF NoFileLeaked
<1>1. Served(a, local_client[a])
  BY HasSession DEF ClientInv, Uses
<1> QED
  BY <1>1 DEF Served, HeldFor, Executed

\* A path the daemon holds open for a Host has an open Log at it, when the Host
\* is in no call: nothing is left behind by opens that were refused or by Logs
\* that shared a path.
THEOREM NoLogNoFile == ClientSpec => []NoFileLeaked
BY FilesHaveLogs, ClientInvariant, PTL

\* Only a lost connection ends a process in a Log's destructor; that another
\* Log on the path has closed it does not.
THEOREM OnlyLossKills == ClientSpec => []RefusedCloseHarmless
<1>1. ClientInv => RefusedCloseHarmless
  BY DEF ClientInv, ClientTypeOK, Standing, RefusedCloseHarmless
<1> QED
  BY <1>1, ClientInvariant, PTL

-----------------------------------------------------------------------------
(* Lines in doubt: the messages of a session, request by request *)

\* A log that gets no message
NoMessage(p) ==
  \/ disk'[p] = disk[p]
  \/ \E s \in Session, what \in What \ {"message"} : Appends(p, s, what)

MessageAt(s, p, n) ==
  n \in DOMAIN disk[p] /\ disk[p][n] = [by |-> s, what |-> "message"]

LEMMA MessagesAre ==
  ASSUME NEW s \in Session
  PROVE  \A x : x \in Messages(s) <=>
                  \E p \in Path : \E n : MessageAt(s, p, n) /\ x = <<p, n>>
BY DEF Messages, MessageAt

LEMMA AppendedAt ==
  ASSUME NEW log \in Seq(Line), NEW line \in Line
  PROVE  /\ DOMAIN Append(log, line) = DOMAIN log \cup {Len(log) + 1}
         /\ Len(log) + 1 \notin DOMAIN log
         /\ Append(log, line)[Len(log) + 1] = line
         /\ \A n \in DOMAIN log : Append(log, line)[n] = log[n]
OBVIOUS

LEMMA MessagesKept ==
  ASSUME TypeOK, \A p \in Path : NoMessage(p), NEW s \in Session
  PROVE  Messages(s)' = Messages(s)
<1>1. ASSUME NEW p \in Path, NEW n
      PROVE  MessageAt(s, p, n)' <=> MessageAt(s, p, n)
  <2>1. CASE disk'[p] = disk[p]
    BY <2>1 DEF MessageAt
  <2>2. ASSUME NEW t \in Session, NEW what \in What \ {"message"},
               Appends(p, t, what)
        PROVE  MessageAt(s, p, n)' <=> MessageAt(s, p, n)
    <3> DEFINE line == [by |-> t, what |-> what]
    <3>1. line \in Line /\ disk[p] \in Seq(Line)
      BY DEF Line, TypeOK
    <3>2. line # [by |-> s, what |-> "message"]
      OBVIOUS
    <3>3. disk'[p] = Append(disk[p], line)
      BY <2>2 DEF Appends
    <3> HIDE DEF line
    <3> QED
      BY <3>1, <3>2, <3>3, AppendedAt DEF MessageAt
  <2> QED
    BY <2>1, <2>2 DEF NoMessage
<1>2. \A x : x \in Messages(s)' <=>
               \E p \in Path : \E n : MessageAt(s, p, n)' /\ x = <<p, n>>
  BY DEF Messages, MessageAt
<1> QED
  BY <1>1, <1>2, MessagesAre

LEMMA MessageAdded ==
  ASSUME TypeOK, NEW s \in Session, NEW q \in Path, Appends(q, s, "message"),
         \A p \in Path \ {q} : disk'[p] = disk[p]
  PROVE  /\ Messages(s)' = Messages(s) \cup {<<q, Len(disk[q]) + 1>>}
         /\ <<q, Len(disk[q]) + 1>> \notin Messages(s)
         /\ \A t \in Session \ {s} : Messages(t)' = Messages(t)
<1> DEFINE line == [by |-> s, what |-> "message"]
           last == Len(disk[q]) + 1
<1>1. line \in Line /\ disk[q] \in Seq(Line) /\ disk'[q] = Append(disk[q], line)
  BY DEF Line, What, TypeOK, Appends
<1>2. \A t \in Session, p \in Path : \A n :
        MessageAt(t, p, n)' <=>
          MessageAt(t, p, n) \/ (t = s /\ p = q /\ n = last)
  <2> SUFFICES ASSUME NEW t \in Session, NEW p \in Path, NEW n
               PROVE  MessageAt(t, p, n)' <=>
                        MessageAt(t, p, n) \/ (t = s /\ p = q /\ n = last)
    OBVIOUS
  <2>1. CASE p # q
    BY <2>1 DEF MessageAt
  <2>2. CASE p = q
    <3>1. line = [by |-> t, what |-> "message"] <=> t = s
      OBVIOUS
    <3> HIDE DEF line
    <3> QED
      BY <1>1, <2>2, <3>1, AppendedAt DEF MessageAt
  <2> QED
    BY <2>1, <2>2
<1>3. ~MessageAt(s, q, last)
  BY <1>1, AppendedAt DEF MessageAt
<1>4. \A t \in Session : \A x :
        x \in Messages(t)' <=>
          \E p \in Path : \E n : MessageAt(t, p, n)' /\ x = <<p, n>>
  BY DEF Messages, MessageAt
<1>5. ASSUME NEW t \in Session \ {s} PROVE Messages(t)' = Messages(t)
  <2>1. \A p \in Path : \A n : MessageAt(t, p, n)' <=> MessageAt(t, p, n)
    BY <1>2
  <2>2. \A x : x \in Messages(t)' <=> x \in Messages(t)
    BY <1>4, <2>1, MessagesAre
  <2> QED
    BY <2>2
<1>6. Messages(s)' = Messages(s) \cup {<<q, last>>}
  <2> HIDE DEF last
  <2> QED
    BY <1>2, <1>4, MessagesAre
<1>7. <<q, last>> \notin Messages(s)
  <2> HIDE DEF last
  <2> QED
    BY <1>3, MessagesAre
<1> QED
  BY <1>5, <1>6, <1>7

LEMMA MessageWritten ==
  ASSUME DaemonInv, Unwritable = {}, NEW s \in Session, NEW fh \in Handle,
         WriteMessage(s, fh)
  PROVE  IF reply'[s] = "ackn"
           THEN \E q \in Path : /\ Appends(q, s, "message")
                                /\ \A p \in Path \ {q} : disk'[p] = disk[p]
           ELSE disk' = disk
<1>1. CASE IsOpen(s, fh) /\ write_message(s, fh, "message") /\ Returns(s, "ackn")
  <2> DEFINE f == open_files[s][fh]
  <2>1. f \in File /\ "message" \in What
    BY <1>1 DEF DaemonInv, TypeOK, IsOpen, What
  <2>2. f.filepath \in Path
    BY <2>1 DEF File
  <2>3. disk' = Written(disk, f, s, "message") /\ exists' = Touched(f.filepath)
    BY <1>1 DEF write_message
  <2>4. reply'[s] = "ackn"
    BY <1>1 DEF Returns, DaemonInv, TypeOK
  <2> HIDE DEF f
  <2>5. Appends(f.filepath, s, "message")
    BY <2>1, <2>2, <2>3, WrittenAppends DEF DaemonInv
  <2>6. \A p \in Path \ {f.filepath} : disk'[p] = disk[p]
    BY <2>1, <2>3, WrittenAppends DEF DaemonInv
  <2> QED
    BY <2>2, <2>4, <2>5, <2>6
<1>2. CASE Refuse(s)
  <2>1. reply'[s] = "nack" /\ disk' = disk
    BY <1>2 DEF Refuse, Returns, fileVars, DaemonInv, TypeOK
  <2> QED
    BY <2>1
<1> QED
  BY <1>1, <1>2 DEF WriteMessage

\* Only a "mesg" that is acknowledged writes a message.
LEMMA QuietRequest ==
  ASSUME DaemonInv, ClientInv, Unwritable = {}, NEW s \in Session,
         ServeRequest(s), ~(wire[s].op = "mesg" /\ reply'[s] = "ackn")
  PROVE  \A p \in Path : NoMessage(p)
<1> SUFFICES ASSUME NEW p \in Path PROVE NoMessage(p)
  OBVIOUS
<1>1. /\ wire[s] # NoRequest /\ wire[s] \in Request /\ Act(s, wire[s])
      /\ wire[s].op = "open" => wire[s].path \in Path
      /\ wire[s].op \in {"mesg", "clos"} => wire[s].file \in Handle
  BY DEF ServeRequest, ClientInv, ClientTypeOK, WiresInUse
<1>2. CASE disk' = disk
  BY <1>2 DEF NoMessage
<1>3. ASSUME NEW f \in File, NEW what \in What \ {"message"},
             disk' = Written(disk, f, s, what), exists' = Touched(f.filepath)
      PROVE  NoMessage(p)
  BY <1>3, WrittenAppends DEF DaemonInv, NoMessage
<1>4. CASE SetClientInfo(s)
  BY <1>2, <1>4 DEF SetClientInfo, fileVars
<1>5. ASSUME OpenFile(s, wire[s].path), wire[s].path \in Path PROVE NoMessage(p)
  <2>1. CASE OpenFileThrows(s, wire[s].path)
    BY <1>2, <2>1 DEF OpenFileThrows, fileVars
  <2>2. CASE ~OpenFileThrows(s, wire[s].path)
    <3>1. "opened" \in What \ {"message"}
      BY DEF What
    <3>2. PICK f \in File : /\ disk' = Written(disk, f, s, "opened")
                            /\ exists' = Touched(f.filepath)
      BY <1>5, <2>2, OpenFileAppends DEF DaemonInv
    <3> QED
      BY <1>3, <3>1, <3>2
  <2> QED
    BY <2>1, <2>2
<1>6. CASE wire[s].op = "mesg"
  <2>1. WriteMessage(s, wire[s].file) /\ wire[s].file \in Handle
    BY <1>1, <1>6 DEF Act
  <2> QED
    BY <1>2, <1>6, <2>1, MessageWritten
<1>7. ASSUME NEW fh \in Handle, CloseFile(s, fh) PROVE NoMessage(p)
  <2>1. CASE Refuse(s)
    BY <1>2, <2>1 DEF Refuse, fileVars
  <2>2. CASE IsOpen(s, fh) /\ write_message(s, fh, "closed")
    <3>1. open_files[s][fh] \in File /\ "closed" \in What \ {"message"}
      BY <2>2 DEF DaemonInv, TypeOK, IsOpen, What
    <3> QED
      BY <1>3, <2>2, <3>1 DEF write_message
  <2> QED
    BY <1>7, <2>1, <2>2 DEF CloseFile
<1>8. CASE DisconnectClient(s, client_handle[s])
  <2>1. disk' = [q \in Path |->
                   IF q \in Held(s) \ Unwritable
                     THEN Append(disk[q], [by |-> s, what |-> "disconnected"])
                     ELSE disk[q]]
    BY <1>8 DEF DisconnectClient
  <2>2. disk'[p] = disk[p] \/ Appends(p, s, "disconnected")
    BY <2>1 DEF Appends
  <2>3. "disconnected" \in What \ {"message"}
    BY DEF What
  <2> QED
    BY <2>2, <2>3 DEF NoMessage
<1> QED
  BY <1>1, <1>4, <1>5, <1>6, <1>7, <1>8 DEF Act

-----------------------------------------------------------------------------
(* Lines in doubt, step by step *)

\* A step that is neither about a message nor about s losing its connection
LEMMA DoubtKept ==
  ASSUME NEW s \in Session, Doubt(s), Messages(s)' = Messages(s),
         returned'[s] = returned[s], s \in broken' <=> s \in broken,
         s \in broken /\ wire'[s] # NoRequest => wire'[s] = wire[s],
         s \notin broken =>
           \A a \in App : Confirmed(a, s)' <=> Confirmed(a, s)
  PROVE  Doubt(s)'
<1>1. CASE s \in broken
  BY <1>1 DEF Doubt
<1>2. CASE s \notin broken
  BY <1>2 DEF Doubt
<1> QED
  BY <1>1, <1>2

\* Only one application waits on a session.
LEMMA OneConfirmed ==
  ASSUME ClientInv, NEW s \in Session, NEW a \in App, NEW b \in App,
         Uses(a, s), Confirmed(b, s)
  PROVE  a = b
BY DEF ClientInv, UsersApart, Uses, Confirmed, Calling

LEMMA DoubtCalls ==
  ASSUME TypeOK, ClientInv, ClientInv', DoubtInv,
         NEW a \in App, NEW l \in Log, Calls(a, l)
  PROVE  DoubtInv'
<1> SUFFICES ASSUME NEW s \in Session PROVE Doubt(s)'
  BY DEF DoubtInv
<1> DEFINE Quiet == call[a] = NoCall /\ UNCHANGED <<disk, reply, returned, broken>>
           Sends == \E t \in Session, op \in Op, p \in Path \cup {NoPath},
                       f \in Handle \cup {NoHandle} : send(a, t, op, l, p, f)
<1>1. Quiet /\ Sends
  <2> USE DEF Idle, vars, sessionVars, fileVars, Op
  <2>1. local_client[a] # NoSession => local_client[a] \in Session
    BY HasSession DEF ClientInv
  <2>2. remote_file[a][l].state = "open" => local_client[a] # NoSession
    BY DEF ClientInv, Standing
  <2>3. remote_file[a][l].file \in Handle \cup {NoHandle}
    <3>1. remote_file[a][l] \in LogObject
      BY DEF ClientInv, ClientTypeOK
    <3> QED
      BY <3>1 DEF LogObject
  <2>4. CASE WriteLine(a, l)
    BY <2>1, <2>2, <2>3, <2>4 DEF WriteLine
  <2>5. CASE CloseLog(a, l)
    BY <2>1, <2>2, <2>3, <2>5 DEF CloseLog
  <2>6. CASE DestroyHost(a, l)
    BY <2>1, <2>6 DEF DestroyHost
  <2>7. ASSUME NEW p \in Path, OpenLog(a, l, p) PROVE Quiet /\ Sends
    BY <2>1, <2>7 DEF OpenLog
  <2>8. ASSUME NEW p \in Path, NEW t \in Session, ConnectAndOpen(a, l, p, t)
        PROVE  Quiet /\ Sends
    BY <2>8 DEF ConnectAndOpen, CreateSession
  <2> QED
    BY <2>4, <2>5, <2>6, <2>7, <2>8 DEF Calls
<1>2. PICK t \in Session, op \in Op, p \in Path \cup {NoPath},
           f \in Handle \cup {NoHandle} : send(a, t, op, l, p, f)
  BY <1>1
<1> DEFINE c   == [op |-> op, log |-> l, session |-> t]
           req == [op |-> op, path |-> p, file |-> f]
<1>3. /\ call'[a] # NoCall /\ call'[a] = c
      /\ \A b \in App \ {a} : call'[b] = call[b]
      /\ \A u \in Session : wire'[u] = wire[u] \/ (u = t /\ t \notin broken)
      /\ t \notin broken => wire'[t] # NoRequest
  <2>1. c \in Call /\ req \in Request
    BY DEF Call, Request
  <2>2. /\ call' = [call EXCEPT ![a] = c]
        /\ wire' = IF t \in broken THEN wire ELSE [wire EXCEPT ![t] = req]
    BY <1>2 DEF send
  <2> HIDE DEF c, req
  <2> QED
    BY <2>1, <2>2, SendEffect DEF ClientInv
<1>4. Uses(a, t)'
  BY <1>3 DEF Uses
<1>5. ASSUME NEW b \in App, s \notin broken
      PROVE  Confirmed(b, s)' <=> Confirmed(b, s)
  <2>1. CASE b = a
    BY <1>1, <1>3, <1>5, <2>1 DEF Confirmed, Calling
  <2>2. CASE b # a /\ s # t
    BY <1>1, <1>3, <2>2 DEF Confirmed, Calling
  <2>3. CASE b # a /\ s = t
    <3>1. ~Uses(b, s)'
      BY <1>4, <2>3 DEF ClientInv, UsersApart
    <3>2. call'[b] = call[b]
      BY <1>3, <2>3
    <3> QED
      BY <3>1, <3>2 DEF Uses, Confirmed, Calling
  <2> QED
    BY <2>1, <2>2, <2>3
<1>6. Messages(s)' = Messages(s)
  BY <1>1 DEF Messages
<1> QED
  BY <1>1, <1>3, <1>5, <1>6, DoubtKept DEF DoubtInv

LEMMA DoubtServe ==
  ASSUME DaemonInv, ClientInv, DoubtInv, Unwritable = {},
         NEW r \in Session, ServeRequest(r)
  PROVE  DoubtInv'
<1> SUFFICES ASSUME NEW s \in Session PROVE Doubt(s)'
  BY DEF DoubtInv
<1>1. /\ wire[r] # NoRequest /\ wire'[r] = NoRequest /\ Act(r, wire[r])
      /\ \A t \in Session \ {r} : wire'[t] = wire[t]
      /\ UNCHANGED <<local_client, remote_file, call, returned, broken>>
  BY DEF ServeRequest, appVars, ClientInv, ClientTypeOK
<1>2. Doubt(s) /\ \A t \in Session \ {r} : reply'[t] = reply[t]
  BY ServeExecutes, OtherSessionsKept
  DEF DoubtInv, DaemonInv, ClientInv, SessionKept
<1>3. CASE s # r /\ Messages(s)' = Messages(s)
  <2>1. \A a \in App : Confirmed(a, s)' <=> Confirmed(a, s)
    BY <1>1, <1>2, <1>3 DEF Confirmed, Calling
  <2> QED
    BY <1>1, <1>2, <1>3, <2>1, DoubtKept
<1>4. \A a \in App : ~Confirmed(a, r)
  BY <1>1 DEF Confirmed
<1>5. CASE ~(wire[r].op = "mesg" /\ reply'[r] = "ackn")
  <2>1. Messages(s)' = Messages(s)
    BY <1>5, QuietRequest, MessagesKept DEF DaemonInv
  <2>2. CASE s = r
    <3>1. ASSUME NEW a \in App, s \notin broken PROVE ~Confirmed(a, s)'
      <4> SUFFICES ASSUME Confirmed(a, s)' PROVE FALSE
        OBVIOUS
      <4>1. Calling(a, "mesg") /\ Uses(a, s) /\ reply'[s] = "ackn"
        BY <1>1 DEF Confirmed, Calling, Uses
      <4>2. wire[s] = Asked(a)
        BY <1>1, <2>2, <3>1, <4>1 DEF ClientInv, Served, Answered
      <4> QED
        BY <1>5, <2>2, <4>1, <4>2 DEF Asked, Calling
    <3> QED
      BY <1>1, <1>2, <1>4, <2>1, <2>2, <3>1, DoubtKept
  <2> QED
    BY <1>3, <2>1, <2>2
<1>6. CASE wire[r].op = "mesg" /\ reply'[r] = "ackn"
  <2>1. WriteMessage(r, wire[r].file) /\ wire[r].file \in Handle
    BY <1>1, <1>6 DEF Act, ClientInv, WiresInUse
  <2>2. PICK q \in Path : /\ Appends(q, r, "message")
                          /\ \A p \in Path \ {q} : disk'[p] = disk[p]
    BY <1>6, <2>1, MessageWritten
  <2>3. /\ Messages(r)' = Messages(r) \cup {<<q, Len(disk[q]) + 1>>}
        /\ <<q, Len(disk[q]) + 1>> \notin Messages(r)
        /\ \A t \in Session \ {r} : Messages(t)' = Messages(t)
    BY <2>2, MessageAdded DEF DaemonInv
  <2>4. CASE s = r
    <3>1. /\ Cardinality(Messages(s)) = returned[s]
          /\ IsFiniteSet(Messages(s)) /\ returned[s] \in Nat
      BY <1>1, <1>2, <1>4, <1>6, <2>4 DEF Doubt, ClientInv, ClientTypeOK
    <3>2. /\ IsFiniteSet(Messages(s)')
          /\ Cardinality(Messages(s)') = returned'[s] + 1
      BY <1>1, <2>3, <2>4, <3>1, FS_AddElement
    <3>3. ASSUME s \notin broken PROVE \E a \in App : Confirmed(a, s)'
      <4>1. PICK a \in App : Uses(a, s)
        BY <1>1, <2>4, <3>3 DEF ClientInv, WiresInUse
      <4>2. call[a] # NoCall /\ wire[s] = Asked(a)
        BY <1>1, <2>4, <3>3, <4>1 DEF ClientInv, Served, Answered
      <4>3. call[a].op = "mesg"
        BY <1>6, <2>4, <4>2 DEF Asked
      <4>4. call[a].session = s
        BY <4>1, <4>2, <4>3 DEF Uses, ClientInv, Standing
      <4> QED
        BY <1>1, <1>6, <2>4, <4>2, <4>3, <4>4 DEF Confirmed, Calling
    <3> QED
      BY <1>1, <2>4, <3>1, <3>2, <3>3 DEF Doubt
  <2> QED
    BY <1>3, <2>3, <2>4
<1> QED
  BY <1>5, <1>6

LEMMA DoubtLose ==
  ASSUME ClientInv, DoubtInv, NEW r \in Session, LoseConnection(r)
  PROVE  DoubtInv'
<1> SUFFICES ASSUME NEW s \in Session PROVE Doubt(s)'
  BY DEF DoubtInv
<1>1. /\ UNCHANGED <<disk, reply, call, returned>>
      /\ r \notin broken /\ broken' = broken \cup {r}
      /\ wire'[r] \in {wire[r], NoRequest}
      /\ \A t \in Session \ {r} : wire'[t] = wire[t]
  BY DEF LoseConnection, ClientInv, ClientTypeOK, vars, sessionVars, fileVars,
     appVars
<1>2. Doubt(s) /\ Messages(s)' = Messages(s)
  BY <1>1 DEF DoubtInv, Messages
<1>3. CASE s # r
  <2>1. \A a \in App : Confirmed(a, s)' <=> Confirmed(a, s)
    BY <1>1, <1>3 DEF Confirmed, Calling
  <2> QED
    BY <1>1, <1>2, <1>3, <2>1, DoubtKept
<1>4. CASE s = r
  <2>1. wire[s] # NoRequest => \A a \in App : ~Confirmed(a, s)
    BY DEF Confirmed
  <2>2. returned[s] \in Nat
    BY DEF ClientInv, ClientTypeOK
  <2> QED
    BY <1>1, <1>2, <1>4, <2>1, <2>2 DEF Doubt
<1> QED
  BY <1>3, <1>4

\* Another session than the one a return is about
LEMMA DoubtElsewhere ==
  ASSUME DoubtInv, NEW a \in App, NEW s \in Session, call[a].session # s,
         UNCHANGED <<disk, reply>>, returned'[s] = returned[s],
         s \in broken' <=> s \in broken, wire'[s] = wire[s],
         call'[a] # NoCall => call'[a].session # s,
         \A b \in App \ {a} : call'[b] = call[b]
  PROVE  Doubt(s)'
<1>1. Doubt(s) /\ Messages(s)' = Messages(s)
  BY DEF DoubtInv, Messages
<1>2. \A b \in App : Confirmed(b, s)' <=> Confirmed(b, s)
  BY DEF Confirmed, Calling
<1> QED
  BY <1>1, <1>2, DoubtKept

\* The return of a call other than writeln's
LEMMA DoubtOther ==
  ASSUME ClientInv, DoubtInv, NEW a \in App, NEW s \in Session,
         call[a] # NoCall, call[a].session = s, call[a].op # "mesg",
         UNCHANGED <<disk, reply>>, returned'[s] = returned[s],
         s \in broken' <=> s \in broken,
         s \in broken => wire'[s] = wire[s],
         call'[a] = NoCall \/ call'[a].op # "mesg",
         \A b \in App \ {a} : call'[b] = call[b]
  PROVE  Doubt(s)'
<1>1. Doubt(s) /\ Messages(s)' = Messages(s)
  BY DEF DoubtInv, Messages
<1>2. ASSUME NEW b \in App PROVE ~Confirmed(b, s) /\ ~Confirmed(b, s)'
  <2>1. CASE b = a
    BY <2>1 DEF Confirmed, Calling
  <2>2. CASE b # a
    <3>1. ~Uses(b, s)
      BY <2>2 DEF ClientInv, UsersApart, Uses
    <3> QED
      BY <2>2, <3>1 DEF Uses, Confirmed, Calling
  <2> QED
    BY <2>1, <2>2
<1> QED
  BY <1>1, <1>2, DoubtKept

LEMMA DoubtWrote ==
  ASSUME ClientInv, DoubtInv, NEW a \in App, NEW s \in Session, NEW l \in Log,
         Returning(a, s, l), Wrote(a), UNCHANGED vars
  PROVE  Doubt(s)'
<1>1. /\ call[a] # NoCall /\ call[a].session = s /\ call[a].op = "mesg"
      /\ UNCHANGED <<disk, reply, broken, wire>>
      /\ call' = [call EXCEPT ![a] = NoCall]
      /\ returned' = IF Succeeds(a) THEN [returned EXCEPT ![s] = @ + 1] ELSE returned
  BY DEF Returning, Wrote, netVars, vars, sessionVars, fileVars
<1>2. call'[a] = NoCall /\ \A b \in App \ {a} : call'[b] = call[b]
  BY <1>1 DEF ClientInv, ClientTypeOK
<1>3. Doubt(s) /\ Messages(s)' = Messages(s) /\ returned[s] \in Nat
  BY <1>1 DEF DoubtInv, Messages, ClientInv, ClientTypeOK
<1>4. Throws(a) <=> s \in broken
  BY <1>1 DEF Throws
<1>5. CASE s \in broken
  <2>1. returned' = returned
    BY <1>1, <1>4, <1>5 DEF Succeeds
  <2> QED
    BY <1>1, <1>3, <1>5, <2>1, DoubtKept
<1>6. CASE s \notin broken
  <2>1. wire[s] = NoRequest /\ reply[s] \in {"ackn", "nack"}
    BY <1>1, <1>6 DEF Returning, Served, Answered, Fitting
  <2>2. Succeeds(a) <=> reply[s] = "ackn"
    <3>1. remote_file[a][call[a].log].error = FALSE
      <4>1. remote_file[a][call[a].log] \in LogObject
        BY <1>1 DEF ClientInv, ClientTypeOK, Call
      <4> QED
        BY <4>1 DEF LogObject
    <3> QED
      BY <1>1, <1>4, <1>6, <2>1, <3>1 DEF Succeeds, Answer
  <2>3. Confirmed(a, s) <=> reply[s] = "ackn"
    BY <1>1, <2>1 DEF Confirmed, Calling
  <2>4. \A b \in App \ {a} : ~Confirmed(b, s)
    BY <1>1, OneConfirmed DEF Uses
  <2>5. \A b \in App : ~Confirmed(b, s)'
    BY <1>1, <1>2, <2>4 DEF Confirmed, Calling
  <2>6. returned'[s] = IF reply[s] = "ackn" THEN returned[s] + 1 ELSE returned[s]
    BY <1>1, <2>2 DEF ClientInv, ClientTypeOK
  <2>7. /\ IsFiniteSet(Messages(s))
        /\ Cardinality(Messages(s)) = returned'[s]
    BY <1>3, <1>6, <2>3, <2>4, <2>6 DEF Doubt
  <2> QED
    BY <1>1, <1>3, <1>6, <2>5, <2>7 DEF Doubt
<1> QED
  BY <1>5, <1>6

LEMMA DoubtReturn ==
  ASSUME ClientInv, DoubtInv, NEW a \in App, Return(a)
  PROVE  DoubtInv'
<1>1. Ready(a) /\ UNCHANGED vars /\ UNCHANGED <<disk, reply>>
  BY DEF Return, vars, sessionVars, fileVars
<1>2. PICK s \in Session, l \in Log : Returning(a, s, l)
  BY <1>1, ReturnFacts
<1>3. call[a] # NoCall /\ call[a].session = s /\ (s \notin broken => wire[s] = NoRequest)
  BY <1>2 DEF Returning
<1>4. CASE Connected(a)
  <2>1. s \notin broken => reply[s] = "clnh"
    BY <1>2, <1>4 DEF Returning, Connected, Served, Answered, Fitting
  <2>2. CASE s \notin broken
    <3> DEFINE c   == [op |-> "open", log |-> l, session |-> s]
               req == [op |-> "open", path |-> remote_file[a][l].path,
                       file |-> NoHandle]
    <3>1. ~Throws(a) /\ Answer(a) = "clnh"
      BY <1>3, <2>1, <2>2 DEF Throws, Answer
    <3>2. call[a].log = l /\ call[a].op = "clnt"
      BY <1>2, <1>4 DEF Returning, Connected
    <3>3. /\ send(a, s, "open", l, remote_file[a][l].path, NoHandle)
          /\ UNCHANGED <<returned, broken>>
      BY <1>3, <1>4, <3>1, <3>2 DEF Connected
    <3>4. /\ call' = [call EXCEPT ![a] = c]
          /\ wire' = [wire EXCEPT ![s] = req]
      BY <2>2, <3>3 DEF send
    <3>5. /\ call'[a] = c /\ \A b \in App \ {a} : call'[b] = call[b]
          /\ \A t \in Session \ {s} : wire'[t] = wire[t]
      BY <3>4 DEF ClientInv, ClientTypeOK
    <3>6. call'[a].op # "mesg" /\ call'[a].session = s
      BY <3>5
    <3>7. Doubt(s)'
      BY <1>1, <1>3, <2>2, <3>2, <3>3, <3>5, <3>6, DoubtOther
    <3>8. ASSUME NEW t \in Session \ {s} PROVE Doubt(t)'
      BY <1>1, <1>3, <3>3, <3>5, <3>6, DoubtElsewhere
    <3> QED
      BY <3>7, <3>8 DEF DoubtInv
  <2>3. CASE s \in broken
    <3>1. /\ call' = [call EXCEPT ![a] = NoCall]
          /\ UNCHANGED <<wire, returned>> /\ broken' = broken \cup {s}
      BY <1>3, <1>4, <2>3 DEF Connected, Throws
    <3>2. /\ call'[a] = NoCall /\ \A b \in App \ {a} : call'[b] = call[b]
          /\ broken' = broken
      BY <2>3, <3>1 DEF ClientInv, ClientTypeOK
    <3>3. Doubt(s)'
      BY <1>1, <1>3, <1>4, <3>1, <3>2, DoubtOther DEF Connected
    <3>4. ASSUME NEW t \in Session \ {s} PROVE Doubt(t)'
      BY <1>1, <1>3, <3>1, <3>2, DoubtElsewhere
    <3> QED
      BY <3>3, <3>4 DEF DoubtInv
  <2> QED
    BY <2>2, <2>3
<1>5. CASE Opened(a) \/ Closed(a) \/ Disconnected(a)
  <2>1. /\ call' = [call EXCEPT ![a] = NoCall] /\ call[a].op # "mesg"
        /\ UNCHANGED <<wire, returned, broken>>
    BY <1>5 DEF Opened, Closed, Disconnected, netVars
  <2>2. call'[a] = NoCall /\ \A b \in App \ {a} : call'[b] = call[b]
    BY <2>1 DEF ClientInv, ClientTypeOK
  <2>3. Doubt(s)'
    BY <1>1, <1>3, <2>1, <2>2, DoubtOther
  <2>4. ASSUME NEW t \in Session \ {s} PROVE Doubt(t)'
    BY <1>1, <1>3, <2>1, <2>2, DoubtElsewhere
  <2> QED
    BY <2>3, <2>4 DEF DoubtInv
<1>6. CASE Wrote(a)
  <2>1. /\ call' = [call EXCEPT ![a] = NoCall] /\ UNCHANGED <<wire, broken>>
        /\ \A t \in Session \ {s} : returned'[t] = returned[t]
    BY <1>3, <1>6 DEF Wrote, netVars, ClientInv, ClientTypeOK
  <2>2. call'[a] = NoCall /\ \A b \in App \ {a} : call'[b] = call[b]
    BY <2>1 DEF ClientInv, ClientTypeOK
  <2>3. Doubt(s)'
    BY <1>1, <1>2, <1>6, DoubtWrote
  <2>4. ASSUME NEW t \in Session \ {s} PROVE Doubt(t)'
    BY <1>1, <1>3, <2>1, <2>2, DoubtElsewhere
  <2> QED
    BY <2>3, <2>4 DEF DoubtInv
<1> QED
  BY <1>4, <1>5, <1>6 DEF Return

LEMMA DoubtStart == ClientInit => DoubtInv
<1> SUFFICES ASSUME ClientInit, NEW s \in Session PROVE Doubt(s)
  BY DEF DoubtInv
<1>1. Messages(s) = {}
  BY DEF ClientInit, Init, Messages
<1>2. IsFiniteSet(Messages(s)) /\ Cardinality(Messages(s)) = 0
  BY <1>1, FS_EmptySet
<1>3. returned[s] = 0 /\ s \notin broken /\ \A a \in App : ~Confirmed(a, s)
  BY DEF ClientInit, Confirmed, Calling
<1> QED
  BY <1>2, <1>3 DEF Doubt

LEMMA DoubtStep ==
  ASSUME Unwritable = {}
  PROVE  DaemonInv /\ ClientInv /\ DoubtInv /\ [ClientNext]_clientVars
           => DoubtInv'
<1> SUFFICES ASSUME DaemonInv, ClientInv, DoubtInv, [ClientNext]_clientVars
             PROVE  DoubtInv'
  OBVIOUS
<1>1. ClientInv'
  BY ClientStep
<1>2. ASSUME NEW a \in App, NEW l \in Log, Calls(a, l) PROVE DoubtInv'
  BY <1>1, <1>2, DoubtCalls DEF DaemonInv
<1>3. ASSUME NEW s \in Session, Surroundings(s) PROVE DoubtInv'
  <2>1. CASE ServeRequest(s)
    BY <2>1, DoubtServe
  <2>2. CASE LoseConnection(s)
    BY <2>2, DoubtLose
  <2>3. CASE EndSession(s)
    BY <2>3 DEF EndSession, DestroySession, fileVars, appVars, netVars,
       DoubtInv, Doubt, Messages, Confirmed, Calling
  <2> QED
    BY <1>3, <2>1, <2>2, <2>3 DEF Surroundings
<1>4. ASSUME NEW a \in App, Return(a) PROVE DoubtInv'
  BY <1>4, DoubtReturn
<1>5. CASE UNCHANGED clientVars
  BY <1>5 DEF clientVars, vars, sessionVars, fileVars, appVars, netVars,
     DoubtInv, Doubt, Messages, Confirmed, Calling
<1> QED
  BY <1>2, <1>3, <1>4, <1>5 DEF ClientNext

LEMMA DoubtIsBounded == ClientInv /\ DoubtInv => AtMostOneLineInDoubt
<1> SUFFICES ASSUME ClientInv, DoubtInv, NEW s \in Session
             PROVE  LET inDoubt == Cardinality(Messages(s)) - returned[s]
                    IN  /\ inDoubt \in {0, 1}
                        /\ inDoubt = 1 =>
                             \/ s \in broken
                             \/ \E a \in App : call[a] # NoCall
                                  /\ call[a].op = "mesg" /\ call[a].session = s
  BY DEF AtMostOneLineInDoubt
<1>1. Doubt(s) /\ returned[s] \in Nat
  BY DEF DoubtInv, ClientInv, ClientTypeOK
<1>2. \A a \in App : Confirmed(a, s) =>
        call[a] # NoCall /\ call[a].op = "mesg" /\ call[a].session = s
  BY DEF Confirmed, Calling
<1> QED
  BY <1>1, <1>2 DEF Doubt

\* Where the daemon can write all paths: a line for which writeln returned is
\* in a log, one for which it threw FileWriteError is not, and one line at most
\* is in doubt: the one under way, or the last of a connection that was lost.
THEOREM OneLineInDoubt ==
  ASSUME Unwritable = {}
  PROVE  ClientSpec => []AtMostOneLineInDoubt
<1>1. DaemonInv /\ ClientInv /\ DoubtInv /\ [ClientNext]_clientVars => DoubtInv'
  BY DoubtStep
<1> QED
  BY <1>1, DoubtStart, DoubtIsBounded, ClientInvariant, PTL DEF ClientSpec
=============================================================================
