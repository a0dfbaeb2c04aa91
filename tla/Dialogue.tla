------------------------------ MODULE Dialogue ------------------------------
(***************************************************************************)
(* What a client says to its session and what comes of it, data and all:   *)
(* the requests of LocalClient and ConnectedLogFile are coded, read, acted *)
(* out on the session, which writes lines; the reply is coded, read and    *)
(* acted out on the client.  The two directions are the streams of module  *)
(* ProtocolObjects, once as it is and once under other names.              *)
(*                                                                         *)
(* Here a session is alone, and a file fails only when it is opened;       *)
(* sharing, closing and lost lines are the matter of SessionFiles.         *)
(***************************************************************************)
EXTENDS ProtocolObjects, Timestamps, FiniteSets

CONSTANTS
  Name,         \* the names of applications
  Path,         \* the names of files
  Text,         \* what is logged
  InvalidPath,  \* the name that a half created File has: "invalid path"
  Unopenable,   \* paths that filesystem::exists may throw at, now or later
  Reason,       \* the texts of exceptions, none of them empty
  Number,       \* what counters of handles may stand at
  Clock         \* the times at which lines are written

\* Names, texts and reasons are bytes, fewer than a length of four bytes counts
\* with an address before them; and four bytes are enough for all handles.
Word == 0..(Base * Base * Base * Base - 1)
ASSUME TextAssumption ==
  \A s \in Name \cup Path \cup Text \cup Reason :
    s \in Seq({B(n) : n \in 0..(Base - 1)}) /\ Len(s) + 17 \in Word
ASSUME NumberAssumption == \A n \in Number : n \in Nat /\ n + MaxObjects \in Word
ASSUME ClockAssumption == Clock \subseteq Time

VARIABLES
  replied, back, awaited, answers, confused,   \* the stream of replies
  \* LocalClient and its ConnectedLogFile, one at a time
  client_handle, file, file_path,
  thrown,   \* the exception that the last call of the library ended with
  \* RealSession, with the file handles it has given out and those in use
  own_handle, client_name, client_address, file_handle_counter,
  open_filehandles, open_files,
  lines   \* what it has written

Back == INSTANCE ProtocolObjects WITH
          sent <- replied, stream <- back, receivable <- awaited,
          received <- answers, failed <- confused

backVars == <<replied, back, awaited, answers, confused>>
logVars == <<file, file_path>>   \* a ConnectedLogFile's
clientVars == <<client_handle, logVars, thrown>>
whoVars == <<own_handle, client_name, client_address>>
fileVars == <<file_handle_counter, open_filehandles, open_files>>
sessionVars == <<whoVars, fileVars, lines>>
dialogueVars == <<vars, backVars, clientVars, sessionVars>>

None == -1   \* the handle of a client or file that is not there

-----------------------------------------------------------------------------
(* Exceptions of the client library *)

NotThrown == [class |-> "none"]

OpenFileError(filename, reason) ==
  [class |-> "OpenFileError", filename |-> filename, reason |-> reason]

FileWriteError(filename, reason) ==
  [class |-> "FileWriteError", filename |-> filename, reason |-> reason]

UnableToConnectError(s) == [class |-> "UnableToConnectError", reason |-> s]

-----------------------------------------------------------------------------

DialogueInit ==
  /\ Init
  /\ Back!Init
  /\ client_handle = None
  /\ file = None
  /\ file_path = <<>>
  /\ thrown = NotThrown
  /\ own_handle \in Number            \* other clients came before
  /\ client_name = <<>>
  /\ client_address = "none"
  /\ file_handle_counter \in Number   \* it opened other files before
  /\ open_filehandles = <<>>
  /\ open_files = {}
  /\ lines = <<>>

-----------------------------------------------------------------------------
(* Requests of the client, which awaits the answer to each *)

Last(s) == s[Len(s)]

Request(obj) ==
  /\ Len(answers) = Len(sent)
  /\ sent # <<>> => Last(sent).type # "disc"
  /\ Send(obj)
  /\ UNCHANGED <<backVars, client_handle, file, thrown, sessionVars>>

\* What a Host may be given for its own address
local_ip == {"v4", "v6"}

create_client_info(appname, ip) == Client(appname, ip)

\* LocalClient's constructor
Introduce ==
  /\ client_handle = None
  /\ \E name \in Name, ip \in local_ip : Request(create_client_info(name, ip))
  /\ UNCHANGED file_path

\* ConnectedLogFile's constructor, writeln and destructor
OpenFile ==
  /\ client_handle # None /\ file = None
  /\ \E path \in Path : Request(File(path)) /\ file_path' = path

writeln ==
  /\ file # None
  /\ \E text \in Text : Request(Message(text, file))
  /\ UNCHANGED file_path

Close == file # None /\ Request(CloseFile(file)) /\ UNCHANGED file_path

\* LocalClient's destructor
Leave ==
  /\ client_handle # None /\ file = None
  /\ Request(Disconnect(client_handle))
  /\ UNCHANGED file_path

-----------------------------------------------------------------------------
(* RealSession as the Executor of requests *)

\* The part of write_message that follows the check of the handle
write_message(fh, message) ==
  \E now \in Clock :
    lines' = Append(lines,
      [at |-> now, stamp |-> get_timestamp(now), name |-> client_name,
       address |-> client_address, file |-> fh, text |-> message])

\* Lines that are not a client's text
Opened == <<C("Log opened by")>>
Closed == <<C("Log closed by")>>

set_client_info(name, address) ==
  /\ client_name' = name
  /\ client_address' = address

\* What each request does, and its reply; an exception becomes NotAcknowledged.
Act_Client(obj, reply) ==
  /\ set_client_info(obj.text, obj.ip)
  /\ reply = ClientHandle(own_handle)
  /\ UNCHANGED <<own_handle, fileVars, lines>>

Refuse(reply) ==
  /\ \E reason \in Reason : reply = NotAcknowledged(reason)
  /\ UNCHANGED sessionVars

\* A path has one handle for good.
get_filehandle_for_path(path) ==
  IF path \in DOMAIN open_filehandles
    THEN open_filehandles[path] ELSE file_handle_counter

open_file_if_necessary(fh) == open_files' = open_files \cup {fh}

keep_filehandle(path, fh) ==
  /\ file_handle_counter' = IF path \in DOMAIN open_filehandles
                              THEN file_handle_counter ELSE fh + 1
  /\ open_filehandles' = [p \in DOMAIN open_filehandles \cup {path} |->
                            IF p = path THEN fh ELSE open_filehandles[p]]

open_file(path, fh) ==
  /\ keep_filehandle(path, fh)
  /\ open_file_if_necessary(fh)
  /\ write_message(fh, Opened)
  /\ UNCHANGED whoVars

\* The constructor of LogFile throws, which runs unless the file is open; the
\* path has its handle already.
open_file_Throws(path, fh) ==
  /\ path \in Unopenable /\ fh \notin open_files
  /\ keep_filehandle(path, fh)
  /\ UNCHANGED <<open_files, lines, whoVars>>

get_name_Throws(path) == path = InvalidPath

Act_File(obj, reply) ==
  LET fh == get_filehandle_for_path(obj.text)
  IN  IF get_name_Throws(obj.text) THEN Refuse(reply)
      ELSE \/ reply = FileHandle(fh) /\ open_file(obj.text, fh)
           \/ /\ \E reason \in Reason : reply = NotAcknowledged(reason)
              /\ open_file_Throws(obj.text, fh)

\* Mutant: write_message forgets to check the handle.
Act_Message_Unchecked(obj, reply) ==
  /\ reply = Acknowledged
  /\ write_message(obj.word, obj.text)
  /\ UNCHANGED <<whoVars, fileVars>>

Act_Message(obj, reply) ==
  IF obj.word \in open_files
    THEN /\ reply = Acknowledged
         /\ write_message(obj.word, obj.text)
         /\ UNCHANGED <<whoVars, fileVars>>
    ELSE Refuse(reply)

close_file(fh) ==
  /\ write_message(fh, Closed)
  /\ open_files' = open_files \ {fh}
  /\ UNCHANGED <<whoVars, file_handle_counter, open_filehandles>>

Act_CloseFile(obj, reply) ==
  IF obj.word \in open_files
    THEN reply = Acknowledged /\ close_file(obj.word)
    ELSE Refuse(reply)

\* Its lines go to the files still open: none, as the client has closed its.
disconnect_client == UNCHANGED sessionVars

Act_Disconnect(obj, reply) ==
  IF obj.word = own_handle
    THEN reply = Acknowledged /\ disconnect_client
    ELSE Refuse(reply)

act(obj, reply) ==
  \/ obj.type = "clnt" /\ Act_Client(obj, reply)
  \/ obj.type = "open" /\ Act_File(obj, reply)
  \/ obj.type = "mesg" /\ Act_Message(obj, reply)
  \/ obj.type = "clos" /\ Act_CloseFile(obj, reply)
  \/ obj.type = "disc" /\ Act_Disconnect(obj, reply)

Replies == {Acknowledged} \cup {NotAcknowledged(s) : s \in Reason}
             \cup {ClientHandle(own_handle)}
             \cup {FileHandle(get_filehandle_for_path(path)) : path \in Path}

\* DefaultSocketSession::bytes_received with the payload of a request
Serve ==
  /\ ReadPayload
  /\ \E reply \in Replies : act(Arrived, reply) /\ Back!Send(reply)
  /\ UNCHANGED clientVars

-----------------------------------------------------------------------------
(* LocalClient and ConnectedLogFile as ClientExecutors of the reply *)

\* LocalClient's, and ConnectedLogFile's.  A handle that does not fit the
\* request is not taken.
set_client_handle(ch) ==
  /\ client_handle' = (IF Last(sent).type = "clnt" THEN ch ELSE client_handle)
  /\ UNCHANGED file
set_file_handle(fh) ==
  /\ file' = (IF Last(sent).type = "open" THEN fh ELSE file)
  /\ UNCHANGED client_handle

\* The end of a call that has nothing to take; ConnectedLogFile's destructor
\* only complains of an error, and a file that was not opened is none.
Ended ==
  /\ file' = IF Last(sent).type = "clos" THEN None ELSE file
  /\ UNCHANGED client_handle

\* What the text that set_error keeps is thrown as.
Complaint(error) ==
  LET type == Last(sent).type
  IN  CASE type = "clnt" -> UnableToConnectError(error)
        [] type = "open" -> OpenFileError(file_path, error)
        [] type = "mesg" -> FileWriteError(file_path, error)
        [] OTHER -> NotThrown

set_error(s) == thrown' = Complaint(s)

Act_ClientHandle(obj) == set_client_handle(obj.word) /\ thrown' = NotThrown
Act_FileHandle(obj) == set_file_handle(obj.word) /\ thrown' = NotThrown
Act_Acknowledged == Ended /\ thrown' = NotThrown
Act_NotAcknowledged(obj) == Ended /\ set_error(obj.text)

ClientAct(obj) ==
  \/ obj.type = "clnh" /\ Act_ClientHandle(obj)
  \/ obj.type = "filh" /\ Act_FileHandle(obj)
  \/ obj.type = "ackn" /\ Act_Acknowledged
  \/ obj.type = "nack" /\ Act_NotAcknowledged(obj)

ReadReply ==
  /\ Back!ReadPayload
  /\ ClientAct(Back!Arrived)
  /\ UNCHANGED <<vars, file_path, sessionVars>>

DialogueNext ==
  \/ Introduce \/ OpenFile \/ writeln \/ Close \/ Leave
  \/ ReadHeader /\ UNCHANGED <<backVars, clientVars, sessionVars>>
  \/ Serve
  \/ Back!ReadHeader /\ UNCHANGED <<vars, clientVars, sessionVars>>
  \/ ReadReply

DialogueSpec == DialogueInit /\ [][DialogueNext]_dialogueVars

-----------------------------------------------------------------------------
(* Properties *)

\* Neither end of the connection ever takes one object for another or a part of
\* one for the whole, in either direction; and what it reads is what the other
\* wrote, but for the handle of a message that is not plain.
BothWaysSurvive ==
  /\ Framed /\ ObjectsSurvive
  /\ Back!Framed /\ Back!ObjectsSurvive

\* Requests that are carried out with a line in a log, and the number of the line
Logs(i) == sent[i].type \in {"open", "mesg", "clos"} /\ replied[i].type # "nack"
LineOf(i) == Cardinality({j \in 1..i : Logs(j)})

\* What the line must say that the ith request has left
LineSays(i) ==
  LET line == lines[LineOf(i)]
  IN  /\ line.text = CASE sent[i].type = "open" -> Opened
                       [] sent[i].type = "clos" -> Closed
                       [] sent[i].type = "mesg" -> sent[i].text
      /\ line.file = IF sent[i].type = "open" THEN replied[i].word
                                              ELSE sent[i].word
      /\ line.name = sent[1].text /\ line.address = sent[1].ip

\* A log says what the program said: one line for each file opened or closed and
\* for each text that was acknowledged, in their order, for the file that was
\* meant, under the name and address the client gave itself, and no line that
\* nobody asked for.
LogSaysWhatWasSaid ==
  /\ Len(lines) = LineOf(Len(replied))
  /\ \A i \in DOMAIN replied : Logs(i) => LineSays(i)

\* A program that uses the library is refused nothing but a file of the one
\* name that means none, a file that the file system does not let the daemon
\* look at, and lines to files whose handle is misread; that a file could not be
\* opened costs it no other file or line.  It is told so by an exception that
\* names the file it meant and the daemon's reason, and of nothing else (File,
\* NotAcknowledged, ConnectedLogFile, OpenFileError, FileWriteError).
RefusedForAReason ==
  /\ \A i \in DOMAIN answers :
       answers[i].type = "nack" =>
         \/ sent[i] = File(InvalidPath)
         \/ sent[i].type = "open" /\ sent[i].text \in Unopenable
         \/ sent[i].type = "mesg" /\ ~Plain(sent[i].word)
  /\ Len(answers) = Len(sent) /\ sent # <<>> =>
       IF Last(replied).type # "nack" THEN thrown = NotThrown
       ELSE LET opened == {i \in DOMAIN sent : sent[i].type = "open"}
            IN  /\ thrown.reason = Last(replied).text
                /\ \E i \in opened : /\ \A j \in opened : j <= i
                                     /\ thrown.filename = sent[i].text

\* Timestamps tell the order in which the clock gave the times, whatever is
\* rounded and however the local time jumps.
StampsFollowClock ==
  \A i, j \in DOMAIN lines :
    NotAfter(lines[i].at, lines[j].at) => ToldNotAfter(lines[i].stamp, lines[j].stamp)
=============================================================================
