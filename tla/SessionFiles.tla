---------------------------- MODULE SessionFiles ----------------------------
(***************************************************************************)
(* The executor side of the logsvc daemon: one RealSession per client, the *)
(* LogFileCollection the sessions share, the LogFile objects it hands out, *)
(* and the factory that numbers the clients.                               *)
(*                                                                         *)
(* A step is one request executed against a session (the act() of a        *)
(* protocol object on its Executor), so a session's state and the reply    *)
(* it produced change together.  How requests arrive is the business of    *)
(* module Daemon.                                                          *)
(***************************************************************************)
EXTENDS Integers, FiniteSets, Sequences

CONSTANTS
  Session,     \* The sessions the daemon may create; each is used once.
  Path,        \* The file names clients may ask for.
  Unwritable,  \* Paths at which an ofstream of the daemon fails, silently.
  HandleMod,   \* Handles and their counters are unsigned: values mod this.
  MaxActs,     \* Bound of the model: requests executed per session.
  NoHandle,    \* open_filehandles has no entry for the path.
  NoFile       \* open_files has no entry for the handle.

Handle == 0..(HandleMod - 1)

\* A LogFile object; "id" tells two objects for one path apart.
File == [filepath : Path, id : Nat]

ASSUME FiniteAssumption ==
  /\ IsFiniteSet(Session)
  /\ IsFiniteSet(Path)
  /\ Unwritable \subseteq Path

\* Fewer sessions, and fewer files in a session, than an unsigned counts.
ASSUME WidthAssumption ==
  /\ HandleMod \in Nat
  /\ Cardinality(Session) < HandleMod
  /\ Cardinality(Path) + 1 < HandleMod

ASSUME BoundAssumption == MaxActs \in Nat

ASSUME SentinelAssumption ==
  /\ NoHandle \notin Handle
  /\ NoFile \notin File

Status == {"none", "live", "gone"}
What   == {"opened", "closed", "message", "disconnected"}
Reply  == {"none", "clnh", "filh", "ackn", "nack"}
Line   == [by : Session, what : What]

VARIABLES
  \* RealSession, one of each per session
  status,               \* not yet created, alive, destroyed
  file_handle_counter,
  open_filehandles,     \* path -> handle, never shrinks
  open_files,           \* handle -> the shared_ptr it holds
  client_handle,
  reply,                \* the Deliverable the last act() returned
  acts,                 \* requests executed so far
  \* LogFileCollection
  collection,           \* path -> the LogFile its weak_ptr last pointed at
  files_created,        \* path -> number of LogFile objects ever made
  \* DefaultClientHandleFactory
  handle_counter,
  \* The file system: paths that exist, and what this daemon wrote there
  exists, disk

sessionVars == <<status, file_handle_counter, open_filehandles, open_files,
                 client_handle, reply, acts>>
fileVars    == <<collection, files_created, exists, disk>>
vars        == <<sessionVars, fileVars, handle_counter>>

-----------------------------------------------------------------------------
(* What the objects hold. *)

IsOpen(s, fh) == open_files[s][fh] # NoFile

\* A LogFile lives as long as some session's open_files shares it.
Alive(f) == \E s \in Session, fh \in Handle : open_files[s][fh] = f

\* Mutant: the collection makes a LogFile for every open.
Lock_NeverShares(p) == NoFile

\* weak_ptr::lock() on the collection's entry
Lock(p) == IF collection[p] # NoFile /\ Alive(collection[p])
             THEN collection[p] ELSE NoFile

NewLogFile(p) == [filepath |-> p, id |-> files_created[p] + 1]

\* Mutant: the constructor opens the file without asking whether it exists.
Constructed_Truncates(p) == [disk EXCEPT ![p] = <<>>]

\* LogFile's constructor truncates by opening, but only a file not there yet.
Constructed(p) == IF p \in exists THEN disk ELSE [disk EXCEPT ![p] = <<>>]

\* LogFile::write opens for append; a stream that fails says nothing.
Written(d, f, s, what) ==
  IF f.filepath \in Unwritable THEN d
  ELSE [d EXCEPT ![f.filepath] = Append(@, [by |-> s, what |-> what])]

Touched(p) == IF p \in Unwritable THEN exists ELSE exists \cup {p}

\* Mutant: every open takes the next handle, known path or not.
HandleOf_AlwaysNew(s, p) == file_handle_counter[s]

HandleOf(s, p) == IF open_filehandles[s][p] # NoHandle
                    THEN open_filehandles[s][p]
                    ELSE file_handle_counter[s]

-----------------------------------------------------------------------------
LogFileCollection ==
  /\ collection = [p \in Path |-> NoFile]
  /\ files_created = [p \in Path |-> 0]

DefaultClientHandleFactory == handle_counter = 0

Init ==
  /\ status = [s \in Session |-> "none"]
  /\ file_handle_counter = [s \in Session |-> 1]
  /\ open_filehandles = [s \in Session |-> [p \in Path |-> NoHandle]]
  /\ open_files = [s \in Session |-> [fh \in Handle |-> NoFile]]
  /\ client_handle = [s \in Session |-> 0]
  /\ reply = [s \in Session |-> "none"]
  /\ acts = [s \in Session |-> 0]
  /\ LogFileCollection
  /\ DefaultClientHandleFactory
  /\ exists \in SUBSET Path          \* logs of an earlier run of the daemon
  /\ disk = [p \in Path |-> <<>>]

\* Mutant: post-incremented, and the increment is lost.
generate_client_handle_Stuck == handle_counter

generate_client_handle == (handle_counter + 1) % HandleMod

CreateSession(s) ==
  /\ status[s] = "none"
  /\ status' = [status EXCEPT ![s] = "live"]
  /\ handle_counter' = generate_client_handle
  /\ client_handle' = [client_handle EXCEPT ![s] = generate_client_handle]
  /\ UNCHANGED <<file_handle_counter, open_filehandles, open_files, reply,
                 acts, fileVars>>

Executes(s) ==
  /\ status[s] = "live"
  /\ acts[s] < MaxActs
  /\ acts' = [acts EXCEPT ![s] = @ + 1]
  /\ UNCHANGED <<status, client_handle, handle_counter>>

Returns(s, r) == reply' = [reply EXCEPT ![s] = r]

\* Mutant: the counter runs the wrong way.
get_filehandle_for_path_CountsDown(s, p) ==
  /\ open_filehandles' = [open_filehandles EXCEPT ![s][p] = HandleOf(s, p)]
  /\ file_handle_counter' =
       IF open_filehandles[s][p] # NoHandle THEN file_handle_counter
       ELSE [file_handle_counter EXCEPT ![s] = @ - 1]

get_filehandle_for_path(s, p) ==
  /\ open_filehandles' = [open_filehandles EXCEPT ![s][p] = HandleOf(s, p)]
  /\ file_handle_counter' =
       IF open_filehandles[s][p] # NoHandle THEN file_handle_counter
       ELSE [file_handle_counter EXCEPT ![s] = (@ + 1) % HandleMod]

\* open_file when the session already holds a file under the handle
OpenFileAgain(s, p) ==
  LET fh == HandleOf(s, p)
      f  == open_files[s][fh]
  IN  /\ Executes(s)
      /\ IsOpen(s, fh)
      /\ get_filehandle_for_path(s, p)
      /\ disk' = Written(disk, f, s, "opened")
      /\ exists' = Touched(f.filepath)
      /\ Returns(s, "filh")
      /\ UNCHANGED <<open_files, collection, files_created>>

\* open_file when another session keeps the LogFile of the path alive
OpenFileShared(s, p) ==
  LET fh == HandleOf(s, p)
      f  == Lock(p)
  IN  /\ Executes(s)
      /\ ~IsOpen(s, fh)
      /\ f # NoFile
      /\ get_filehandle_for_path(s, p)
      /\ open_files' = [open_files EXCEPT ![s][fh] = f]
      /\ disk' = Written(disk, f, s, "opened")
      /\ exists' = Touched(p)
      /\ Returns(s, "filh")
      /\ UNCHANGED <<collection, files_created>>

\* open_file when the collection has to make a LogFile
OpenFileNew(s, p) ==
  LET fh == HandleOf(s, p)
      f  == NewLogFile(p)
  IN  /\ Executes(s)
      /\ ~IsOpen(s, fh)
      /\ Lock(p) = NoFile
      /\ get_filehandle_for_path(s, p)
      /\ open_files' = [open_files EXCEPT ![s][fh] = f]
      /\ collection' = [collection EXCEPT ![p] = f]
      /\ files_created' = [files_created EXCEPT ![p] = @ + 1]
      /\ disk' = Written(Constructed(p), f, s, "opened")
      /\ exists' = Touched(p)
      /\ Returns(s, "filh")

\* filesystem::exists throws in LogFile's constructor: the handle has been
\* recorded, the file has not, and the client is refused.
OpenFileThrows(s, p) ==
  /\ Executes(s)
  /\ ~IsOpen(s, HandleOf(s, p))
  /\ Lock(p) = NoFile
  /\ get_filehandle_for_path(s, p)
  /\ Returns(s, "nack")
  /\ UNCHANGED <<open_files, fileVars>>

OpenFile(s, p) == \/ OpenFileAgain(s, p)
                  \/ OpenFileShared(s, p)
                  \/ OpenFileNew(s, p)
                  \/ OpenFileThrows(s, p)

\* Any request the executor refuses leaves the session as it was: a handle
\* with no file, a foreign client handle, a File named "invalid path".
Refuse(s) ==
  /\ Executes(s)
  /\ Returns(s, "nack")
  /\ UNCHANGED <<file_handle_counter, open_filehandles, open_files, fileVars>>

write_message(s, fh, what) ==
  /\ disk' = Written(disk, open_files[s][fh], s, what)
  /\ exists' = Touched(open_files[s][fh].filepath)

WriteMessage(s, fh) ==
  \/ /\ IsOpen(s, fh)
     /\ Executes(s)
     /\ write_message(s, fh, "message")
     /\ Returns(s, "ackn")
     /\ UNCHANGED <<file_handle_counter, open_filehandles, open_files,
                    collection, files_created>>
  \/ ~IsOpen(s, fh) /\ Refuse(s)

\* Mutant: the file is erased before the closing line is written, which then
\* finds no file and throws.
CloseFile_ErasesFirst(s, fh) ==
  /\ Executes(s)
  /\ open_files' = [open_files EXCEPT ![s][fh] = NoFile]
  /\ Returns(s, "nack")
  /\ UNCHANGED <<file_handle_counter, open_filehandles, fileVars>>

\* Mutant: the file is never erased.
CloseFile_KeepsFile(s, fh) ==
  /\ IsOpen(s, fh)
  /\ Executes(s)
  /\ write_message(s, fh, "closed")
  /\ Returns(s, "ackn")
  /\ UNCHANGED <<file_handle_counter, open_filehandles, open_files,
                 collection, files_created>>

CloseFile(s, fh) ==
  \/ /\ IsOpen(s, fh)
     /\ Executes(s)
     /\ write_message(s, fh, "closed")
     /\ open_files' = [open_files EXCEPT ![s][fh] = NoFile]
     /\ Returns(s, "ackn")
     /\ UNCHANGED <<file_handle_counter, open_filehandles, collection,
                    files_created>>
  \/ ~IsOpen(s, fh) /\ Refuse(s)

SetClientInfo(s) ==
  /\ Executes(s)
  /\ Returns(s, "clnh")
  /\ UNCHANGED <<file_handle_counter, open_filehandles, open_files, fileVars>>

\* The paths of the files a session holds
Held(s) == {open_files[s][fh].filepath : fh \in {h \in Handle : IsOpen(s, h)}}

DisconnectClient(s, ch) ==
  \/ /\ ch = client_handle[s]
     /\ Executes(s)
     /\ disk' = [p \in Path |->
                   IF p \in Held(s) \ Unwritable
                     THEN Append(disk[p], [by |-> s, what |-> "disconnected"])
                     ELSE disk[p]]
     /\ exists' = exists \cup (Held(s) \ Unwritable)
     /\ Returns(s, "ackn")
     /\ UNCHANGED <<file_handle_counter, open_filehandles, open_files,
                    collection, files_created>>
  \/ ch # client_handle[s] /\ Refuse(s)

\* The session's destructor drops its files without a word in them.
DestroySession(s) ==
  /\ status[s] = "live"
  /\ status' = [status EXCEPT ![s] = "gone"]
  /\ open_files' = [open_files EXCEPT ![s] = [fh \in Handle |-> NoFile]]
  /\ UNCHANGED <<file_handle_counter, open_filehandles, client_handle, reply,
                 acts, fileVars, handle_counter>>

Execute(s) ==
  \/ \E p \in Path : OpenFile(s, p)
  \/ Refuse(s)
  \/ \E fh \in Handle : WriteMessage(s, fh) \/ CloseFile(s, fh)
  \/ SetClientInfo(s)
  \/ \E ch \in Handle : DisconnectClient(s, ch)

Next == \E s \in Session : CreateSession(s) \/ Execute(s) \/ DestroySession(s)

Spec == Init /\ [][Next]_vars

-----------------------------------------------------------------------------
(* Properties *)

TypeOK ==
  /\ status \in [Session -> Status]
  /\ file_handle_counter \in [Session -> Handle]
  /\ open_filehandles \in [Session -> [Path -> Handle \cup {NoHandle}]]
  /\ open_files \in [Session -> [Handle -> File \cup {NoFile}]]
  /\ client_handle \in [Session -> Handle]
  /\ reply \in [Session -> Reply]
  /\ acts \in [Session -> 0..MaxActs]
  /\ collection \in [Path -> File \cup {NoFile}]
  /\ files_created \in [Path -> Nat]
  /\ handle_counter \in Handle
  /\ exists \in SUBSET Path
  /\ disk \in [Path -> Seq(Line)]

\* However opens, closes and ends of sessions interleave, all sessions that
\* have a path open share one LogFile.  LogFile::write's mutex is a member, so
\* two objects for one path would let two writes mix (LogFileCollection).
SingleFileObject ==
  \A s, t \in Session, h, k \in Handle :
    /\ IsOpen(s, h)
    /\ IsOpen(t, k)
    /\ open_files[s][h].filepath = open_files[t][k].filepath
    => open_files[s][h] = open_files[t][k]

\* A handle given out names one path of the session, and what is open under a
\* handle is the file of the path it was given out for, so a client's messages
\* land in the log it opened, also after closing, reopening and refused opens
\* (RealSession's two maps agree).
HandleNamesPath ==
  \A s \in Session :
    /\ \A p, q \in Path :
         open_filehandles[s][p] = open_filehandles[s][q] =>
           p = q \/ open_filehandles[s][p] = NoHandle
    /\ \A h \in Handle :
         IsOpen(s, h) => open_filehandles[s][open_files[s][h].filepath] = h

\* No two sessions ever carry the same client handle, so a Disconnect can name
\* only the session it arrives at (DefaultClientHandleFactory).
ClientHandlesUnique ==
  \A s, t \in Session :
    /\ status[s] # "none"
    /\ status[t] # "none"
    /\ client_handle[s] = client_handle[t]
    => s = t

\* The first n lines of a log have an "opened" by s, and no "closed" after it.
OpenAt(log, s, n) ==
  \E i \in 1..n :
    /\ log[i] = [by |-> s, what |-> "opened"]
    /\ \A j \in (i + 1)..n : log[j] # [by |-> s, what |-> "closed"]

\* Whatever the other sessions write between them, a session's lines in a file
\* come in brackets: no message, "closed" or "disconnected" of its own outside
\* an "opened" that is not closed yet (RealSession::open_file, close_file).
Bracketed ==
  \A p \in Path \ Unwritable : \A n \in DOMAIN disk[p] :
    disk[p][n].what # "opened" => OpenAt(disk[p], disk[p][n].by, n - 1)

\* What a live session holds open is what its lines say: the files with an
\* "opened" not followed by "closed" (order of writing and erasing in
\* RealSession::close_file, of storing and writing in open_file).
OpenIffUnclosed ==
  \A s \in Session, p \in Path \ Unwritable :
    status[s] = "live" => (p \in Held(s) <=> OpenAt(disk[p], s, Len(disk[p])))

Extends(new, old) ==
  /\ Len(new) >= Len(old)
  /\ \A i \in 1..Len(old) : new[i] = old[i]

\* No request, and no reopening of a file whose LogFile has expired, takes away
\* or changes a line already written (LogFile's constructor and write).
AppendOnly == [][\A p \in Path : Extends(disk'[p], disk[p])]_vars

\* A client is told its message was not written ("Unable to write to remote
\* file", FileWriteError.cpp) whenever it was not: an acknowledged "mesg" is a
\* line in the file (Message::act, RealSession::write_message, LogFile::write).
AckedMeansWritten ==
  [][\A s \in Session, fh \in Handle :
       WriteMessage(s, fh) /\ reply'[s] = "ackn" => disk' # disk]_vars
=============================================================================
