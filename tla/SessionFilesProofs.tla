------------------------- MODULE SessionFilesProofs -------------------------
(***************************************************************************)
(* What is proved of the daemon's executor side, for any sets of sessions  *)
(* and paths and any width of the handles.                                 *)
(***************************************************************************)
EXTENDS SessionFiles, TLAPS, FiniteSetTheorems

\* An unsigned counter stays a handle, and does not wrap below the modulus.
LEMMA Wrap ==
  /\ \A n \in Nat : n % HandleMod \in Handle
  /\ \A n \in Nat : n < HandleMod => n % HandleMod = n
  /\ 0 \in Handle
  /\ 1 \in Handle
<1>1. Cardinality(Path) \in Nat
  BY FiniteAssumption, FS_CardinalityType
<1>2. HandleMod \in Nat /\ HandleMod > 1
  BY <1>1, WidthAssumption
<1> QED
  BY <1>2 DEF Handle

LEMMA TypeInit == Init => TypeOK
BY Wrap, BoundAssumption
   DEF Init, LogFileCollection, DefaultClientHandleFactory, TypeOK,
       Status, Reply, Handle

\* A session's new line leaves the logs logs.
LEMMA WrittenType ==
  ASSUME NEW d \in [Path -> Seq(Line)], NEW f \in File, NEW s \in Session,
         NEW what \in What
  PROVE  Written(d, f, s, what) \in [Path -> Seq(Line)]
<1> DEFINE line == [by |-> s, what |-> what]
<1>1. line \in Line
  BY DEF Line
<1>2. f.filepath \in Path
  BY DEF File
<1>3. Append(d[f.filepath], line) \in Seq(Line)
  BY <1>1, <1>2
<1> QED
  BY <1>2, <1>3 DEF Written

LEMMA HandleOfType ==
  ASSUME TypeOK, NEW s \in Session, NEW p \in Path
  PROVE  HandleOf(s, p) \in Handle
BY DEF TypeOK, HandleOf

LEMMA LockType ==
  ASSUME TypeOK, NEW p \in Path
  PROVE  Lock(p) \in File \cup {NoFile}
BY DEF TypeOK, Lock

LEMMA TypeHandles ==
  ASSUME TypeOK, NEW s \in Session, NEW p \in Path,
         get_filehandle_for_path(s, p)
  PROVE  /\ file_handle_counter' \in [Session -> Handle]
         /\ open_filehandles' \in
              [Session -> [Path -> Handle \cup {NoHandle}]]
<1>1. HandleOf(s, p) \in Handle
  BY HandleOfType
<1>2. file_handle_counter[s] + 1 \in Nat
  BY WidthAssumption DEF TypeOK, Handle
<1>3. (file_handle_counter[s] + 1) % HandleMod \in Handle
  BY <1>2, Wrap
<1> QED
  BY <1>1, <1>3 DEF TypeOK, get_filehandle_for_path

\* A request keeps the type of what every request changes or leaves alone.
LEMMA TypeExecutes ==
  ASSUME TypeOK, NEW s \in Session, Executes(s), NEW r \in Reply,
         Returns(s, r)
  PROVE  /\ status' \in [Session -> Status]
         /\ client_handle' \in [Session -> Handle]
         /\ handle_counter' \in Handle
         /\ acts' \in [Session -> 0..MaxActs]
         /\ reply' \in [Session -> Reply]
BY BoundAssumption DEF TypeOK, Executes, Returns

LEMMA TypeOpenFile ==
  ASSUME TypeOK, NEW s \in Session, NEW p \in Path, OpenFile(s, p)
  PROVE  TypeOK'
<1> DEFINE fh == HandleOf(s, p)
<1>1. fh \in Handle
  BY HandleOfType
<1>2. "opened" \in What /\ "filh" \in Reply /\ "nack" \in Reply
  BY DEF What, Reply
<1>3. CASE OpenFileAgain(s, p)
  <2>1. open_files[s][fh] \in File
    BY <1>1, <1>3 DEF OpenFileAgain, IsOpen, TypeOK
  <2>2. disk' \in [Path -> Seq(Line)]
    BY <1>2, <1>3, <2>1, WrittenType DEF OpenFileAgain, TypeOK
  <2>3. exists' \in SUBSET Path
    BY <1>3, <2>1 DEF OpenFileAgain, TypeOK, Touched, File
  <2> QED
    BY <1>2, <1>3, <2>2, <2>3, TypeHandles, TypeExecutes
       DEF OpenFileAgain, TypeOK
<1>4. CASE OpenFileShared(s, p)
  <2>1. Lock(p) \in File
    BY <1>4, LockType DEF OpenFileShared
  <2>2. disk' \in [Path -> Seq(Line)]
    BY <1>2, <1>4, <2>1, WrittenType DEF OpenFileShared, TypeOK
  <2>3. exists' \in SUBSET Path
    BY <1>4 DEF OpenFileShared, TypeOK, Touched
  <2>4. open_files' \in [Session -> [Handle -> File \cup {NoFile}]]
    BY <1>1, <1>4, <2>1 DEF OpenFileShared, TypeOK
  <2> QED
    BY <1>2, <1>4, <2>2, <2>3, <2>4, TypeHandles, TypeExecutes
       DEF OpenFileShared, TypeOK
<1>5. CASE OpenFileNew(s, p)
  <2>1. NewLogFile(p) \in File
    BY DEF NewLogFile, TypeOK, File
  <2>2. Constructed(p) \in [Path -> Seq(Line)]
    BY DEF Constructed, TypeOK
  <2>3. disk' \in [Path -> Seq(Line)]
    BY <1>2, <1>5, <2>1, <2>2, WrittenType DEF OpenFileNew
  <2>4. exists' \in SUBSET Path
    BY <1>5 DEF OpenFileNew, TypeOK, Touched
  <2>5. open_files' \in [Session -> [Handle -> File \cup {NoFile}]]
    BY <1>1, <1>5, <2>1 DEF OpenFileNew, TypeOK
  <2>6. /\ collection' \in [Path -> File \cup {NoFile}]
        /\ files_created' \in [Path -> Nat]
    BY <1>5, <2>1 DEF OpenFileNew, TypeOK
  <2> QED
    BY <1>2, <1>5, <2>3, <2>4, <2>5, <2>6, TypeHandles, TypeExecutes
       DEF OpenFileNew, TypeOK
<1>6. CASE OpenFileThrows(s, p)
  BY <1>2, <1>6, TypeHandles, TypeExecutes
     DEF OpenFileThrows, TypeOK, fileVars
<1> QED
  BY <1>3, <1>4, <1>5, <1>6 DEF OpenFile

LEMMA TypeRefuse ==
  ASSUME TypeOK, NEW s \in Session, Refuse(s)
  PROVE  TypeOK'
<1>1. "nack" \in Reply
  BY DEF Reply
<1> QED
  BY <1>1, TypeExecutes DEF Refuse, TypeOK, fileVars

\* write_message through a valid handle
LEMMA TypeWrite ==
  ASSUME TypeOK, NEW s \in Session, NEW fh \in Handle, IsOpen(s, fh),
         NEW what \in What, write_message(s, fh, what)
  PROVE  /\ disk' \in [Path -> Seq(Line)]
         /\ exists' \in SUBSET Path
<1>1. open_files[s][fh] \in File
  BY DEF IsOpen, TypeOK
<1>2. open_files[s][fh].filepath \in Path
  BY <1>1 DEF File
<1>3. Written(disk, open_files[s][fh], s, what) \in [Path -> Seq(Line)]
  BY <1>1, WrittenType DEF TypeOK
<1> QED
  BY <1>2, <1>3 DEF write_message, Touched, TypeOK

LEMMA TypeWriteMessage ==
  ASSUME TypeOK, NEW s \in Session, NEW fh \in Handle, WriteMessage(s, fh)
  PROVE  TypeOK'
<1>1. "ackn" \in Reply /\ "message" \in What
  BY DEF Reply, What
<1>2. CASE IsOpen(s, fh)
  <2>1. disk' \in [Path -> Seq(Line)] /\ exists' \in SUBSET Path
    BY <1>1, <1>2, TypeWrite DEF WriteMessage
  <2> QED
    BY <1>1, <1>2, <2>1, TypeExecutes DEF WriteMessage, TypeOK
<1>3. CASE ~IsOpen(s, fh)
  BY <1>3, TypeRefuse DEF WriteMessage
<1> QED
  BY <1>2, <1>3

LEMMA TypeCloseFile ==
  ASSUME TypeOK, NEW s \in Session, NEW fh \in Handle, CloseFile(s, fh)
  PROVE  TypeOK'
<1>1. "ackn" \in Reply /\ "closed" \in What
  BY DEF Reply, What
<1>2. CASE IsOpen(s, fh)
  <2>1. disk' \in [Path -> Seq(Line)] /\ exists' \in SUBSET Path
    BY <1>1, <1>2, TypeWrite DEF CloseFile
  <2>2. open_files' = [open_files EXCEPT ![s][fh] = NoFile]
    BY <1>2 DEF CloseFile
  <2>3. open_files' \in [Session -> [Handle -> File \cup {NoFile}]]
    BY <2>2 DEF TypeOK
  <2> QED
    BY <1>1, <1>2, <2>1, <2>3, TypeExecutes DEF CloseFile, TypeOK
<1>3. CASE ~IsOpen(s, fh)
  BY <1>3, TypeRefuse DEF CloseFile
<1> QED
  BY <1>2, <1>3

LEMMA HeldType ==
  ASSUME TypeOK, NEW s \in Session
  PROVE  Held(s) \subseteq Path
BY DEF TypeOK, Held, IsOpen, File

LEMMA TypeDisconnect ==
  ASSUME TypeOK, NEW s \in Session, NEW ch \in Handle,
         DisconnectClient(s, ch)
  PROVE  TypeOK'
<1>1. "ackn" \in Reply
  BY DEF Reply
<1>2. CASE ch = client_handle[s]
  <2>1. [by |-> s, what |-> "disconnected"] \in Line
    BY DEF Line, What
  <2>2. disk' \in [Path -> Seq(Line)]
    <3> DEFINE line == [by |-> s, what |-> "disconnected"]
    <3>1. \A p \in Path : disk[p] \in Seq(Line)
      BY DEF TypeOK
    <3>2. \A p \in Path : Append(disk[p], line) \in Seq(Line)
      BY <2>1, <3>1
    <3> QED
      BY <1>2, <3>1, <3>2 DEF DisconnectClient
  <2>3. exists' \in SUBSET Path
    BY <1>2, HeldType DEF DisconnectClient, TypeOK
  <2> QED
    BY <1>1, <1>2, <2>2, <2>3, TypeExecutes DEF DisconnectClient, TypeOK
<1>3. CASE ch # client_handle[s]
  BY <1>3, TypeRefuse DEF DisconnectClient
<1> QED
  BY <1>2, <1>3

LEMMA TypeStep == TypeOK /\ [Next]_vars => TypeOK'
<1> SUFFICES ASSUME TypeOK, [Next]_vars PROVE TypeOK'
  OBVIOUS
<1>1. ASSUME NEW s \in Session, CreateSession(s) PROVE TypeOK'
  <2>1. handle_counter + 1 \in Nat
    BY WidthAssumption DEF TypeOK, Handle
  <2>2. generate_client_handle \in Handle
    BY <2>1, Wrap DEF generate_client_handle
  <2> QED
    BY <1>1, <2>2 DEF CreateSession, TypeOK, Status, fileVars
<1>2. ASSUME NEW s \in Session, SetClientInfo(s) PROVE TypeOK'
  <2>1. "clnh" \in Reply
    BY DEF Reply
  <2> QED
    BY <1>2, <2>1, TypeExecutes DEF SetClientInfo, TypeOK, fileVars
<1>3. ASSUME NEW s \in Session, Execute(s) PROVE TypeOK'
  BY <1>2, <1>3, TypeOpenFile, TypeRefuse, TypeWriteMessage, TypeCloseFile,
     TypeDisconnect DEF Execute
<1>4. ASSUME NEW s \in Session, DestroySession(s) PROVE TypeOK'
  BY <1>4 DEF DestroySession, TypeOK, Status, fileVars
<1>5. CASE UNCHANGED vars
  BY <1>5 DEF vars, sessionVars, fileVars, TypeOK
<1> QED
  BY <1>1, <1>3, <1>4, <1>5 DEF Next

\* Every variable keeps its type, whatever requests the sessions execute; in
\* particular no counter leaves its width (RealSession, LogFileCollection).
THEOREM TypeCorrect == Spec => []TypeOK
BY TypeInit, TypeStep, PTL DEF Spec

-----------------------------------------------------------------------------
(* One LogFile per path.  The property speaks of pairs of sessions; what   *)
(* makes it inductive is that the collection's entry for a path is never    *)
(* older than a LogFile still in use.                                       *)

CollectionCurrent ==
  /\ \A p \in Path : collection[p] # NoFile => collection[p].filepath = p
  /\ \A s \in Session, h \in Handle :
       IsOpen(s, h) => collection[open_files[s][h].filepath] = open_files[s][h]

\* A step that neither opens a file nor touches the collection keeps it.
LEMMA CollectionKept ==
  ASSUME CollectionCurrent, UNCHANGED collection,
         \A s \in Session, h \in Handle :
           open_files'[s][h] \in {open_files[s][h], NoFile}
  PROVE  CollectionCurrent'
BY DEF CollectionCurrent, IsOpen

LEMMA CollectionShared ==
  ASSUME TypeOK, CollectionCurrent,
         NEW s \in Session, NEW p \in Path, OpenFileShared(s, p)
  PROVE  CollectionCurrent'
<1> DEFINE fh == HandleOf(s, p)
<1>1. fh \in Handle
  BY HandleOfType
<1>2. Lock(p) = collection[p] /\ collection[p] # NoFile
  BY DEF OpenFileShared, Lock
<1>3. collection[p].filepath = p
  BY <1>2 DEF CollectionCurrent
<1>4. collection' = collection /\ open_files' = [open_files EXCEPT ![s][fh] = collection[p]]
  BY <1>2 DEF OpenFileShared
<1>5. ASSUME NEW t \in Session, NEW h \in Handle, IsOpen(t, h)'
      PROVE  collection'[open_files'[t][h].filepath] = open_files'[t][h]
  <2>1. CASE t = s /\ h = fh
    BY <1>1, <1>3, <1>4, <2>1 DEF TypeOK
  <2>2. CASE ~(t = s /\ h = fh)
    <3>1. open_files'[t][h] = open_files[t][h]
      BY <1>4, <2>2 DEF TypeOK
    <3> QED
      BY <1>4, <1>5, <3>1 DEF IsOpen, CollectionCurrent
  <2> QED
    BY <2>1, <2>2
<1> QED
  BY <1>4, <1>5 DEF CollectionCurrent

LEMMA CollectionNew ==
  ASSUME TypeOK, CollectionCurrent,
         NEW s \in Session, NEW p \in Path, OpenFileNew(s, p)
  PROVE  CollectionCurrent'
<1> DEFINE fh == HandleOf(s, p)
           f  == NewLogFile(p)
<1>1. fh \in Handle
  BY HandleOfType
<1>2. f.filepath = p
  BY DEF NewLogFile
<1>3. /\ collection' = [collection EXCEPT ![p] = f]
      /\ open_files' = [open_files EXCEPT ![s][fh] = f]
  BY DEF OpenFileNew
\* What the collection had for p is in no session's hands.
<1>4. ASSUME NEW t \in Session, NEW h \in Handle, IsOpen(t, h)
      PROVE  open_files[t][h].filepath # p
  <2>1. SUFFICES ASSUME open_files[t][h].filepath = p PROVE FALSE
    OBVIOUS
  <2>2. collection[p] = open_files[t][h] /\ collection[p] # NoFile
    BY <1>4, <2>1 DEF CollectionCurrent, IsOpen
  <2>3. Lock(p) = collection[p]
    BY <2>2 DEF Lock, Alive
  <2> QED
    BY <2>2, <2>3 DEF OpenFileNew
<1>5. ASSUME NEW t \in Session, NEW h \in Handle, IsOpen(t, h)'
      PROVE  collection'[open_files'[t][h].filepath] = open_files'[t][h]
  <2>1. CASE t = s /\ h = fh
    BY <1>1, <1>2, <1>3, <2>1 DEF TypeOK
  <2>2. CASE ~(t = s /\ h = fh)
    <3>1. open_files'[t][h] = open_files[t][h]
      BY <1>3, <2>2 DEF TypeOK
    <3>2. IsOpen(t, h)
      BY <1>5, <3>1 DEF IsOpen
    <3>3. collection[open_files[t][h].filepath] = open_files[t][h]
      BY <3>2 DEF CollectionCurrent
    <3> QED
      BY <1>3, <1>4, <3>1, <3>2, <3>3 DEF TypeOK
  <2> QED
    BY <2>1, <2>2
<1>6. \A q \in Path : collection'[q] # NoFile => collection'[q].filepath = q
  BY <1>2, <1>3 DEF CollectionCurrent, TypeOK
<1> QED
  BY <1>5, <1>6 DEF CollectionCurrent

LEMMA CollectionStep ==
  TypeOK /\ CollectionCurrent /\ [Next]_vars => CollectionCurrent'
<1> SUFFICES ASSUME TypeOK, CollectionCurrent, [Next]_vars
             PROVE  CollectionCurrent'
  OBVIOUS
<1>1. CASE UNCHANGED <<open_files, collection>>
  BY <1>1, CollectionKept
<1>2. ASSUME NEW s \in Session, NEW p \in Path, OpenFile(s, p)
      PROVE  CollectionCurrent'
  BY <1>1, <1>2, CollectionShared, CollectionNew
     DEF OpenFile, OpenFileAgain, OpenFileThrows, fileVars
<1>3. ASSUME NEW s \in Session, NEW fh \in Handle, CloseFile(s, fh)
      PROVE  CollectionCurrent'
  <2>1. CASE Refuse(s)
    BY <1>1, <2>1 DEF Refuse, fileVars
  <2>2. CASE /\ open_files' = [open_files EXCEPT ![s][fh] = NoFile]
             /\ UNCHANGED collection
    BY <2>2, CollectionKept DEF TypeOK
  <2> QED
    BY <1>3, <2>1, <2>2 DEF CloseFile
<1>4. ASSUME NEW s \in Session, Execute(s) PROVE CollectionCurrent'
  BY <1>1, <1>2, <1>3, <1>4
     DEF Execute, Refuse, WriteMessage, SetClientInfo, DisconnectClient,
         fileVars
<1>5. ASSUME NEW s \in Session, DestroySession(s) PROVE CollectionCurrent'
  BY <1>5, CollectionKept DEF DestroySession, fileVars, TypeOK
<1>6. ASSUME NEW s \in Session, CreateSession(s) PROVE CollectionCurrent'
  BY <1>1, <1>6 DEF CreateSession, fileVars
<1> QED
  BY <1>1, <1>4, <1>5, <1>6 DEF Next, vars, sessionVars, fileVars

\* Sessions that have the same path open hold the same LogFile, so its mutex
\* orders all their writes (LogFileCollection::open_file).
THEOREM OneFilePerPath == Spec => []SingleFileObject
<1>1. Init => CollectionCurrent
  BY DEF Init, LogFileCollection, CollectionCurrent, IsOpen
<1>2. CollectionCurrent => SingleFileObject
  BY DEF CollectionCurrent, SingleFileObject
<1> QED
  BY <1>1, <1>2, CollectionStep, TypeCorrect, PTL DEF Spec

-----------------------------------------------------------------------------
(* File handles.  That a fresh handle is fresh needs the counter above all *)
(* the handles given out, and that it does not wrap needs it to count them. *)

Issued(s) == {p \in Path : open_filehandles[s][p] # NoHandle}

HandlesCounted ==
  \A s \in Session :
    /\ file_handle_counter[s] = Cardinality(Issued(s)) + 1
    /\ \A p \in Issued(s) : open_filehandles[s][p] < file_handle_counter[s]

\* One more path among those that have a handle
LEMMA IssuedGrows ==
  ASSUME NEW s \in Session, NEW p \in Path \ Issued(s)
  PROVE  /\ Cardinality(Issued(s)) \in Nat
         /\ Cardinality(Issued(s) \cup {p}) = Cardinality(Issued(s)) + 1
         /\ Cardinality(Issued(s)) + 2 < HandleMod
<1>1. IsFiniteSet(Path) /\ Issued(s) \subseteq Path /\ Issued(s) \cup {p} \subseteq Path
  BY FiniteAssumption DEF Issued
<1>2. /\ IsFiniteSet(Issued(s))
      /\ Cardinality(Issued(s) \cup {p}) <= Cardinality(Path)
  BY <1>1, FS_Subset
<1>3. /\ Cardinality(Issued(s)) \in Nat
      /\ Cardinality(Path) \in Nat
  BY <1>1, <1>2, FS_CardinalityType
<1>4. Cardinality(Issued(s) \cup {p}) = Cardinality(Issued(s)) + 1
  BY <1>2, FS_AddElement
<1> QED
  BY <1>2, <1>3, <1>4, WidthAssumption

\* What get_filehandle_for_path does to a session's handles, in the two cases
LEMMA HandleTaken ==
  ASSUME TypeOK, HandlesCounted, NEW s \in Session, NEW p \in Path,
         get_filehandle_for_path(s, p)
  PROVE  /\ HandlesCounted'
         /\ \A t \in Session, q \in Path :
              open_filehandles'[t][q] =
                IF t = s /\ q = p THEN HandleOf(s, p) ELSE open_filehandles[t][q]
         /\ p \notin Issued(s) =>
              \A q \in Issued(s) : open_filehandles[s][q] < HandleOf(s, p)
<1>1. HandleOf(s, p) \in Handle /\ HandleOf(s, p) # NoHandle
  BY HandleOfType, SentinelAssumption
<1>2. \A t \in Session, q \in Path :
        open_filehandles'[t][q] =
          IF t = s /\ q = p THEN HandleOf(s, p) ELSE open_filehandles[t][q]
  BY DEF get_filehandle_for_path, TypeOK
<1>3. CASE p \in Issued(s)
  <2>1. \A t \in Session, q \in Path :
          open_filehandles'[t][q] = open_filehandles[t][q]
    BY <1>2, <1>3 DEF HandleOf, Issued
  <2>2. \A t \in Session : Issued(t)' = Issued(t)
    BY <2>1 DEF Issued
  <2>3. file_handle_counter' = file_handle_counter
    BY <1>3 DEF get_filehandle_for_path, Issued
  <2>4. HandlesCounted'
    BY <2>1, <2>2, <2>3 DEF HandlesCounted, Issued
  <2> QED
    BY <1>2, <1>3, <2>4
<1>4. CASE p \notin Issued(s)
  <2>1. HandleOf(s, p) = file_handle_counter[s]
    BY <1>4 DEF HandleOf, Issued
  <2>2. Issued(s)' = Issued(s) \cup {p}
    BY <1>1, <1>2 DEF Issued
  <2>3. \A t \in Session \ {s} : Issued(t)' = Issued(t)
    BY <1>2 DEF Issued
  <2>4. file_handle_counter' =
          [file_handle_counter EXCEPT ![s] = (@ + 1) % HandleMod]
    BY <1>4 DEF get_filehandle_for_path, Issued
  <2>5. file_handle_counter[s] = Cardinality(Issued(s)) + 1
    BY DEF HandlesCounted
  <2>6. /\ Cardinality(Issued(s)) \in Nat
        /\ (file_handle_counter[s] + 1) % HandleMod = Cardinality(Issued(s)) + 2
    <3> DEFINE n == Cardinality(Issued(s)) + 2
    <3>1. Cardinality(Issued(s)) \in Nat /\ n < HandleMod
      BY <1>4, IssuedGrows
    <3>2. n \in Nat /\ file_handle_counter[s] + 1 = n
      BY <2>5, <3>1
    <3>3. n % HandleMod = n
      BY <3>1, <3>2, Wrap
    <3> QED
      BY <3>1, <3>2, <3>3
  <2>7. file_handle_counter'[s] = Cardinality(Issued(s)') + 1
    <3>1. Cardinality(Issued(s)') = Cardinality(Issued(s)) + 1
      BY <1>4, <2>2, IssuedGrows
    <3>2. file_handle_counter'[s] = Cardinality(Issued(s)) + 2
      BY <2>4, <2>6 DEF TypeOK
    <3> QED
      BY <2>6, <3>1, <3>2
  <2>8. \A q \in Issued(s) : open_filehandles[s][q] < file_handle_counter[s]
    BY DEF HandlesCounted
  <2>9. \A q \in Issued(s)' : open_filehandles'[s][q] < file_handle_counter'[s]
    <3> SUFFICES ASSUME NEW q \in Issued(s)'
                 PROVE  open_filehandles'[s][q] < file_handle_counter'[s]
      OBVIOUS
    <3>1. file_handle_counter'[s] = file_handle_counter[s] + 1
      BY <2>4, <2>5, <2>6 DEF TypeOK
    <3>2. file_handle_counter[s] \in Nat
      BY DEF TypeOK, Handle
    <3>3. CASE q = p
      BY <1>2, <2>1, <3>1, <3>2, <3>3
    <3>4. CASE q # p
      <4>1. q \in Issued(s) /\ open_filehandles[s][q] \in Handle
        BY <2>2, <3>4 DEF Issued, TypeOK
      <4>2. open_filehandles'[s][q] = open_filehandles[s][q]
        BY <1>2, <3>4, <4>1 DEF Issued
      <4> QED
        BY <2>8, <3>1, <3>2, <4>1, <4>2 DEF Handle
    <3> QED
      BY <3>3, <3>4
  <2>10. ASSUME NEW t \in Session \ {s}
         PROVE  /\ file_handle_counter'[t] = Cardinality(Issued(t)') + 1
                /\ \A q \in Issued(t)' :
                     open_filehandles'[t][q] < file_handle_counter'[t]
    BY <1>2, <2>3, <2>4 DEF HandlesCounted, TypeOK, Issued
  <2> QED
    BY <1>2, <2>1, <2>7, <2>8, <2>9, <2>10 DEF HandlesCounted
<1> QED
  BY <1>3, <1>4

\* The handles stay as they are, and files are only closed.
LEMMA HandlesKept ==
  ASSUME HandlesCounted, HandleNamesPath,
         UNCHANGED <<file_handle_counter, open_filehandles>>,
         \A s \in Session, h \in Handle :
           open_files'[s][h] \in {open_files[s][h], NoFile}
  PROVE  HandlesCounted' /\ HandleNamesPath'
BY DEF HandlesCounted, HandleNamesPath, Issued, IsOpen

LEMMA HandlesOpened ==
  ASSUME TypeOK, CollectionCurrent, HandlesCounted, HandleNamesPath,
         NEW s \in Session, NEW p \in Path, OpenFile(s, p)
  PROVE  HandlesCounted' /\ HandleNamesPath'
<1> DEFINE fh == HandleOf(s, p)
<1>1. get_filehandle_for_path(s, p)
  BY DEF OpenFile, OpenFileAgain, OpenFileShared, OpenFileNew, OpenFileThrows
<1>2. fh \in Handle /\ fh # NoHandle
  BY HandleOfType, SentinelAssumption
<1>3. \A t \in Session, q \in Path :
        open_filehandles'[t][q] =
          IF t = s /\ q = p THEN fh ELSE open_filehandles[t][q]
  BY <1>1, HandleTaken
\* Two paths share a handle no more than before.
<1>4. ASSUME NEW t \in Session, NEW q \in Path, NEW r \in Path,
             open_filehandles'[t][q] = open_filehandles'[t][r]
      PROVE  q = r \/ open_filehandles'[t][q] = NoHandle
  <2>1. CASE t # s \/ p \in Issued(s)
    BY <1>3, <1>4, <2>1 DEF HandleNamesPath, Issued, HandleOf
  <2>2. CASE t = s /\ p \notin Issued(s)
    <3>1. \A u \in Issued(s) : open_filehandles[s][u] < fh
      BY <1>1, <2>2, HandleTaken
    <3>2. \A u \in Issued(s) : open_filehandles[s][u] # fh
      BY <1>2, <3>1 DEF Issued, TypeOK, Handle
    <3> QED
      BY <1>2, <1>3, <1>4, <2>2, <3>2 DEF HandleNamesPath, Issued
  <2> QED
    BY <2>1, <2>2
\* The only file that may be new is one of p, under p's handle.
<1>5. ASSUME NEW t \in Session, NEW h \in Handle
      PROVE  \/ open_files'[t][h] = open_files[t][h]
             \/ /\ t = s /\ h = fh
                /\ open_files'[t][h].filepath = p
  <2>1. CASE OpenFileShared(s, p)
    <3>1. Lock(p).filepath = p
      BY <2>1 DEF OpenFileShared, Lock, CollectionCurrent
    <3> QED
      BY <1>2, <2>1, <3>1 DEF OpenFileShared, TypeOK
  <2>2. CASE OpenFileNew(s, p)
    <3>1. NewLogFile(p).filepath = p
      BY DEF NewLogFile
    <3> QED
      BY <1>2, <2>2, <3>1 DEF OpenFileNew, TypeOK
  <2>3. CASE OpenFileAgain(s, p) \/ OpenFileThrows(s, p)
    BY <2>3 DEF OpenFileAgain, OpenFileThrows
  <2> QED
    BY <2>1, <2>2, <2>3 DEF OpenFile
<1>6. ASSUME NEW t \in Session, NEW h \in Handle, IsOpen(t, h)'
      PROVE  open_filehandles'[t][open_files'[t][h].filepath] = h
  <2>1. CASE t = s /\ h = fh /\ open_files'[t][h].filepath = p
    BY <1>3, <2>1
  <2>2. CASE open_files'[t][h] = open_files[t][h]
    <3> DEFINE q == open_files[t][h].filepath
    <3>1. IsOpen(t, h) /\ q \in Path
      BY <1>6, <2>2 DEF IsOpen, TypeOK, File
    <3>2. open_filehandles[t][q] = h
      BY <3>1 DEF HandleNamesPath
    <3>3. h # NoHandle
      BY SentinelAssumption
    <3>4. CASE t = s /\ q = p
      BY <1>3, <2>2, <3>2, <3>3, <3>4 DEF HandleOf
    <3>5. CASE ~(t = s /\ q = p)
      BY <1>3, <2>2, <3>1, <3>2, <3>5
    <3> QED
      BY <3>4, <3>5
  <2> QED
    BY <1>5, <2>1, <2>2
<1>7. HandleNamesPath'
  BY <1>4, <1>6 DEF HandleNamesPath
<1> QED
  BY <1>1, <1>7, HandleTaken

LEMMA HandlesStep ==
  /\ TypeOK /\ CollectionCurrent
  /\ HandlesCounted /\ HandleNamesPath /\ [Next]_vars
  => HandlesCounted' /\ HandleNamesPath'
<1> SUFFICES ASSUME TypeOK, CollectionCurrent, HandlesCounted,
                    HandleNamesPath, [Next]_vars
             PROVE  HandlesCounted' /\ HandleNamesPath'
  OBVIOUS
<1>1. CASE UNCHANGED <<file_handle_counter, open_filehandles, open_files>>
  BY <1>1, HandlesKept
<1>2. ASSUME NEW s \in Session, NEW fh \in Handle, CloseFile(s, fh)
      PROVE  HandlesCounted' /\ HandleNamesPath'
  <2>1. CASE Refuse(s)
    BY <1>1, <2>1 DEF Refuse
  <2>2. CASE /\ open_files' = [open_files EXCEPT ![s][fh] = NoFile]
             /\ UNCHANGED <<file_handle_counter, open_filehandles>>
    BY <2>2, HandlesKept DEF TypeOK
  <2> QED
    BY <1>2, <2>1, <2>2 DEF CloseFile
<1>3. ASSUME NEW s \in Session, Execute(s)
      PROVE  HandlesCounted' /\ HandleNamesPath'
  BY <1>1, <1>2, <1>3, HandlesOpened
     DEF Execute, Refuse, WriteMessage, SetClientInfo, DisconnectClient
<1>4. ASSUME NEW s \in Session, DestroySession(s)
      PROVE  HandlesCounted' /\ HandleNamesPath'
  BY <1>4, HandlesKept DEF DestroySession, TypeOK
<1>5. ASSUME NEW s \in Session, CreateSession(s)
      PROVE  HandlesCounted' /\ HandleNamesPath'
  BY <1>1, <1>5 DEF CreateSession
<1> QED
  BY <1>1, <1>3, <1>4, <1>5 DEF Next, vars, sessionVars

LEMMA HandlesInit == Init => HandlesCounted /\ HandleNamesPath
<1> SUFFICES ASSUME Init PROVE HandlesCounted /\ HandleNamesPath
  OBVIOUS
<1>1. \A s \in Session : Issued(s) = {}
  BY DEF Init, Issued
<1>2. \A s \in Session : Cardinality(Issued(s)) = 0
  BY <1>1, FS_EmptySet
<1>3. HandlesCounted
  BY <1>1, <1>2 DEF Init, HandlesCounted
<1>4. HandleNamesPath
  BY DEF Init, HandleNamesPath, IsOpen
<1> QED
  BY <1>3, <1>4

\* A file handle names one path for the whole life of the session, and only
\* that path's log is ever open under it, so no message lands in another log
\* than the one it was sent to (RealSession).
THEOREM HandlesNamePaths == Spec => []HandleNamesPath
<1>1. Init => CollectionCurrent
  BY DEF Init, LogFileCollection, CollectionCurrent, IsOpen
<1> QED
  BY <1>1, CollectionStep, HandlesInit, HandlesStep, TypeCorrect, PTL DEF Spec

-----------------------------------------------------------------------------
(* Client handles: the factory's counter counts the sessions made. *)

Created == {s \in Session : status[s] # "none"}

ClientsCounted ==
  /\ handle_counter = Cardinality(Created)
  /\ \A s \in Created : client_handle[s] <= handle_counter

LEMMA ClientAdded ==
  ASSUME TypeOK, ClientsCounted, ClientHandlesUnique,
         NEW s \in Session, CreateSession(s)
  PROVE  ClientsCounted' /\ ClientHandlesUnique'
<1> DEFINE n == Cardinality(Created)
<1>1. s \notin Created /\ Created' = Created \cup {s} /\ Created \cup {s} \subseteq Session
  BY DEF CreateSession, Created, TypeOK
<1>2. /\ IsFiniteSet(Created)
      /\ Cardinality(Created \cup {s}) <= Cardinality(Session)
  BY <1>1, FiniteAssumption, FS_Subset
<1>3. n \in Nat /\ Cardinality(Session) \in Nat
  BY <1>2, FiniteAssumption, FS_CardinalityType
<1>4. Cardinality(Created \cup {s}) = n + 1
  BY <1>1, <1>2, FS_AddElement
<1>5. n + 1 \in Nat /\ n + 1 < HandleMod
  BY <1>2, <1>3, <1>4, WidthAssumption
<1>6. generate_client_handle = n + 1
  BY <1>5, Wrap DEF generate_client_handle, ClientsCounted
<1>7. handle_counter' = n + 1 /\ client_handle' = [client_handle EXCEPT ![s] = n + 1]
  BY <1>6 DEF CreateSession
<1>8. \A t \in Created : client_handle'[t] = client_handle[t] /\ client_handle[t] \in Nat
  BY <1>1, <1>7 DEF TypeOK, Created, Handle
<1>9. \A t \in Created : client_handle[t] <= n
  BY DEF ClientsCounted
<1>10. client_handle'[s] = n + 1
  BY <1>7 DEF TypeOK
<1>11. ClientsCounted'
  BY <1>1, <1>3, <1>4, <1>7, <1>8, <1>9, <1>10 DEF ClientsCounted
<1>12. ASSUME NEW t \in Created', NEW u \in Created',
              client_handle'[t] = client_handle'[u]
       PROVE  t = u
  BY <1>1, <1>3, <1>8, <1>9, <1>10, <1>12 DEF ClientHandlesUnique, Created
<1> QED
  BY <1>11, <1>12 DEF ClientHandlesUnique, Created

LEMMA ClientsStep ==
  /\ TypeOK /\ ClientsCounted /\ ClientHandlesUnique /\ [Next]_vars
  => ClientsCounted' /\ ClientHandlesUnique'
<1> SUFFICES ASSUME TypeOK, ClientsCounted, ClientHandlesUnique, [Next]_vars
             PROVE  ClientsCounted' /\ ClientHandlesUnique'
  OBVIOUS
<1>1. CASE UNCHANGED <<status, client_handle, handle_counter>>
  BY <1>1 DEF ClientsCounted, ClientHandlesUnique, Created
<1>2. ASSUME NEW s \in Session, DestroySession(s)
      PROVE  ClientsCounted' /\ ClientHandlesUnique'
  <2>1. \A t \in Session : status'[t] # "none" <=> status[t] # "none"
    BY <1>2 DEF DestroySession, TypeOK
  <2>2. Created' = Created
    BY <2>1 DEF Created
  <2>3. UNCHANGED <<client_handle, handle_counter>>
    BY <1>2 DEF DestroySession
  <2> QED
    BY <2>1, <2>2, <2>3 DEF ClientsCounted, ClientHandlesUnique
<1>3. ASSUME NEW s \in Session, Execute(s)
      PROVE  UNCHANGED <<status, client_handle, handle_counter>>
  BY <1>3 DEF Execute, OpenFile, OpenFileAgain, OpenFileShared, OpenFileNew,
     OpenFileThrows, Refuse, WriteMessage, CloseFile, SetClientInfo,
     DisconnectClient, Executes
<1> QED
  BY <1>1, <1>2, <1>3, ClientAdded DEF Next, vars, sessionVars

\* No two sessions the daemon ever makes get the same client handle, as long
\* as it makes fewer than an unsigned counts (DefaultClientHandleFactory).
THEOREM UniqueClientHandles == Spec => []ClientHandlesUnique
<1>1. ASSUME Init PROVE ClientsCounted /\ ClientHandlesUnique
  <2>1. Created = {}
    BY <1>1 DEF Init, Created
  <2>2. Cardinality(Created) = 0
    BY <2>1, FS_EmptySet
  <2> QED
    BY <1>1, <2>1, <2>2
       DEF Init, DefaultClientHandleFactory, ClientsCounted, ClientHandlesUnique
<1> QED
  BY <1>1, ClientsStep, TypeCorrect, PTL DEF Spec

-----------------------------------------------------------------------------
(* The lines in the files. *)

\* Only files that exist hold lines, so none is lost to the LogFile
\* constructor's creation of a missing file.
LinesExist == \A p \in Path : disk[p] # <<>> => p \in exists

LEMMA ConstructedIsDisk ==
  ASSUME TypeOK, LinesExist, NEW p \in Path
  PROVE  Constructed(p) = disk
BY DEF TypeOK, LinesExist, Constructed

\* p's log gets one line, or none.
Appends(p, s, what) == disk'[p] = Append(disk[p], [by |-> s, what |-> what])

LEMMA WrittenAppends ==
  ASSUME TypeOK, NEW f \in File, NEW s \in Session, NEW what \in What,
         disk' = Written(disk, f, s, what), exists' = Touched(f.filepath),
         NEW p \in Path
  PROVE  /\ p = f.filepath /\ p \notin Unwritable =>
              Appends(p, s, what) /\ p \in exists'
         /\ p # f.filepath \/ p \in Unwritable => disk'[p] = disk[p]
         /\ exists \subseteq exists'
BY DEF TypeOK, File, Written, Touched, Appends

LEMMA OpenFileAppends ==
  ASSUME TypeOK, CollectionCurrent, LinesExist,
         NEW s \in Session, NEW p \in Path,
         OpenFile(s, p), ~OpenFileThrows(s, p)
  PROVE  \E f \in File :
           /\ disk' = Written(disk, f, s, "opened")
           /\ exists' = Touched(f.filepath)
           /\ open_files[s][HandleOf(s, p)] \in {f, NoFile}
           /\ \A t \in Session, h \in Handle :
                open_files'[t][h] = IF t = s /\ h = HandleOf(s, p)
                                      THEN f ELSE open_files[t][h]
<1> DEFINE fh == HandleOf(s, p)
<1>1. fh \in Handle
  BY HandleOfType
<1>2. CASE OpenFileAgain(s, p)
  <2>1. open_files[s][fh] \in File
    BY <1>1, <1>2 DEF OpenFileAgain, IsOpen, TypeOK
  <2> QED
    BY <1>2, <2>1 DEF OpenFileAgain
<1>3. CASE OpenFileShared(s, p)
  <2>1. Lock(p) \in File
    BY <1>3, LockType DEF OpenFileShared
  <2>2. /\ open_files[s][fh] = NoFile
        /\ \A t \in Session, h \in Handle :
             open_files'[t][h] = IF t = s /\ h = fh
                                   THEN Lock(p) ELSE open_files[t][h]
    BY <1>1, <1>3 DEF OpenFileShared, TypeOK, IsOpen
  <2>3. Lock(p).filepath = p
    BY <1>3 DEF OpenFileShared, Lock, CollectionCurrent
  <2> QED
    BY <1>3, <2>1, <2>2, <2>3 DEF OpenFileShared
<1>4. CASE OpenFileNew(s, p)
  <2>1. NewLogFile(p) \in File /\ NewLogFile(p).filepath = p
    BY DEF NewLogFile, TypeOK, File
  <2>2. /\ open_files[s][fh] = NoFile
        /\ \A t \in Session, h \in Handle :
             open_files'[t][h] = IF t = s /\ h = fh
                                   THEN NewLogFile(p) ELSE open_files[t][h]
    BY <1>1, <1>4 DEF OpenFileNew, TypeOK, IsOpen
  <2> QED
    BY <1>4, <2>1, <2>2, ConstructedIsDisk DEF OpenFileNew
<1> QED
  BY <1>2, <1>3, <1>4 DEF OpenFile
\* A step adds at most a line to a file, which then exists.
LEMMA LineStep ==
  ASSUME TypeOK, CollectionCurrent, LinesExist, [Next]_vars
  PROVE  /\ exists \subseteq exists'
         /\ \A p \in Path :
              \/ disk'[p] = disk[p]
              \/ /\ p \in exists'
                 /\ \E line \in Line : disk'[p] = Append(disk[p], line)
<1> DEFINE Grows(p) == /\ p \in exists'
                       /\ \E line \in Line : disk'[p] = Append(disk[p], line)
           Goal == /\ exists \subseteq exists'
                   /\ \A p \in Path : disk'[p] = disk[p] \/ Grows(p)
<1>1. CASE UNCHANGED <<disk, exists>>
  BY <1>1
<1>2. ASSUME NEW f \in File, NEW s \in Session, NEW what \in What,
             disk' = Written(disk, f, s, what), exists' = Touched(f.filepath)
      PROVE  Goal
  <2>1. [by |-> s, what |-> what] \in Line
    BY DEF Line
  <2>2. f.filepath \in Path
    BY DEF File
  <2>3. exists \subseteq exists'
    BY <1>2, <2>2, WrittenAppends
  <2>4. ASSUME NEW p \in Path PROVE disk'[p] = disk[p] \/ Grows(p)
    <3>1. CASE p = f.filepath /\ p \notin Unwritable
      BY <1>2, <2>1, <3>1, WrittenAppends DEF Appends
    <3>2. CASE p # f.filepath \/ p \in Unwritable
      BY <1>2, <3>2, WrittenAppends
    <3> QED
      BY <3>1, <3>2
  <2> QED
    BY <2>3, <2>4
<1>3. ASSUME NEW s \in Session, NEW p \in Path, OpenFile(s, p) PROVE Goal
  <2>1. CASE OpenFileThrows(s, p)
    BY <1>1, <2>1 DEF OpenFileThrows, fileVars
  <2>2. CASE ~OpenFileThrows(s, p)
    <3>1. "opened" \in What
      BY DEF What
    <3> QED
      BY <1>2, <1>3, <2>2, <3>1, OpenFileAppends
  <2> QED
    BY <2>1, <2>2
<1>4. ASSUME NEW s \in Session, NEW fh \in Handle, NEW what \in What,
             IsOpen(s, fh), write_message(s, fh, what)
      PROVE  Goal
  <2>1. open_files[s][fh] \in File
    BY <1>4 DEF IsOpen, TypeOK
  <2> QED
    BY <1>2, <1>4, <2>1 DEF write_message
<1>5. ASSUME NEW s \in Session, NEW fh \in Handle,
             WriteMessage(s, fh) \/ CloseFile(s, fh)
      PROVE  Goal
  <2>1. "message" \in What /\ "closed" \in What
    BY DEF What
  <2>2. CASE Refuse(s)
    BY <1>1, <2>2 DEF Refuse, fileVars
  <2> QED
    BY <1>4, <1>5, <2>1, <2>2 DEF WriteMessage, CloseFile
<1>6. ASSUME NEW s \in Session, NEW ch \in Handle, DisconnectClient(s, ch)
      PROVE  Goal
  <2>1. [by |-> s, what |-> "disconnected"] \in Line
    BY DEF Line, What
  <2>2. CASE Refuse(s)
    BY <1>1, <2>2 DEF Refuse, fileVars
  <2>3. CASE /\ disk' = [p \in Path |->
                   IF p \in Held(s) \ Unwritable
                     THEN Append(disk[p], [by |-> s, what |-> "disconnected"])
                     ELSE disk[p]]
             /\ exists' = exists \cup (Held(s) \ Unwritable)
    BY <2>1, <2>3
  <2> QED
    BY <1>6, <2>2, <2>3 DEF DisconnectClient
<1>7. ASSUME NEW s \in Session, Execute(s) PROVE Goal
  BY <1>1, <1>3, <1>5, <1>6, <1>7 DEF Execute, Refuse, SetClientInfo, fileVars
<1>8. ASSUME NEW s \in Session, CreateSession(s) \/ DestroySession(s)
      PROVE  Goal
  BY <1>1, <1>8 DEF CreateSession, DestroySession, fileVars
<1>9. CASE UNCHANGED vars
  BY <1>1, <1>9 DEF vars, fileVars
<1> QED
  BY <1>7, <1>8, <1>9 DEF Next

LEMMA LinesExistStep ==
  TypeOK /\ CollectionCurrent /\ LinesExist /\ [Next]_vars => LinesExist'
BY LineStep DEF LinesExist

LEMMA ExtendsStep ==
  TypeOK /\ CollectionCurrent /\ LinesExist /\ [Next]_vars
  => [\A p \in Path : Extends(disk'[p], disk[p])]_vars
<1> SUFFICES ASSUME TypeOK, CollectionCurrent, LinesExist, [Next]_vars,
                    NEW p \in Path
             PROVE  Extends(disk'[p], disk[p])
  OBVIOUS
<1>1. disk[p] \in Seq(Line)
  BY DEF TypeOK
<1>2. CASE disk'[p] = disk[p]
  BY <1>1, <1>2 DEF Extends
<1>3. CASE \E line \in Line : disk'[p] = Append(disk[p], line)
  BY <1>1, <1>3 DEF Extends
<1> QED
  BY <1>2, <1>3, LineStep

LEMMA FilesInit == Init => CollectionCurrent /\ LinesExist
BY DEF Init, LogFileCollection, CollectionCurrent, LinesExist, IsOpen

\* A line once in a log stays there, at its place (LogFile).
THEOREM LogsOnlyGrow == Spec => AppendOnly
BY FilesInit, TypeCorrect, CollectionStep, LinesExistStep, ExtendsStep, PTL
   DEF Spec, AppendOnly
-----------------------------------------------------------------------------
(* Brackets.  For the induction, what a session's lines say must be what it *)
(* holds for sessions not created yet as well.                              *)

HeldIffOpen ==
  \A s \in Session, p \in Path \ Unwritable :
    status[s] # "gone" => (p \in Held(s) <=> OpenAt(disk[p], s, Len(disk[p])))

\* OpenAt looks no further than it is told, and one more line opens, closes or
\* does neither.
LEMMA OpenAtAppend ==
  ASSUME NEW log \in Seq(Line), NEW line \in Line, NEW s \in Session
  PROVE  /\ Len(Append(log, line)) = Len(log) + 1
         /\ \A n \in 0..Len(log) :
              OpenAt(Append(log, line), s, n) <=> OpenAt(log, s, n)
         /\ OpenAt(Append(log, line), s, Len(log) + 1) <=>
              \/ line = [by |-> s, what |-> "opened"]
              \/ /\ OpenAt(log, s, Len(log))
                 /\ line # [by |-> s, what |-> "closed"]
<1> DEFINE new == Append(log, line)
           N == Len(log)
<1>1. /\ N \in Nat
      /\ Len(new) = N + 1
      /\ new[N + 1] = line
      /\ \A i \in 1..N : new[i] = log[i]
  OBVIOUS
<1> HIDE DEF new, N
<1>2. ASSUME NEW n \in 0..N
      PROVE  OpenAt(new, s, n) <=> OpenAt(log, s, n)
  <2>1. \A i \in 1..n : new[i] = log[i]
    BY <1>1
  <2>2. \A i \in 1..n : \A j \in (i + 1)..n : new[j] = log[j]
    BY <1>1
  <2> QED
    BY <2>1, <2>2 DEF OpenAt
<1>3. OpenAt(new, s, N + 1) <=>
        \/ line = [by |-> s, what |-> "opened"]
        \/ OpenAt(log, s, N) /\ line # [by |-> s, what |-> "closed"]
  <2>1. CASE line = [by |-> s, what |-> "opened"]
    BY <1>1, <2>1 DEF OpenAt
  <2>2. CASE line # [by |-> s, what |-> "opened"]
    <3>1. ASSUME OpenAt(new, s, N + 1)
          PROVE  OpenAt(log, s, N) /\ line # [by |-> s, what |-> "closed"]
      <4>1. PICK i \in 1..(N + 1) :
              /\ new[i] = [by |-> s, what |-> "opened"]
              /\ \A j \in (i + 1)..(N + 1) :
                   new[j] # [by |-> s, what |-> "closed"]
        BY <3>1 DEF OpenAt
      <4>2. i \in 1..N
        BY <1>1, <2>2, <4>1
      <4>3. \A j \in (i + 1)..N : log[j] # [by |-> s, what |-> "closed"]
        BY <1>1, <4>1, <4>2
      <4>4. log[i] = [by |-> s, what |-> "opened"]
        BY <1>1, <4>1, <4>2
      <4>5. N + 1 \in (i + 1)..(N + 1)
        BY <1>1, <4>2
      <4> QED
        BY <1>1, <4>1, <4>2, <4>3, <4>4, <4>5 DEF OpenAt
    <3>2. ASSUME OpenAt(log, s, N), line # [by |-> s, what |-> "closed"]
          PROVE  OpenAt(new, s, N + 1)
      <4>1. PICK i \in 1..N :
              /\ log[i] = [by |-> s, what |-> "opened"]
              /\ \A j \in (i + 1)..N : log[j] # [by |-> s, what |-> "closed"]
        BY <3>2 DEF OpenAt
      <4>2. \A j \in (i + 1)..(N + 1) : new[j] # [by |-> s, what |-> "closed"]
        BY <1>1, <3>2, <4>1
      <4> QED
        BY <1>1, <4>1, <4>2 DEF OpenAt
    <3> QED
      BY <2>2, <3>1, <3>2
  <2> QED
    BY <2>1, <2>2
<1> QED
  BY <1>1, <1>2, <1>3 DEF new, N

\* p's log is left alone, by a step that leaves who holds p alone.
LogKept(p) ==
  /\ disk'[p] = disk[p]
  /\ \A t \in Session :
       status'[t] # "gone" => (p \in Held(t)' <=> p \in Held(t))

\* s adds a line to p's log: "opened" comes to hold p, all else needs it held,
\* and "closed" lets it go.
LogWritten(p, s, what) ==
  /\ Appends(p, s, what)
  /\ what # "opened" => p \in Held(s)
  /\ \A t \in Session :
       status'[t] # "gone" =>
         (p \in Held(t)' <=>
            IF t = s THEN what = "opened" \/ (p \in Held(s) /\ what # "closed")
            ELSE p \in Held(t))

LEMMA BracketsKept ==
  ASSUME TypeOK, Bracketed, HeldIffOpen,
         \A t \in Session : status'[t] # "gone" => status[t] # "gone",
         \A p \in Path \ Unwritable :
           \/ LogKept(p)
           \/ \E s \in Session, what \in What :
                status[s] # "gone" /\ LogWritten(p, s, what)
  PROVE  Bracketed' /\ HeldIffOpen'
<1> SUFFICES ASSUME NEW p \in Path \ Unwritable
             PROVE  /\ \A n \in DOMAIN disk'[p] :
                         disk'[p][n].what # "opened" =>
                           OpenAt(disk'[p], disk'[p][n].by, n - 1)
                    /\ \A t \in Session : status'[t] # "gone" =>
                         (p \in Held(t)' <=>
                            OpenAt(disk'[p], t, Len(disk'[p])))
  BY DEF Bracketed, HeldIffOpen
<1>1. CASE LogKept(p)
  BY <1>1 DEF LogKept, Bracketed, HeldIffOpen
<1>2. ASSUME NEW s \in Session, NEW what \in What,
             status[s] # "gone", LogWritten(p, s, what)
      PROVE  /\ \A n \in DOMAIN disk'[p] :
                  disk'[p][n].what # "opened" =>
                    OpenAt(disk'[p], disk'[p][n].by, n - 1)
             /\ \A t \in Session : status'[t] # "gone" =>
                  (p \in Held(t)' <=> OpenAt(disk'[p], t, Len(disk'[p])))
  <2> DEFINE log  == disk[p]
             line == [by |-> s, what |-> what]
             N    == Len(log)
  <2>1. log \in Seq(Line) /\ line \in Line /\ N \in Nat
    <3>1. log \in Seq(Line)
      BY DEF TypeOK
    <3>2. line \in Line
      BY DEF Line
    <3> QED
      BY <3>1, <3>2
  <2>2. disk'[p] = Append(log, line)
    BY <1>2 DEF LogWritten, Appends
  <2>3. /\ Len(disk'[p]) = N + 1
        /\ DOMAIN disk'[p] = 1..(N + 1)
        /\ disk'[p][N + 1] = line
        /\ \A n \in 1..N : disk'[p][n] = log[n] /\ log[n] \in Line
    BY <2>1, <2>2
  <2>4. \A t \in Session, n \in 0..N :
          OpenAt(disk'[p], t, n) <=> OpenAt(log, t, n)
    BY <2>1, <2>2, OpenAtAppend
  <2>5. \A t \in Session :
          OpenAt(disk'[p], t, N + 1) <=>
            \/ line = [by |-> t, what |-> "opened"]
            \/ OpenAt(log, t, N) /\ line # [by |-> t, what |-> "closed"]
    BY <2>1, <2>2, OpenAtAppend
  <2> HIDE DEF N
  <2>6. ASSUME NEW n \in DOMAIN disk'[p], disk'[p][n].what # "opened"
        PROVE  OpenAt(disk'[p], disk'[p][n].by, n - 1)
    <3>1. CASE n = N + 1
      <4>1. OpenAt(log, s, N)
        BY <1>2, <2>3, <2>6, <3>1 DEF LogWritten, HeldIffOpen, N
      <4>2. N \in 0..N /\ n - 1 = N
        BY <2>1, <3>1
      <4> QED
        BY <2>3, <2>4, <3>1, <4>1, <4>2
    <3>2. CASE n # N + 1
      <4>1. n \in 1..N /\ n - 1 \in 0..N
        BY <2>1, <2>3, <2>6, <3>2
      <4>2. log[n].by \in Session /\ n \in DOMAIN log
        BY <2>1, <2>3, <4>1 DEF Line, N
      <4>3. OpenAt(log, log[n].by, n - 1)
        BY <2>3, <2>6, <4>1, <4>2 DEF Bracketed
      <4> QED
        BY <2>3, <2>4, <4>1, <4>2, <4>3
    <3> QED
      BY <3>1, <3>2
  <2>7. ASSUME NEW t \in Session, status'[t] # "gone"
        PROVE  p \in Held(t)' <=> OpenAt(disk'[p], t, N + 1)
    <3>1. p \in Held(t) <=> OpenAt(log, t, N)
      BY <2>7 DEF HeldIffOpen, N
    <3>2. p \in Held(t)' <=>
            IF t = s THEN what = "opened" \/ (p \in Held(s) /\ what # "closed")
            ELSE p \in Held(t)
      BY <1>2, <2>7 DEF LogWritten
    <3>3. CASE t = s
      BY <2>5, <3>1, <3>2, <3>3
    <3>4. CASE t # s
      BY <2>5, <3>1, <3>2, <3>4
    <3> QED
      BY <3>3, <3>4
  <2> QED
    BY <2>3, <2>6, <2>7
<1> QED
  BY <1>1, <1>2
\* A file that is written, by a session that then holds it
LEMMA BracketsOpen ==
  ASSUME TypeOK, CollectionCurrent, LinesExist,
         NEW s \in Session, NEW q \in Path, OpenFile(s, q),
         ~OpenFileThrows(s, q), NEW p \in Path \ Unwritable
  PROVE  LogKept(p) \/ LogWritten(p, s, "opened")
<1> DEFINE fh == HandleOf(s, q)
<1>1. PICK f \in File :
        /\ disk' = Written(disk, f, s, "opened")
        /\ exists' = Touched(f.filepath)
        /\ open_files[s][fh] \in {f, NoFile}
        /\ \A t \in Session, h \in Handle :
             open_files'[t][h] = IF t = s /\ h = fh
                                   THEN f ELSE open_files[t][h]
  BY OpenFileAppends
<1>2. fh \in Handle /\ f # NoFile
  BY HandleOfType, SentinelAssumption
<1>3. \A t \in Session \ {s} : Held(t)' = Held(t)
  BY <1>1 DEF Held, IsOpen
<1>4. Held(s)' = Held(s) \cup {f.filepath}
  <2>1. /\ open_files'[s][fh] = f
        /\ \A h \in Handle \ {fh} : open_files'[s][h] = open_files[s][h]
    BY <1>1, <1>2
  <2> QED
    BY <1>1, <1>2, <2>1 DEF Held, IsOpen
<1>5. "opened" \in What
  BY DEF What
<1>6. CASE p = f.filepath
  <2>1. Appends(p, s, "opened")
    BY <1>1, <1>5, <1>6, WrittenAppends
  <2> QED
    BY <1>3, <1>4, <1>6, <2>1 DEF LogWritten
<1>7. CASE p # f.filepath
  <2>1. disk'[p] = disk[p]
    BY <1>1, <1>5, <1>7, WrittenAppends
  <2> QED
    BY <1>3, <1>4, <1>7, <2>1 DEF LogKept
<1> QED
  BY <1>6, <1>7

LEMMA BracketsWrite ==
  ASSUME TypeOK, NEW s \in Session, NEW fh \in Handle, IsOpen(s, fh),
         write_message(s, fh, "message"), UNCHANGED open_files,
         NEW p \in Path \ Unwritable
  PROVE  LogKept(p) \/ LogWritten(p, s, "message")
<1> DEFINE f == open_files[s][fh]
<1>1. f \in File /\ "message" \in What
  BY DEF IsOpen, TypeOK, What
<1>2. f.filepath \in Held(s)
  BY DEF Held
<1>3. \A t \in Session : Held(t)' = Held(t)
  BY DEF Held, IsOpen
<1>4. CASE p = f.filepath
  <2>1. Appends(p, s, "message")
    BY <1>1, <1>4, WrittenAppends DEF write_message
  <2> QED
    BY <1>2, <1>3, <1>4, <2>1 DEF LogWritten
<1>5. CASE p # f.filepath
  <2>1. disk'[p] = disk[p]
    BY <1>1, <1>5, WrittenAppends DEF write_message
  <2> QED
    BY <1>3, <2>1 DEF LogKept
<1> QED
  BY <1>4, <1>5

\* Closing a handle lets the path go: no other handle of the session has it.
LEMMA BracketsClose ==
  ASSUME TypeOK, HandleNamesPath,
         NEW s \in Session, NEW fh \in Handle, IsOpen(s, fh),
         write_message(s, fh, "closed"),
         open_files' = [open_files EXCEPT ![s][fh] = NoFile],
         NEW p \in Path \ Unwritable
  PROVE  LogKept(p) \/ LogWritten(p, s, "closed")
<1> DEFINE f == open_files[s][fh]
<1>1. f \in File /\ "closed" \in What
  BY DEF IsOpen, TypeOK, What
<1>2. f.filepath \in Held(s)
  BY DEF Held
<1>3. \A t \in Session \ {s} : Held(t)' = Held(t)
  BY DEF Held, IsOpen, TypeOK
<1>4. Held(s)' = Held(s) \ {f.filepath}
  <2>1. /\ open_files'[s][fh] = NoFile
        /\ \A h \in Handle \ {fh} : open_files'[s][h] = open_files[s][h]
    BY DEF TypeOK
  <2>2. \A h \in Handle \ {fh} :
          IsOpen(s, h) => open_files[s][h].filepath # f.filepath
    BY DEF HandleNamesPath
  <2> QED
    BY <2>1, <2>2 DEF Held, IsOpen
<1>5. CASE p = f.filepath
  <2>1. Appends(p, s, "closed")
    BY <1>1, <1>5, WrittenAppends DEF write_message
  <2> QED
    BY <1>2, <1>3, <1>4, <1>5, <2>1 DEF LogWritten
<1>6. CASE p # f.filepath
  <2>1. disk'[p] = disk[p]
    BY <1>1, <1>6, WrittenAppends DEF write_message
  <2> QED
    BY <1>3, <1>4, <1>6, <2>1 DEF LogKept
<1> QED
  BY <1>5, <1>6

LEMMA BracketsDisconnect ==
  ASSUME TypeOK, NEW s \in Session,
         UNCHANGED open_files,
         disk' = [p \in Path |->
                   IF p \in Held(s) \ Unwritable
                     THEN Append(disk[p], [by |-> s, what |-> "disconnected"])
                     ELSE disk[p]],
         NEW p \in Path \ Unwritable
  PROVE  LogKept(p) \/ LogWritten(p, s, "disconnected")
<1>1. \A t \in Session : Held(t)' = Held(t)
  BY DEF Held, IsOpen
<1>2. CASE p \in Held(s)
  BY <1>1, <1>2 DEF LogWritten, Appends
<1>3. CASE p \notin Held(s)
  BY <1>1, <1>3 DEF LogKept
<1> QED
  BY <1>2, <1>3

LEMMA BracketsStep ==
  /\ TypeOK /\ CollectionCurrent /\ HandleNamesPath /\ LinesExist
  /\ Bracketed /\ HeldIffOpen /\ [Next]_vars
  => Bracketed' /\ HeldIffOpen'
<1> SUFFICES ASSUME TypeOK, CollectionCurrent, HandleNamesPath, LinesExist,
                    Bracketed, HeldIffOpen, [Next]_vars
             PROVE  Bracketed' /\ HeldIffOpen'
  OBVIOUS
<1> DEFINE Goal == Bracketed' /\ HeldIffOpen'
<1>1. ASSUME UNCHANGED <<disk, open_files>>,
             \A t \in Session : status'[t] # "gone" => status[t] # "gone"
      PROVE  Goal
  <2>1. \A p \in Path : LogKept(p)
    BY <1>1 DEF LogKept, Held, IsOpen
  <2> QED
    BY <1>1, <2>1, BracketsKept
<1>2. ASSUME NEW s \in Session, NEW what \in What, Executes(s),
             \A p \in Path \ Unwritable : LogKept(p) \/ LogWritten(p, s, what)
      PROVE  Goal
  <2>1. status' = status /\ status[s] # "gone"
    BY <1>2 DEF Executes
  <2> QED
    BY <1>2, <2>1, BracketsKept
<1>3. /\ "opened" \in What /\ "closed" \in What
      /\ "message" \in What /\ "disconnected" \in What
  BY DEF What
<1>4. ASSUME NEW s \in Session, Refuse(s) \/ SetClientInfo(s) PROVE Goal
  BY <1>1, <1>4 DEF Refuse, SetClientInfo, Executes, fileVars
<1>5. ASSUME NEW s \in Session, NEW q \in Path, OpenFile(s, q) PROVE Goal
  <2>1. CASE OpenFileThrows(s, q)
    BY <1>1, <2>1 DEF OpenFileThrows, Executes, fileVars
  <2>2. CASE ~OpenFileThrows(s, q)
    <3>1. Executes(s)
      BY <1>5 DEF OpenFile, OpenFileAgain, OpenFileShared, OpenFileNew,
                  OpenFileThrows
    <3> QED
      BY <1>2, <1>3, <1>5, <2>2, <3>1, BracketsOpen
  <2> QED
    BY <2>1, <2>2
<1>6. ASSUME NEW s \in Session, NEW fh \in Handle, WriteMessage(s, fh)
      PROVE  Goal
  BY <1>2, <1>3, <1>4, <1>6, BracketsWrite DEF WriteMessage
<1>7. ASSUME NEW s \in Session, NEW fh \in Handle, CloseFile(s, fh)
      PROVE  Goal
  BY <1>2, <1>3, <1>4, <1>7, BracketsClose DEF CloseFile
<1>8. ASSUME NEW s \in Session, NEW ch \in Handle, DisconnectClient(s, ch)
      PROVE  Goal
  BY <1>2, <1>3, <1>4, <1>8, BracketsDisconnect DEF DisconnectClient
<1>9. ASSUME NEW s \in Session, CreateSession(s) PROVE Goal
  BY <1>1, <1>9 DEF CreateSession, fileVars, TypeOK
<1>10. ASSUME NEW s \in Session, DestroySession(s) PROVE Goal
  <2>1. \A t \in Session : status'[t] # "gone" => t # s /\ status[t] # "gone"
    BY <1>10 DEF DestroySession, TypeOK
  <2>2. \A t \in Session \ {s} : Held(t)' = Held(t)
    BY <1>10 DEF DestroySession, Held, IsOpen, TypeOK
  <2>3. \A p \in Path : LogKept(p)
    BY <1>10, <2>1, <2>2 DEF LogKept, DestroySession, fileVars
  <2> QED
    BY <2>1, <2>3, BracketsKept
<1>11. CASE UNCHANGED vars
  BY <1>1, <1>11 DEF vars, sessionVars, fileVars
<1> QED
  BY <1>4, <1>5, <1>6, <1>7, <1>8, <1>9, <1>10, <1>11 DEF Next, Execute

LEMMA BracketsInit == Init => Bracketed /\ HeldIffOpen
<1> SUFFICES ASSUME Init PROVE Bracketed /\ HeldIffOpen
  OBVIOUS
<1>1. \A p \in Path : disk[p] = <<>> /\ Len(disk[p]) = 0 /\ DOMAIN disk[p] = {}
  BY DEF Init
<1>2. \A s \in Session : Held(s) = {}
  BY DEF Init, Held, IsOpen
<1> QED
  BY <1>1, <1>2 DEF Bracketed, HeldIffOpen, OpenAt

\* A session writes in a log only between an "opened" of its own and the next
\* "closed", and holds open exactly the logs where it is between the two
\* (RealSession::open_file, write_message, close_file, disconnect_client).
THEOREM LinesBracketed == Spec => [](Bracketed /\ HeldIffOpen)
<1>1. Init => CollectionCurrent /\ LinesExist
  BY FilesInit
<1> QED
  BY <1>1, BracketsInit, BracketsStep, CollectionStep, HandlesInit,
     HandlesStep, LinesExistStep, TypeCorrect, PTL DEF Spec

\* What a live session holds open can be read off the logs: it is where its last
\* "opened" has no "closed" after it (RealSession::open_file, close_file).
THEOREM HeldAsWritten == Spec => []OpenIffUnclosed
<1>1. HeldIffOpen => OpenIffUnclosed
  BY DEF HeldIffOpen, OpenIffUnclosed
<1> QED
  BY <1>1, LinesBracketed, PTL
=============================================================================
