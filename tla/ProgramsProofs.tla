--------------------------- MODULE ProgramsProofs ---------------------------
(***************************************************************************)
(* What is proved of the system test programs over the client library and  *)
(* the daemon, for any number of programs and of other applications beside *)
(* them: they are applications of ClientLog, and one that ends well has    *)
(* told its story.  The invariant says where a program stands with its     *)
(* session and its log.                                                    *)
(***************************************************************************)
EXTENDS Programs, ClientLogProofs

-----------------------------------------------------------------------------
(* The invariant *)

Stage == {"main", "opening", "logging", "writing", "said", "closing", "leaving",
          "disconnecting", "ended", "killed", "undefined"}

ProgramsTypeOK ==
  /\ program \in [App -> Program \cup {Anything, Nothing}]
  /\ at \in [App -> Stage]
  /\ argv1 \in [App -> Path \cup {NoPath}]
  /\ own \in [App -> Session \cup {NoSession}]
  /\ said \in [App -> Nat]
  /\ buffer \in [App -> Nat]
  /\ code \in [App -> Int]

\* No line of a session in any log
Silent(s) == \A p \in Path : \A n \in DOMAIN disk[p] : disk[p][n].by # s

\* A session holds q's log open, and all that it has written is "opened" there,
\* and messages after it.
Begun(s, q) ==
  /\ q \in Held(s)
  /\ \E first \in DOMAIN disk[q] :
       /\ disk[q][first].by = s
       /\ \A p \in Path : \A n \in DOMAIN disk[p] : disk[p][n].by = s =>
            /\ p = q /\ first <= n
            /\ disk[p][n].what = IF n = first THEN "opened" ELSE "message"

\* A session not created yet has not been asked to write anything.
UnusedSilent ==
  \A s \in Session : status[s] = "none" => Silent(s) /\ wire[s] = NoRequest

\* The application has a Log, on the program's path, and no other.
OnlyLog(a, l) ==
  /\ remote_file[a][l].state = "open"
  /\ remote_file[a][l].path = argv1[a]
  /\ ~remote_file[a][l].overtaken
  /\ \A k \in Log \ {l} : remote_file[a][k] = NoLog

\* A program that has no session yet, or could not get one
Unconnected(a) ==
  /\ argv1[a] = NoPath
  /\ local_client[a] = NoSession /\ call[a] = NoCall
  /\ \A l \in Log : remote_file[a][l] = NoLog
  /\ said[a] = 0
  /\ IF code[a] = 0
       THEN at[a] = "main" \/ program[a] = HostTest
       ELSE at[a] \in {"leaving", "disconnecting", "ended", "killed"}

\* The session is the program's own.
Owned(a) ==
  /\ program[a] # HostTest
  /\ own[a] \in Session /\ argv1[a] \in Path /\ status[own[a]] # "none"
  /\ \A b \in App \ {a} : ~Uses(b, own[a]) /\ own[b] # own[a]
  /\ local_client[a] \in {NoSession, own[a]}
  /\ call[a] # NoCall => call[a].session = own[a]

\* While it opens its log, a program has not said anything; neither has one
\* that could not.
Wordless(a) ==
  /\ Messages(own[a]) = {}
  /\ wire[own[a]] # NoRequest => wire[own[a]].op # "mesg"

OpeningLog(a) ==
  LET s == own[a]
      l == call[a].log
  IN  /\ Calling(a, "clnt") \/ Calling(a, "open")
      /\ remote_file[a][l] = [NoLog EXCEPT !.state = "opening", !.path = argv1[a]]
      /\ \A k \in Log \ {l} : remote_file[a][k] = NoLog
      /\ said[a] = 0
      /\ s \notin broken =>
           \/ Silent(s) /\ (wire[s] # NoRequest \/ reply[s] # "filh")
           \/ Begun(s, argv1[a]) /\ Executed(a, s) /\ reply[s] = "filh"
               /\ call[a].op = "open"

\* With its log open, a program has logged what it said.
LogOpened(a) ==
  LET s == own[a]
  IN  /\ local_client[a] = s
      /\ \E l \in Log : OnlyLog(a, l) /\ (call[a] # NoCall => call[a].log = l)
      /\ at[a] \in {"logging", "said"} => call[a] = NoCall
      /\ at[a] = "writing" => /\ Calling(a, "mesg")
                              /\ Executed(a, s) => reply[s] = "ackn"
      /\ at[a] = "closing" => Calling(a, "clos")
      /\ returned[s] = IF at[a] \in {"said", "closing"} THEN Told(program[a])
                       ELSE IF program[a].stream THEN 0 ELSE said[a]
      /\ IF Executed(a, s) /\ at[a] = "closing"
           THEN StoryTold(a)
           ELSE Begun(s, argv1[a])

\* A program that has closed its log does nothing more to it.
LogClosed(a) ==
  /\ StoryTold(a)
  /\ Held(own[a]) = {}
  /\ wire[own[a]] # NoRequest => wire[own[a]].op = "disc"

Stands(a) ==
  IF own[a] = NoSession THEN Unconnected(a)
  ELSE /\ Owned(a)
       /\ at[a] = "opening" => OpeningLog(a)
       /\ at[a] = "opening" \/ code[a] # 0 => Wordless(a)
       /\ at[a] \in {"logging", "writing", "said", "closing"} =>
            own[a] \in broken \/ LogOpened(a)
       /\ at[a] \in {"leaving", "disconnecting", "ended"} =>
            code[a] # 0 \/ LogClosed(a)
       /\ code[a] # 0 =>
            at[a] \in {"leaving", "disconnecting", "ended", "killed"}
       /\ at[a] # "main"
       /\ at[a] = "disconnecting" => Calling(a, "disc")

StoryInv ==
  /\ ProgramsTypeOK
  /\ UnusedSilent
  /\ \A a \in App : IF program[a] \in Program THEN Stands(a)
                    ELSE own[a] = NoSession /\ code[a] = 0

-----------------------------------------------------------------------------
(* A session's lines *)

OwnLine(s, p, n) == n \in DOMAIN disk[p] /\ disk[p][n].by = s

\* A step that writes nothing for a session
LinesKept(s) ==
  \A p \in Path : \A n :
    /\ OwnLine(s, p, n)' <=> OwnLine(s, p, n)
    /\ OwnLine(s, p, n) => disk'[p][n] = disk[p][n]

LEMMA KeptByOthers ==
  ASSUME TypeOK, NEW s \in Session,
         \A p \in Path : \/ disk'[p] = disk[p]
                         \/ \E t \in Session \ {s}, what \in What : Appends(p, t, what)
  PROVE  LinesKept(s)
<1> SUFFICES ASSUME NEW p \in Path, NEW n
             PROVE  /\ OwnLine(s, p, n)' <=> OwnLine(s, p, n)
                    /\ OwnLine(s, p, n) => disk'[p][n] = disk[p][n]
  BY DEF LinesKept
<1>1. CASE disk'[p] = disk[p]
  BY <1>1 DEF OwnLine
<1>2. ASSUME NEW t \in Session \ {s}, NEW what \in What, Appends(p, t, what)
      PROVE  /\ OwnLine(s, p, n)' <=> OwnLine(s, p, n)
             /\ OwnLine(s, p, n) => disk'[p][n] = disk[p][n]
  <2> DEFINE line == [by |-> t, what |-> what]
  <2>1. line \in Line /\ disk[p] \in Seq(Line) /\ line.by # s
    BY DEF Line, TypeOK
  <2>2. disk'[p] = Append(disk[p], line)
    BY <1>2 DEF Appends
  <2> HIDE DEF line
  <2> QED
    BY <2>1, <2>2, AppendedAt DEF OwnLine
<1> QED
  BY <1>1, <1>2

\* What depends on a session's lines alone
LEMMA KeptLines ==
  ASSUME NEW s \in Session, LinesKept(s)
  PROVE  /\ Silent(s)' <=> Silent(s)
         /\ Messages(s)' = Messages(s)
         /\ Held(s)' = Held(s) =>
              \A q \in Path : Begun(s, q) => Begun(s, q)'
         /\ \A a \in App :
              StoryTold(a) /\ own[a] = s /\ argv1[a] \in Path
              /\ UNCHANGED <<own[a], argv1[a], program[a]>> => StoryTold(a)'
<1>1. Silent(s)' <=> Silent(s)
  BY DEF Silent, LinesKept, OwnLine
<1>2. Messages(s)' = Messages(s)
  <2>1. ASSUME NEW p \in Path, NEW n
        PROVE  MessageAt(s, p, n)' <=> MessageAt(s, p, n)
    <3>1. /\ OwnLine(s, p, n)' <=> OwnLine(s, p, n)
          /\ OwnLine(s, p, n) => disk'[p][n] = disk[p][n]
      BY DEF LinesKept
    <3>2. MessageAt(s, p, n) => OwnLine(s, p, n)
      BY DEF MessageAt, OwnLine
    <3>3. MessageAt(s, p, n)' => OwnLine(s, p, n)'
      BY DEF MessageAt, OwnLine
    <3> QED
      BY <3>1, <3>2, <3>3 DEF MessageAt, OwnLine
  <2>2. \A x : x \in Messages(s)' <=>
                 \E p \in Path : \E n : MessageAt(s, p, n)' /\ x = <<p, n>>
    BY DEF Messages, MessageAt
  <2> QED
    BY <2>1, <2>2, MessagesAre
<1>3. ASSUME Held(s)' = Held(s), NEW q \in Path, Begun(s, q)
      PROVE  Begun(s, q)'
  <2>1. PICK first \in DOMAIN disk[q] :
          /\ disk[q][first].by = s
          /\ \A p \in Path : \A n \in DOMAIN disk[p] : disk[p][n].by = s =>
               /\ p = q /\ first <= n
               /\ disk[p][n].what = IF n = first THEN "opened" ELSE "message"
    BY <1>3 DEF Begun
  <2>2. q \in Held(s)'
    BY <1>3 DEF Begun
  <2>3. OwnLine(s, q, first) /\ OwnLine(s, q, first)'
    BY <2>1 DEF OwnLine, LinesKept
  <2>4. first \in DOMAIN disk'[q] /\ disk'[q][first].by = s
    BY <2>3 DEF OwnLine
  <2>5. ASSUME NEW p \in Path, NEW n \in DOMAIN disk'[p], disk'[p][n].by = s
        PROVE  /\ p = q /\ first <= n
               /\ disk'[p][n].what = IF n = first THEN "opened" ELSE "message"
    <3>1. OwnLine(s, p, n)'
      BY <2>5 DEF OwnLine
    <3>2. OwnLine(s, p, n) /\ disk'[p][n] = disk[p][n]
      BY <3>1 DEF LinesKept
    <3> QED
      BY <2>1, <3>2 DEF OwnLine
  <2> QED
    BY <2>2, <2>4, <2>5 DEF Begun
<1>4. ASSUME NEW a \in App, StoryTold(a), own[a] = s, argv1[a] \in Path,
             UNCHANGED <<own[a], argv1[a], program[a]>>
      PROVE  StoryTold(a)'
  <2>0. PICK q \in Path : q = argv1[a]
    BY <1>4
  <2>1. PICK first \in DOMAIN disk[q], last \in DOMAIN disk[q] :
          /\ first < last
          /\ disk[q][first].by = s /\ disk[q][last].by = s
          /\ \A p \in Path : \A n \in DOMAIN disk[p] : disk[p][n].by = s =>
               /\ p = q /\ n \in first..last
               /\ disk[p][n].what = IF n = first THEN "opened"
                                    ELSE IF n = last THEN "closed"
                                    ELSE "message"
    BY <1>4, <2>0 DEF StoryTold
  <2>2. /\ OwnLine(s, q, first) /\ OwnLine(s, q, first)'
        /\ OwnLine(s, q, last) /\ OwnLine(s, q, last)'
    BY <1>4, <2>1 DEF OwnLine, LinesKept
  <2>3. /\ first \in DOMAIN disk'[q] /\ disk'[q][first].by = s
        /\ last \in DOMAIN disk'[q] /\ disk'[q][last].by = s
    BY <2>2 DEF OwnLine
  <2>4. ASSUME NEW p \in Path, NEW n \in DOMAIN disk'[p], disk'[p][n].by = s
        PROVE  /\ p = q /\ n \in first..last
               /\ disk'[p][n].what = IF n = first THEN "opened"
                                     ELSE IF n = last THEN "closed"
                                     ELSE "message"
    <3>1. OwnLine(s, p, n)'
      BY <2>4 DEF OwnLine
    <3>2. OwnLine(s, p, n) /\ disk'[p][n] = disk[p][n]
      BY <3>1 DEF LinesKept
    <3> QED
      BY <2>1, <3>2 DEF OwnLine
  <2>5. Cardinality(Messages(s))' = Told(program'[a])
    BY <1>2, <1>4 DEF StoryTold
  <2>6. own'[a] = s /\ argv1'[a] = q /\ program'[a] = program[a]
    BY <1>4, <2>0
  <2> QED
    BY <2>1, <2>3, <2>4, <2>5, <2>6 DEF StoryTold
<1> QED
  BY <1>1, <1>2, <1>3, <1>4

\* What a session's line makes of what it has written before
LEMMA FirstLine ==
  ASSUME TypeOK, NEW s \in Session, NEW q \in Path, Silent(s),
         Appends(q, s, "opened"), \A p \in Path \ {q} : disk'[p] = disk[p],
         q \in Held(s)'
  PROVE  Begun(s, q)'
<1> DEFINE line == [by |-> s, what |-> "opened"]
           first == Len(disk[q]) + 1
<1>1. line \in Line /\ line.by = s /\ line.what = "opened"
  BY DEF Line, What
<1>2. disk[q] \in Seq(Line) /\ disk'[q] = Append(disk[q], line)
  BY DEF TypeOK, Appends
<1> HIDE DEF line
<1>3. /\ DOMAIN disk'[q] = DOMAIN disk[q] \cup {first}
      /\ disk'[q][first] = line
      /\ \A n \in DOMAIN disk[q] : disk'[q][n] = disk[q][n]
  BY <1>1, <1>2, AppendedAt
<1>4. first \in Int
  BY <1>2
<1> HIDE DEF first
<1>5. ASSUME NEW p \in Path, NEW n \in DOMAIN disk'[p], disk'[p][n].by = s
      PROVE  p = q /\ n = first
  BY <1>3, <1>5 DEF Silent
<1>6. \A p \in Path : \A n \in DOMAIN disk'[p] : disk'[p][n].by = s =>
        /\ p = q /\ first <= n
        /\ disk'[p][n].what = IF n = first THEN "opened" ELSE "message"
  BY <1>1, <1>3, <1>4, <1>5
<1> QED
  BY <1>1, <1>3, <1>6 DEF Begun

LEMMA NextLine ==
  ASSUME TypeOK, NEW s \in Session, NEW q \in Path, Begun(s, q),
         Appends(q, s, "message"), \A p \in Path \ {q} : disk'[p] = disk[p],
         Held(s)' = Held(s)
  PROVE  Begun(s, q)'
<1> DEFINE line == [by |-> s, what |-> "message"]
           last == Len(disk[q]) + 1
<1>1. line \in Line /\ line.by = s /\ line.what = "message"
  BY DEF Line, What
<1>2. disk[q] \in Seq(Line) /\ disk'[q] = Append(disk[q], line)
  BY DEF TypeOK, Appends
<1>3. PICK first \in DOMAIN disk[q] :
        /\ disk[q][first].by = s
        /\ \A p \in Path : \A n \in DOMAIN disk[p] : disk[p][n].by = s =>
             /\ p = q /\ first <= n
             /\ disk[p][n].what = IF n = first THEN "opened" ELSE "message"
  BY DEF Begun
<1>4. first < last /\ first \in Int /\ last \in Int
  BY <1>2
<1> HIDE DEF line
<1>5. /\ DOMAIN disk'[q] = DOMAIN disk[q] \cup {last}
      /\ disk'[q][last] = line
      /\ \A n \in DOMAIN disk[q] : disk'[q][n] = disk[q][n]
  BY <1>1, <1>2, AppendedAt
<1> HIDE DEF last
<1>6. ASSUME NEW p \in Path, NEW n \in DOMAIN disk'[p], disk'[p][n].by = s
      PROVE  /\ p = q /\ first <= n
             /\ disk'[p][n].what = IF n = first THEN "opened" ELSE "message"
  <2>1. CASE p # q
    BY <1>3, <1>6, <2>1
  <2>2. CASE p = q /\ n = last
    BY <1>1, <1>4, <1>5, <2>2
  <2>3. CASE p = q /\ n # last
    BY <1>3, <1>5, <1>6, <2>3
  <2> QED
    BY <2>1, <2>2, <2>3
<1>7. first \in DOMAIN disk'[q] /\ disk'[q][first].by = s
  BY <1>3, <1>5
<1>8. q \in Held(s)'
  BY DEF Begun
<1> QED
  BY <1>6, <1>7, <1>8 DEF Begun

LEMMA LastLine ==
  ASSUME TypeOK, NEW a \in App, NEW s \in Session, NEW q \in Path,
         own'[a] = s, argv1'[a] = q, Begun(s, q),
         Appends(q, s, "closed"), \A p \in Path \ {q} : disk'[p] = disk[p],
         Cardinality(Messages(s)) = Told(program'[a])
  PROVE  StoryTold(a)'
<1> DEFINE line == [by |-> s, what |-> "closed"]
           last == Len(disk[q]) + 1
<1>0. Messages(s)' = Messages(s)
  <2>1. \A p \in Path : NoMessage(p)
    BY DEF NoMessage, What
  <2> QED
    BY <2>1, MessagesKept
<1>1. line \in Line /\ line.by = s /\ line.what = "closed"
  BY DEF Line, What
<1>2. disk[q] \in Seq(Line) /\ disk'[q] = Append(disk[q], line)
  BY DEF TypeOK, Appends
<1>3. PICK first \in DOMAIN disk[q] :
        /\ disk[q][first].by = s
        /\ \A p \in Path : \A n \in DOMAIN disk[p] : disk[p][n].by = s =>
             /\ p = q /\ first <= n
             /\ disk[p][n].what = IF n = first THEN "opened" ELSE "message"
  BY DEF Begun
<1>4. /\ first < last /\ first \in Int /\ last \in Int
      /\ \A n \in DOMAIN disk[q] : n \in Int /\ n < last
  BY <1>2
<1> HIDE DEF line
<1>5. /\ DOMAIN disk'[q] = DOMAIN disk[q] \cup {last}
      /\ disk'[q][last] = line
      /\ \A n \in DOMAIN disk[q] : disk'[q][n] = disk[q][n]
  BY <1>1, <1>2, AppendedAt
<1> HIDE DEF last
<1>6. ASSUME NEW p \in Path, NEW n \in DOMAIN disk'[p], disk'[p][n].by = s
      PROVE  /\ p = q /\ n \in first..last
             /\ disk'[p][n].what = IF n = first THEN "opened"
                                   ELSE IF n = last THEN "closed"
                                   ELSE "message"
  <2>1. CASE p # q
    BY <1>3, <1>6, <2>1
  <2>2. CASE p = q /\ n = last
    BY <1>1, <1>4, <1>5, <2>2
  <2>3. CASE p = q /\ n # last
    <3>1. n \in DOMAIN disk[q] /\ disk[q][n].by = s /\ disk'[q][n] = disk[q][n]
      BY <1>5, <1>6, <2>3
    <3>2. n \in first..last
      BY <1>3, <1>4, <3>1
    <3> QED
      BY <1>3, <2>3, <3>1, <3>2
  <2> QED
    BY <2>1, <2>2, <2>3
<1>7. /\ first \in DOMAIN disk'[q] /\ disk'[q][first].by = s
      /\ last \in DOMAIN disk'[q] /\ disk'[q][last].by = s
  BY <1>1, <1>3, <1>5
<1>8. Cardinality(Messages(s)') = Told(program'[a])
  BY <1>0
<1> QED
  BY <1>4, <1>6, <1>7, <1>8 DEF StoryTold

\* A request writes as the session that executes it.
LEMMA ExecuteAppends ==
  ASSUME DaemonInv, NEW s \in Session, Execute(s), NEW p \in Path
  PROVE  disk'[p] = disk[p] \/ \E what \in What : Appends(p, s, what)
<1>1. CASE disk' = disk
  BY <1>1
<1>2. ASSUME NEW f \in File, NEW what \in What,
             disk' = Written(disk, f, s, what), exists' = Touched(f.filepath)
      PROVE  disk'[p] = disk[p] \/ Appends(p, s, what)
  BY <1>2, WrittenAppends DEF DaemonInv
<1>3. ASSUME NEW q \in Path, OpenFile(s, q)
      PROVE  disk'[p] = disk[p] \/ \E what \in What : Appends(p, s, what)
  <2>1. CASE OpenFileThrows(s, q)
    BY <1>1, <2>1 DEF OpenFileThrows, fileVars
  <2>2. CASE ~OpenFileThrows(s, q)
    <3>1. "opened" \in What
      BY DEF What
    <3> QED
      BY <1>2, <1>3, <2>2, <3>1, OpenFileAppends DEF DaemonInv
  <2> QED
    BY <2>1, <2>2
<1>4. ASSUME NEW fh \in Handle, WriteMessage(s, fh) \/ CloseFile(s, fh)
      PROVE  disk'[p] = disk[p] \/ \E what \in What : Appends(p, s, what)
  <2>1. CASE Refuse(s)
    BY <1>1, <2>1 DEF Refuse, fileVars
  <2>2. ASSUME NEW what \in What, IsOpen(s, fh), write_message(s, fh, what)
        PROVE  disk'[p] = disk[p] \/ Appends(p, s, what)
    <3>1. open_files[s][fh] \in File
      BY <2>2 DEF DaemonInv, TypeOK, IsOpen
    <3> QED
      BY <1>2, <2>2, <3>1 DEF write_message
  <2>3. "message" \in What /\ "closed" \in What
    BY DEF What
  <2> QED
    BY <1>4, <2>1, <2>2, <2>3 DEF WriteMessage, CloseFile
<1>5. ASSUME NEW ch \in Handle, DisconnectClient(s, ch)
      PROVE  disk'[p] = disk[p] \/ \E what \in What : Appends(p, s, what)
  <2>1. CASE Refuse(s)
    BY <1>1, <2>1 DEF Refuse, fileVars
  <2>2. CASE disk' = [q \in Path |->
                   IF q \in Held(s) \ Unwritable
                     THEN Append(disk[q], [by |-> s, what |-> "disconnected"])
                     ELSE disk[q]]
    <3>1. "disconnected" \in What
      BY DEF What
    <3>2. disk'[p] = disk[p] \/ Appends(p, s, "disconnected")
      BY <2>2 DEF Appends
    <3> QED
      BY <3>1, <3>2
  <2> QED
    BY <1>5, <2>1, <2>2 DEF DisconnectClient
<1>6. CASE Refuse(s) \/ SetClientInfo(s)
  BY <1>1, <1>6 DEF Refuse, SetClientInfo, fileVars
<1> QED
  BY <1>3, <1>4, <1>5, <1>6 DEF Execute

\* Where every path can be written, a line written is in the log.
LEMMA WrittenIs ==
  ASSUME DaemonInv, Unwritable = {}, NEW s \in Session, NEW f \in File,
         NEW what \in What,
         disk' = Written(disk, f, s, what), exists' = Touched(f.filepath)
  PROVE  /\ Appends(f.filepath, s, what)
         /\ \A p \in Path \ {f.filepath} : disk'[p] = disk[p]
<1>1. f.filepath \in Path
  BY DEF File
<1> QED
  BY <1>1, WrittenAppends DEF DaemonInv

\* The path a session holds is open under the handle it has for it.
LEMMA HeldUnderHandle ==
  ASSUME HandleNamesPath, NEW s \in Session, NEW q \in Held(s)
  PROVE  LET fh == open_filehandles[s][q]
         IN  fh \in Handle /\ IsOpen(s, fh) /\ open_files[s][fh].filepath = q
<1>1. PICK h \in Handle : IsOpen(s, h) /\ open_files[s][h].filepath = q
  BY DEF Held
<1>2. open_filehandles[s][q] = h
  BY <1>1 DEF HandleNamesPath
<1> QED
  BY <1>1, <1>2

\* The requests of a session that holds q, on the handle it has for it
LEMMA HeldIsWritten ==
  ASSUME DaemonInv, Unwritable = {}, NEW s \in Session,
         NEW q \in Path, q \in Held(s)
  PROVE  LET fh == open_filehandles[s][q]
         IN  /\ fh \in Handle
             /\ WriteMessage(s, fh) =>
                  /\ reply'[s] = "ackn" /\ Held(s)' = Held(s)
                  /\ Appends(q, s, "message")
                  /\ \A p \in Path \ {q} : disk'[p] = disk[p]
             /\ CloseFile(s, fh) =>
                  /\ reply'[s] = "ackn"
                  /\ Appends(q, s, "closed")
                  /\ \A p \in Path \ {q} : disk'[p] = disk[p]
<1> DEFINE fh == open_filehandles[s][q]
<1>1. fh \in Handle /\ IsOpen(s, fh) /\ open_files[s][fh].filepath = q
  BY HeldUnderHandle DEF DaemonInv
<1>2. open_files[s][fh] \in File
  BY <1>1 DEF DaemonInv, TypeOK, IsOpen
<1>3. ASSUME NEW what \in What, write_message(s, fh, what)
      PROVE  Appends(q, s, what) /\ \A p \in Path \ {q} : disk'[p] = disk[p]
  <2>1. /\ disk' = Written(disk, open_files[s][fh], s, what)
        /\ exists' = Touched(open_files[s][fh].filepath)
    BY <1>3 DEF write_message
  <2> QED
    BY <1>1, <1>2, <2>1, WrittenIs
<1>4. "message" \in What /\ "closed" \in What
  BY DEF What
<1>5. WriteMessage(s, fh) =>
        /\ reply'[s] = "ackn" /\ open_files' = open_files
        /\ write_message(s, fh, "message")
  BY <1>1 DEF WriteMessage, Returns, DaemonInv, TypeOK
<1>6. CloseFile(s, fh) => reply'[s] = "ackn" /\ write_message(s, fh, "closed")
  BY <1>1 DEF CloseFile, Returns, DaemonInv, TypeOK
<1>7. open_files' = open_files => Held(s)' = Held(s)
  BY DEF Held, IsOpen
<1> QED
  BY <1>1, <1>3, <1>4, <1>5, <1>6, <1>7

-----------------------------------------------------------------------------
(* Who is not concerned by a step stands as before. *)

ProgramKept(a) ==
  /\ UNCHANGED <<program[a], at[a], argv1[a], own[a], said[a], code[a]>>
  /\ UNCHANGED <<local_client[a], remote_file[a], call[a]>>

\* The session of a program that neither it nor the daemon does anything for;
\* its connection may be lost, and then the daemon may drop it.
OwnSessionKept(a, s) ==
  /\ LinesKept(s)
  /\ reply'[s] = reply[s] /\ returned'[s] = returned[s]
  /\ status'[s] # "none"
  /\ s \in broken => s \in broken'
  /\ wire'[s] = wire[s] \/ (s \in broken' /\ wire'[s] = NoRequest)
  /\ Held(s)' = Held(s) \/ (s \in broken' /\ Held(s)' = {})
  /\ \A b \in App \ {a} : ~Uses(b, s)' /\ own'[b] # s

LEMMA StandsKept ==
  ASSUME NEW a \in App, Stands(a), ProgramKept(a),
         own[a] # NoSession => OwnSessionKept(a, own[a])
  PROVE  Stands(a)'
<1>1. CASE own[a] = NoSession
  <2>1. Unconnected(a)'
    BY <1>1 DEF Stands, Unconnected, ProgramKept
  <2> QED
    BY <1>1, <2>1 DEF Stands, ProgramKept
<1>2. CASE own[a] # NoSession
  <2> DEFINE Keeps == UNCHANGED <<program[a], at[a], argv1[a], own[a], said[a],
                                  code[a], local_client[a], remote_file[a],
                                  call[a]>>
  <2>1. PICK s \in Session, q \in Path : own[a] = s /\ argv1[a] = q
    BY <1>2 DEF Stands, Owned
  <2>2. /\ own'[a] = s /\ argv1'[a] = q /\ Keeps
        /\ OwnSessionKept(a, s) /\ Owned(a)
    BY <1>2, <2>1 DEF ProgramKept, Stands
  <2>3. Owned(a)'
    BY <2>1, <2>2 DEF Owned, OwnSessionKept, Uses
  <2>4. /\ Silent(s)' <=> Silent(s)
        /\ Messages(s)' = Messages(s)
        /\ Held(s)' = Held(s) => (Begun(s, q) => Begun(s, q)')
        /\ StoryTold(a) => StoryTold(a)'
    BY <2>1, <2>2, KeptLines DEF OwnSessionKept
  <2>5. Wordless(a) => Wordless(a)'
    BY <2>1, <2>2, <2>4 DEF Wordless, OwnSessionKept
  <2>6. LogClosed(a) => LogClosed(a)'
    BY <2>1, <2>2, <2>4 DEF LogClosed, OwnSessionKept
  <2>7. s \notin broken' =>
          s \notin broken /\ wire'[s] = wire[s] /\ Held(s)' = Held(s)
    BY <2>2 DEF OwnSessionKept
  <2>8. OpeningLog(a) => OpeningLog(a)'
    <3>1. Calling(a, "clnt")' <=> Calling(a, "clnt")
      BY <2>2 DEF Calling
    <3>2. Calling(a, "open")' <=> Calling(a, "open")
      BY <2>2 DEF Calling
    <3>3. s \notin broken' => (Executed(a, s)' <=> Executed(a, s))
      BY <2>2, <2>7 DEF Executed
    <3>4. reply'[s] = reply[s]
      BY <2>2 DEF OwnSessionKept
    <3>5. Begun(s, argv1[a])' <=> Begun(s, q)'
      BY <2>2 DEF Begun
    <3> QED
      BY <2>1, <2>2, <2>4, <2>7, <3>1, <3>2, <3>3, <3>4, <3>5 DEF OpeningLog
  <2>9. s \in broken \/ LogOpened(a) => s \in broken' \/ LogOpened(a)'
    <3> SUFFICES ASSUME s \notin broken', LogOpened(a) PROVE LogOpened(a)'
      BY <2>7
    <3>1. /\ Calling(a, "mesg")' <=> Calling(a, "mesg")
          /\ Calling(a, "clos")' <=> Calling(a, "clos")
          /\ Executed(a, s)' <=> Executed(a, s)
      BY <2>2, <2>7 DEF Calling, Executed
    <3>2. reply'[s] = reply[s] /\ returned'[s] = returned[s]
      BY <2>2 DEF OwnSessionKept
    <3>3. \A l \in Log : OnlyLog(a, l)' <=> OnlyLog(a, l)
      BY <2>2 DEF OnlyLog
    <3>4. Begun(s, argv1[a]) => Begun(s, argv1[a])'
      BY <2>1, <2>2, <2>4, <2>7 DEF Begun
    <3> QED
      BY <2>1, <2>2, <2>4, <3>1, <3>2, <3>3, <3>4 DEF LogOpened
  <2> QED
    BY <1>2, <2>1, <2>2, <2>3, <2>5, <2>6, <2>8, <2>9 DEF Stands, Calling
<1> QED
  BY <1>1, <1>2

-----------------------------------------------------------------------------
(* The daemon executes a request of a program's session. *)

\* A request that is not an open, a write or a close writes nothing, for a
\* session that holds no log.
LEMMA ServeQuietly ==
  ASSUME DaemonInv, NEW s \in Session,
         SetClientInfo(s)
           \/ (DisconnectClient(s, client_handle[s]) /\ Held(s) = {})
  PROVE  LinesKept(s) /\ Held(s)' = Held(s)
<1>1. \A p \in Path : disk'[p] = disk[p]
  BY DEF SetClientInfo, DisconnectClient, Refuse, fileVars
<1>2. open_files' = open_files
  BY DEF SetClientInfo, DisconnectClient, Refuse
<1>3. LinesKept(s)
  BY <1>1, KeptByOthers DEF DaemonInv
<1> QED
  BY <1>2, <1>3 DEF Held, IsOpen

LEMMA ServeOpening ==
  ASSUME DaemonInv, ClientInv, Unwritable = {}, NEW a \in App,
         NEW s \in Session, NEW q \in Path, own[a] = s, argv1[a] = q,
         Stands(a), OpeningLog(a), s \notin broken, ServeRequest(s),
         UNCHANGED programVars
  PROVE  OpeningLog(a)'
<1> DEFINE l == call[a].log
<1>1. /\ wire[s] # NoRequest /\ wire'[s] = NoRequest /\ Act(s, wire[s])
      /\ UNCHANGED <<local_client, remote_file, call, broken>>
  BY DEF ServeRequest, appVars, ClientInv, ClientTypeOK
<1>2. /\ Calling(a, "clnt") \/ Calling(a, "open")
      /\ remote_file[a][l] = [NoLog EXCEPT !.state = "opening", !.path = q]
      /\ Silent(s)
  BY <1>1 DEF OpeningLog, Executed
<1>3. call[a] # NoCall /\ Uses(a, s)
  BY <1>2, NoneAssumption DEF Calling, Uses, Stands, Owned
<1>4. wire[s] = Asked(a)
  BY <1>1, <1>3 DEF ClientInv, Served, Answered
<1>5. ASSUME \/ Silent(s)' /\ reply'[s] # "filh"
             \/ Begun(s, q)' /\ reply'[s] = "filh" /\ Calling(a, "open")
      PROVE  OpeningLog(a)'
  <2>1. /\ own'[a] = s /\ argv1'[a] = q /\ said'[a] = said[a]
        /\ call'[a] = call[a] /\ remote_file'[a] = remote_file[a]
    BY <1>1 DEF programVars
  <2>2. Executed(a, s)'
    BY <1>1, <1>3 DEF Executed
  <2>3. /\ Calling(a, "clnt")' <=> Calling(a, "clnt")
        /\ Calling(a, "open")' <=> Calling(a, "open")
    BY <1>1 DEF Calling
  <2>4. Begun(s, argv1[a])' <=> Begun(s, q)'
    BY <2>1 DEF Begun
  <2> QED
    BY <1>5, <2>1, <2>2, <2>3, <2>4 DEF OpeningLog, Calling
<1>6. CASE Calling(a, "clnt")
  <2>1. wire[s].op = "clnt"
    BY <1>4, <1>6 DEF Asked, Calling
  <2>2. SetClientInfo(s)
    BY <1>1, <2>1 DEF Act
  <2>3. Silent(s)' /\ reply'[s] # "filh"
    BY <1>2, <2>2, ServeQuietly, KeptLines, OtherEffects DEF DaemonInv
  <2> QED
    BY <1>5, <2>3
<1>7. CASE Calling(a, "open")
  <2>1. wire[s].op = "open" /\ wire[s].path = q
    BY <1>2, <1>4, <1>7 DEF Asked, Calling, NoLog
  <2>2. OpenFile(s, q)
    BY <1>1, <2>1 DEF Act
  <2>3. CASE reply'[s] = "filh"
    <3>1. PICK f \in File : /\ f.filepath = q
                            /\ disk' = Written(disk, f, s, "opened")
                            /\ exists' = Touched(q)
      BY <2>2, <2>3, OpenEffect
    <3>2. Held(s)' = Held(s) \cup {q}
      BY <2>2, <2>3, OpenEffect
    <3>3. "opened" \in What
      BY DEF What
    <3>4. Appends(q, s, "opened") /\ \A p \in Path \ {q} : disk'[p] = disk[p]
      BY <3>1, <3>3, WrittenIs
    <3>5. Begun(s, q)'
      BY <1>2, <3>2, <3>4, FirstLine DEF DaemonInv
    <3> QED
      BY <1>5, <1>7, <2>3, <3>5
  <2>4. CASE reply'[s] = "nack"
    <3>1. disk' = disk
      BY <2>2, <2>4, OpenEffect
    <3>2. Silent(s)'
      BY <1>2, <3>1 DEF Silent
    <3> QED
      BY <1>5, <2>4, <3>2
  <2> QED
    BY <2>2, <2>3, <2>4, OpenEffect
<1> QED
  BY <1>2, <1>6, <1>7

LEMMA ServeOpened ==
  ASSUME DaemonInv, ClientInv, DoubtInv, Unwritable = {}, NEW a \in App,
         NEW s \in Session, NEW q \in Path, own[a] = s, argv1[a] = q,
         at[a] \in {"logging", "writing", "said", "closing"},
         LogOpened(a), s \notin broken, ServeRequest(s), UNCHANGED programVars
  PROVE  LogOpened(a)'
<1>1. /\ wire[s] # NoRequest /\ wire'[s] = NoRequest /\ Act(s, wire[s])
      /\ UNCHANGED <<local_client, remote_file, call, returned, broken>>
  BY DEF ServeRequest, appVars, ClientInv, ClientTypeOK
<1>2. local_client[a] = s /\ Begun(s, q)
  BY <1>1 DEF LogOpened, Executed
<1>3. Served(a, s)
  BY <1>2 DEF ClientInv, Uses
<1>4. call[a] # NoCall /\ wire[s] = Asked(a)
  BY <1>1, <1>3 DEF Served, Answered
<1>5. PICK l \in Log : OnlyLog(a, l) /\ call[a].log = l
  BY <1>4 DEF LogOpened
<1>6. q \in Held(s) /\ remote_file[a][l].file = open_filehandles[s][q]
  BY <1>2, <1>3, <1>5 DEF Begun, OnlyLog, Served, LogServed, HandleFor
<1>7. /\ own'[a] = s /\ argv1'[a] = q /\ said'[a] = said[a] /\ at'[a] = at[a]
      /\ program'[a] = program[a]
      /\ call'[a] = call[a] /\ remote_file'[a] = remote_file[a]
      /\ local_client'[a] = s /\ returned'[s] = returned[s]
  BY <1>1, <1>2 DEF programVars
<1>8. Executed(a, s)' /\ OnlyLog(a, l)'
  BY <1>1, <1>4, <1>5, <1>7 DEF Executed, OnlyLog
<1>9. CASE at[a] = "writing"
  <2>1. Calling(a, "mesg") /\ Calling(a, "mesg")'
    BY <1>7, <1>9 DEF LogOpened, Calling
  <2>2. wire[s].op = "mesg" /\ wire[s].file = open_filehandles[s][q]
    BY <1>4, <1>5, <1>6, <2>1 DEF Asked, Calling
  <2>3. WriteMessage(s, open_filehandles[s][q])
    BY <1>1, <2>2 DEF Act
  <2>4. /\ reply'[s] = "ackn" /\ Held(s)' = Held(s)
        /\ Appends(q, s, "message")
        /\ \A p \in Path \ {q} : disk'[p] = disk[p]
    BY <1>6, <2>3, HeldIsWritten
  <2>5. Begun(s, q)'
    BY <1>2, <2>4, NextLine DEF DaemonInv
  <2>6. Begun(s, argv1[a])'
    BY <1>7, <2>5 DEF Begun
  <2> QED
    BY <1>5, <1>7, <1>8, <1>9, <2>1, <2>4, <2>6 DEF LogOpened
<1>10. CASE at[a] = "closing"
  <2>1. Calling(a, "clos") /\ Calling(a, "clos")'
    BY <1>7, <1>10 DEF LogOpened, Calling
  <2>2. wire[s].op = "clos" /\ wire[s].file = open_filehandles[s][q]
    BY <1>4, <1>5, <1>6, <2>1 DEF Asked, Calling
  <2>3. CloseFile(s, open_filehandles[s][q])
    BY <1>1, <2>2 DEF Act
  <2>4. /\ Appends(q, s, "closed")
        /\ \A p \in Path \ {q} : disk'[p] = disk[p]
    BY <1>6, <2>3, HeldIsWritten
  <2>5. Cardinality(Messages(s)) = returned[s]
    BY <1>1 DEF DoubtInv, Doubt, Confirmed, ClientInv, ClientTypeOK
  <2>6. returned[s] = Told(program'[a])
    BY <1>7, <1>10 DEF LogOpened
  <2>7. StoryTold(a)'
    BY <1>2, <1>7, <2>4, <2>5, <2>6, LastLine DEF DaemonInv
  <2> QED
    BY <1>5, <1>7, <1>8, <1>10, <2>1, <2>6, <2>7 DEF LogOpened
<1> QED
  BY <1>4, <1>9, <1>10 DEF LogOpened

LEMMA ServeOwn ==
  ASSUME DaemonInv, ClientInv, DoubtInv, Unwritable = {}, NEW a \in App,
         NEW s \in Session, own[a] = s, Stands(a), ServeRequest(s),
         UNCHANGED programVars
  PROVE  Stands(a)'
<1>0. own[a] # NoSession
  BY NoneAssumption
<1>1. PICK q \in Path : argv1[a] = q
  BY <1>0 DEF Stands, Owned
<1>2. /\ wire[s] # NoRequest /\ wire'[s] = NoRequest /\ Act(s, wire[s])
      /\ UNCHANGED <<local_client, remote_file, call, returned, broken>>
  BY DEF ServeRequest, appVars, ClientInv, ClientTypeOK
<1>3. UNCHANGED <<program, at, argv1, own, said, code>>
  BY DEF programVars
<1>4. status' = status
  BY ServeExecutes, OtherSessionsKept DEF DaemonInv, ClientInv
<1>5. Owned(a)'
  <2>1. \A b \in App : Uses(b, s)' <=> Uses(b, s)
    BY <1>2 DEF Uses
  <2> QED
    BY <1>0, <1>2, <1>3, <1>4, <2>1 DEF Stands, Owned
<1>6. Wordless(a) => Wordless(a)'
  <2> SUFFICES ASSUME Wordless(a) PROVE Wordless(a)'
    OBVIOUS
  <2>1. \A p \in Path : NoMessage(p)
    BY <1>2, QuietRequest DEF Wordless
  <2>2. Messages(s)' = Messages(s)
    BY <2>1, MessagesKept DEF DaemonInv
  <2> QED
    BY <1>2, <1>3, <2>2 DEF Wordless
<1>7. LogClosed(a) => LogClosed(a)'
  <2> SUFFICES ASSUME LogClosed(a) PROVE LogClosed(a)'
    OBVIOUS
  <2>1. DisconnectClient(s, client_handle[s]) /\ Held(s) = {}
    BY <1>2 DEF LogClosed, Act
  <2>2. LinesKept(s) /\ Held(s)' = {}
    BY <2>1, ServeQuietly
  <2>3. StoryTold(a)'
    BY <1>1, <1>3, <2>2, KeptLines DEF LogClosed
  <2> QED
    BY <1>2, <1>3, <2>2, <2>3 DEF LogClosed
<1>8. at[a] = "opening" => OpeningLog(a)'
  <2> SUFFICES ASSUME OpeningLog(a) PROVE OpeningLog(a)'
    BY <1>0 DEF Stands
  <2>1. CASE s \in broken
    BY <1>2, <1>3, <2>1 DEF OpeningLog, Calling
  <2> QED
    BY <1>1, <2>1, ServeOpening
<1>9. at[a] \in {"logging", "writing", "said", "closing"} =>
        s \in broken' \/ LogOpened(a)'
  BY <1>0, <1>1, <1>2, ServeOpened DEF Stands
<1> QED
  BY <1>0, <1>2, <1>3, <1>5, <1>6, <1>7, <1>8, <1>9 DEF Stands, Calling

-----------------------------------------------------------------------------
(* Steps around a program *)

\* A call or a return is the business of one application.
LEMMA AppsApart ==
  ASSUME ClientInv, NEW b \in App, NEW a \in App \ {b},
         Return(b) \/ \E l \in Log : Calls(b, l)
  PROVE  /\ UNCHANGED <<local_client[a], remote_file[a], call[a]>>
         /\ UNCHANGED <<disk, reply, open_files>>
<1>0. ClientTypeOK
  BY DEF ClientInv
<1>1. ASSUME NEW l \in Log, Calls(b, l)
      PROVE  /\ UNCHANGED <<local_client[a], remote_file[a], call[a]>>
             /\ UNCHANGED <<disk, reply, open_files>>
  BY <1>0, <1>1 DEF Calls, OpenLog, ConnectAndOpen, WriteLine, CloseLog,
     DestroyHost, CreateSession, Opening, send, ClientTypeOK, vars, sessionVars,
     fileVars
<1>2. CASE Return(b)
  BY <1>0, <1>2 DEF Return, Connected, Opened, Wrote, Closed, Disconnected, send,
     ClientTypeOK, vars, sessionVars, fileVars
<1> QED
  BY <1>1, <1>2

LEMMA AppChanges ==
  ASSUME TypeOK, ClientInv, NEW b \in App, NEW s \in Session, ~Uses(b, s),
         status[s] # "none" \/ status'[s] = "none",
         Return(b) \/ \E l \in Log : Calls(b, l)
  PROVE  /\ status'[s] = status[s] /\ returned'[s] = returned[s]
         /\ wire'[s] = wire[s] /\ (s \in broken' <=> s \in broken)
         /\ ~Uses(b, s)'
<1> DEFINE Goal == /\ status'[s] = status[s] /\ returned'[s] = returned[s]
                   /\ wire'[s] = wire[s] /\ (s \in broken' <=> s \in broken)
                   /\ ~Uses(b, s)'
<1>0. ClientTypeOK /\ Standing(b)
  BY DEF ClientInv
<1>1. local_client[b] # s /\ (call[b] # NoCall => call[b].session # s)
  BY DEF Uses
<1>2. ASSUME NEW t \in Session \ {s}, NEW op, NEW l, NEW p, NEW f,
             send(b, t, op, l, p, f)
      PROVE  wire'[s] = wire[s] /\ call'[b].session # s
  BY <1>0, <1>2 DEF send, ClientTypeOK
<1>3. ASSUME NEW l \in Log, Calls(b, l) PROVE Goal
  <2>1. CASE \/ \E p \in Path : OpenLog(b, l, p)
             \/ WriteLine(b, l) \/ CloseLog(b, l) \/ DestroyHost(b, l)
    <3>1. local_client[b] \in Session \ {s}
      BY <1>0, <1>1, <2>1 DEF OpenLog, WriteLine, CloseLog, DestroyHost,
         Standing, ClientTypeOK
    <3>2. wire'[s] = wire[s] /\ call'[b].session # s
      BY <1>0, <1>2, <2>1, <3>1 DEF OpenLog, WriteLine, CloseLog, DestroyHost
    <3>3. UNCHANGED <<status, returned, broken, local_client>>
      BY <2>1 DEF OpenLog, WriteLine, CloseLog, DestroyHost, vars, sessionVars
    <3> QED
      BY <1>1, <3>2, <3>3 DEF Uses
  <2>2. ASSUME NEW p \in Path, NEW t \in Session, ConnectAndOpen(b, l, p, t)
        PROVE  Goal
    <3>1. /\ status[t] = "none" /\ status' = [status EXCEPT ![t] = "live"]
          /\ UNCHANGED <<local_client, returned, broken>>
          /\ send(b, t, "clnt", l, NoPath, NoHandle)
      BY <2>2 DEF ConnectAndOpen, CreateSession
    <3>2. t # s /\ status'[s] = status[s]
      BY <3>1 DEF TypeOK
    <3>3. wire'[s] = wire[s] /\ call'[b].session # s
      BY <1>2, <3>1, <3>2
    <3> QED
      BY <1>1, <3>1, <3>2, <3>3 DEF Uses
  <2> QED
    BY <1>3, <2>1, <2>2 DEF Calls
<1>4. CASE Return(b)
  <2>1. status' = status
    BY <1>4 DEF Return, vars, sessionVars
  <2>2. call[b] # NoCall /\ call[b].session \in Session \ {s} /\ call[b] \in Call
    BY <1>0, <1>1, <1>4 DEF Return, Ready, ClientTypeOK, Call
  <2>3. CASE Connected(b)
    <3> DEFINE t == call[b].session
    <3>1. CASE ~Throws(b) /\ Answer(b) = "clnh"
      <4>1. /\ local_client' = [local_client EXCEPT ![b] = t]
            /\ UNCHANGED <<remote_file, broken, returned>>
            /\ \E p : send(b, t, "open", call[b].log, p, NoHandle)
        BY <1>0, <2>3, <3>1 DEF Connected
      <4> QED
        BY <1>0, <1>2, <2>1, <2>2, <4>1 DEF Uses, ClientTypeOK
    <3>2. CASE ~(~Throws(b) /\ Answer(b) = "clnh")
      BY <1>0, <1>1, <2>1, <2>2, <2>3, <3>2 DEF Connected, Uses, ClientTypeOK
    <3> QED
      BY <3>1, <3>2
  <2>4. CASE Opened(b) \/ Closed(b) \/ Disconnected(b)
    BY <1>0, <1>1, <2>1, <2>2, <2>4, NoneAssumption
    DEF Opened, Closed, Disconnected, Uses, ClientTypeOK, netVars
  <2>5. CASE Wrote(b)
    BY <1>0, <1>1, <2>1, <2>2, <2>5 DEF Wrote, Uses, ClientTypeOK, netVars
  <2> QED
    BY <1>0, <1>4, <2>3, <2>4, <2>5 DEF Return
<1> QED
  BY <1>3, <1>4

\* A session that has been created keeps being so, and one that has not is not
\* written for.
LEMMA UnusedKept ==
  ASSUME TypeOK, ClientInv, ClientInv', UnusedSilent, NEW a \in App,
         Return(a) \/ \E l \in Log : Calls(a, l)
  PROVE  UnusedSilent'
<1> SUFFICES ASSUME NEW s \in Session, status'[s] = "none"
             PROVE  Silent(s)' /\ wire'[s] = NoRequest
  BY DEF UnusedSilent
<1>1. status[s] = "none"
  <2>1. ASSUME NEW l \in Log, Calls(a, l) PROVE status[s] = "none"
    BY <2>1 DEF Calls, OpenLog, ConnectAndOpen, WriteLine, CloseLog,
       DestroyHost, CreateSession, vars, sessionVars, TypeOK
  <2> QED
    BY <2>1 DEF Return, vars, sessionVars
<1>2. ~Uses(a, s)
  BY <1>1 DEF ClientInv, UsersApart
<1>3. wire'[s] = wire[s]
  BY <1>2, AppChanges
<1>4. disk' = disk
  BY DEF Return, Calls, OpenLog, ConnectAndOpen, WriteLine, CloseLog,
     DestroyHost, CreateSession, vars, fileVars
<1> QED
  BY <1>1, <1>3, <1>4 DEF UnusedSilent, Silent

\* A call or a return of an application, seen by a program beside it
LEMMA Beside ==
  ASSUME TypeOK, ClientInv, NEW b \in App, NEW a \in App \ {b},
         Return(b) \/ \E l \in Log : Calls(b, l),
         Stands(a), own[a] \in Session \cup {NoSession},
         UNCHANGED <<program[a], at[a], argv1[a], own[a], said[a], code[a]>>,
         \A c \in App \ {a, b} : own'[c] = own[c],
         own[a] # NoSession => own'[b] # own[a]
  PROVE  Stands(a)'
<1>1. ProgramKept(a) /\ UNCHANGED <<disk, reply, open_files>>
  BY AppsApart DEF ProgramKept
<1>2. ASSUME NEW s \in Session, own[a] = s PROVE OwnSessionKept(a, s)
  <2>1. Owned(a)
    BY <1>2, NoneAssumption DEF Stands
  <2>2. ~Uses(b, s) /\ status[s] # "none"
    BY <1>2, <2>1 DEF Owned
  <2>3. /\ status'[s] = status[s] /\ returned'[s] = returned[s]
        /\ wire'[s] = wire[s] /\ (s \in broken' <=> s \in broken)
        /\ ~Uses(b, s)'
    BY <2>2, AppChanges
  <2>4. LinesKept(s) /\ Held(s)' = Held(s)
    BY <1>1 DEF LinesKept, OwnLine, Held, IsOpen
  <2>5. ASSUME NEW c \in App \ {a} PROVE ~Uses(c, s)' /\ own'[c] # s
    <3>1. CASE c = b
      BY <1>2, <2>3, <3>1, NoneAssumption
    <3>2. CASE c # b
      <4>1. ~Uses(c, s) /\ own[c] # s
        BY <1>2, <2>1 DEF Owned
      <4>2. UNCHANGED <<local_client[c], remote_file[c], call[c]>>
        BY <3>2, AppsApart
      <4> QED
        BY <3>2, <4>1, <4>2 DEF Uses
    <3> QED
      BY <3>1, <3>2
  <2> QED
    BY <1>1, <2>2, <2>3, <2>4, <2>5 DEF OwnSessionKept
<1> QED
  BY <1>1, <1>2, StandsKept

\* The daemon and the network, seen by all programs
LEMMA AroundStep ==
  ASSUME DaemonInv, ClientInv, DoubtInv, StoryInv, Unwritable = {},
         NEW t \in Session, Surroundings(t), UNCHANGED programVars
  PROVE  StoryInv'
<1>1. /\ UNCHANGED <<local_client, remote_file, call, returned>>
      /\ UNCHANGED <<program, at, argv1, own, said, buffer, code>>
  BY DEF Surroundings, ServeRequest, LoseConnection, EndSession, appVars,
     programVars
<1>2. /\ \A s \in Session : status[s] # "none" <=> status'[s] # "none"
      /\ \A s \in broken : s \in broken'
      /\ \A s \in Session \ {t} : /\ reply'[s] = reply[s] /\ wire'[s] = wire[s]
                                  /\ Held(s)' = Held(s) /\ LinesKept(s)
  <2>1. CASE ServeRequest(t)
    <3>1. Execute(t)
      BY <2>1, ServeExecutes DEF DaemonInv, ClientInv
    <3>2. status' = status /\ \A s \in Session \ {t} : SessionKept(s)
      BY <3>1, OtherSessionsKept DEF DaemonInv
    <3>3. \A s \in Session \ {t} : Held(s)' = Held(s) /\ reply'[s] = reply[s]
      BY <3>2 DEF SessionKept, Held, IsOpen
    <3>4. broken' = broken /\ \A s \in Session \ {t} : wire'[s] = wire[s]
      BY <2>1 DEF ServeRequest, ClientInv, ClientTypeOK
    <3>5. \A s \in Session \ {t} : LinesKept(s)
      <4> SUFFICES ASSUME NEW s \in Session \ {t} PROVE LinesKept(s)
        OBVIOUS
      <4>1. \A p \in Path : disk'[p] = disk[p]
                             \/ \E what \in What : Appends(p, t, what)
        BY <3>1, ExecuteAppends
      <4> QED
        BY <4>1, KeptByOthers DEF DaemonInv
    <3> QED
      BY <3>2, <3>3, <3>4, <3>5
  <2>2. CASE LoseConnection(t)
    BY <2>2 DEF LoseConnection, vars, sessionVars, fileVars, ClientInv,
       ClientTypeOK, Held, IsOpen, LinesKept, OwnLine
  <2>3. CASE EndSession(t)
    BY <2>3 DEF EndSession, DestroySession, netVars, fileVars, DaemonInv,
       TypeOK, Held, IsOpen, LinesKept, OwnLine
  <2> QED
    BY <2>1, <2>2, <2>3 DEF Surroundings
<1>3. status[t] # "none"
  <2>1. ServeRequest(t) => status[t] # "none"
    BY DEF ServeRequest, StoryInv, UnusedSilent
  <2>2. LoseConnection(t) => status[t] # "none"
    BY DEF LoseConnection, ClientInv, UsersApart
  <2>3. EndSession(t) => status[t] # "none"
    BY DEF EndSession, DestroySession
  <2> QED
    BY <2>1, <2>2, <2>3 DEF Surroundings
<1>4. UnusedSilent'
  <2> SUFFICES ASSUME NEW s \in Session, status'[s] = "none"
               PROVE  Silent(s)' /\ wire'[s] = NoRequest
    BY DEF UnusedSilent
  <2>1. status[s] = "none" /\ s # t
    BY <1>2, <1>3
  <2>2. LinesKept(s) /\ wire'[s] = wire[s]
    BY <1>2, <2>1
  <2> QED
    BY <2>1, <2>2, KeptLines DEF StoryInv, UnusedSilent
<1>5. \A a \in App : ProgramKept(a)
  BY <1>1 DEF ProgramKept
<1>6. \A a \in App, s \in Session : Uses(a, s)' <=> Uses(a, s)
  BY <1>1 DEF Uses
<1>7. ASSUME NEW a \in App, Stands(a) PROVE Stands(a)'
  <2>1. CASE own[a] = NoSession
    BY <1>5, <1>7, <2>1, StandsKept
  <2>2. CASE own[a] \in Session /\ own[a] # t
    <3>1. PICK s \in Session \ {t} : s = own[a]
      BY <2>2
    <3>2. Owned(a)
      BY <1>7, <2>2, NoneAssumption DEF Stands
    <3>3. OwnSessionKept(a, s)
      BY <1>1, <1>2, <1>6, <3>1, <3>2 DEF OwnSessionKept, Owned
    <3> QED
      BY <1>5, <1>7, <3>1, <3>3, StandsKept
  <2>3. CASE own[a] = t /\ ServeRequest(t)
    BY <1>7, <2>3, ServeOwn
  <2>4. CASE own[a] = t /\ ~ServeRequest(t)
    <3>1. Owned(a)
      BY <1>7, <2>4, NoneAssumption DEF Stands
    <3>2. /\ LinesKept(t) /\ reply'[t] = reply[t]
          /\ wire'[t] = wire[t] \/ (t \in broken' /\ wire'[t] = NoRequest)
          /\ Held(t)' = Held(t) \/ (t \in broken' /\ Held(t)' = {})
      <4>1. CASE LoseConnection(t)
        <5>1. wire'[t] \in {wire[t], NoRequest} /\ t \in broken'
          BY <4>1 DEF LoseConnection, ClientInv, ClientTypeOK
        <5> QED
          BY <4>1, <5>1 DEF LoseConnection, vars, sessionVars, fileVars, Held,
             IsOpen, LinesKept, OwnLine
      <4>2. CASE EndSession(t)
        <5>1. t \in broken' /\ \A h \in Handle : ~IsOpen(t, h)'
          BY <4>2 DEF EndSession, DestroySession, netVars, IsOpen, DaemonInv,
             TypeOK
        <5>2. Held(t)' = {}
          BY <5>1 DEF Held
        <5> QED
          BY <4>2, <5>1, <5>2 DEF EndSession, DestroySession, netVars, fileVars,
             LinesKept, OwnLine
      <4> QED
        BY <2>4, <4>1, <4>2 DEF Surroundings
    <3>3. OwnSessionKept(a, t)
      BY <1>1, <1>2, <1>3, <1>6, <2>4, <3>1, <3>2 DEF OwnSessionKept, Owned
    <3> QED
      BY <1>5, <1>7, <2>4, <3>3, StandsKept
  <2> QED
    BY <2>1, <2>2, <2>3, <2>4 DEF StoryInv, ProgramsTypeOK
<1>8. ProgramsTypeOK'
  BY <1>1 DEF StoryInv, ProgramsTypeOK
<1> QED
  BY <1>1, <1>4, <1>7, <1>8 DEF StoryInv

-----------------------------------------------------------------------------
(* Steps of a program: what they have in common *)

LEMMA ProgramFacts ==
  ASSUME NEW p \in Program
  PROVE  /\ p.says \in Nat /\ p.stream \in BOOLEAN /\ p.code \in Int
         /\ p.unopened \in {"killed", "ended", "leaving"}
         /\ p.unwritten \in {"killed", "said", "undefined"}
         /\ p.unwritten = "said" => p.stream = TRUE
         /\ p # HostTest => p.code # 0
         /\ ~p.stream => Told(p) = p.says
         /\ p.stream => Told(p) = 1
<1>1. Lines \in Nat
  BY LinesAssumption
<1>2. CASE p = loglinetofile
  BY <1>1, <1>2 DEF loglinetofile, HostTest, Told
<1>3. CASE p = logviastream
  BY <1>1, <1>3 DEF logviastream, HostTest, Told
<1>4. CASE p = cloglinetofile
  <2> DEFINE n == -3
  <2>1. n \in Int /\ n # 0
    OBVIOUS
  <2>2. cloglinetofile = [says |-> Lines, stream |-> FALSE, unopened |-> "ended",
                          code |-> n, unwritten |-> "killed"]
    BY DEF cloglinetofile
  <2> HIDE DEF n
  <2> QED
    BY <1>1, <1>4, <2>1, <2>2 DEF HostTest, Told
<1>5. CASE p = LogTest
  <2> DEFINE n == -1
  <2>1. n \in Int /\ n # 0
    OBVIOUS
  <2>2. LogTest = [says |-> 0, stream |-> FALSE, unopened |-> "leaving",
                   code |-> n, unwritten |-> "killed"]
    BY DEF LogTest
  <2> HIDE DEF n
  <2> QED
    BY <1>5, <2>1, <2>2 DEF HostTest, Told
<1>6. CASE p = py_log_line_to_file_test
  BY <1>1, <1>6 DEF py_log_line_to_file_test, HostTest, Told
<1>7. CASE p = OutStreamTest
  BY <1>7 DEF OutStreamTest, HostTest, Told
<1>8. CASE p = HostTest
  BY <1>8 DEF HostTest, Told
<1> QED
  BY <1>2, <1>3, <1>4, <1>5, <1>6, <1>7, <1>8 DEF Program

LEMMA SilentIsWordless ==
  ASSUME NEW s \in Session, Silent(s)
  PROVE  Messages(s) = {}
<1>1. \A p \in Path : \A n : ~MessageAt(s, p, n)
  BY DEF Silent, MessageAt
<1> QED
  BY <1>1, MessagesAre

\* What a call or a return of a program leaves as it was
LEMMA OwnStep ==
  ASSUME TypeOK, ClientInv, ClientInv', NEW a \in App, NEW s \in Session,
         own[a] = s, Owned(a), UNCHANGED <<program, argv1, own>>,
         \/ Return(a)
         \/ \E l \in Log : WriteLine(a, l) \/ CloseLog(a, l) \/ DestroyHost(a, l)
  PROVE  /\ Owned(a)' /\ LinesKept(s) /\ Held(s)' = Held(s)
         /\ Messages(s)' = Messages(s)
         /\ UNCHANGED <<disk, reply, open_files>>
         /\ s \in broken => s \in broken'
<1>0. ClientTypeOK /\ Standing(a)
  BY DEF ClientInv
<1>1. Return(a) \/ \E l \in Log : Calls(a, l)
  BY DEF Calls
<1>2. UNCHANGED <<disk, reply, open_files, status>>
  BY DEF Return, WriteLine, CloseLog, DestroyHost, vars, sessionVars, fileVars
<1>3. LinesKept(s) /\ Held(s)' = Held(s)
  BY <1>2 DEF LinesKept, OwnLine, Held, IsOpen
<1>4. Messages(s)' = Messages(s)
  BY <1>3, KeptLines
<1>5. s \in broken => s \in broken'
  BY <1>0 DEF Return, Connected, Opened, Wrote, Closed, Disconnected, WriteLine,
     CloseLog, DestroyHost, netVars, ClientTypeOK
<1>6. local_client'[a] \in {NoSession, s}
  BY <1>0 DEF Return, Connected, Opened, Wrote, Closed, Disconnected, WriteLine,
     CloseLog, DestroyHost, Owned, Ready, ClientTypeOK
<1>7. call'[a] # NoCall => call'[a].session = s
  <2>2. CASE Return(a)
    <3>1. call[a] # NoCall /\ call[a].session = s
      BY <2>2 DEF Return, Ready, Owned
    <3>2. CASE Connected(a)
      <4>1. \/ call' = [call EXCEPT ![a] = NoCall]
            \/ send(a, s, "open", call[a].log, remote_file[a][call[a].log].path,
                    NoHandle)
        BY <3>1, <3>2 DEF Connected
      <4> QED
        BY <1>0, <4>1 DEF send, ClientTypeOK
    <3> QED
      BY <1>0, <2>2, <3>2 DEF Return, Opened, Wrote, Closed, Disconnected,
         ClientTypeOK
  <2>3. ASSUME NEW l \in Log,
               WriteLine(a, l) \/ CloseLog(a, l) \/ DestroyHost(a, l)
        PROVE  call'[a].session = s
    <3>1. local_client[a] = s
      BY <1>0, <2>3, NoneAssumption
      DEF WriteLine, CloseLog, DestroyHost, Standing, Owned
    <3>2. \/ send(a, s, "mesg", l, NoPath, remote_file[a][l].file)
          \/ send(a, s, "clos", l, NoPath, remote_file[a][l].file)
          \/ send(a, s, "disc", l, NoPath, NoHandle)
      BY <2>3, <3>1 DEF WriteLine, CloseLog, DestroyHost
    <3> QED
      BY <1>0, <3>2 DEF send, ClientTypeOK
  <2> QED
    BY <2>2, <2>3
<1>8. ASSUME NEW b \in App \ {a} PROVE ~Uses(b, s)' /\ own'[b] # own'[a]
  <2>1. ~Uses(b, s) /\ own[b] # own[a]
    BY DEF Owned
  <2>2. UNCHANGED <<local_client[b], call[b]>>
    BY <1>1, AppsApart
  <2> QED
    BY <2>1, <2>2 DEF Uses
<1>9. Owned(a)'
  BY <1>2, <1>6, <1>7, <1>8 DEF Owned
<1> QED
  BY <1>2, <1>3, <1>4, <1>5, <1>9

\* A program with a Log or a Host to destroy makes a call.
LEMMA OwnCall ==
  ASSUME ClientInv, NEW a \in App, NEW l \in Log, NEW s \in Session,
         own[a] = s, Owned(a),
         WriteLine(a, l) \/ CloseLog(a, l) \/ DestroyHost(a, l)
  PROVE  /\ local_client[a] = s /\ local_client'[a] = s
         /\ call[a] = NoCall /\ call'[a] # NoCall
         /\ call'[a].session = s /\ call'[a].log = l
         /\ WriteLine(a, l) => call'[a].op = "mesg"
         /\ CloseLog(a, l) => call'[a].op = "clos"
         /\ DestroyHost(a, l) => call'[a].op = "disc"
         /\ s \in broken => wire'[s] = wire[s]
         /\ s \notin broken => wire'[s] # NoRequest /\ wire'[s].op = call'[a].op
         /\ returned' = returned /\ broken' = broken
<1>0. ClientTypeOK /\ Standing(a)
  BY DEF ClientInv
<1>1. local_client[a] = s /\ local_client' = local_client
  BY <1>0, NoneAssumption DEF WriteLine, CloseLog, DestroyHost, Standing, Owned
<1>2. returned' = returned /\ broken' = broken /\ call[a] = NoCall
  BY DEF WriteLine, CloseLog, DestroyHost, Idle
<1>3. ASSUME NEW op \in Op, NEW f \in Handle \cup {NoHandle},
             send(a, s, op, l, NoPath, f)
      PROVE  /\ call'[a] # NoCall /\ call'[a].op = op
             /\ call'[a].session = s /\ call'[a].log = l
             /\ s \in broken => wire'[s] = wire[s]
             /\ s \notin broken => wire'[s] # NoRequest /\ wire'[s].op = op
  <2> DEFINE c   == [op |-> op, log |-> l, session |-> s]
             req == [op |-> op, path |-> NoPath, file |-> f]
  <2>1. c \in Call
    BY DEF Call
  <2>2. req \in Request
    BY DEF Request
  <2>3. /\ call' = [call EXCEPT ![a] = c]
        /\ wire' = IF s \in broken THEN wire ELSE [wire EXCEPT ![s] = req]
    BY <1>3 DEF send
  <2>4. req.op = op
    OBVIOUS
  <2> HIDE DEF c, req
  <2>5. /\ call'[a] = c /\ call'[a] # NoCall
        /\ s \notin broken => wire'[s] # NoRequest /\ wire'[s] = req
    BY <1>0, <2>1, <2>2, <2>3, SendEffect
  <2> QED
    BY <2>3, <2>4, <2>5 DEF c
<1>4. remote_file[a][l].file \in Handle \cup {NoHandle}
  <2>1. remote_file[a][l] \in LogObject
    BY <1>0 DEF ClientTypeOK
  <2> QED
    BY <2>1 DEF LogObject
<1>5. {"mesg", "clos", "disc"} \subseteq Op
  BY DEF Op
<1>7. WriteLine(a, l) =>
        send(a, s, "mesg", l, NoPath, remote_file[a][l].file)
  BY <1>1 DEF WriteLine
<1>8. CloseLog(a, l) => send(a, s, "clos", l, NoPath, remote_file[a][l].file)
  BY <1>1 DEF CloseLog
<1>9. DestroyHost(a, l) => send(a, s, "disc", l, NoPath, NoHandle)
  BY <1>1 DEF DestroyHost
<1> QED
  BY <1>1, <1>2, <1>3, <1>4, <1>5, <1>7, <1>8, <1>9

-----------------------------------------------------------------------------
(* Steps of a program, one by one *)

LEMMA OpenStep ==
  ASSUME DaemonInv, ClientInv, ClientInv', StoryInv, NEW a \in App,
         program[a] \in Program, NEW q \in Path, NEW s \in Session,
         Open(a, q, s)
  PROVE  Stands(a)'
<1>0. ClientTypeOK /\ ProgramsTypeOK /\ Stands(a)
  BY DEF ClientInv, StoryInv
<1>1. /\ at[a] = "main" /\ at'[a] = "opening" /\ program[a] # HostTest
      /\ argv1'[a] = q /\ own'[a] = s
      /\ \A b \in App \ {a} : own'[b] = own[b]
      /\ UNCHANGED <<program, said, code>>
  BY <1>0 DEF Open, Goes, ProgramsTypeOK
<1>2. own[a] = NoSession /\ Unconnected(a) /\ code[a] = 0
  BY <1>0, <1>1 DEF Stands, Unconnected
<1>3. PICK l \in Log : ConnectAndOpen(a, l, q, s)
  BY DEF Open
<1>4. /\ status[s] = "none" /\ status' = [status EXCEPT ![s] = "live"]
      /\ disk' = disk /\ broken' = broken /\ local_client' = local_client
      /\ Opening(a, l, q)
      /\ send(a, s, "clnt", l, NoPath, NoHandle)
  BY <1>3 DEF ConnectAndOpen, CreateSession, fileVars
<1>5. Silent(s) /\ wire[s] = NoRequest
  BY <1>4 DEF StoryInv, UnusedSilent
<1>6. Silent(s)' /\ Messages(s)' = {}
  <2>1. Silent(s)'
    BY <1>4, <1>5 DEF Silent
  <2>2. Messages(s)' = Messages(s)
    BY <1>4 DEF Messages
  <2> QED
    BY <1>5, <2>1, <2>2, SilentIsWordless
<1>7. /\ call'[a] # NoCall /\ call'[a].op = "clnt" /\ call'[a].log = l
      /\ call'[a].session = s
      /\ wire'[s] # NoRequest => wire'[s].op = "clnt"
      /\ s \notin broken => wire'[s] # NoRequest
  <2> DEFINE c   == [op |-> "clnt", log |-> l, session |-> s]
             req == [op |-> "clnt", path |-> NoPath, file |-> NoHandle]
  <2>1. c \in Call
    BY DEF Call, Op
  <2>2. req \in Request
    BY DEF Request, Op
  <2>3. /\ call' = [call EXCEPT ![a] = c]
        /\ wire' = IF s \in broken THEN wire ELSE [wire EXCEPT ![s] = req]
    BY <1>4 DEF send
  <2>4. req.op = "clnt"
    OBVIOUS
  <2> HIDE DEF c, req
  <2>5. /\ call'[a] = c /\ call'[a] # NoCall
        /\ s \notin broken => wire'[s] # NoRequest /\ wire'[s] = req
    BY <1>0, <2>1, <2>2, <2>3, SendEffect
  <2> QED
    BY <1>5, <2>3, <2>4, <2>5 DEF c
<1>8. /\ remote_file'[a][l] = [NoLog EXCEPT !.state = "opening", !.path = q]
      /\ \A k \in Log \ {l} : remote_file'[a][k] = NoLog
  BY <1>0, <1>2, <1>4 DEF Opening, ClientTypeOK, Unconnected
<1>9. Owned(a)'
  <2>1. ASSUME NEW b \in App \ {a} PROVE ~Uses(b, s)' /\ own'[b] # s
    <3>1. ~Uses(b, s)
      BY <1>4 DEF ClientInv, UsersApart
    <3>2. UNCHANGED <<local_client[b], call[b]>>
      BY <1>3, AppsApart DEF Calls
    <3>3. own[b] # s
      BY <1>4, NoneAssumption DEF StoryInv, Stands, Owned
    <3> QED
      BY <1>1, <3>1, <3>2, <3>3 DEF Uses
  <2>2. status'[s] # "none"
    BY <1>4 DEF DaemonInv, TypeOK
  <2> QED
    BY <1>1, <1>2, <1>4, <1>7, <2>1, <2>2 DEF Owned, Unconnected
<1>10. OpeningLog(a)'
  <2>1. Calling(a, "clnt")'
    BY <1>7 DEF Calling
  <2> QED
    BY <1>1, <1>2, <1>4, <1>6, <1>7, <1>8, <2>1 DEF OpeningLog, Unconnected
<1>11. Wordless(a)'
  BY <1>1, <1>6, <1>7 DEF Wordless
<1> QED
  BY <1>1, <1>2, <1>9, <1>10, <1>11, NoneAssumption DEF Stands

\* A program without a session
LEMMA UnconnectedStep ==
  ASSUME StoryInv, NEW a \in App, program[a] \in Program, own[a] = NoSession,
         CannotConnect(a) \/ MakeHosts(a) \/ Leave(a)
  PROVE  Stands(a)'
<1>0. ProgramsTypeOK /\ Unconnected(a)
  BY DEF StoryInv, Stands
<1>1. UNCHANGED <<clientVars, program, argv1, own, said>>
  BY <1>0 DEF CannotConnect, MakeHosts, Leave, DestroyHost, Unconnected
<1>2. CASE CannotConnect(a)
  <2>1. /\ program[a] # HostTest /\ at'[a] = program[a].unopened
        /\ code'[a] = program[a].code
    BY <1>0, <1>2 DEF CannotConnect, Goes, Exits, ProgramsTypeOK
  <2>2. code'[a] # 0 /\ at'[a] \in {"leaving", "ended", "killed"}
    BY <2>1, ProgramFacts
  <2> QED
    BY <1>0, <1>1, <2>2 DEF Unconnected, Stands, clientVars, appVars
<1>3. CASE MakeHosts(a)
  BY <1>0, <1>1, <1>3 DEF MakeHosts, Goes, ProgramsTypeOK, Unconnected, Stands,
     clientVars, appVars
<1>4. CASE Leave(a)
  <2>1. at[a] = "leaving" /\ at'[a] \in {"disconnecting", "ended"} /\ code' = code
    BY <1>0, <1>4 DEF Leave, Goes, ProgramsTypeOK
  <2> QED
    BY <1>0, <1>1, <2>1 DEF Unconnected, Stands, clientVars, appVars
<1> QED
  BY <1>2, <1>3, <1>4

\* A program that was in a call has a session.
LEMMA ReturnsToOwner ==
  ASSUME ProgramsTypeOK, ClientTypeOK, NEW a \in App, Stands(a), Return(a)
  PROVE  /\ own[a] \in Session /\ own[a] # NoSession
         /\ call[a] # NoCall /\ call[a].session = own[a]
         /\ call[a].log \in Log
         /\ own[a] \in broken \/ wire[own[a]] = NoRequest
<1>1. call[a] # NoCall
  BY DEF Return, Ready
<1>2. own[a] # NoSession
  BY <1>1 DEF Stands, Unconnected
<1>3. Owned(a)
  BY <1>2 DEF Stands
<1> QED
  BY <1>1, <1>2, <1>3 DEF Owned, Return, Ready, ClientTypeOK, Call

LEMMA OpenFails ==
  ASSUME ProgramsTypeOK, NEW a \in App, program[a] \in Program,
         NEW s \in Session, own[a] = s, UNCHANGED <<program, argv1, own>>,
         Owned(a)', Wordless(a)',
         at'[a] = program[a].unopened, code'[a] = program[a].code
  PROVE  Stands(a)'
<1>1. program[a] # HostTest /\ own'[a] # NoSession
  BY NoneAssumption DEF Owned
<1>2. code'[a] # 0 /\ at'[a] \in {"killed", "ended", "leaving"}
  BY <1>1, ProgramFacts
<1> QED
  BY <1>1, <1>2 DEF Stands

LEMMA ConnectReturns ==
  ASSUME DaemonInv, ClientInv, ClientInv', StoryInv,
         NEW a \in App, program[a] \in Program, OpenReturns(a),
         Calling(a, "clnt")
  PROVE  Stands(a)'
<1>0. ClientTypeOK /\ ProgramsTypeOK /\ Stands(a) /\ Return(a)
  BY DEF ClientInv, StoryInv, OpenReturns
<1>1. PICK s \in Session : own[a] = s
  BY <1>0, ReturnsToOwner
<1>2. /\ call[a] # NoCall /\ call[a].session = s /\ call[a].log \in Log
      /\ s \in broken \/ wire[s] = NoRequest
      /\ own[a] # NoSession /\ Owned(a)
  BY <1>0, <1>1, ReturnsToOwner DEF Stands
<1>3. PICK l \in Log : l = call[a].log
  BY <1>2
<1>4. UNCHANGED <<program, argv1, own, said>> /\ at[a] = "opening"
  BY DEF OpenReturns, Goes
<1>5. OpeningLog(a) /\ Wordless(a) /\ code[a] = 0
  BY <1>0, <1>2, <1>4 DEF Stands
<1>6. /\ Owned(a)' /\ LinesKept(s) /\ Messages(s)' = Messages(s)
      /\ reply' = reply
  BY <1>0, <1>1, <1>2, <1>4, OwnStep DEF DaemonInv
<1>7. s \notin broken => reply[s] = "clnh"
  <2>1. Uses(a, s)
    BY <1>2 DEF Uses
  <2>2. s \notin broken => Answered(a, s)
    BY <2>1 DEF ClientInv, Served
  <2> QED
    BY <1>2, <2>2 DEF Answered, Executed, Calling, Fitting
<1>8. Connected(a)
  BY <1>0 DEF Return, Calling, Opened, Wrote, Closed, Disconnected
<1>9. CASE s \in broken
  <2>1. Throws(a) /\ ~OpenSucceeds(a)
    BY <1>2, <1>9 DEF Throws, OpenSucceeds
  <2>2. wire' = wire
    BY <1>8, <2>1 DEF Connected
  <2>3. at'[a] = program[a].unopened /\ code'[a] = program[a].code
    BY <1>0, <2>1 DEF OpenReturns, Goes, Exits, ProgramsTypeOK
  <2>4. Wordless(a)'
    BY <1>1, <1>4, <1>5, <1>6, <2>2 DEF Wordless
  <2> QED
    BY <1>0, <1>1, <1>4, <1>6, <2>3, <2>4, OpenFails
<1>10. CASE s \notin broken
  <2>1. ~Throws(a) /\ Answer(a) = "clnh" /\ OpenSucceeds(a)
    BY <1>2, <1>7, <1>10 DEF Throws, Answer, OpenSucceeds
  <2>2. /\ send(a, s, "open", l, remote_file[a][l].path, NoHandle)
        /\ remote_file' = remote_file
    BY <1>2, <1>3, <1>8, <2>1 DEF Connected
  <2>3. at'[a] = "opening" /\ code' = code
    BY <1>0, <2>1 DEF OpenReturns, Goes, ProgramsTypeOK, Calling
  <2>4. remote_file[a][l].path = argv1[a] /\ argv1[a] \in Path
    BY <1>2, <1>3, <1>5 DEF OpeningLog, NoLog, Owned
  <2>5. /\ call'[a] # NoCall /\ call'[a].op = "open" /\ call'[a].log = l
        /\ wire'[s] # NoRequest /\ wire'[s].op = "open"
    <3> DEFINE c   == [op |-> "open", log |-> l, session |-> s]
               req == [op |-> "open", path |-> argv1[a], file |-> NoHandle]
    <3>1. c \in Call
      BY DEF Call, Op
    <3>2. req \in Request
      BY <2>4 DEF Request, Op
    <3>3. /\ call' = [call EXCEPT ![a] = c]
          /\ wire' = IF s \in broken THEN wire ELSE [wire EXCEPT ![s] = req]
      BY <2>2, <2>4 DEF send
    <3>4. req.op = "open"
      OBVIOUS
    <3> HIDE DEF c, req
    <3>5. /\ call'[a] = c /\ call'[a] # NoCall
          /\ s \notin broken => wire'[s] # NoRequest /\ wire'[s] = req
      BY <1>0, <3>1, <3>2, <3>3, SendEffect
    <3> QED
      BY <1>10, <3>4, <3>5 DEF c
  <2>6. Silent(s)'
    <3>1. Silent(s)
      BY <1>1, <1>7, <1>10, <1>5 DEF OpeningLog
    <3> QED
      BY <1>6, <3>1, KeptLines
  <2>7. OpeningLog(a)'
    <3>1. Calling(a, "open")'
      BY <2>5 DEF Calling
    <3> QED
      BY <1>1, <1>3, <1>4, <1>5, <2>2, <2>5, <2>6, <3>1 DEF OpeningLog
  <2>8. Wordless(a)'
    BY <1>1, <1>4, <1>5, <1>6, <2>5 DEF Wordless
  <2> QED
    BY <1>2, <1>4, <1>5, <1>6, <2>3, <2>7, <2>8 DEF Stands
<1> QED
  BY <1>9, <1>10

LEMMA FileReturns ==
  ASSUME DaemonInv, ClientInv, ClientInv', DoubtInv, StoryInv,
         NEW a \in App, program[a] \in Program, OpenReturns(a),
         Calling(a, "open")
  PROVE  Stands(a)'
<1>0. ClientTypeOK /\ ProgramsTypeOK /\ Stands(a) /\ Return(a)
  BY DEF ClientInv, StoryInv, OpenReturns
<1>1. PICK s \in Session : own[a] = s
  BY <1>0, ReturnsToOwner
<1>2. /\ call[a] # NoCall /\ call[a].session = s /\ call[a].log \in Log
      /\ s \in broken \/ wire[s] = NoRequest
      /\ own[a] # NoSession /\ Owned(a)
  BY <1>0, <1>1, ReturnsToOwner DEF Stands
<1>3. PICK l \in Log : l = call[a].log
  BY <1>2
<1>4. UNCHANGED <<program, argv1, own, said>> /\ at[a] = "opening"
  BY DEF OpenReturns, Goes
<1>5. OpeningLog(a) /\ Wordless(a) /\ code[a] = 0
  BY <1>0, <1>2, <1>4 DEF Stands
<1>6. /\ Owned(a)' /\ LinesKept(s) /\ Messages(s)' = Messages(s)
      /\ reply' = reply /\ Held(s)' = Held(s)
  BY <1>0, <1>1, <1>2, <1>4, OwnStep DEF DaemonInv
<1>7. Opened(a)
  BY <1>0 DEF Return, Calling, Connected, Wrote, Closed, Disconnected
<1>8. UNCHANGED <<local_client, returned, wire, broken>> /\ call'[a] = NoCall
  BY <1>0, <1>7 DEF Opened, netVars, ClientTypeOK
<1>9. s \notin broken => reply[s] \in {"filh", "nack"}
  <2>1. Uses(a, s)
    BY <1>2 DEF Uses
  <2>2. s \notin broken => Answered(a, s)
    BY <2>1 DEF ClientInv, Served
  <2> QED
    BY <1>2, <2>2 DEF Answered, Executed, Calling, Fitting
<1>10. CASE ~OpenSucceeds(a)
  <2>1. at'[a] = program[a].unopened /\ code'[a] = program[a].code
    BY <1>0, <1>10 DEF OpenReturns, Goes, Exits, ProgramsTypeOK
  <2>2. Wordless(a)'
    BY <1>1, <1>4, <1>5, <1>6, <1>8 DEF Wordless
  <2> QED
    BY <1>0, <1>1, <1>4, <1>6, <2>1, <2>2, OpenFails
<1>11. CASE OpenSucceeds(a)
  <2>1. ~Throws(a) /\ s \notin broken /\ Answer(a) = "filh" /\ reply[s] = "filh"
    BY <1>2, <1>9, <1>11 DEF Throws, Answer, OpenSucceeds
  <2>2. at'[a] = "logging" /\ code' = code
    BY <1>0, <1>11 DEF OpenReturns, Goes, ProgramsTypeOK, Calling
  <2>3. Begun(s, argv1[a])
    BY <1>1, <1>2, <1>5, <2>1 DEF OpeningLog
  <2>4. Begun(s, argv1[a])'
    <3>1. PICK q \in Path : q = argv1[a] /\ q = argv1'[a]
      BY <1>2, <1>4 DEF Owned
    <3>2. Begun(s, q)'
      BY <1>6, <2>3, <3>1, KeptLines
    <3> QED
      BY <3>1, <3>2 DEF Begun
  <2>5. returned[s] = 0
    <3>1. \A b \in App : ~Confirmed(b, s)
      <4> SUFFICES ASSUME NEW b \in App, Confirmed(b, s) PROVE FALSE
        OBVIOUS
      <4>1. Uses(b, s) /\ Uses(a, s)
        BY <1>2 DEF Confirmed, Calling, Uses
      <4>2. a = b
        BY <4>1 DEF ClientInv, UsersApart
      <4> QED
        BY <4>2 DEF Confirmed, Calling
    <3>2. Cardinality(Messages(s)) = returned[s]
      BY <1>0, <2>1, <3>1 DEF DoubtInv, Doubt, ClientTypeOK
    <3>3. Messages(s) = {}
      BY <1>1, <1>5 DEF Wordless
    <3> QED
      BY <3>2, <3>3, FS_EmptySet
  <2>6. local_client[a] = s
    BY <1>2, <1>0 DEF ClientInv, Standing, Calling
  <2>7. OnlyLog(a, l)'
    <3>1. /\ remote_file'[a][l] = [remote_file[a][l] EXCEPT !.state = "open",
                                                            !.file = FileOf(a)]
          /\ \A k \in Log \ {l} : remote_file'[a][k] = remote_file[a][k]
      BY <1>0, <1>3, <1>7, <2>1 DEF Opened, ClientTypeOK
    <3>2. /\ remote_file[a][l] = [NoLog EXCEPT !.state = "opening",
                                               !.path = argv1[a]]
          /\ \A k \in Log \ {l} : remote_file[a][k] = NoLog
      BY <1>3, <1>5 DEF OpeningLog
    <3> QED
      BY <1>4, <3>1, <3>2 DEF OnlyLog, NoLog
  <2>8. said'[a] = 0 /\ at'[a] = "logging"
    BY <1>4, <1>5, <2>2 DEF OpeningLog
  <2>9. LogOpened(a)'
    BY <1>1, <1>4, <1>8, <2>4, <2>5, <2>6, <2>7, <2>8 DEF LogOpened
  <2> QED
    BY <1>2, <1>4, <1>5, <1>6, <2>2, <2>9 DEF Stands
<1> QED
  BY <1>10, <1>11

\* A program asks for a line to be written.
LEMMA SayStep ==
  ASSUME DaemonInv, ClientInv, ClientInv', StoryInv,
         NEW a \in App, program[a] \in Program, logln(a) \/ sync(a)
  PROVE  Stands(a)'
<1>0. ClientTypeOK /\ ProgramsTypeOK /\ Stands(a)
  BY DEF ClientInv, StoryInv
<1>1. /\ UNCHANGED <<program, argv1, own, said, code>>
      /\ at[a] = "logging" /\ at'[a] = "writing"
  BY <1>0 DEF logln, sync, Goes, ProgramsTypeOK
<1>2. PICK l \in Log : WriteLine(a, l)
  BY DEF logln, sync
<1>3. own[a] # NoSession
  <2>1. remote_file[a][l] # NoLog
    BY <1>2 DEF WriteLine, NoLog
  <2> QED
    BY <1>0, <2>1 DEF Stands, Unconnected
<1>4. PICK s \in Session : own[a] = s
  BY <1>0, <1>3 DEF ProgramsTypeOK
<1>5. Owned(a) /\ code[a] = 0 /\ (s \in broken \/ LogOpened(a))
  BY <1>0, <1>1, <1>3, <1>4 DEF Stands
<1>6. Owned(a)' /\ LinesKept(s) /\ Held(s)' = Held(s) /\ reply' = reply
  BY <1>1, <1>2, <1>4, <1>5, OwnStep DEF DaemonInv
<1>7. /\ local_client'[a] = s
      /\ call'[a] # NoCall /\ call'[a].op = "mesg" /\ call'[a].log = l
      /\ s \notin broken => wire'[s] # NoRequest
      /\ UNCHANGED <<returned, broken>> /\ call[a] = NoCall
  BY <1>2, <1>4, <1>5, OwnCall
<1>8. remote_file' = remote_file
  BY <1>2 DEF WriteLine
<1>9. ASSUME s \notin broken PROVE LogOpened(a)'
  <2>1. LogOpened(a)
    BY <1>5, <1>9
  <2>2. PICK k \in Log : OnlyLog(a, k)
    BY <2>1 DEF LogOpened
  <2>3. k = l
    BY <1>2, <2>2 DEF OnlyLog, WriteLine, NoLog
  <2>4. OnlyLog(a, l)'
    BY <1>1, <1>8, <2>2, <2>3 DEF OnlyLog
  <2>5. Calling(a, "mesg")' /\ ~Executed(a, s)'
    BY <1>7, <1>9 DEF Calling, Executed
  <2>6. Begun(s, argv1[a])
    BY <1>1, <1>4, <2>1 DEF LogOpened
  <2>7. Begun(s, argv1[a])'
    <3>1. PICK q \in Path : q = argv1[a] /\ q = argv1'[a]
      BY <1>1, <1>5 DEF Owned
    <3>2. Begun(s, q)'
      BY <1>6, <2>6, <3>1, KeptLines
    <3> QED
      BY <3>1, <3>2 DEF Begun
  <2>8. returned[s] = IF program[a].stream THEN 0 ELSE said[a]
    BY <1>1, <1>4, <2>1 DEF LogOpened
  <2> QED
    BY <1>1, <1>4, <1>7, <2>4, <2>5, <2>7, <2>8 DEF LogOpened
<1> QED
  BY <1>1, <1>3, <1>4, <1>5, <1>6, <1>7, <1>9 DEF Stands

\* A word for a stream is not written yet.
LEMMA WordStep ==
  ASSUME StoryInv, NEW a \in App, program[a] \in Program, xsputn(a)
  PROVE  Stands(a)'
<1>0. ProgramsTypeOK /\ Stands(a)
  BY DEF StoryInv
<1>1. /\ UNCHANGED <<clientVars, program, argv1, own, code>>
      /\ at[a] = "logging" /\ at'[a] = "logging" /\ program[a].stream
  BY <1>0 DEF xsputn, Goes, ProgramsTypeOK
<1>2. own[a] # NoSession
  BY <1>0, <1>1 DEF HostTest, Stands, Unconnected
<1>3. PICK s \in Session : own[a] = s
  BY <1>0, <1>2 DEF ProgramsTypeOK
<1>4. Owned(a) /\ code[a] = 0 /\ (s \in broken \/ LogOpened(a))
  BY <1>0, <1>1, <1>2, <1>3 DEF Stands
<1>5. /\ UNCHANGED <<status, disk, open_files, local_client, remote_file, call>>
      /\ UNCHANGED <<wire, reply, broken, returned>>
  BY <1>1 DEF clientVars, appVars, netVars, vars, sessionVars, fileVars
<1>6. Owned(a)'
  BY <1>1, <1>4, <1>5 DEF Owned, Uses
<1>7. ASSUME LogOpened(a) PROVE LogOpened(a)'
  <2>1. PICK q \in Path : q = argv1[a] /\ q = argv1'[a]
    BY <1>1, <1>4 DEF Owned
  <2>2. Begun(s, q)
    BY <1>1, <1>3, <1>7, <2>1 DEF LogOpened
  <2>3. LinesKept(s) /\ Held(s)' = Held(s)
    BY <1>5 DEF LinesKept, OwnLine, Held, IsOpen
  <2>4. Begun(s, q)'
    BY <2>2, <2>3, KeptLines
  <2>5. Begun(s, argv1[a])'
    BY <2>1, <2>4 DEF Begun
  <2> QED
    BY <1>1, <1>3, <1>5, <1>7, <2>5 DEF LogOpened, OnlyLog
<1> QED
  BY <1>1, <1>2, <1>3, <1>4, <1>5, <1>6, <1>7 DEF Stands

\* writeln is back: with success the line is in the log.
LEMMA SaidStep ==
  ASSUME DaemonInv, ClientInv, ClientInv', StoryInv,
         NEW a \in App, program[a] \in Program, loglnReturns(a) \/ syncReturns(a)
  PROVE  Stands(a)'
<1>0. ClientTypeOK /\ ProgramsTypeOK /\ Stands(a) /\ Return(a)
  BY DEF ClientInv, StoryInv, loglnReturns, syncReturns
<1>1. PICK s \in Session : own[a] = s
  BY <1>0, ReturnsToOwner
<1>2. /\ call[a] # NoCall /\ call[a].session = s /\ call[a].log \in Log
      /\ s \in broken \/ wire[s] = NoRequest
      /\ own[a] # NoSession /\ Owned(a)
  BY <1>0, <1>1, ReturnsToOwner DEF Stands
<1>3. UNCHANGED <<program, argv1, own, code>> /\ at[a] = "writing"
  BY DEF loglnReturns, syncReturns, Goes
<1>4. /\ Owned(a)' /\ LinesKept(s) /\ reply' = reply /\ Held(s)' = Held(s)
      /\ s \in broken => s \in broken'
  BY <1>0, <1>1, <1>2, <1>3, OwnStep DEF DaemonInv
<1>5. code'[a] = 0 /\ (s \in broken \/ LogOpened(a))
  BY <1>0, <1>1, <1>2, <1>3 DEF Stands
<1>6. CASE s \in broken
  <2>1. ~Succeeds(a)
    BY <1>2, <1>6 DEF Succeeds, Throws
  <2>2. at'[a] = program[a].unwritten
    BY <1>0, <2>1 DEF loglnReturns, syncReturns, Goes, ProgramsTypeOK
  <2>3. at'[a] \in {"killed", "said", "undefined"}
    BY <2>2, ProgramFacts
  <2> QED
    BY <1>1, <1>2, <1>3, <1>4, <1>5, <1>6, <2>3 DEF Stands
<1>7. CASE s \notin broken
  <2>0. LogOpened(a)
    BY <1>5, <1>7
  <2>1. Calling(a, "mesg") /\ Executed(a, s) /\ reply[s] = "ackn"
    BY <1>1, <1>2, <1>3, <1>7, <2>0 DEF LogOpened, Executed
  <2>2. PICK l \in Log : OnlyLog(a, l) /\ call[a].log = l
    BY <1>2, <2>0 DEF LogOpened
  <2>3. remote_file[a][l] \in LogObject
    BY <1>0 DEF ClientTypeOK
  <2>4. ~remote_file[a][l].error
    BY <2>3 DEF LogObject
  <2>5. ~Throws(a) /\ Succeeds(a)
    BY <1>2, <1>7, <2>1, <2>2, <2>4 DEF Throws, Answer, Succeeds
  <2>6. Wrote(a)
    BY <1>0, <2>1 DEF Return, Calling, Connected, Opened, Closed, Disconnected
  <2>7. /\ call'[a] = NoCall /\ UNCHANGED <<local_client, wire, broken>>
        /\ returned'[s] = returned[s] + 1
        /\ remote_file' = [remote_file EXCEPT ![a][l].error = FALSE]
    BY <1>0, <1>2, <2>2, <2>5, <2>6 DEF Wrote, netVars, ClientTypeOK
  <2>8. /\ remote_file'[a][l] = [remote_file[a][l] EXCEPT !.error = FALSE]
        /\ \A k \in Log \ {l} : remote_file'[a][k] = remote_file[a][k]
    BY <1>0, <2>7 DEF ClientTypeOK
  <2>9. OnlyLog(a, l)'
    <3> DEFINE f == remote_file[a][l]
    <3>1. /\ remote_file'[a][l].state = f.state /\ remote_file'[a][l].path = f.path
          /\ remote_file'[a][l].overtaken = f.overtaken
      BY <2>3, <2>8 DEF LogObject
    <3> QED
      BY <1>3, <2>2, <2>8, <3>1 DEF OnlyLog
  <2>10. Begun(s, argv1[a])'
    <3>1. PICK q \in Path : q = argv1[a] /\ q = argv1'[a]
      BY <1>2, <1>3 DEF Owned
    <3>2. Begun(s, q)
      BY <1>1, <1>3, <2>0, <3>1 DEF LogOpened
    <3>3. Begun(s, q)'
      BY <1>4, <3>2, KeptLines
    <3> QED
      BY <3>1, <3>3 DEF Begun
  <2>11. returned[s] = IF program[a].stream THEN 0 ELSE said[a]
    BY <1>1, <1>3, <2>0 DEF LogOpened
  <2>12. \/ /\ ~program[a].stream /\ at'[a] = "logging"
            /\ said'[a] = said[a] + 1
         \/ program[a].stream /\ at'[a] = "said"
    BY <1>0, <2>5 DEF loglnReturns, syncReturns, Goes, ProgramsTypeOK
  <2>13. returned'[s] = IF at'[a] \in {"said", "closing"} THEN Told(program[a])
                        ELSE IF program[a].stream THEN 0 ELSE said'[a]
    <3>1. program[a].stream => Told(program[a]) = 1
      BY ProgramFacts
    <3> QED
      BY <2>7, <2>11, <2>12, <3>1
  <2>14. local_client'[a] = s
    BY <1>1, <2>0, <2>7 DEF LogOpened
  <2>15. LogOpened(a)'
    BY <1>1, <1>3, <2>7, <2>9, <2>10, <2>12, <2>13, <2>14 DEF LogOpened
  <2> QED
    BY <1>2, <1>3, <1>4, <1>5, <2>12, <2>15 DEF Stands
<1> QED
  BY <1>6, <1>7

\* A program closes its log with all it had to say in it.
LEMMA CloseStep ==
  ASSUME DaemonInv, ClientInv, ClientInv', StoryInv,
         NEW a \in App, program[a] \in Program, Close(a)
  PROVE  Stands(a)'
<1>0. ClientTypeOK /\ ProgramsTypeOK /\ Stands(a)
  BY DEF ClientInv, StoryInv
<1>1. /\ UNCHANGED <<program, argv1, own, said, code>>
      /\ at[a] \in {"logging", "said"} /\ at'[a] = "closing"
      /\ at[a] = "logging" => ~program[a].stream
      /\ said[a] = program[a].says
  BY <1>0 DEF Close, Goes, ProgramsTypeOK
<1>2. PICK l \in Log : CloseLog(a, l)
  BY DEF Close
<1>3. own[a] # NoSession
  <2>1. remote_file[a][l] # NoLog
    BY <1>2 DEF CloseLog, NoLog
  <2> QED
    BY <1>0, <2>1 DEF Stands, Unconnected
<1>4. PICK s \in Session : own[a] = s
  BY <1>0, <1>3 DEF ProgramsTypeOK
<1>5. Owned(a) /\ code[a] = 0 /\ (s \in broken \/ LogOpened(a))
  BY <1>0, <1>1, <1>3, <1>4 DEF Stands
<1>6. Owned(a)' /\ LinesKept(s) /\ Held(s)' = Held(s)
  BY <1>1, <1>2, <1>4, <1>5, OwnStep DEF DaemonInv
<1>7. /\ local_client'[a] = s
      /\ call'[a] # NoCall /\ call'[a].op = "clos" /\ call'[a].log = l
      /\ s \notin broken => wire'[s] # NoRequest
      /\ UNCHANGED <<returned, broken>> /\ call[a] = NoCall
  BY <1>2, <1>4, <1>5, OwnCall
<1>9. ASSUME s \notin broken PROVE LogOpened(a)'
  <2>1. LogOpened(a)
    BY <1>5, <1>9
  <2>2. PICK k \in Log : OnlyLog(a, k)
    BY <2>1 DEF LogOpened
  <2>3. k = l
    BY <1>2, <2>2 DEF OnlyLog, CloseLog, NoLog
  <2>4. OnlyLog(a, l)'
    <3>1. argv1[a] # NoPath
      BY <1>5, NoneAssumption DEF Owned
    <3>2. ASSUME NEW j \in Log \ {l}
          PROVE  /\ remote_file[a][j] = NoLog
                 /\ remote_file[a][j].path # remote_file[a][l].path
      <4>1. remote_file[a][j] = NoLog /\ remote_file[a][l].path = argv1[a]
        BY <2>2, <2>3 DEF OnlyLog
      <4>2. NoLog.path = NoPath
        BY DEF NoLog
      <4> QED
        BY <3>1, <4>1, <4>2
    <3>3. remote_file'[a][l] = remote_file[a][l]
      BY <1>0, <1>2 DEF CloseLog, ClientTypeOK
    <3>4. ASSUME NEW j \in Log \ {l} PROVE remote_file'[a][j] = NoLog
      BY <1>0, <1>2, <3>2 DEF CloseLog, ClientTypeOK
    <3> QED
      BY <1>1, <2>2, <2>3, <3>3, <3>4 DEF OnlyLog
  <2>5. Calling(a, "clos")' /\ ~Executed(a, s)'
    BY <1>7, <1>9 DEF Calling, Executed
  <2>6. Begun(s, argv1[a])
    BY <1>1, <1>4, <2>1, <1>7 DEF LogOpened, Executed
  <2>7. Begun(s, argv1[a])'
    <3>1. PICK q \in Path : q = argv1[a] /\ q = argv1'[a]
      BY <1>1, <1>5 DEF Owned
    <3>2. Begun(s, q)'
      BY <1>6, <2>6, <3>1, KeptLines
    <3> QED
      BY <3>1, <3>2 DEF Begun
  <2>8. returned[s] = Told(program[a])
    <3>1. ~program[a].stream => Told(program[a]) = program[a].says
      BY ProgramFacts
    <3> QED
      BY <1>1, <1>4, <2>1, <3>1 DEF LogOpened
  <2> QED
    BY <1>1, <1>4, <1>7, <2>4, <2>5, <2>7, <2>8 DEF LogOpened
<1> QED
  BY <1>1, <1>3, <1>4, <1>5, <1>6, <1>7, <1>9 DEF Stands

\* A program whose log is closed without an exception has told its story.
LEMMA CloseReturnsStep ==
  ASSUME DaemonInv, ClientInv, ClientInv', StoryInv,
         NEW a \in App, program[a] \in Program, CloseReturns(a)
  PROVE  Stands(a)'
<1>0. ClientTypeOK /\ ProgramsTypeOK /\ Stands(a) /\ Return(a)
  BY DEF ClientInv, StoryInv, CloseReturns
<1>1. PICK s \in Session : own[a] = s
  BY <1>0, ReturnsToOwner
<1>2. /\ call[a] # NoCall /\ call[a].session = s /\ call[a].log \in Log
      /\ s \in broken \/ wire[s] = NoRequest
      /\ own[a] # NoSession /\ Owned(a)
  BY <1>0, <1>1, ReturnsToOwner DEF Stands
<1>3. UNCHANGED <<program, argv1, own, said, code>> /\ at[a] = "closing"
  BY DEF CloseReturns, Goes
<1>4. Owned(a)' /\ LinesKept(s)
  BY <1>0, <1>1, <1>2, <1>3, OwnStep DEF DaemonInv
<1>5. code'[a] = 0 /\ (s \in broken \/ LogOpened(a))
  BY <1>0, <1>1, <1>2, <1>3 DEF Stands
<1>6. CASE s \in broken
  <2>1. at'[a] = "killed"
    BY <1>0, <1>2, <1>6 DEF CloseReturns, Goes, ProgramsTypeOK, Kills, Throws
  <2> QED
    BY <1>2, <1>3, <1>4, <1>5, <2>1 DEF Stands
<1>7. CASE s \notin broken
  <2>1. ~Kills(a) /\ at'[a] = "leaving"
    BY <1>0, <1>2, <1>7 DEF CloseReturns, Goes, ProgramsTypeOK, Kills, Throws
  <2>2. LogOpened(a) /\ Calling(a, "clos") /\ Executed(a, s)
    BY <1>2, <1>3, <1>5, <1>7 DEF LogOpened, Executed
  <2>3. StoryTold(a) /\ local_client[a] = s
    BY <1>1, <1>3, <2>2 DEF LogOpened
  <2>4. PICK l \in Log : OnlyLog(a, l) /\ call[a].log = l
    BY <1>2, <2>2 DEF LogOpened
  <2>5. Closed(a)
    BY <1>0, <2>2 DEF Return, Calling, Connected, Opened, Wrote, Disconnected
  <2>6. /\ call'[a] = NoCall /\ UNCHANGED <<local_client, wire, broken>>
        /\ remote_file' = [remote_file EXCEPT ![a][l] = NoLog]
    BY <1>0, <2>1, <2>4, <2>5 DEF Closed, netVars, ClientTypeOK
  <2>7. \A k \in Log : remote_file'[a][k] = NoLog
    BY <1>0, <2>4, <2>6 DEF ClientTypeOK, OnlyLog
  <2>8. NoFileLeaked'
    BY FilesHaveLogs, PTL
  <2>9. Held(s)' = {}
    <3>1. local_client'[a] = s /\ s \notin broken' /\ s # NoSession
      BY <1>1, <1>2, <1>7, <2>3, <2>6
    <3>2. \A p \in Held(s)' : \E l1 \in Log : remote_file'[a][l1].state = "open"
      BY <2>6, <2>8, <3>1 DEF NoFileLeaked
    <3> QED
      BY <2>7, <3>2 DEF NoLog
  <2>10. StoryTold(a)'
    BY <1>1, <1>2, <1>3, <1>4, <2>3, KeptLines DEF Owned
  <2>11. LogClosed(a)'
    BY <1>1, <1>2, <1>3, <1>7, <2>6, <2>9, <2>10 DEF LogClosed
  <2> QED
    BY <1>2, <1>3, <1>4, <1>5, <2>1, <2>11 DEF Stands
<1> QED
  BY <1>6, <1>7

\* A program with a session disconnects it, or has nothing to disconnect.
LEMMA LeaveStep ==
  ASSUME DaemonInv, ClientInv, ClientInv', StoryInv,
         NEW a \in App, program[a] \in Program, NEW s \in Session, own[a] = s,
         Leave(a)
  PROVE  Stands(a)'
<1>0. ClientTypeOK /\ ProgramsTypeOK /\ Stands(a) /\ own[a] # NoSession
  BY NoneAssumption DEF ClientInv, StoryInv
<1>1. /\ UNCHANGED <<program, argv1, own, said, code>>
      /\ at[a] = "leaving" /\ at'[a] \in {"disconnecting", "ended"}
  BY <1>0 DEF Leave, Goes, ProgramsTypeOK
<1>2. /\ Owned(a) /\ (code[a] # 0 \/ LogClosed(a))
      /\ code[a] # 0 => Wordless(a)
  BY <1>0, <1>1 DEF Stands
<1> DEFINE Goal == /\ Owned(a)' /\ LinesKept(s) /\ Held(s)' = Held(s)
                   /\ Messages(s)' = Messages(s)
                   /\ \/ wire'[s] = wire[s]
                      \/ wire'[s] # NoRequest /\ wire'[s].op = "disc"
                   /\ at'[a] = "disconnecting" => Calling(a, "disc")'
<1>3. Goal
  <2>1. ASSUME NEW l \in Log, DestroyHost(a, l)
        PROVE  Goal
    BY <1>1, <1>2, <2>1, OwnStep, OwnCall DEF DaemonInv, Calling
  <2>2. CASE UNCHANGED clientVars /\ at'[a] = "ended"
    <3>1. UNCHANGED <<status, disk, open_files, local_client, call, wire>>
      BY <2>2 DEF clientVars, appVars, netVars, vars, sessionVars, fileVars
    <3>2. LinesKept(s) /\ Held(s)' = Held(s) /\ Messages(s)' = Messages(s)
      BY <3>1 DEF LinesKept, OwnLine, Held, IsOpen, Messages
    <3>3. Owned(a)'
      BY <1>1, <1>2, <3>1 DEF Owned, Uses
    <3> QED
      BY <2>2, <3>1, <3>2, <3>3
  <2> QED
    BY <1>0, <2>1, <2>2 DEF Leave, Goes, ProgramsTypeOK
<1>4. Wordless(a) => Wordless(a)'
  BY <1>1, <1>3 DEF Wordless
<1>5. LogClosed(a) => LogClosed(a)'
  <2> SUFFICES ASSUME LogClosed(a) PROVE LogClosed(a)'
    OBVIOUS
  <2>1. StoryTold(a)'
    BY <1>1, <1>2, <1>3, KeptLines DEF Owned, LogClosed
  <2> QED
    BY <1>1, <1>3, <2>1 DEF LogClosed
<1> QED
  BY <1>0, <1>1, <1>2, <1>3, <1>4, <1>5 DEF Stands

LEMMA LeaveReturnsStep ==
  ASSUME DaemonInv, ClientInv, ClientInv', StoryInv,
         NEW a \in App, program[a] \in Program, LeaveReturns(a)
  PROVE  Stands(a)'
<1>0. ClientTypeOK /\ ProgramsTypeOK /\ Stands(a) /\ Return(a)
  BY DEF ClientInv, StoryInv, LeaveReturns
<1>1. PICK s \in Session : own[a] = s
  BY <1>0, ReturnsToOwner
<1>2. own[a] # NoSession /\ Owned(a)
  BY <1>0, <1>1, ReturnsToOwner DEF Stands
<1>3. /\ UNCHANGED <<program, argv1, own, said, code>>
      /\ at[a] = "disconnecting" /\ at'[a] = "ended"
  BY <1>0 DEF LeaveReturns, Goes, ProgramsTypeOK
<1>4. /\ code[a] # 0 \/ LogClosed(a)
      /\ code[a] # 0 => Wordless(a)
      /\ Calling(a, "disc")
  BY <1>0, <1>2, <1>3 DEF Stands
<1>5. /\ Owned(a)' /\ LinesKept(s) /\ Held(s)' = Held(s)
      /\ Messages(s)' = Messages(s)
  BY <1>0, <1>1, <1>2, <1>3, OwnStep DEF DaemonInv
<1>6. wire' = wire
  BY <1>0, <1>4 DEF Return, Calling, Connected, Opened, Wrote, Closed,
     Disconnected, netVars
<1>7. Wordless(a) => Wordless(a)'
  BY <1>1, <1>3, <1>5, <1>6 DEF Wordless
<1>8. LogClosed(a) => LogClosed(a)'
  <2> SUFFICES ASSUME LogClosed(a) PROVE LogClosed(a)'
    OBVIOUS
  <2>1. StoryTold(a)'
    BY <1>1, <1>2, <1>3, <1>5, KeptLines DEF Owned, LogClosed
  <2> QED
    BY <1>1, <1>3, <1>5, <1>6, <2>1 DEF LogClosed
<1> QED
  BY <1>2, <1>3, <1>4, <1>5, <1>7, <1>8 DEF Stands

-----------------------------------------------------------------------------
(* The invariant is kept *)

LEMMA ProgramsTypeStep ==
  ASSUME ProgramsTypeOK, NEW a \in App, Main(a)
  PROVE  ProgramsTypeOK'
<1>0. program[a] \in Program
  BY DEF Main
<1>1. /\ program[a].code \in Int
      /\ program[a].unopened \in Stage /\ program[a].unwritten \in Stage
  BY <1>0, ProgramFacts DEF Stage
<1>2. ASSUME NEW p \in Path, NEW s \in Session, Open(a, p, s)
      PROVE  ProgramsTypeOK'
  BY <1>2 DEF Open, Goes, ProgramsTypeOK, Stage
<1>3. CASE MakeHosts(a) \/ CannotConnect(a) \/ OpenReturns(a)
  BY <1>1, <1>3 DEF MakeHosts, CannotConnect, OpenReturns, OutStream, Goes, Exits,
     ProgramsTypeOK, Stage
<1>4. CASE logln(a) \/ xsputn(a) \/ sync(a)
  BY <1>4 DEF logln, xsputn, sync, Goes, ProgramsTypeOK, Stage
<1>5. CASE loglnReturns(a)
  BY <1>1, <1>5 DEF loglnReturns, Goes, ProgramsTypeOK, Stage
<1>6. CASE syncReturns(a)
  BY <1>1, <1>6 DEF syncReturns, Goes, ProgramsTypeOK, Stage
<1>7. CASE Close(a) \/ CloseReturns(a) \/ Leave(a) \/ LeaveReturns(a)
  BY <1>7 DEF Close, CloseReturns, Leave, LeaveReturns, Goes, ProgramsTypeOK, Stage
<1> QED
  BY <1>2, <1>3, <1>4, <1>5, <1>6, <1>7 DEF Main

\* A program moves by itself, and with a call, a return or neither.
LEMMA MainMoves ==
  ASSUME ProgramsTypeOK, NEW a \in App, Main(a)
  PROVE  /\ program' = program
         /\ \A b \in App \ {a} :
              UNCHANGED <<at[b], argv1[b], own[b], said[b], code[b]>>
         /\ \/ own'[a] = own[a]
            \/ own'[a] \in Session /\ status[own'[a]] = "none"
         /\ \/ UNCHANGED clientVars /\ own' = own
            \/ Return(a)
            \/ \E l \in Log : Calls(a, l)
<1>2. ASSUME NEW p \in Path, NEW s \in Session, Open(a, p, s)
      PROVE  /\ program' = program
             /\ \A b \in App \ {a} :
                  UNCHANGED <<at[b], argv1[b], own[b], said[b], code[b]>>
             /\ own'[a] \in Session /\ status[own'[a]] = "none"
             /\ \E l \in Log : Calls(a, l)
  BY <1>2 DEF Open, Goes, Calls, ConnectAndOpen, CreateSession, ProgramsTypeOK
<1>3. CASE MakeHosts(a) \/ CannotConnect(a) \/ xsputn(a)
  BY <1>3 DEF MakeHosts, CannotConnect, xsputn, Goes, Exits, ProgramsTypeOK
<1>4. CASE \/ OpenReturns(a) \/ loglnReturns(a) \/ syncReturns(a)
           \/ CloseReturns(a) \/ LeaveReturns(a)
  BY <1>4 DEF OpenReturns, loglnReturns, syncReturns, CloseReturns, LeaveReturns,
     Goes, Exits, ProgramsTypeOK
<1>5. CASE logln(a) \/ sync(a) \/ Close(a) \/ Leave(a)
  BY <1>5 DEF logln, sync, Close, Leave, Goes, Calls, ProgramsTypeOK
<1> QED
  BY <1>2, <1>3, <1>4, <1>5 DEF Main

LEMMA OwnMove ==
  ASSUME DaemonInv, ClientInv, ClientInv', DoubtInv, StoryInv, NEW a \in App,
         Main(a)
  PROVE  Stands(a)'
<1>0. program[a] \in Program /\ Stands(a) /\ ProgramsTypeOK /\ ClientTypeOK
  BY DEF Main, StoryInv, ClientInv
<1>1. CASE \E p \in Path, s \in Session : Open(a, p, s)
  BY <1>0, <1>1, OpenStep
<1>2. CASE MakeHosts(a) \/ CannotConnect(a)
  <2>1. at[a] = "main"
    BY <1>2 DEF MakeHosts, CannotConnect, Goes
  <2>2. own[a] = NoSession
    BY <1>0, <2>1 DEF Stands
  <2> QED
    BY <1>0, <1>2, <2>2, UnconnectedStep
<1>3. CASE OpenReturns(a)
  <2>1. own[a] # NoSession /\ at[a] = "opening"
    BY <1>0, <1>3, ReturnsToOwner DEF OpenReturns, Goes
  <2>2. Calling(a, "clnt") \/ Calling(a, "open")
    BY <1>0, <2>1 DEF Stands, OpeningLog
  <2> QED
    BY <1>0, <1>3, <2>2, ConnectReturns, FileReturns
<1>4. CASE Leave(a)
  <2>1. own[a] = NoSession \/ own[a] \in Session
    BY <1>0 DEF ProgramsTypeOK
  <2> QED
    BY <1>0, <1>4, <2>1, UnconnectedStep, LeaveStep
<1> QED
  BY <1>0, <1>1, <1>2, <1>3, <1>4, SayStep, SaidStep, WordStep, CloseStep,
     CloseReturnsStep, LeaveReturnsStep DEF Main

\* A step of a program that is not one of its client, seen by another
LEMMA BesideQuiet ==
  ASSUME ProgramsTypeOK, NEW a \in App, Stands(a),
         UNCHANGED <<clientVars, own>>,
         UNCHANGED <<program[a], at[a], argv1[a], said[a], code[a]>>
  PROVE  Stands(a)'
<1>1. /\ UNCHANGED <<status, disk, open_files, reply>>
      /\ UNCHANGED <<local_client, remote_file, call, wire, broken, returned>>
  BY DEF clientVars, appVars, netVars, vars, sessionVars, fileVars
<1>2. ASSUME own[a] # NoSession PROVE OwnSessionKept(a, own[a])
  <2>1. PICK s \in Session : s = own[a]
    BY <1>2 DEF ProgramsTypeOK
  <2>2. Owned(a)
    BY <1>2 DEF Stands
  <2>3. LinesKept(s) /\ Held(s)' = Held(s)
    BY <1>1 DEF LinesKept, OwnLine, Held, IsOpen
  <2>4. \A b \in App \ {a} : ~Uses(b, s)' /\ own'[b] # s
    BY <1>1, <2>1, <2>2 DEF Owned, Uses
  <2> QED
    BY <1>1, <2>1, <2>2, <2>3, <2>4 DEF OwnSessionKept, Owned
<1>3. ProgramKept(a)
  BY <1>1 DEF ProgramKept
<1> QED
  BY <1>2, <1>3, StandsKept

LEMMA MainStep ==
  ASSUME DaemonInv, ClientInv, ClientInv', DoubtInv, StoryInv, NEW a \in App,
         Main(a)
  PROVE  StoryInv'
<1>0. ProgramsTypeOK /\ TypeOK
  BY DEF StoryInv, DaemonInv
<1>1. program[a] \in Program
  BY DEF Main
<1>2. ProgramsTypeOK'
  BY <1>0, ProgramsTypeStep
<1>3. UnusedSilent'
  <2>1. CASE UNCHANGED clientVars
    BY <2>1 DEF clientVars, netVars, vars, sessionVars, fileVars, StoryInv,
       UnusedSilent, Silent
  <2>2. CASE Return(a) \/ \E l \in Log : Calls(a, l)
    BY <1>0, <2>2, UnusedKept DEF StoryInv
  <2> QED
    BY <1>0, <2>1, <2>2, MainMoves
<1>4. ASSUME NEW b \in App \ {a}
      PROVE  IF program'[b] \in Program THEN Stands(b)'
             ELSE own'[b] = NoSession /\ code'[b] = 0
  <2>1. UNCHANGED <<program[b], at[b], argv1[b], own[b], said[b], code[b]>>
    BY <1>0, MainMoves
  <2>2. CASE program[b] \notin Program
    BY <2>1, <2>2 DEF StoryInv
  <2>3. CASE program[b] \in Program
    <3>1. Stands(b) /\ own[b] \in Session \cup {NoSession}
      BY <1>0, <2>3 DEF StoryInv, ProgramsTypeOK
    <3>2. CASE UNCHANGED <<clientVars, own>>
      BY <1>0, <2>1, <2>3, <3>1, <3>2, BesideQuiet
    <3>3. CASE Return(a) \/ \E l \in Log : Calls(a, l)
      <4>1. own[b] # NoSession => own'[a] # own[b]
        <5>1. own[b] # NoSession => own[a] # own[b] /\ status[own[b]] # "none"
          BY <3>1 DEF Stands, Owned
        <5> QED
          BY <1>0, <5>1, MainMoves
      <4>2. \A c \in App \ {b, a} : own'[c] = own[c]
        BY <1>0, MainMoves
      <4> QED
        BY <1>0, <2>1, <2>3, <3>1, <3>3, <4>1, <4>2, Beside
    <3> QED
      BY <1>0, <3>2, <3>3, MainMoves
  <2> QED
    BY <2>2, <2>3
<1>5. program'[a] \in Program /\ Stands(a)'
  BY <1>0, <1>1, MainMoves, OwnMove
<1> QED
  BY <1>2, <1>3, <1>4, <1>5 DEF StoryInv

\* An application that is none of the programs
LEMMA AnyAppStep ==
  ASSUME DaemonInv, ClientInv, ClientInv', StoryInv, NEW b \in App, AnyApp(b)
  PROVE  StoryInv'
<1>1. /\ Return(b) \/ \E l \in Log : Calls(b, l)
      /\ UNCHANGED <<program, at, argv1, own, said, buffer, code>>
      /\ program[b] = Anything
  BY DEF AnyApp, programVars
<1>2. ProgramsTypeOK' /\ UnusedSilent'
  <2>1. UnusedSilent'
    BY <1>1, UnusedKept DEF StoryInv, DaemonInv
  <2> QED
    BY <1>1, <2>1 DEF StoryInv, ProgramsTypeOK
<1>3. ASSUME NEW a \in App, program[a] \in Program PROVE Stands(a)'
  <2>1. a # b /\ own[b] = NoSession
    BY <1>1, <1>3, AnyAssumption DEF StoryInv
  <2>2. Stands(a) /\ own[a] \in Session \cup {NoSession}
    BY <1>3 DEF StoryInv, ProgramsTypeOK
  <2> QED
    BY <1>1, <2>1, <2>2, Beside DEF DaemonInv
<1> QED
  BY <1>1, <1>2, <1>3 DEF StoryInv

LEMMA StoryStep ==
  ASSUME Unwritable = {}
  PROVE  DaemonInv /\ ClientInv /\ ClientInv' /\ DoubtInv /\ StoryInv
           /\ [ProgramsNext]_allVars => StoryInv'
<1> SUFFICES ASSUME DaemonInv, ClientInv, ClientInv', DoubtInv, StoryInv,
                    [ProgramsNext]_allVars
             PROVE  StoryInv'
  OBVIOUS
<1>1. CASE \E a \in App : Main(a) \/ AnyApp(a)
  BY <1>1, MainStep, AnyAppStep
<1>2. CASE \E s \in Session : Surroundings(s) /\ UNCHANGED programVars
  BY <1>2, AroundStep
<1>3. CASE UNCHANGED allVars
  <2>1. UNCHANGED <<clientVars, own>> /\ UNCHANGED programVars
    BY <1>3 DEF allVars, programVars
  <2>2. UNCHANGED <<program, at, argv1, own, said, buffer, code>>
    BY <2>1 DEF programVars
  <2>3. ProgramsTypeOK /\ ProgramsTypeOK'
    BY <2>2 DEF StoryInv, ProgramsTypeOK
  <2>4. UnusedSilent'
    BY <2>1 DEF clientVars, netVars, vars, sessionVars, fileVars, StoryInv,
       UnusedSilent, Silent
  <2>5. \A a \in App : program[a] \in Program => Stands(a)'
    BY <2>1, <2>2, <2>3, BesideQuiet DEF StoryInv
  <2> QED
    BY <2>2, <2>3, <2>4, <2>5 DEF StoryInv
<1> QED
  BY <1>1, <1>2, <1>3 DEF ProgramsNext

LEMMA StoryStart == ProgramsInit => StoryInv
<1> SUFFICES ASSUME ProgramsInit PROVE StoryInv
  OBVIOUS
<1>1. ProgramsTypeOK
  BY DEF ProgramsInit, ProgramsTypeOK, Stage
<1>2. UnusedSilent
  BY DEF ProgramsInit, ClientInit, Init, UnusedSilent, Silent
<1>3. \A a \in App : Unconnected(a) /\ own[a] = NoSession /\ code[a] = 0
  BY DEF ProgramsInit, ClientInit, Unconnected
<1> QED
  BY <1>1, <1>2, <1>3 DEF StoryInv, Stands

-----------------------------------------------------------------------------
(* What it says of a program that has come to its end *)

LEMMA StoriesTold == DaemonInv /\ StoryInv => ExitMeansLogged
<1> SUFFICES ASSUME DaemonInv, StoryInv, NEW a \in App
             PROVE  /\ /\ program[a] \in Program \ {HostTest} /\ code[a] = 0
                       /\ at[a] \in {"leaving", "disconnecting", "ended"}
                       => StoryTold(a)
                    /\ code[a] # 0 => Messages(own[a]) = {}
  BY DEF ExitMeansLogged
<1>1. CASE program[a] \notin Program
  BY <1>1 DEF StoryInv
<1>2. CASE program[a] \in Program /\ own[a] # NoSession
  BY <1>2 DEF StoryInv, Stands, LogClosed, Wordless
<1>3. CASE program[a] \in Program /\ own[a] = NoSession
  <2>1. Unconnected(a)
    BY <1>3 DEF StoryInv, Stands
  <2>2. Messages(NoSession) = {}
    <3>1. \A p \in Path : \A n \in DOMAIN disk[p] : disk[p][n].by # NoSession
      <4> SUFFICES ASSUME NEW p \in Path, NEW n \in DOMAIN disk[p]
                   PROVE  disk[p][n].by # NoSession
        OBVIOUS
      <4>1. disk[p] \in Seq(Line)
        BY DEF DaemonInv, TypeOK
      <4>2. disk[p][n] \in Line
        BY <4>1
      <4> QED
        BY <4>2, NoneAssumption DEF Line
    <3>2. \A p \in Path : \A n \in DOMAIN disk[p] :
            disk[p][n] # [by |-> NoSession, what |-> "message"]
      BY <3>1
    <3> QED
      BY <3>2 DEF Messages
  <2> QED
    BY <1>3, <2>1, <2>2 DEF Unconnected
<1> QED
  BY <1>1, <1>2, <1>3

-----------------------------------------------------------------------------
(* The system test programs *)

LEMMA ProgramStepsClient == [ProgramsNext]_allVars => [ClientNext]_clientVars
<1>1. ASSUME NEW a \in App, Main(a) PROVE [ClientNext]_clientVars
  <2>1. ASSUME Return(a) \/ \E l \in Log : Calls(a, l)
        PROVE  [ClientNext]_clientVars
    BY <2>1 DEF ClientNext
  <2>2. ASSUME NEW p \in Path, NEW s \in Session, Open(a, p, s)
        PROVE  [ClientNext]_clientVars
    BY <2>1, <2>2 DEF Open, Calls
  <2>3. CASE \/ OpenReturns(a) \/ loglnReturns(a) \/ syncReturns(a)
             \/ CloseReturns(a) \/ LeaveReturns(a)
    BY <2>1, <2>3 DEF OpenReturns, loglnReturns, syncReturns, CloseReturns,
       LeaveReturns
  <2>4. CASE logln(a) \/ sync(a) \/ Close(a)
    BY <2>1, <2>4 DEF logln, sync, Close, Calls
  <2>5. CASE MakeHosts(a) \/ CannotConnect(a) \/ xsputn(a)
    BY <2>5 DEF MakeHosts, CannotConnect, xsputn
  <2>6. CASE Leave(a)
    BY <2>1, <2>6 DEF Leave, Calls
  <2> QED
    BY <1>1, <2>2, <2>3, <2>4, <2>5, <2>6 DEF Main
<1>2. ASSUME NEW a \in App, AnyApp(a) PROVE [ClientNext]_clientVars
  BY <1>2 DEF AnyApp, ClientNext
<1>3. ASSUME NEW s \in Session, Surroundings(s) PROVE [ClientNext]_clientVars
  BY <1>3 DEF ClientNext
<1>4. CASE UNCHANGED allVars
  BY <1>4 DEF allVars
<1> QED
  BY <1>1, <1>2, <1>3, <1>4 DEF ProgramsNext

\* The programs of the system tests, through whichever front, do with the
\* library what any application may do with it; so all that is proved of
\* applications holds for them too.
THEOREM ProgramsAreClients == ProgramsSpec => ClientSpec
<1>1. ProgramsInit => ClientInit
  BY DEF ProgramsInit
<1> QED
  BY <1>1, ProgramStepsClient, PTL DEF ProgramsSpec, ClientSpec

\* A program of the system tests that ends as if nothing had happened has told
\* its story in its log, where the daemon can write all logs: whichever front
\* of the library it goes through, whatever becomes of its connection, and
\* whatever other programs and applications do beside it.
THEOREM ExitsAreLogged ==
  ASSUME Unwritable = {}
  PROVE  ProgramsSpec => []ExitMeansLogged
<1>1. DaemonInv /\ ClientInv /\ DoubtInv /\ [ClientNext]_clientVars => DoubtInv'
  BY DoubtStep
<1>2. ProgramsSpec => [](DaemonInv /\ ClientInv /\ DoubtInv)
  BY <1>1, DoubtStart, ClientInvariant, ProgramsAreClients, PTL DEF ClientSpec
<1>3. DaemonInv /\ ClientInv /\ ClientInv' /\ DoubtInv /\ StoryInv
        /\ [ProgramsNext]_allVars => StoryInv'
  BY StoryStep
<1>4. ProgramsSpec => []StoryInv
  BY <1>2, <1>3, StoryStart, PTL DEF ProgramsSpec
<1> QED
  BY <1>2, <1>4, StoriesTold, PTL
=============================================================================
