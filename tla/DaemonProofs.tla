---------------------------- MODULE DaemonProofs ----------------------------
(***************************************************************************)
(* The daemon implements SessionFiles, and so inherits its theorems: the   *)
(* one thing to know for it is that what arrives at a session's socket is  *)
(* a request.  What a client and its session know of each other takes an   *)
(* invariant that says where a request is on its way there and back, and   *)
(* what the session's log says of it.                                      *)
(***************************************************************************)
EXTENDS Daemon, SessionFilesProofs

WireOK == wire \in [Session -> Seq(Piece)]

LEMMA RequestsType ==
  ASSUME TypeOK, NEW s \in Session
  PROVE  Requests(s) \subseteq Request
<1> DEFINE any == CHOOSE p \in Path : TRUE
<1>1. any \in Path
  BY PathAssumption
<1>2. 0 \in Handle /\ client_handle[s] \in Handle
  BY Wrap DEF TypeOK
<1>3. Given(s) \subseteq Handle
  BY DEF Given, TypeOK
<1> HIDE DEF any
<1>4. ASSUME NEW op \in Op, NEW p \in Path, NEW h \in Handle
      PROVE  [op |-> op, path |-> p, handle |-> h] \in Request
  BY DEF Request
<1> QED
  BY <1>1, <1>2, <1>3, <1>4 DEF Requests, any, Op

\* The pieces a daemon step leaves on a wire are pieces.
LEMMA WireStep ==
  ASSUME TypeOK, WireOK, [DaemonNext]_daemonVars
  PROVE  WireOK'
<1>1. CASE UNCHANGED wire
  BY <1>1 DEF WireOK
<1>2. ASSUME NEW s \in Session, NEW req \in Requests(s), PeerSend(s, req)
      PROVE  WireOK'
  <2> DEFINE two == <<[part |-> "header", req |-> req],
                      [part |-> "payload", req |-> req]>>
  <2>1. req \in Request
    BY RequestsType
  <2>2. two \in Seq(Piece)
    BY <2>1 DEF Piece
  <2>3. wire' = [wire EXCEPT ![s] = @ \o two]
    BY <1>2 DEF PeerSend
  <2> HIDE DEF two
  <2>4. wire[s] \o two \in Seq(Piece)
    BY <2>2 DEF WireOK
  <2> QED
    BY <2>3, <2>4 DEF WireOK
<1>3. ASSUME NEW s \in Session, PeerClose(s) PROVE WireOK'
  <2>1. PICK n \in 0..Len(wire[s]) :
          wire' = [wire EXCEPT ![s] = SubSeq(@, 1, n)]
    BY <1>3 DEF PeerClose
  <2>2. SubSeq(wire[s], 1, n) \in Seq(Piece)
    BY DEF WireOK
  <2> QED
    BY <2>1, <2>2 DEF WireOK
<1>4. ASSUME NEW s \in Session, ReadCompletes(s) PROVE WireOK'
  <2>1. wire[s] # <<>> /\ wire' = [wire EXCEPT ![s] = Tail(@)]
    BY <1>4 DEF ReadCompletes
  <2>2. Tail(wire[s]) \in Seq(Piece)
    BY <2>1 DEF WireOK
  <2> QED
    BY <2>1, <2>2 DEF WireOK
<1>5. ASSUME NEW s \in Session, Handler(s) PROVE WireOK'
  BY <1>1, <1>4, <1>5 DEF Handler, Accept, WriteCompletes, OperationFails,
     ConnectionLost, NextListener, peerVars
<1>6. ASSUME NEW s \in Session, Peer(s) PROVE WireOK'
  BY <1>1, <1>2, <1>3, <1>6 DEF Peer, PeerConnect, PeerReceive
<1>7. ASSUME NEW s \in Session, AcceptFails(s) PROVE WireOK'
  BY <1>1, <1>7 DEF AcceptFails
<1> QED
  BY <1>1, <1>5, <1>6, <1>7 DEF DaemonNext, daemonVars, peerVars

\* A request that has arrived is one SessionFiles executes.
LEMMA ActExecutes ==
  ASSUME NEW s \in Session, NEW op, NEW req \in Request, Act(s, op, req)
  PROVE  Next
<1>1. req.path \in Path /\ req.handle \in Handle
  BY DEF Request
<1>2. Execute(s)
  BY <1>1 DEF Act, Execute
<1> QED
  BY <1>2 DEF Next

LEMMA ExecutesStep ==
  ASSUME TypeOK, WireOK, [DaemonNext]_daemonVars
  PROVE  [Next]_vars
<1>1. ASSUME NEW s \in Session, ReadCompletes(s), PayloadReceived(s)
      PROVE  Next
  <2>1. wire[s] \in Seq(Piece) /\ wire[s] # <<>>
    BY <1>1 DEF ReadCompletes, WireOK
  <2>2. Head(wire[s]) \in Piece
    BY <2>1
  <2>3. Head(wire[s]).req \in Request
    BY <2>2 DEF Piece
  <2> QED
    BY <1>1, <2>3, ActExecutes DEF PayloadReceived
<1>2. ASSUME NEW s \in Session, Handler(s) PROVE [Next]_vars
  BY <1>1, <1>2 DEF Handler, Accept, accept_requested, ReadCompletes,
     HeaderReceived, WriteCompletes, OperationFails, ConnectionLost, NextListener, Next
<1>3. ASSUME NEW s \in Session, Peer(s) \/ AcceptFails(s) PROVE UNCHANGED vars
  BY <1>3 DEF Peer, PeerConnect, PeerSend, PeerReceive, PeerClose,
     AcceptFails, error_occurred
<1>4. CASE UNCHANGED daemonVars
  BY <1>4 DEF daemonVars
<1> QED
  BY <1>2, <1>3, <1>4 DEF DaemonNext

\* The daemon implements SessionFiles, and the invariants that hold of every
\* behaviour of SessionFiles are the daemon's too: whatever handlers run in
\* whatever order (DefaultSocketSession over RealSession).
THEOREM DaemonImplements == DaemonSpec => ExecutesSessionFiles
<1>1. DaemonInit => Init /\ WireOK
  BY DEF DaemonInit, WireOK
<1>2. TypeOK /\ WireOK /\ [DaemonNext]_daemonVars => [Next]_vars /\ WireOK'
  BY ExecutesStep, WireStep
<1> QED
  BY <1>1, <1>2, TypeInit, TypeStep, PTL
     DEF DaemonSpec, ExecutesSessionFiles, Spec
\* The daemon's sessions share one LogFile per path, keep their handles apart
\* and their lines in brackets (SessionFilesProofs, carried over).
THEOREM DaemonKeepsLogs ==
  DaemonSpec => [](/\ SingleFileObject /\ HandleNamesPath
                   /\ ClientHandlesUnique /\ Bracketed /\ OpenIffUnclosed)
BY DaemonImplements, OneFilePerPath, HandlesNamePaths, UniqueClientHandles,
   LinesBracketed, HeldAsWritten, PTL DEF ExecutesSessionFiles

-----------------------------------------------------------------------------
(* The conversation of a client and its session *)

Header(req) == [part |-> "header", req |-> req]
Payload(req) == [part |-> "payload", req |-> req]

\* A request on its way: nobody has read it, its header has been read, it has
\* been executed and its reply is under way.
Untouched(s) ==
  /\ wire[s] = <<Header(last[s]), Payload(last[s])>>
  /\ outbox[s] = <<>>
  /\ acts[s] = answered[s]

HeaderRead(s) ==
  /\ wire[s] = <<Payload(last[s])>>
  /\ outbox[s] = <<>>
  /\ acts[s] = answered[s]

Executed(s) ==
  /\ wire[s] = <<>>
  /\ \E r \in Answers(last[s].op) : outbox[s] = <<r>>
  /\ acts[s] = answered[s] + 1

\* No request under way
Silent(s) ==
  /\ wire[s] = <<>>
  /\ outbox[s] = <<>>
  /\ acts[s] = answered[s]

ClientKnows(s) ==
  /\ peer[s] \in {"absent", "idle"} =>
       /\ Silent(s)
       /\ asked[s] = answered[s]
  /\ peer[s] = "absent" => status[s] = "none"
  /\ peer[s] = "waiting" =>
       /\ Untouched(s) \/ HeaderRead(s) \/ Executed(s)
       /\ asked[s] = answered[s] + 1
       /\ last[s] \in Request
  /\ peer[s] = "closed" => outbox[s] = <<>>

\* What the operation the session waits for says of the request
SessionKnows(s) ==
  /\ status[s] = "none" =>
       /\ acts[s] = 0
       /\ pending[s] = "none"
       /\ current_receivable[s] = NoRequest
       /\ notifying[s] = "no"
       /\ peer[s] = "waiting" => Untouched(s)
  /\ status[s] = "gone" \/ notifying[s] # "no" => peer[s] = "closed"
  /\ pending[s] = "write" => current_receivable[s] # NoRequest
  /\ status[s] = "live" /\ peer[s] # "closed" =>
       /\ pending[s] = "read" =>
            IF current_receivable[s] = NoRequest THEN ~HeaderRead(s)
            ELSE /\ peer[s] = "waiting"
                 /\ HeaderRead(s)
                 /\ current_receivable[s] = last[s].op
       /\ pending[s] = "write" =>
            \/ peer[s] = "waiting" /\ Untouched(s)
            \/ /\ ~HeaderRead(s)
               /\ current_receivable[s] = last[s].op
       /\ pending[s] = "none" =>
            /\ current_receivable[s] = NoRequest
            /\ \/ peer[s] = "waiting" /\ Untouched(s)
               \/ ~HeaderRead(s) /\ last[s].op = "disc"

ConversationType ==
  /\ peer \in [Session -> {"absent", "idle", "waiting", "closed"}]
  /\ asked \in [Session -> Nat]
  /\ answered \in [Session -> Nat]
  /\ last \in [Session -> Request \cup {NoRequest}]
  /\ outbox \in [Session -> Seq(Reply)]
  /\ pending \in [Session -> {"none", "read", "write"}]
  /\ current_receivable \in [Session -> Op \cup {NoRequest}]
  /\ notifying \in [Session -> {"no", "calling", "returned"}]

Conversation ==
  /\ ConversationType
  /\ \A s \in Session : ClientKnows(s) /\ SessionKnows(s)

\* A session that took leave of its logs reads no more.
TookLeave(s) ==
  \/ status[s] = "gone"
  \/ pending[s] = "none"
  \/ pending[s] = "write" /\ current_receivable[s] = "disc"

LeaveIsFinal ==
  \A t \in Session, p \in Path : \A i \in DOMAIN disk[p] :
    disk[p][i].by = t =>
      /\ status[t] # "none"
      /\ disk[p][i].what = "disconnected" => TookLeave(t)

-----------------------------------------------------------------------------
(* Where a request is says what is on the wire. *)

LEMMA Stages ==
  ASSUME NEW s \in Session
  PROVE  /\ Untouched(s) => /\ wire[s] # <<>>
                            /\ Head(wire[s]) = Header(last[s])
                            /\ Tail(wire[s]) = <<Payload(last[s])>>
         /\ HeaderRead(s) => /\ wire[s] # <<>>
                             /\ Head(wire[s]) = Payload(last[s])
                             /\ Tail(wire[s]) = <<>>
         /\ Untouched(s) => ~HeaderRead(s)
         /\ Untouched(s)' \/ Executed(s)' \/ Silent(s)' => ~HeaderRead(s)'
<1>1. \A a, b : /\ <<a, b>> # <<>> /\ Head(<<a, b>>) = a /\ Tail(<<a, b>>) = <<b>>
                /\ <<a>> # <<>> /\ Head(<<a>>) = a /\ Tail(<<a>>) = <<>>
  OBVIOUS
<1>2. \A a, b, c : <<a, b>> # <<c>> /\ <<c>> # <<>>
  OBVIOUS
<1>3. /\ Untouched(s) => ~HeaderRead(s)
      /\ Untouched(s)' => ~HeaderRead(s)'
      /\ Executed(s)' \/ Silent(s)' => ~HeaderRead(s)'
  BY <1>2 DEF Untouched, HeaderRead, Executed, Silent
<1> QED
  BY <1>1, <1>3 DEF Untouched, HeaderRead

\* Nothing of session t's conversation changes.
Kept(t) ==
  /\ peer'[t] = peer[t] /\ asked'[t] = asked[t] /\ last'[t] = last[t]
  /\ answered'[t] = answered[t] /\ wire'[t] = wire[t]
  /\ outbox'[t] = outbox[t] /\ pending'[t] = pending[t]
  /\ current_receivable'[t] = current_receivable[t]
  /\ notifying'[t] = notifying[t] /\ status'[t] = status[t]
  /\ acts'[t] = acts[t]

LEMMA KeptKnows ==
  ASSUME NEW t \in Session, ClientKnows(t), SessionKnows(t), Kept(t)
  PROVE  ClientKnows(t)' /\ SessionKnows(t)'
BY DEF Kept, ClientKnows, SessionKnows, Untouched, HeaderRead, Executed,
       Silent

LEMMA ConnectKnows ==
  ASSUME TypeOK, WireOK, Conversation, NEW s \in Session, PeerConnect(s)
  PROVE  Conversation'
<1> USE DEF Conversation
<1>1. ConversationType'
  BY DEF PeerConnect, ConversationType, vars, sessionVars, netVars
<1>2. \A t \in Session \ {s} : Kept(t)
  BY DEF PeerConnect, ConversationType, Kept, vars, sessionVars, netVars
<1>3. ClientKnows(s)' /\ SessionKnows(s)'
  BY DEF PeerConnect, ConversationType, vars, sessionVars, netVars, Silent,
         ClientKnows, SessionKnows
<1> QED
  BY <1>1, <1>2, <1>3, KeptKnows

LEMMA SendKnows ==
  ASSUME TypeOK, WireOK, Conversation, NEW s \in Session,
         NEW req \in Requests(s), PeerSend(s, req)
  PROVE  Conversation'
<1> USE DEF Conversation
<1>1. req \in Request
  BY RequestsType
<1>2. ConversationType'
  BY <1>1 DEF PeerSend, ConversationType, vars, sessionVars, netVars
<1>3. \A t \in Session \ {s} : Kept(t)
  BY DEF PeerSend, ConversationType, WireOK, Kept, vars, sessionVars, netVars
<1>4. Untouched(s)'
  <2>1. wire[s] = <<>> /\ outbox[s] = <<>> /\ acts[s] = answered[s]
    BY DEF PeerSend, ClientKnows, Silent
  <2>2. wire'[s] = wire[s] \o <<Header(req), Payload(req)>>
    BY DEF PeerSend, WireOK, Header, Payload
  <2>3. wire'[s] = <<Header(req), Payload(req)>>
    BY <2>1, <2>2
  <2> QED
    BY <2>1, <2>3 DEF PeerSend, Untouched, ConversationType, vars, sessionVars
<1>5. ClientKnows(s)'
  BY <1>1, <1>4 DEF PeerSend, ClientKnows, ConversationType, vars, sessionVars
<1>6. SessionKnows(s)'
  BY <1>4, Stages DEF PeerSend, SessionKnows, ConversationType, vars,
     sessionVars, netVars
<1> QED
  BY <1>2, <1>3, <1>5, <1>6, KeptKnows

LEMMA ReceiveKnows ==
  ASSUME TypeOK, WireOK, Conversation, NEW s \in Session, PeerReceive(s)
  PROVE  Conversation'
<1> USE DEF Conversation
<1>1. Executed(s) /\ asked[s] = answered[s] + 1 /\ status[s] # "none"
  BY DEF PeerReceive, ClientKnows, SessionKnows, Untouched, HeaderRead,
     Executed, ConversationType
<1>2. ConversationType'
  BY DEF PeerReceive, ConversationType, vars, sessionVars, netVars
<1>3. \A t \in Session \ {s} : Kept(t)
  BY DEF PeerReceive, ConversationType, WireOK, Kept, vars, sessionVars,
     netVars
<1>4. Silent(s)'
  BY <1>1 DEF PeerReceive, Executed, Silent, ConversationType, vars,
     sessionVars
<1>5. ClientKnows(s)'
  BY <1>1, <1>4 DEF PeerReceive, ClientKnows, ConversationType, vars,
     sessionVars
<1>6. SessionKnows(s)'
  BY <1>1, <1>4, Stages DEF PeerReceive, SessionKnows, ConversationType, vars,
     sessionVars, netVars, Executed, Untouched
<1> QED
  BY <1>2, <1>3, <1>5, <1>6, KeptKnows

LEMMA CloseKnows ==
  ASSUME TypeOK, WireOK, Conversation, NEW s \in Session, PeerClose(s)
  PROVE  Conversation'
<1> USE DEF Conversation
<1>2. ConversationType'
  BY DEF PeerClose, ConversationType, vars, sessionVars, netVars
<1>3. \A t \in Session \ {s} : Kept(t)
  BY DEF PeerClose, ConversationType, WireOK, Kept, vars, sessionVars,
     netVars
<1>5. ClientKnows(s)' /\ SessionKnows(s)'
  BY DEF PeerClose, ClientKnows, SessionKnows, ConversationType, vars,
     sessionVars, netVars
<1> QED
  BY <1>2, <1>3, <1>5, KeptKnows

\* Accepting, whichever way it ends
LEMMA AcceptKnows ==
  ASSUME TypeOK, WireOK, Conversation, NEW s \in Session,
         Accept(s) \/ AcceptFails(s)
  PROVE  Conversation'
<1> USE DEF Conversation
<1>1. status[s] = "none" /\ peer[s] # "absent" /\ acts[s] = 0
  BY DEF Accept, AcceptFails, handle_accept, SessionKnows
<1>2. ConversationType'
  BY DEF Accept, AcceptFails, accept_requested, error_occurred, start_listen,
     ConversationType
<1>3. \A t \in Session \ {s} : Kept(t)
  BY DEF Accept, AcceptFails, accept_requested, error_occurred, start_listen,
     CreateSession, ConversationType, WireOK, Kept, vars, sessionVars, TypeOK
<1>4. peer[s] # "closed" => Silent(s) \/ Untouched(s)
  BY <1>1 DEF SessionKnows, ClientKnows, HeaderRead, Executed,
     ConversationType, Untouched
<1>5. CASE Accept(s)
  <2>1. peer[s] # "closed" => Silent(s)' \/ Untouched(s)'
    BY <1>4, <1>5 DEF Accept, accept_requested, CreateSession, Silent,
       Untouched
  <2>2. ClientKnows(s)'
    BY <1>1, <1>5 DEF Accept, accept_requested, CreateSession, ClientKnows,
       Silent, Untouched, HeaderRead, Executed
  <2>3. SessionKnows(s)'
    BY <1>1, <1>5, <2>1, Stages DEF Accept, accept_requested, CreateSession,
       start_listen, SessionKnows, ConversationType, TypeOK, Status
  <2> QED
    BY <1>2, <1>3, <2>2, <2>3, KeptKnows
<1>6. CASE AcceptFails(s)
  <2>1. ClientKnows(s)' /\ SessionKnows(s)'
    BY <1>1, <1>6 DEF AcceptFails, error_occurred, ClientKnows, SessionKnows,
       Silent, ConversationType, vars, sessionVars
  <2> QED
    BY <1>2, <1>3, <2>1, KeptKnows
<1> QED
  BY <1>5, <1>6

\* Losing a connection concerns a client that has gone.
LEMMA LossKnows ==
  ASSUME TypeOK, WireOK, Conversation, NEW s \in Session,
         OperationFails(s) \/ ConnectionLost(s) \/ NextListener(s)
  PROVE  Conversation'
<1> USE DEF Conversation
<1>1. peer[s] = "closed" /\ status[s] # "none"
  BY DEF OperationFails, ConnectionLost, NextListener, SessionKnows
<1>2. ConversationType'
  BY DEF OperationFails, ConnectionLost, NextListener, ConversationType,
     peerVars
<1>3. \A t \in Session \ {s} : Kept(t)
  BY DEF OperationFails, ConnectionLost, NextListener, DestroySession,
     ConversationType, Kept, vars, sessionVars, peerVars, TypeOK
<1>4. ClientKnows(s)' /\ SessionKnows(s)'
  BY <1>1 DEF OperationFails, ConnectionLost, NextListener, DestroySession,
     ClientKnows, SessionKnows, ConversationType, vars, sessionVars, peerVars,
     TypeOK
<1> QED
  BY <1>2, <1>3, <1>4, KeptKnows

LEMMA WrittenKnows ==
  ASSUME TypeOK, WireOK, Conversation, NEW s \in Session, WriteCompletes(s)
  PROVE  Conversation'
<1> USE DEF Conversation
<1>1. ConversationType'
  BY DEF WriteCompletes, listen_for_new_header, ConversationType, peerVars
<1>2. \A t \in Session \ {s} : Kept(t)
  BY DEF WriteCompletes, listen_for_new_header, ConversationType, Kept, vars,
     sessionVars, peerVars
<1>3. ClientKnows(s)'
  BY DEF WriteCompletes, ClientKnows, Untouched, HeaderRead, Executed, Silent,
     vars, sessionVars, peerVars
<1>4. HeaderRead(s)' <=> HeaderRead(s)
  BY DEF WriteCompletes, HeaderRead, vars, sessionVars, peerVars
<1>5. Untouched(s)' <=> Untouched(s)
  BY DEF WriteCompletes, Untouched, vars, sessionVars, peerVars
<1>6. ~HeaderRead(s) \/ peer[s] = "closed"
  BY Stages DEF WriteCompletes, SessionKnows, ClientKnows, TypeOK, Status
<1>7. SessionKnows(s)'
  BY <1>4, <1>5, <1>6 DEF WriteCompletes, listen_for_new_header, SessionKnows,
     ConversationType, vars, sessionVars, peerVars
<1> QED
  BY <1>1, <1>2, <1>3, <1>7, KeptKnows

LEMMA HeaderKnows ==
  ASSUME TypeOK, WireOK, Conversation, NEW s \in Session, ReadCompletes(s),
         HeaderReceived(s)
  PROVE  Conversation'
<1> USE DEF Conversation
<1> DEFINE piece == Head(wire[s])
<1>1. piece \in Piece
  BY DEF ReadCompletes, WireOK
<1>2. piece.req.op \in Op
  BY <1>1 DEF Piece, Request
<1>3. ConversationType'
  BY <1>2 DEF ReadCompletes, HeaderReceived, ConversationType
<1>4. \A t \in Session \ {s} : Kept(t)
  BY DEF ReadCompletes, HeaderReceived, ConversationType, WireOK, Kept, vars,
     sessionVars
<1>5. CASE peer[s] = "closed"
  <2>1. ClientKnows(s)' /\ SessionKnows(s)'
    BY <1>5 DEF ReadCompletes, HeaderReceived, ClientKnows, SessionKnows,
       ConversationType, vars, sessionVars
  <2> QED
    BY <1>3, <1>4, <2>1, KeptKnows
<1>6. CASE peer[s] # "closed"
  <2>1. status[s] = "live"
    BY <1>6 DEF ReadCompletes, SessionKnows, TypeOK, Status
  <2>2. peer[s] = "waiting" /\ Untouched(s) /\ last[s] \in Request
    BY <1>6, <2>1 DEF ReadCompletes, HeaderReceived, SessionKnows,
       ClientKnows, ConversationType, Executed, Silent
  <2>3. HeaderRead(s)'
    BY <2>2, Stages DEF ReadCompletes, HeaderReceived, Untouched, HeaderRead,
       WireOK, vars, sessionVars
  <2>4. current_receivable'[s] = last[s].op /\ last[s].op \in Op
    <3>1. Head(wire[s]).req = last[s]
      <4>1. \A req : Header(req).req = req
        BY DEF Header
      <4>2. Head(wire[s]) = Header(last[s])
        BY <2>2, Stages
      <4> QED
        BY <4>1, <4>2
    <3>2. last[s].op \in Op
      BY <2>2 DEF Request
    <3> QED
      BY <3>1, <3>2 DEF HeaderReceived, ConversationType
  <2>5. ClientKnows(s)'
    BY <2>2, <2>3 DEF ReadCompletes, HeaderReceived, ClientKnows, vars,
       sessionVars
  <2>6. SessionKnows(s)'
    BY <2>1, <2>2, <2>3, <2>4, NoRequestAssumption DEF ReadCompletes,
       HeaderReceived, SessionKnows, vars, sessionVars
  <2> QED
    BY <1>3, <1>4, <2>5, <2>6, KeptKnows
<1> QED
  BY <1>5, <1>6

\* A request that acts returns one of the replies to it.
LEMMA ActAnswers ==
  ASSUME TypeOK, NEW s \in Session, NEW op \in Op, NEW req, Act(s, op, req)
  PROVE  /\ UNCHANGED status
         /\ acts' = [acts EXCEPT ![s] = @ + 1]
         /\ reply'[s] \in Answers(op)
<1>1. ASSUME NEW r, Executes(s), Returns(s, r)
      PROVE  /\ UNCHANGED status
             /\ acts' = [acts EXCEPT ![s] = @ + 1]
             /\ reply'[s] = r
  BY <1>1 DEF Executes, Returns, TypeOK
<1>2. /\ Answers("clnt") = {"clnh"}
      /\ Answers("open") = {"filh", "nack"}
      /\ Answers("mesg") = {"ackn", "nack"}
      /\ Answers("clos") = {"ackn", "nack"}
      /\ Answers("disc") = {"ackn", "nack"}
  BY DEF Answers
<1>3. CASE op = "clnt"
  BY <1>1, <1>2, <1>3 DEF Act, SetClientInfo
<1>4. CASE op = "open"
  BY <1>1, <1>2, <1>4 DEF Act, OpenFile, OpenFileAgain, OpenFileShared,
     OpenFileNew, OpenFileThrows
<1>5. CASE op = "mesg"
  BY <1>1, <1>2, <1>5 DEF Act, WriteMessage, Refuse
<1>6. CASE op = "clos"
  BY <1>1, <1>2, <1>6 DEF Act, CloseFile, Refuse
<1>7. CASE op = "disc"
  BY <1>1, <1>2, <1>7 DEF Act, DisconnectClient, Refuse
<1> QED
  BY <1>3, <1>4, <1>5, <1>6, <1>7 DEF Op

LEMMA PayloadKnows ==
  ASSUME TypeOK, TypeOK', WireOK, Conversation, NEW s \in Session,
         ReadCompletes(s), PayloadReceived(s)
  PROVE  Conversation'
<1> USE DEF Conversation
<1> DEFINE op == current_receivable[s]
<1>1. op \in Op
  BY DEF PayloadReceived, ConversationType
<1>2. /\ UNCHANGED status
      /\ acts' = [acts EXCEPT ![s] = @ + 1]
      /\ reply'[s] \in Answers(op)
  BY <1>1, ActAnswers DEF PayloadReceived
<1>3. reply'[s] \in Reply
  BY DEF TypeOK
<1>4. ConversationType'
  BY <1>3 DEF ReadCompletes, PayloadReceived, ConversationType
<1>5. \A t \in Session \ {s} : Kept(t)
  BY <1>2 DEF ReadCompletes, PayloadReceived, ConversationType, WireOK, Kept,
     TypeOK
<1>6. CASE peer[s] = "closed"
  <2>1. ClientKnows(s)' /\ SessionKnows(s)'
    BY <1>2, <1>6, NoRequestAssumption DEF ReadCompletes, PayloadReceived,
       ClientKnows, SessionKnows, ConversationType
  <2> QED
    BY <1>4, <1>5, <2>1, KeptKnows
<1>7. CASE peer[s] # "closed"
  <2>1. status[s] = "live"
    BY <1>7 DEF ReadCompletes, SessionKnows, TypeOK, Status
  <2>2. peer[s] = "waiting" /\ HeaderRead(s) /\ op = last[s].op
    BY <1>7, <2>1 DEF ReadCompletes, PayloadReceived, SessionKnows
  <2>3. outbox'[s] = <<reply'[s]>>
    BY <1>7, <2>2 DEF PayloadReceived, HeaderRead, ConversationType
  <2>4. wire'[s] = <<>>
    BY <2>2, Stages DEF ReadCompletes, WireOK
  <2>5. acts'[s] = answered'[s] + 1
    BY <1>2, <2>2 DEF ReadCompletes, HeaderRead, TypeOK
  <2>6. Executed(s)'
    BY <1>2, <2>2, <2>3, <2>4, <2>5 DEF Executed, ReadCompletes
  <2>7. ClientKnows(s)'
    BY <2>2, <2>6 DEF ReadCompletes, ClientKnows
  <2>8. SessionKnows(s)'
    BY <1>2, <2>1, <2>2, <2>6, Stages DEF ReadCompletes, PayloadReceived,
       SessionKnows, ConversationType
  <2> QED
    BY <1>4, <1>5, <2>7, <2>8, KeptKnows
<1> QED
  BY <1>6, <1>7

LEMMA ConversationInit == DaemonInit => Conversation
BY DEF DaemonInit, SessionInitiator, Init, Conversation, ConversationType, ClientKnows,
   SessionKnows, Silent

LEMMA ConversationStep ==
  TypeOK /\ TypeOK' /\ WireOK /\ Conversation /\ [DaemonNext]_daemonVars
  => Conversation'
<1> SUFFICES ASSUME TypeOK, TypeOK', WireOK, Conversation,
                    [DaemonNext]_daemonVars
             PROVE  Conversation'
  OBVIOUS
<1>1. CASE UNCHANGED daemonVars
  <2>1. \A t \in Session : Kept(t)
    BY <1>1 DEF Kept, daemonVars, vars, sessionVars, netVars, peerVars
  <2>2. ConversationType'
    BY <1>1 DEF Conversation, ConversationType, daemonVars, netVars, peerVars
  <2> QED
    BY <2>1, <2>2, KeptKnows DEF Conversation
<1>2. ASSUME NEW s \in Session, Handler(s) PROVE Conversation'
  BY <1>2, AcceptKnows, HeaderKnows, PayloadKnows, WrittenKnows, LossKnows
     DEF Handler, ReadCompletes
<1>3. ASSUME NEW s \in Session, Peer(s) PROVE Conversation'
  BY <1>3, ConnectKnows, SendKnows, ReceiveKnows, CloseKnows DEF Peer
<1> QED
  BY <1>1, <1>2, <1>3, AcceptKnows DEF DaemonNext

\* Each request gets one reply, and a client that finds a reply finds one to
\* the request it waits on, whatever handlers run in whatever order
\* (DefaultSocketSession::bytes_received and write_succeeded).
THEOREM OneReplyEach == DaemonSpec => []OneReplyPerRequest
<1>1. ASSUME Conversation PROVE OneReplyPerRequest
  <2> SUFFICES ASSUME NEW s \in Session
      PROVE  /\ peer[s] # "closed" =>
                  /\ acts[s] = answered[s] + Len(outbox[s])
                  /\ asked[s] = answered[s]
                                + (IF peer[s] = "waiting" THEN 1 ELSE 0)
             /\ outbox[s] # <<>> =>
                  /\ peer[s] = "waiting"
                  /\ Head(outbox[s]) \in Answers(last[s].op)
    BY DEF OneReplyPerRequest
  <2>1. /\ peer[s] \in {"absent", "idle"} => Silent(s)
        /\ peer[s] = "closed" => outbox[s] = <<>>
        /\ peer[s] = "waiting" => Untouched(s) \/ HeaderRead(s) \/ Executed(s)
    BY <1>1 DEF Conversation, ClientKnows
  <2>2. acts[s] = answered[s] + Len(outbox[s]) \/ peer[s] = "closed"
    <3>1. answered[s] \in Nat
      BY <1>1 DEF Conversation, ConversationType
    <3>2. CASE outbox[s] = <<>> /\ acts[s] = answered[s]
      BY <3>1, <3>2
    <3>3. CASE Executed(s)
      <4>1. Len(outbox[s]) = 1
        BY <3>3 DEF Executed
      <4> QED
        BY <3>3, <4>1 DEF Executed
    <3>4. peer[s] \in {"absent", "idle", "waiting", "closed"}
      BY <1>1 DEF Conversation, ConversationType
    <3> QED
      BY <2>1, <3>2, <3>3, <3>4 DEF Silent, Untouched, HeaderRead
  <2>3. asked[s] = answered[s] + (IF peer[s] = "waiting" THEN 1 ELSE 0)
          \/ peer[s] = "closed"
    BY <1>1 DEF Conversation, ConversationType, ClientKnows
  <2>4. outbox[s] # <<>> => peer[s] = "waiting" /\ Executed(s)
    BY <1>1, <2>1 DEF Conversation, ConversationType, Silent, Untouched,
       HeaderRead
  <2>5. Executed(s) => Head(outbox[s]) \in Answers(last[s].op)
    BY DEF Executed
  <2> QED
    BY <2>2, <2>3, <2>4, <2>5
<1>2. DaemonInit => Init /\ WireOK /\ Conversation
  BY ConversationInit DEF DaemonInit, WireOK
<1>3. TypeOK /\ WireOK /\ [DaemonNext]_daemonVars => [Next]_vars /\ WireOK'
  BY ExecutesStep, WireStep
<1> QED
  BY <1>1, <1>2, <1>3, ConversationStep, TypeInit, TypeStep, PTL
     DEF DaemonSpec

\* A session that listens to its idle client no more was told to go away by it
\* (DefaultSocketSession::listen_for_new_header).
THEOREM SilentOnlyAfterDisconnect == DaemonSpec => []OnlyDisconnectEnds
<1>1. ASSUME Conversation PROVE OnlyDisconnectEnds
  BY <1>1 DEF Conversation, SessionKnows, OnlyDisconnectEnds, Deaf,
     live_sessions
<1>2. DaemonInit => Init /\ WireOK /\ Conversation
  BY ConversationInit DEF DaemonInit, WireOK
<1>3. TypeOK /\ WireOK /\ [DaemonNext]_daemonVars => [Next]_vars /\ WireOK'
  BY ExecutesStep, WireStep
<1> QED
  BY <1>1, <1>2, <1>3, ConversationStep, TypeInit, TypeStep, PTL
     DEF DaemonSpec

-----------------------------------------------------------------------------
(* Taking leave *)

\* A request adds at most a line of its session to a log, and only a
\* Disconnect adds the line that says so.
LEMMA ActLines ==
  ASSUME TypeOK, CollectionCurrent, LinesExist, NEW s \in Session,
         NEW op \in Op, NEW req \in Request, Act(s, op, req), NEW p \in Path
  PROVE  \/ disk'[p] = disk[p]
         \/ \E what \in What : /\ Appends(p, s, what)
                               /\ what = "disconnected" => op = "disc"
<1> DEFINE Goal == \/ disk'[p] = disk[p]
                   \/ \E what \in What : /\ Appends(p, s, what)
                                         /\ what = "disconnected" => op = "disc"
<1>1. req.path \in Path /\ req.handle \in Handle
  BY DEF Request
<1>2. /\ "opened" \in What /\ "closed" \in What
      /\ "message" \in What /\ "disconnected" \in What
  BY DEF What
<1>3. ASSUME NEW f \in File, NEW what \in What \ {"disconnected"},
             disk' = Written(disk, f, s, what), exists' = Touched(f.filepath)
      PROVE  Goal
  BY <1>3, WrittenAppends
<1>4. CASE UNCHANGED disk
  BY <1>4
<1>5. CASE op = "open"
  <2>1. CASE OpenFileThrows(s, req.path)
    BY <1>4, <2>1 DEF OpenFileThrows, fileVars
  <2>2. CASE ~OpenFileThrows(s, req.path)
    <3>1. OpenFile(s, req.path)
      BY <1>5 DEF Act
    <3>2. \E f \in File : /\ disk' = Written(disk, f, s, "opened")
                          /\ exists' = Touched(f.filepath)
      BY <1>1, <2>2, <3>1, OpenFileAppends
    <3> QED
      BY <1>2, <1>3, <3>2
  <2> QED
    BY <2>1, <2>2
<1>6. ASSUME NEW what \in What \ {"disconnected"}, IsOpen(s, req.handle),
             write_message(s, req.handle, what)
      PROVE  Goal
  <2>1. open_files[s][req.handle] \in File
    BY <1>1, <1>6 DEF IsOpen, TypeOK
  <2> QED
    BY <1>3, <1>6, <2>1 DEF write_message
<1>7. CASE op \in {"mesg", "clos"}
  BY <1>2, <1>4, <1>6, <1>7 DEF Act, WriteMessage, CloseFile, Refuse, fileVars
<1>8. CASE op = "disc"
  <2>1. CASE Refuse(s)
    BY <1>4, <2>1 DEF Refuse, fileVars
  <2>2. CASE disk' = [q \in Path |->
                   IF q \in Held(s) \ Unwritable
                     THEN Append(disk[q], [by |-> s, what |-> "disconnected"])
                     ELSE disk[q]]
    BY <1>2, <1>8, <2>2 DEF Appends
  <2> QED
    BY <1>8, <2>1, <2>2 DEF Act, DisconnectClient
<1>9. CASE op = "clnt"
  BY <1>4, <1>9 DEF Act, SetClientInfo, fileVars
<1> QED
  BY <1>5, <1>7, <1>8, <1>9 DEF Op

\* A session that took leave stays so.
LEMMA LeaveKept ==
  ASSUME TypeOK, Conversation, NEW t \in Session, TookLeave(t),
         status[t] # "none", [DaemonNext]_daemonVars
  PROVE  TookLeave(t)'
<1> USE DEF Conversation, TookLeave
<1>1. ASSUME NEW s \in Session, Accept(s) \/ AcceptFails(s)
      PROVE  TookLeave(t)'
  BY <1>1 DEF Accept, AcceptFails, handle_accept, accept_requested,
     error_occurred, start_listen, CreateSession, ConversationType, TypeOK,
     vars, sessionVars
<1>2. ASSUME NEW s \in Session, ReadCompletes(s), HeaderReceived(s)
      PROVE  TookLeave(t)'
  BY <1>2 DEF ReadCompletes, HeaderReceived, ConversationType, vars,
     sessionVars
<1>3. ASSUME NEW s \in Session, ReadCompletes(s), PayloadReceived(s)
      PROVE  TookLeave(t)'
  <2>1. current_receivable[s] \in Op
    BY <1>3 DEF PayloadReceived, ConversationType
  <2>2. UNCHANGED status
    BY <1>3, <2>1, ActAnswers DEF PayloadReceived
  <2> QED
    BY <1>3, <2>2 DEF ReadCompletes, PayloadReceived, ConversationType
<1>4. ASSUME NEW s \in Session, WriteCompletes(s) PROVE TookLeave(t)'
  BY <1>4 DEF WriteCompletes, listen_for_new_header, ConversationType, vars,
     sessionVars
<1>5. ASSUME NEW s \in Session,
             OperationFails(s) \/ ConnectionLost(s) \/ NextListener(s)
      PROVE  TookLeave(t)'
  BY <1>5 DEF OperationFails, ConnectionLost, NextListener, DestroySession,
     ConversationType, TypeOK, vars, sessionVars
<1>6. ASSUME NEW s \in Session, Peer(s) PROVE TookLeave(t)'
  BY <1>6 DEF Peer, PeerConnect, PeerSend, PeerReceive, PeerClose, netVars,
     vars, sessionVars
<1>7. CASE UNCHANGED daemonVars
  BY <1>7 DEF daemonVars, netVars, vars, sessionVars
<1> QED
  BY <1>1, <1>2, <1>3, <1>4, <1>5, <1>6, <1>7 DEF DaemonNext, Handler,
     ReadCompletes

\* Every step but that of a request leaves the logs alone.
LEMMA OtherLines ==
  ASSUME [DaemonNext]_daemonVars,
         ~ \E s \in Session : ReadCompletes(s) /\ PayloadReceived(s)
  PROVE  UNCHANGED disk
BY DEF DaemonNext, Handler, Peer, Accept, AcceptFails, accept_requested,
   error_occurred, CreateSession, ReadCompletes, HeaderReceived,
   WriteCompletes, OperationFails, ConnectionLost, DestroySession,
   NextListener, PeerConnect, PeerSend, PeerReceive, PeerClose, daemonVars,
   vars, fileVars

\* No session is ever as if it had not been.
LEMMA StatusGrows ==
  ASSUME TypeOK, [Next]_vars, NEW t \in Session, status[t] # "none"
  PROVE  status'[t] # "none"
<1>1. ASSUME NEW s \in Session, Execute(s) PROVE UNCHANGED status
  BY <1>1 DEF Execute, OpenFile, OpenFileAgain, OpenFileShared, OpenFileNew,
     OpenFileThrows, Refuse, WriteMessage, CloseFile, SetClientInfo,
     DisconnectClient, Executes
<1>2. ASSUME NEW s \in Session, CreateSession(s) \/ DestroySession(s)
      PROVE  status'[t] # "none"
  BY <1>2 DEF CreateSession, DestroySession, TypeOK
<1> QED
  BY <1>1, <1>2 DEF Next, vars, sessionVars

LeaveInv == LeaveIsFinal /\ NoLineAfterDisconnect

LEMMA LeaveStep ==
  ASSUME TypeOK, TypeOK', WireOK, Conversation, CollectionCurrent, LinesExist,
         LeaveInv, [DaemonNext]_daemonVars
  PROVE  LeaveInv'
<1>1. [Next]_vars
  BY ExecutesStep
<1>2. ASSUME NEW t \in Session, NEW p \in Path, NEW i \in DOMAIN disk[p],
             disk[p][i].by = t
      PROVE  /\ status'[t] # "none"
             /\ disk[p][i].what = "disconnected" =>
                  TookLeave(t) /\ TookLeave(t)'
  <2>1. status[t] # "none"
    BY <1>2 DEF LeaveInv, LeaveIsFinal
  <2>2. disk[p][i].what = "disconnected" => TookLeave(t)
    BY <1>2 DEF LeaveInv, LeaveIsFinal
  <2> QED
    BY <1>1, <2>1, <2>2, LeaveKept, StatusGrows
<1>3. CASE UNCHANGED disk
  <2>1. LeaveIsFinal'
    BY <1>2, <1>3 DEF LeaveIsFinal
  <2>2. NoLineAfterDisconnect'
    BY <1>3 DEF LeaveInv, NoLineAfterDisconnect
  <2> QED
    BY <2>1, <2>2 DEF LeaveInv
<1>4. ASSUME NEW s \in Session, ReadCompletes(s), PayloadReceived(s)
      PROVE  LeaveInv'
  <2> DEFINE op == current_receivable[s]
             req == Head(wire[s]).req
  <2>1. op \in Op
    BY <1>4 DEF PayloadReceived, Conversation, ConversationType
  <2>2. req \in Request
    <3>1. Head(wire[s]) \in Piece
      BY <1>4 DEF ReadCompletes, WireOK
    <3> QED
      BY <3>1 DEF Piece
  <2>3. Act(s, op, req)
    BY <1>4 DEF PayloadReceived
  <2>4. status[s] = "live" /\ status'[s] = "live" /\ ~TookLeave(s)
    <3>1. Executes(s)
      BY <2>1, <2>3 DEF Act, Op, SetClientInfo, OpenFile, OpenFileAgain,
         OpenFileShared, OpenFileNew, OpenFileThrows, WriteMessage, CloseFile,
         DisconnectClient, Refuse
    <3> QED
      BY <1>4, <3>1 DEF Executes, ReadCompletes, TookLeave
  <2>5. op = "disc" => TookLeave(s)'
    BY <1>4, <2>1 DEF PayloadReceived, TookLeave, Conversation,
       ConversationType
  <2>6. ASSUME NEW p \in Path, NEW what \in What, Appends(p, s, what)
        PROVE  LET n == Len(disk[p])
               IN  /\ n \in Nat
                   /\ DOMAIN disk[p] = 1..n
                   /\ DOMAIN disk'[p] = 1..(n + 1)
                   /\ \A i \in 1..n : disk'[p][i] = disk[p][i]
                   /\ disk'[p][n + 1] = [by |-> s, what |-> what]
    BY <2>6 DEF Appends, TypeOK
  <2>7. ASSUME NEW p \in Path
        PROVE  \/ disk'[p] = disk[p]
               \/ \E what \in What : /\ Appends(p, s, what)
                                     /\ what = "disconnected" => op = "disc"
    BY <2>1, <2>2, <2>3, ActLines
  <2>8. LeaveIsFinal'
    <3> SUFFICES ASSUME NEW t \in Session, NEW p \in Path,
                        NEW i \in DOMAIN disk'[p], disk'[p][i].by = t
        PROVE  /\ status'[t] # "none"
               /\ disk'[p][i].what = "disconnected" => TookLeave(t)'
      BY DEF LeaveIsFinal
    <3>1. CASE disk'[p] = disk[p]
      BY <1>2, <3>1
    <3>2. ASSUME NEW what \in What, Appends(p, s, what),
                 what = "disconnected" => op = "disc"
          PROVE  /\ status'[t] # "none"
                 /\ disk'[p][i].what = "disconnected" => TookLeave(t)'
      <4>1. CASE i \in DOMAIN disk[p]
        <5>1. disk'[p][i] = disk[p][i]
          BY <2>6, <3>2, <4>1
        <5> QED
          BY <1>2, <4>1, <5>1
      <4>2. CASE i \notin DOMAIN disk[p]
        <5>1. disk'[p][i] = [by |-> s, what |-> what] /\ t = s
          BY <2>6, <3>2, <4>2
        <5> QED
          BY <2>4, <2>5, <3>2, <5>1
      <4> QED
        BY <4>1, <4>2
    <3> QED
      BY <2>7, <3>1, <3>2
  <2>9. NoLineAfterDisconnect'
    <3> SUFFICES ASSUME NEW p \in Path,
                        NEW i \in DOMAIN disk'[p], NEW j \in DOMAIN disk'[p],
                        disk'[p][i].what = "disconnected",
                        disk'[p][j].by = disk'[p][i].by
        PROVE  j <= i
      BY DEF NoLineAfterDisconnect
    <3>1. \A k, l \in DOMAIN disk[p] :
            /\ disk[p][k].what = "disconnected"
            /\ disk[p][l].by = disk[p][k].by
            => l <= k
      BY DEF LeaveInv, NoLineAfterDisconnect
    <3>2. CASE disk'[p] = disk[p]
      BY <3>1, <3>2
    <3>3. ASSUME NEW what \in What, Appends(p, s, what) PROVE j <= i
      <4>1. \A k \in DOMAIN disk[p] :
              disk[p][k].what = "disconnected" => disk[p][k].by # s
        BY <1>2, <2>4
      <4> DEFINE n == Len(disk[p])
      <4>2. /\ n \in Nat
            /\ DOMAIN disk[p] = 1..n
            /\ DOMAIN disk'[p] = 1..(n + 1)
            /\ \A k \in 1..n : disk'[p][k] = disk[p][k]
            /\ disk'[p][n + 1] = [by |-> s, what |-> what]
        BY <2>6, <3>3
      <4> HIDE DEF n
      <4>3. CASE i = n + 1
        BY <4>2, <4>3
      <4>4. CASE i \in 1..n
        BY <3>1, <4>1, <4>2, <4>4
      <4> QED
        BY <4>2, <4>3, <4>4
    <3> QED
      BY <2>7, <3>2, <3>3
  <2> QED
    BY <2>8, <2>9 DEF LeaveInv
<1> QED
  BY <1>3, <1>4, OtherLines

\* A session that took leave of its logs writes in none of them again,
\* whatever its client still sends (Disconnect::is_final_message).
THEOREM DisconnectIsFinal == DaemonSpec => []NoLineAfterDisconnect
<1>1. DaemonInit => LeaveInv
  BY DEF DaemonInit, Init, LeaveInv, LeaveIsFinal, NoLineAfterDisconnect
<1>2. DaemonInit => Init /\ WireOK /\ Conversation
  BY ConversationInit DEF DaemonInit, WireOK
<1>3. TypeOK /\ WireOK /\ [DaemonNext]_daemonVars => [Next]_vars /\ WireOK'
  BY ExecutesStep, WireStep
<1>4. LeaveInv => NoLineAfterDisconnect
  BY DEF LeaveInv
<1>5. /\ TypeOK /\ TypeOK' /\ WireOK /\ Conversation /\ CollectionCurrent
      /\ LinesExist /\ LeaveInv /\ [DaemonNext]_daemonVars
      => LeaveInv'
  BY LeaveStep
<1> QED
  BY <1>1, <1>2, <1>3, <1>4, <1>5, ConversationStep, FilesInit,
     CollectionStep, LinesExistStep, TypeInit, TypeStep, PTL DEF DaemonSpec
=============================================================================
