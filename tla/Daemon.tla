------------------------------- MODULE Daemon -------------------------------
(***************************************************************************)
(* The whole daemon: the acceptor and SessionInitiator, one DefaultSocket  *)
(* and DefaultSocketSession per connection, and behind them the executors  *)
(* of module SessionFiles, whose actions the sessions perform.             *)
(*                                                                         *)
(* One thread runs io_service::run, so a step is one completion handler    *)
(* with all the calls it makes; the exception is the loss of a connection, *)
(* split where a callback destroys the object that is calling it.  The     *)
(* peers are clients that speak the protocol, one request at a time, and   *)
(* may go away at any moment.                                              *)
(***************************************************************************)
EXTENDS SessionFiles

CONSTANT NoRequest   \* the session has no Receivable in hand

Op == {"clnt", "open", "mesg", "clos", "disc"}

ASSUME PathAssumption == Path # {}

ASSUME NoRequestAssumption == NoRequest \notin Op

\* A request with the fields its type does not use at some fixed value
Request == [op : Op, path : Path, handle : Handle]

\* TCP delivers a request in two reads: the header, then the payload.
Piece == [part : {"header", "payload"}, req : Request]

VARIABLES
  accepting,          \* the acceptor has an async_accept under way
  pending,            \* DefaultSocket: the operation the session waits for
  current_receivable, \* DefaultSocketSession
  notifying,          \* where the socket's loop over its listeners stands
  aborted,            \* the process died of undefined behaviour
  peer,               \* the client at the other end of the connection
  asked,              \* its requests so far, and the last of them
  last,
  answered,           \* replies it has received
  wire,               \* pieces on their way to the daemon
  outbox              \* replies on their way to the peer

netVars == <<accepting, pending, current_receivable, notifying, aborted>>
peerVars == <<peer, asked, last, answered, wire, outbox>>
daemonVars == <<vars, netVars, peerVars>>

-----------------------------------------------------------------------------
(* Requests a client makes: it can only know the handles the daemon gave   *)
(* it, which it may use after closing them.                                *)

Given(s) == {open_filehandles[s][p] : p \in Path} \ {NoHandle}

Requests(s) ==
  LET any == CHOOSE p \in Path : TRUE
      req(op, p, h) == [op |-> op, path |-> p, handle |-> h]
  IN  {req("clnt", any, 0), req("disc", any, client_handle[s])}
      \cup {req("open", p, 0) : p \in Path}
      \cup {req(op, any, h) : op \in {"mesg", "clos"}, h \in Given(s)}

\* SessionInitiator's constructor calls async_accept.
SessionInitiator == accepting = TRUE

DaemonInit ==
  /\ Init
  /\ SessionInitiator
  /\ pending = [s \in Session |-> "none"]
  /\ current_receivable = [s \in Session |-> NoRequest]
  /\ notifying = [s \in Session |-> "no"]
  /\ aborted = FALSE
  /\ peer = [s \in Session |-> "absent"]
  /\ asked = [s \in Session |-> 0]
  /\ last = [s \in Session |-> NoRequest]
  /\ answered = [s \in Session |-> 0]
  /\ wire = [s \in Session |-> <<>>]
  /\ outbox = [s \in Session |-> <<>>]

-----------------------------------------------------------------------------
(* Clients *)

PeerConnect(s) ==
  /\ peer[s] = "absent"
  /\ peer' = [peer EXCEPT ![s] = "idle"]
  /\ UNCHANGED <<vars, netVars, asked, last, answered, wire, outbox>>

PeerSend(s, req) ==
  /\ peer[s] = "idle"
  /\ asked[s] < MaxActs
  /\ peer' = [peer EXCEPT ![s] = "waiting"]
  /\ asked' = [asked EXCEPT ![s] = @ + 1]
  /\ last' = [last EXCEPT ![s] = req]
  /\ wire' = [wire EXCEPT ![s] = @ \o <<[part |-> "header", req |-> req],
                                        [part |-> "payload", req |-> req]>>]
  /\ UNCHANGED <<vars, netVars, answered, outbox>>

PeerReceive(s) ==
  /\ peer[s] = "waiting"
  /\ outbox[s] # <<>>
  /\ peer' = [peer EXCEPT ![s] = "idle"]
  /\ answered' = [answered EXCEPT ![s] = @ + 1]
  /\ outbox' = [outbox EXCEPT ![s] = Tail(@)]
  /\ UNCHANGED <<vars, netVars, asked, last, wire>>

\* The client closes its socket or dies; what it had not got through is lost.
PeerClose(s) ==
  /\ peer[s] \in {"idle", "waiting"}
  /\ peer' = [peer EXCEPT ![s] = "closed"]
  /\ \E n \in 0..Len(wire[s]) :
       wire' = [wire EXCEPT ![s] = SubSeq(@, 1, n)]
  /\ outbox' = [outbox EXCEPT ![s] = <<>>]
  /\ UNCHANGED <<vars, netVars, asked, last, answered>>

-----------------------------------------------------------------------------
(* The daemon.  A handler runs to its end before the next one. *)

Dispatch == ~aborted /\ \A s \in Session : notifying[s] = "no"

\* The one operation the acceptor has under way ends.
handle_accept(s) ==
  /\ Dispatch
  /\ accepting
  /\ peer[s] # "absent"
  /\ status[s] = "none"

\* The sessions the SessionInitiator owns
live_sessions == {s \in Session : status[s] = "live"}

\* Mutant: an accept that fails is the last one.
error_occurred_NoRetry(s) ==
  /\ peer[s] = "idle"
  /\ asked[s] = 0
  /\ peer' = [peer EXCEPT ![s] = "absent"]
  /\ accepting' = FALSE
  /\ UNCHANGED <<vars, pending>>

async_accept == accepting' = TRUE

start_listen(s) == pending' = [pending EXCEPT ![s] = "read"]

\* SessionInitiator::accept_requested: make a session, listen, accept again
accept_requested(s) ==
  /\ CreateSession(s)
  /\ start_listen(s)
  /\ async_accept
  /\ UNCHANGED peer

\* SessionInitiator::error_occurred: the connection came to nothing, and the
\* client may try again; the initiator accepts again.
error_occurred(s) ==
  /\ peer[s] = "idle"
  /\ asked[s] = 0
  /\ peer' = [peer EXCEPT ![s] = "absent"]
  /\ async_accept
  /\ UNCHANGED <<vars, pending>>

Accept(s) ==
  /\ handle_accept(s)
  /\ accept_requested(s)
  /\ UNCHANGED <<current_receivable, notifying, aborted, asked, last, answered,
                 wire, outbox>>

AcceptFails(s) ==
  /\ handle_accept(s)
  /\ error_occurred(s)
  /\ UNCHANGED <<current_receivable, notifying, aborted, asked, last, answered,
                 wire, outbox>>

Act(s, op, req) ==
  \/ op = "clnt" /\ SetClientInfo(s)
  \/ op = "open" /\ OpenFile(s, req.path)
  \/ op = "mesg" /\ WriteMessage(s, req.handle)
  \/ op = "clos" /\ CloseFile(s, req.handle)
  \/ op = "disc" /\ DisconnectClient(s, req.handle)

\* Mutant: having created the Receivable, the session does not read on.
HeaderReceived_StopsReading(s) ==
  /\ current_receivable[s] = NoRequest
  /\ current_receivable' =
       [current_receivable EXCEPT ![s] = Head(wire[s]).req.op]
  /\ pending' = [pending EXCEPT ![s] = "none"]
  /\ UNCHANGED <<vars, outbox>>

\* bytes_received, no Receivable in hand: these are a header.
HeaderReceived(s) ==
  /\ current_receivable[s] = NoRequest
  /\ current_receivable' =
       [current_receivable EXCEPT ![s] = Head(wire[s]).req.op]
  /\ UNCHANGED <<vars, pending, outbox>>

\* Mutant: a refusal is not worth a reply.
PayloadReceived_DropsReply(s) ==
  /\ current_receivable[s] # NoRequest
  /\ Act(s, current_receivable[s], Head(wire[s]).req)
  /\ pending' = [pending EXCEPT ![s] = "write"]
  /\ outbox' = [outbox EXCEPT ![s] =
                  IF peer[s] = "closed" \/ reply'[s] = "nack"
                    THEN @ ELSE Append(@, reply'[s])]
  /\ UNCHANGED current_receivable

\* bytes_received, a Receivable in hand: these are its payload; it acts, and
\* what it returns is written.
PayloadReceived(s) ==
  /\ current_receivable[s] # NoRequest
  /\ Act(s, current_receivable[s], Head(wire[s]).req)
  /\ pending' = [pending EXCEPT ![s] = "write"]
  /\ outbox' = [outbox EXCEPT ![s] =
                  IF peer[s] = "closed" THEN @ ELSE Append(@, reply'[s])]
  /\ UNCHANGED current_receivable

ReadCompletes(s) ==
  /\ Dispatch
  /\ pending[s] = "read"
  /\ wire[s] # <<>>
  /\ HeaderReceived(s) \/ PayloadReceived(s)
  /\ wire' = [wire EXCEPT ![s] = Tail(@)]
  /\ UNCHANGED <<accepting, notifying, aborted, peer, asked, last, answered>>

\* Mutant: every message is followed by another.
listen_for_new_header_NeverFinal(s) ==
  /\ current_receivable' = [current_receivable EXCEPT ![s] = NoRequest]
  /\ start_listen(s)

\* Mutant: the session falls silent after a Close as well.
listen_for_new_header_FinalClose(s) ==
  /\ current_receivable' = [current_receivable EXCEPT ![s] = NoRequest]
  /\ pending' = [pending EXCEPT ![s] =
                   IF current_receivable[s] \in {"clos", "disc"}
                     THEN "none" ELSE "read"]

\* After the final message nothing is read any more.
listen_for_new_header(s) ==
  /\ current_receivable' = [current_receivable EXCEPT ![s] = NoRequest]
  /\ pending' = [pending EXCEPT ![s] =
                   IF current_receivable[s] = "disc" THEN "none" ELSE "read"]

WriteCompletes(s) ==
  /\ Dispatch
  /\ pending[s] = "write"
  /\ listen_for_new_header(s)
  /\ UNCHANGED <<vars, accepting, notifying, aborted, peerVars>>

\* Mutant: handle_write reports its error to the session alone.
OperationFails_SilentWrite(s) ==
  /\ Dispatch
  /\ peer[s] = "closed"
  /\ pending[s] = "write" \/ (pending[s] = "read" /\ wire[s] = <<>>)
  /\ pending' = [pending EXCEPT ![s] = "none"]
  /\ notifying' = [notifying EXCEPT ![s] =
                     IF pending[s] = "read" THEN "calling" ELSE "no"]
  /\ UNCHANGED <<vars, accepting, current_receivable, aborted, peerVars>>

\* handle_read or handle_write with an error: the session only logs it; then
\* the socket starts telling its listeners.
OperationFails(s) ==
  /\ Dispatch
  /\ peer[s] = "closed"
  /\ pending[s] = "write" \/ (pending[s] = "read" /\ wire[s] = <<>>)
  /\ pending' = [pending EXCEPT ![s] = "none"]
  /\ notifying' = [notifying EXCEPT ![s] = "calling"]
  /\ UNCHANGED <<vars, accepting, current_receivable, aborted, peerVars>>

\* Mutant: the session is forgotten, and its files with it stay open.
ConnectionLost_KeepsFiles(s) ==
  /\ ~aborted
  /\ notifying[s] = "calling"
  /\ status' = [status EXCEPT ![s] = "gone"]
  /\ notifying' = [notifying EXCEPT ![s] = "returned"]
  /\ UNCHANGED <<file_handle_counter, open_filehandles, open_files,
                 client_handle, reply, acts, fileVars, handle_counter,
                 accepting, pending, current_receivable, aborted, peerVars>>

\* The listener is the session, its listener the initiator, which destroys
\* the session and with it the socket.
ConnectionLost(s) ==
  /\ ~aborted
  /\ notifying[s] = "calling"
  /\ DestroySession(s)
  /\ notifying' = [notifying EXCEPT ![s] = "returned"]
  /\ UNCHANGED <<accepting, pending, current_receivable, aborted, peerVars>>

\* Back in the socket's loop the iterator moves on.  The set it walks is gone:
\* the loop may end as if nothing were wrong, or the daemon dies.
NextListener(s) ==
  /\ ~aborted
  /\ notifying[s] = "returned"
  /\ \/ /\ notifying' = [notifying EXCEPT ![s] = "no"]
        /\ UNCHANGED aborted
     \/ /\ status[s] = "gone"
        /\ aborted' = TRUE
        /\ UNCHANGED notifying
  /\ UNCHANGED <<vars, accepting, pending, current_receivable, peerVars>>

Handler(s) ==
  \/ Accept(s)
  \/ ReadCompletes(s)
  \/ WriteCompletes(s)
  \/ OperationFails(s)
  \/ ConnectionLost(s)
  \/ NextListener(s)

Peer(s) ==
  \/ PeerConnect(s)
  \/ \E req \in Requests(s) : PeerSend(s, req)
  \/ PeerReceive(s)
  \/ PeerClose(s)

DaemonNext ==
  \E s \in Session : Handler(s) \/ AcceptFails(s) \/ Peer(s)

\* io_service::run dispatches every completion; a client reads what it awaits.
Fairness == \A s \in Session : /\ WF_daemonVars(Handler(s))
                               /\ WF_daemonVars(PeerReceive(s))

DaemonSpec == DaemonInit /\ [][DaemonNext]_daemonVars /\ Fairness

-----------------------------------------------------------------------------
(* Properties *)

\* Nothing under way, nothing to come: the session only exists.
Deaf(s) ==
  /\ s \in live_sessions
  /\ pending[s] = "none"
  /\ notifying[s] = "no"
  /\ current_receivable[s] = NoRequest

\* Behind all its callbacks the daemon does what SessionFiles allows, so what
\* is proved of SessionFiles holds of it.
ExecutesSessionFiles == Spec

Answers(op) == CASE op = "clnt" -> {"clnh"}
                 [] op = "open" -> {"filh", "nack"}
                 [] OTHER -> {"ackn", "nack"}

\* Each request is executed once, and before its reply sets out; no reply is
\* lost on, or added to, a connection that stands; and the reply a client finds
\* is one to the request it is waiting on (DefaultSocketSession's alternation
\* of header, payload and reply).
OneReplyPerRequest ==
  \A s \in Session :
    /\ peer[s] # "closed" =>
         /\ acts[s] = answered[s] + Len(outbox[s])
         /\ asked[s] = answered[s] + (IF peer[s] = "waiting" THEN 1 ELSE 0)
    /\ outbox[s] # <<>> =>
         /\ peer[s] = "waiting"
         /\ Head(outbox[s]) \in Answers(last[s].op)

\* A session that took leave of its logs writes in none of them again, whatever
\* its client still sends (Disconnect::is_final_message).
NoLineAfterDisconnect ==
  \A p \in Path : \A i, j \in DOMAIN disk[p] :
    disk[p][i].what = "disconnected" /\ disk[p][j].by = disk[p][i].by => j <= i

\* A session stops listening to a client only at the client's own wish
\* (DefaultSocketSession::listen_for_new_header).
OnlyDisconnectEnds ==
  \A s \in Session : Deaf(s) /\ peer[s] = "idle" => last[s].op = "disc"

\* A client that waits gets its reply, unless it had disconnected before
\* (every handler starts the operation that leads to the next one).
RequestAnswered ==
  \A s \in Session :
    peer[s] = "waiting" ~> (peer[s] # "waiting" \/ Deaf(s) \/ aborted)

\* Someone who connects gets a session, however often accepting fails for
\* others (SessionInitiator re-arms the acceptor on both its paths).
ConnectionServed ==
  \A s \in Session :
    peer[s] # "absent" ~> (status[s] # "none" \/ peer[s] = "absent" \/ aborted)

\* A session whose client goes without a Disconnect is destroyed, and lets its
\* files go (handle_read, handle_write, SessionInitiator::connection_lost).
SessionReaped ==
  \A s \in Session :
    s \in live_sessions /\ peer[s] = "closed"
      ~> (status[s] = "gone" \/ Deaf(s) \/ aborted)

\* The test "destroys_sessions_when_they_lose_their_connection" of
\* SessionInitiator, of every session whose client is gone.
SessionDestroyedWhenPeerGone ==
  \A s \in Session :
    s \in live_sessions /\ peer[s] = "closed" ~> (status[s] = "gone" \/ aborted)

\* DefaultSocketSession::connection_lost says its "owner might try to destroy
\* us when it is notified"; the socket's loop, which is further up the stack,
\* goes on over a set that is still there.
LoopOverLivingSet ==
  \A s \in Session : notifying[s] = "returned" => status[s] # "gone"
=============================================================================
