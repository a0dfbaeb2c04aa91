-------------------------- MODULE DefaultConnection --------------------------
(***************************************************************************)
(* The client's end of a connection: DefaultConnection with its            *)
(* DefaultSocket, the io_service and the one thread that runs it.          *)
(*                                                                         *)
(* Every send has a thread of its own.  It takes socket_mutex, hands its   *)
(* promise to the connection, starts the write and ends; the mutex is      *)
(* released by the io_service thread once the reply, or an error, has      *)
(* resolved the promise.  Steps are split wherever the two threads touch   *)
(* the same thing without a lock: the write queue and its active flag, and *)
(* the idle work that keeps io_service::run from returning.                *)
(*                                                                         *)
(* At the other end is a daemon that executes requests and answers them in *)
(* the order they come (module Daemon); the network may break once.        *)
(***************************************************************************)
EXTENDS Naturals, Sequences, FiniteSets

CONSTANTS
  Send,      \* the calls of DefaultConnection::send
  Nobody     \* no send: the promise of a connection that has none yet

ASSUME NobodyAssumption == Nobody \notin Send

VARIABLES
  pc,                  \* where the thread of a send stands
  future,              \* what the caller of send sees
  answer,              \* the request the reply in that future answers
  mutex,               \* socket_mutex is locked
  current_promise,     \* the send whose promise the connection holds
  current_receivable,  \* the header of a reply has been read
  write_queue, write_queue_active, idle_work,    \* DefaultSocket
  ops,                 \* asynchronous operations under way on the socket
  io,                  \* where the io_service thread stands in a handler
  running,             \* io_service::run has not returned
  aborted,             \* the process died of undefined behaviour
  net_up, wire, replies, executed                \* network and daemon

callVars == <<pc, future, answer>>
connVars == <<mutex, current_promise, current_receivable>>
sockVars == <<write_queue, write_queue_active, idle_work, ops>>
runVars == <<io, running, aborted>>
netVars == <<net_up, wire, replies, executed>>
vars == <<callVars, connVars, sockVars, runVars, netVars>>

\* A connection on which nothing has been sent
Quiet ==
  /\ pc = [r \in Send |-> "unborn"]
  /\ future = [r \in Send |-> "unsent"]
  /\ answer = [r \in Send |-> Nobody]
  /\ mutex = FALSE
  /\ current_promise = Nobody
  /\ current_receivable = FALSE
  /\ write_queue = <<>>
  /\ write_queue_active = FALSE
  /\ ops = {}
  /\ io = "idle"
  /\ aborted = FALSE
  /\ net_up = TRUE
  /\ wire = <<>>
  /\ replies = <<>>
  /\ executed = [r \in Send |-> 0]

\* HostConnectionFactory::create_session has started run, and DefaultConnection's
\* constructor has called keep_alive.
Init == Quiet /\ idle_work = TRUE /\ running = TRUE

-----------------------------------------------------------------------------
(* The threads of the senders *)

SendCalled(r) ==
  /\ ~aborted
  /\ pc[r] = "unborn"
  /\ pc' = [pc EXCEPT ![r] = "lock"]
  /\ future' = [future EXCEPT ![r] = "pending"]
  /\ UNCHANGED <<answer, connVars, sockVars, runVars, netVars>>

\* Mutant: nobody waits for the mutex.
Lock_NoWait(r) ==
  /\ ~aborted
  /\ pc[r] = "lock"
  /\ pc' = [pc EXCEPT ![r] = "push"]
  /\ mutex' = TRUE
  /\ current_promise' = r
  /\ UNCHANGED <<future, answer, current_receivable, sockVars, runVars, netVars>>

\* serialized_send_message: lock, and move the promise in
Lock(r) ==
  /\ ~aborted
  /\ pc[r] = "lock"
  /\ ~mutex
  /\ pc' = [pc EXCEPT ![r] = "push"]
  /\ mutex' = TRUE
  /\ current_promise' = r
  /\ UNCHANGED <<future, answer, current_receivable, sockVars, runVars, netVars>>

\* DefaultSocket::async_write, its three parts
AddToWriteQueue(r) ==
  /\ ~aborted
  /\ pc[r] = "push"
  /\ pc' = [pc EXCEPT ![r] = "front"]
  /\ write_queue' = Append(write_queue, r)
  /\ UNCHANGED <<future, answer, connVars, write_queue_active, idle_work, ops,
                 runVars, netVars>>

\* Only one write is ever under way; who finds one leaves it at that.
write_front ==
  /\ write_queue_active' = TRUE
  /\ ops' = IF write_queue_active THEN ops ELSE ops \cup {"write"}

StartWrite(r) ==
  /\ ~aborted
  /\ pc[r] = "front"
  /\ pc' = [pc EXCEPT ![r] = "reset"]
  /\ write_front
  /\ UNCHANGED <<future, answer, connVars, write_queue, idle_work, runVars, netVars>>

ResetIdleWork(r) ==
  /\ ~aborted
  /\ pc[r] = "reset"
  /\ pc' = [pc EXCEPT ![r] = "done"]
  /\ idle_work' = FALSE
  /\ UNCHANGED <<future, answer, connVars, write_queue, write_queue_active, ops,
                 runVars, netVars>>

Sender(r) == Lock(r) \/ AddToWriteQueue(r) \/ StartWrite(r) \/ ResetIdleWork(r)

-----------------------------------------------------------------------------
(* The io_service thread: completion handlers, one after the other *)

Ready == ~aborted /\ running /\ io = "idle"

\* Mutant: an error fails whoever waits, served or not.
error_occurred_FailsAll ==
  /\ current_receivable' = FALSE
  /\ future' = [r \in Send |-> IF future[r] = "pending" THEN "error" ELSE future[r]]
  /\ io' = "resolved"
  /\ UNCHANGED <<pc, answer, mutex, current_promise>>

\* DefaultConnection::error_occurred, up to keep_alive
error_occurred ==
  /\ current_receivable' = FALSE
  /\ future' = [future EXCEPT ![current_promise] = "error"]
  /\ io' = "resolved"
  /\ UNCHANGED <<pc, answer, mutex, current_promise>>

\* Mutant: the mutex guards no more than the write.
WriteSucceeds_Unlocks ==
  /\ Ready
  /\ "sent" \in ops
  /\ write_queue' = Tail(write_queue)
  /\ write_queue_active' = FALSE
  /\ ops' = (ops \ {"sent"}) \cup {"header"}
  /\ mutex' = FALSE
  /\ io' = "reading"
  /\ UNCHANGED <<callVars, current_promise, current_receivable, idle_work,
                 running, aborted, netVars>>

\* handle_write and write_succeeded, which starts to read the reply's header
WriteSucceeds ==
  /\ Ready
  /\ "sent" \in ops
  /\ write_queue' = Tail(write_queue)
  /\ write_queue_active' = FALSE
  /\ ops' = (ops \ {"sent"}) \cup {"header"}
  /\ io' = "reading"
  /\ UNCHANGED <<callVars, connVars, idle_work, running, aborted, netVars>>

\* Mutant: handle_write goes on after an error as if there were none.
WriteFails_NoReturn ==
  /\ Ready
  /\ "write" \in ops
  /\ ~net_up
  /\ write_queue' = Tail(write_queue)
  /\ write_queue_active' = FALSE
  /\ ops' = (ops \ {"write"}) \cup {"header"}
  /\ error_occurred
  /\ UNCHANGED <<idle_work, running, aborted, netVars>>

WriteFails ==
  /\ Ready
  /\ "write" \in ops
  /\ ~net_up
  /\ write_queue' = Tail(write_queue)
  /\ write_queue_active' = FALSE
  /\ ops' = ops \ {"write"}
  /\ error_occurred
  /\ UNCHANGED <<idle_work, running, aborted, netVars>>

\* async_read has started the read; only then does it drop the idle work.
\* Back in handle_write, what has been queued meanwhile is written; a payload
\* read returns to bytes_received, which has nothing left to do.
ReadStarted ==
  /\ ~aborted
  /\ io = "reading"
  /\ idle_work' = FALSE
  /\ io' = "idle"
  /\ IF "header" \in ops /\ write_queue # <<>>
       THEN write_front
       ELSE UNCHANGED <<write_queue_active, ops>>
  /\ UNCHANGED <<callVars, connVars, write_queue, running, aborted, netVars>>

\* bytes_received, no Receivable in hand
HeaderReceived ==
  /\ Ready
  /\ "header" \in ops
  /\ replies # <<>>
  /\ ~current_receivable
  /\ current_receivable' = TRUE
  /\ ops' = (ops \ {"header"}) \cup {"payload"}
  /\ io' = "reading"
  /\ UNCHANGED <<callVars, mutex, current_promise, write_queue,
                 write_queue_active, idle_work, running, aborted, netVars>>

\* bytes_received, a Receivable in hand, up to keep_alive
PayloadReceived ==
  /\ Ready
  /\ "payload" \in ops
  /\ replies # <<>>
  /\ current_receivable
  /\ current_receivable' = FALSE
  /\ future' = [future EXCEPT ![current_promise] = "value"]
  /\ answer' = [answer EXCEPT ![current_promise] = Head(replies)]
  /\ replies' = Tail(replies)
  /\ ops' = ops \ {"payload"}
  /\ io' = "resolved"
  /\ UNCHANGED <<pc, mutex, current_promise, write_queue, write_queue_active,
                 idle_work, running, aborted, net_up, wire, executed>>

\* handle_read with an error: what came before the connection broke was read.
ReadFails(op) ==
  /\ Ready
  /\ op \in ops
  /\ ~net_up
  /\ replies = <<>>
  /\ ops' = ops \ {op}
  /\ error_occurred
  /\ UNCHANGED <<write_queue, write_queue_active, idle_work, running, aborted, netVars>>

\* What bytes_received and error_occurred have in common after the promise is
\* resolved: keep_alive, then unlock.  A client's socket has no state listeners
\* to tell of a lost connection.
KeepAlive ==
  /\ ~aborted
  /\ io = "resolved"
  /\ idle_work' = TRUE
  /\ io' = "unlock"
  /\ UNCHANGED <<callVars, connVars, write_queue, write_queue_active, ops,
                 running, aborted, netVars>>

\* Mutant: error_occurred does not unlock.
Unlock_NotAfterError ==
  /\ ~aborted
  /\ io = "unlock"
  /\ mutex' = (future[current_promise] = "error")
  /\ io' = "idle"
  /\ UNCHANGED <<callVars, current_promise, current_receivable, sockVars,
                 running, aborted, netVars>>

Unlock ==
  /\ ~aborted
  /\ io = "unlock"
  /\ mutex' = FALSE
  /\ io' = "idle"
  /\ UNCHANGED <<callVars, current_promise, current_receivable, sockVars,
                 running, aborted, netVars>>

\* io_service::run returns as soon as there is no work; nobody runs it again.
RunReturns ==
  /\ Ready
  /\ ops = {}
  /\ ~idle_work
  /\ running' = FALSE
  /\ UNCHANGED <<callVars, connVars, sockVars, io, aborted, netVars>>

IoThread ==
  \/ WriteSucceeds
  \/ WriteFails
  \/ ReadStarted
  \/ HeaderReceived
  \/ PayloadReceived
  \/ \E op \in {"header", "payload"} : ReadFails(op)
  \/ KeepAlive
  \/ Unlock
  \/ RunReturns

\* idle_work is a bare unique_ptr.  Two threads that are about to reset it race:
\* either goes first, or both delete the same work.
AboutToReset == {r \in Send : pc[r] = "reset"}
                  \cup (IF io \in {"reading", "resolved"} THEN {Nobody} ELSE {})

RaceOnIdleWork ==
  /\ ~aborted
  /\ \E t, u \in AboutToReset : t # u
  /\ aborted' = TRUE
  /\ UNCHANGED <<callVars, connVars, sockVars, io, running, netVars>>

-----------------------------------------------------------------------------
(* The world outside: the kernel, the daemon, the network *)

\* A message the kernel has taken over counts as written, delivered or not.
Transmit ==
  /\ ~aborted
  /\ "write" \in ops
  /\ ops' = (ops \ {"write"}) \cup {"sent"}
  /\ wire' = IF net_up THEN Append(wire, Head(write_queue)) ELSE wire
  /\ UNCHANGED <<callVars, connVars, write_queue, write_queue_active, idle_work,
                 runVars, net_up, replies, executed>>

Execute ==
  /\ wire # <<>>
  /\ executed' = [executed EXCEPT ![Head(wire)] = @ + 1]
  /\ replies' = IF net_up THEN Append(replies, Head(wire)) ELSE replies
  /\ wire' = Tail(wire)
  /\ UNCHANGED <<callVars, connVars, sockVars, runVars, net_up>>

\* Of what is under way in either direction the later part is lost.
NetworkBreaks ==
  /\ net_up
  /\ net_up' = FALSE
  /\ \E n \in 0..Len(wire) : wire' = SubSeq(wire, 1, n)
  /\ \E n \in 0..Len(replies) : replies' = SubSeq(replies, 1, n)
  /\ UNCHANGED <<callVars, connVars, sockVars, runVars, executed>>

-----------------------------------------------------------------------------
Next ==
  \/ \E r \in Send : SendCalled(r) \/ Sender(r)
  \/ IoThread
  \/ RaceOnIdleWork
  \/ Transmit
  \/ Execute
  \/ NetworkBreaks

\* Threads run, the kernel works, and the daemon answers (RequestAnswered of
\* module Daemon).  A mutex need not be fair: the sends are finitely many.
Fairness ==
  /\ \A r \in Send : WF_vars(Sender(r))
  /\ WF_vars(IoThread)
  /\ WF_vars(Transmit)
  /\ WF_vars(Execute)

Spec == Init /\ [][Next]_vars /\ Fairness

-----------------------------------------------------------------------------
(* Properties *)

TypeOK ==
  /\ pc \in [Send -> {"unborn", "lock", "push", "front", "reset", "done"}]
  /\ future \in [Send -> {"unsent", "pending", "value", "error"}]
  /\ answer \in [Send -> Send \cup {Nobody}]
  /\ mutex \in BOOLEAN
  /\ current_promise \in Send \cup {Nobody}
  /\ current_receivable \in BOOLEAN
  /\ write_queue \in Seq(Send)
  /\ write_queue_active \in BOOLEAN
  /\ idle_work \in BOOLEAN
  /\ ops \in SUBSET {"write", "sent", "header", "payload"}
  /\ io \in {"idle", "reading", "resolved", "unlock"}
  /\ running \in BOOLEAN
  /\ aborted \in BOOLEAN
  /\ net_up \in BOOLEAN
  /\ wire \in Seq(Send)
  /\ replies \in Seq(Send)
  /\ executed \in [Send -> Nat]

\* Whoever gets a value gets the answer to his own request: the thread that
\* sent and the thread that reads never mean different promises.
ReplyCorrelation ==
  \A r \in Send : future[r] = "value" => answer[r] = r

\* The socket is never asked for two things at once (test
\* does_not_write_second_msg_before_first_is_finished), and what handle_write
\* pops is there (its assertion).
OneOperationAtATime ==
  /\ Cardinality(ops) + Cardinality({r \in Send : pc[r] \in {"push", "front"}}) <= 1
  /\ ops \cap {"write", "sent"} # {} <=> write_queue_active
  /\ write_queue_active => write_queue # <<>>

\* A promise set twice throws through io_service::run, and a mutex unlocked
\* twice is undefined behaviour: while anything is under way the current promise
\* is unresolved and the mutex is locked, and it still is when it is unlocked.
ResolvedOnceUnlockedOnce ==
  /\ ops # {} => mutex /\ future[current_promise] = "pending"
  /\ io \in {"resolved", "unlock"} =>
       mutex /\ ops = {} /\ future[current_promise] \in {"value", "error"}

\* Nobody waits for ever, unless the thread that would tell him is gone
\* (every path through the handlers ends in an unlock).
EverySendResolved ==
  \A r \in Send :
    future[r] = "pending" ~> (future[r] # "pending" \/ ~running \/ aborted)

\* The connection keeps the promises of RequestReply.  A value that answers
\* another's request maps to no result of that module.
Result(r) == CASE future[r] = "value" /\ answer[r] = r -> "answered"
               [] future[r] = "value" /\ answer[r] # r -> "answer to another"
               [] future[r] = "error" -> "failed"
               [] OTHER -> future[r]

Promised ==
  INSTANCE RequestReply WITH
    Request <- Send,
    result <- [r \in Send |-> Result(r)],
    serving <- IF mutex THEN current_promise ELSE Nobody,
    taken <- {r \in Send : pc[r] \in {"push", "front", "reset", "done"}}

KeepsRequestReply == Promised!Spec

\* The tests' DummySocket requires of every caller that at any moment there be
\* an operation under way or the socket be kept alive ("BOOST_REQUIRE_GE(
\* op_queue.size(), 1)"); io_service::run would return otherwise.
KeptAlive == aborted \/ idle_work \/ ops # {} \/ io # "idle"
=============================================================================
