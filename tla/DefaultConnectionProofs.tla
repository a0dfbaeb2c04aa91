----------------------- MODULE DefaultConnectionProofs -----------------------
(***************************************************************************)
(* What is proved of the client's connection, for any set of sends.  The   *)
(* mutex divides a connection's life into phases; the invariant says, for  *)
(* each phase, where the one request being served is to be found.          *)
(***************************************************************************)
EXTENDS DefaultConnection, TLAPS, FiniteSetTheorems,
        SequenceTheorems

c == current_promise

\* Nothing of an earlier request is left to be read.
Drained == replies = <<>> /\ (net_up => wire = <<>>)

\* The request is with the daemon, or its reply on the way back; unless the
\* connection broke, it is one of the two.
InFlight ==
  /\ replies \in {<<>>, <<c>>}
  /\ net_up => \/ wire = <<c>> /\ replies = <<>>
               \/ wire = <<>> /\ replies = <<c>>

NoWrite == write_queue = <<>> /\ ~write_queue_active
OwnWrite == write_queue = <<c>> /\ write_queue_active

Free ==
  /\ ~mutex
  /\ ops = {} /\ io = "idle" /\ ~current_receivable
  /\ NoWrite /\ Drained

Starting ==
  /\ ops = {} /\ io = "idle" /\ ~current_receivable
  /\ ~write_queue_active /\ Drained
  /\ \/ pc[c] = "push" /\ write_queue = <<>>
     \/ pc[c] = "front" /\ write_queue = <<c>>

Writing ==
  /\ io = "idle" /\ ~current_receivable
  /\ OwnWrite
  /\ \/ ops = {"write"} /\ Drained
     \/ ops = {"sent"} /\ InFlight

Reading ==
  /\ io \in {"idle", "reading"}
  /\ NoWrite /\ InFlight
  /\ \/ ops = {"header"} /\ ~current_receivable
     \/ ops = {"payload"} /\ current_receivable

Resolved ==
  /\ ops = {} /\ io \in {"resolved", "unlock"} /\ ~current_receivable
  /\ NoWrite /\ Drained
  /\ future[c] \in {"value", "error"}

Held ==
  /\ mutex
  /\ c \in Send
  /\ \/ Starting /\ future[c] = "pending"
     \/ Writing /\ future[c] = "pending" /\ pc[c] \in {"reset", "done"}
     \/ Reading /\ future[c] = "pending" /\ pc[c] \in {"reset", "done"}
     \/ Resolved /\ pc[c] \in {"reset", "done"}

\* Threads: only the one that holds the mutex is anywhere in async_write before
\* its end, and only those that have not had it yet have nothing to be resolved.
Threads ==
  \A r \in Send :
    /\ pc[r] \in {"push", "front"} => mutex /\ c = r
    /\ pc[r] = "unborn" => future[r] = "unsent"
    /\ pc[r] = "lock" => future[r] = "pending"

IInv ==
  /\ TypeOK
  /\ Threads
  /\ Free \/ Held
  /\ ReplyCorrelation

\* What the steps do to queues and channels: in general, and when there is one
\* message or none.
LEMMA Sequences ==
  ASSUME NEW s \in Seq(Send)
  PROVE  /\ s # <<>> => Head(s) \in Send /\ Tail(s) \in Seq(Send)
         /\ \A r \in Send : Append(s, r) \in Seq(Send)
         /\ \A n \in 0..Len(s) : SubSeq(s, 1, n) \in Seq(Send)
OBVIOUS

LEMMA Singletons ==
  ASSUME NEW r \in Send
  PROVE  /\ <<>> \in Seq(Send)
         /\ Append(<<>>, r) = <<r>>
         /\ Head(<<r>>) = r
         /\ Tail(<<r>>) = <<>>
         /\ <<r>> # <<>>
OBVIOUS

LEMMA Prefixes ==
  ASSUME NEW r \in Send, NEW n \in Nat
  PROVE  /\ n \in 0..Len(<<>>) => SubSeq(<<>>, 1, n) = <<>>
         /\ n \in 0..Len(<<r>>) => SubSeq(<<r>>, 1, n) \in {<<>>, <<r>>}
<1>1. n \in 0..Len(<<>>) => SubSeq(<<>>, 1, n) = <<>>
  OBVIOUS
<1>2. n = 0 => SubSeq(<<r>>, 1, n) = <<>>
  OBVIOUS
<1>3. n = 1 => SubSeq(<<r>>, 1, n) = <<r>>
  <2>1. <<r>> \in Seq(Send) /\ Len(<<r>>) = 1
    OBVIOUS
  <2> QED
    BY <2>1, SubSeqFull
<1> QED
  BY <1>1, <1>2, <1>3

LEMMA InitIInv == Init => IInv
<1>1. Init => TypeOK
  <2> SUFFICES ASSUME Init PROVE TypeOK
    OBVIOUS
  <2>1. <<>> \in Seq(Send)
    OBVIOUS
  <2>2. /\ pc \in [Send -> {"unborn", "lock", "push", "front", "reset", "done"}]
        /\ future \in [Send -> {"unsent", "pending", "value", "error"}]
        /\ answer \in [Send -> Send \cup {Nobody}]
        /\ executed \in [Send -> Nat]
    BY DEF Init, Quiet
  <2> QED
    BY <2>1, <2>2 DEF Init, Quiet, TypeOK
<1>2. Init => Threads
  BY DEF Init, Quiet, Threads
<1>3. Init => Free
  BY DEF Init, Quiet, Free, NoWrite, Drained
<1>4. Init => ReplyCorrelation
  BY DEF Init, Quiet, ReplyCorrelation
<1> QED
  BY <1>1, <1>2, <1>3, <1>4 DEF IInv

\* Steps of the senders
LEMMA SenderStep ==
  ASSUME IInv, NEW r \in Send, SendCalled(r) \/ Sender(r)
  PROVE  IInv'
<1> USE DEF IInv, TypeOK, Threads, Free, Held, Starting, Writing, Reading, Resolved,
        NoWrite, OwnWrite, Drained, InFlight, ReplyCorrelation, c,
        callVars, connVars, sockVars, runVars, netVars
<1>1. CASE SendCalled(r)
  BY <1>1 DEF SendCalled
<1>2. CASE Lock(r)
  BY <1>2 DEF Lock
<1>3. CASE AddToWriteQueue(r)
  <2>1. Held /\ Starting /\ c = r /\ write_queue = <<>>
    BY <1>3 DEF AddToWriteQueue
  <2>2. write_queue' = <<r>> /\ <<r>> \in Seq(Send)
    BY <1>3, <2>1, Singletons DEF AddToWriteQueue
  <2>3. TypeOK' /\ Threads'
    BY <1>3, <2>1, <2>2 DEF AddToWriteQueue
  <2>4. Held'
    BY <1>3, <2>1, <2>2 DEF AddToWriteQueue
  <2> QED
    BY <1>3, <2>3, <2>4 DEF AddToWriteQueue
<1>4. CASE StartWrite(r)
  BY <1>4 DEF StartWrite, write_front
<1>5. CASE ResetIdleWork(r)
  BY <1>5 DEF ResetIdleWork
<1> QED
  BY <1>1, <1>2, <1>3, <1>4, <1>5 DEF Sender

LEMMA IoStep ==
  ASSUME IInv, IoThread
  PROVE  IInv'
<1> USE DEF IInv, TypeOK, Threads, Free, Held, Starting, Writing, Reading, Resolved,
        NoWrite, OwnWrite, Drained, InFlight, ReplyCorrelation, c,
        callVars, connVars, sockVars, runVars, netVars, Ready
<1>1. CASE WriteSucceeds
  <2>1. Held /\ Writing /\ ops = {"sent"}
    BY <1>1 DEF WriteSucceeds
  <2>2. write_queue' = <<>> /\ <<>> \in Seq(Send)
    BY <1>1, <2>1, Singletons DEF WriteSucceeds
  <2>3. TypeOK' /\ Threads'
    BY <1>1, <2>1, <2>2 DEF WriteSucceeds
  <2>4. Held'
    BY <1>1, <2>1, <2>2 DEF WriteSucceeds
  <2> QED
    BY <1>1, <2>3, <2>4 DEF WriteSucceeds
<1>2. CASE WriteFails
  <2>1. Held /\ Writing /\ ops = {"write"}
    BY <1>2 DEF WriteFails
  <2>2. write_queue' = <<>> /\ <<>> \in Seq(Send)
    BY <1>2, <2>1, Singletons DEF WriteFails
  <2>3. TypeOK' /\ Threads'
    BY <1>2, <2>1, <2>2 DEF WriteFails, error_occurred
  <2>4. Held'
    BY <1>2, <2>1, <2>2 DEF WriteFails, error_occurred
  <2> QED
    BY <1>2, <2>3, <2>4 DEF WriteFails, error_occurred
<1>3. CASE ReadStarted
  BY <1>3 DEF ReadStarted, write_front
<1>4. CASE HeaderReceived
  BY <1>4 DEF HeaderReceived
<1>5. CASE PayloadReceived
  <2>1. Held /\ Reading /\ ops = {"payload"} /\ replies = <<c>>
    BY <1>5 DEF PayloadReceived
  <2>2. Head(replies) = c /\ replies' = <<>> /\ <<>> \in Seq(Send)
    BY <1>5, <2>1, Singletons DEF PayloadReceived
  <2>3. net_up => wire = <<>>
    BY <2>1, Singletons
  <2>4. TypeOK' /\ Threads'
    BY <1>5, <2>1, <2>2 DEF PayloadReceived
  <2>5. Held'
    BY <1>5, <2>1, <2>2, <2>3 DEF PayloadReceived
  <2>6. ReplyCorrelation'
    BY <1>5, <2>1, <2>2 DEF PayloadReceived
  <2> QED
    BY <2>4, <2>5, <2>6
<1>6. ASSUME NEW op \in {"header", "payload"}, ReadFails(op)
      PROVE  IInv'
  BY <1>6 DEF ReadFails, error_occurred
<1>7. CASE KeepAlive
  BY <1>7 DEF KeepAlive
<1>8. CASE Unlock
  BY <1>8 DEF Unlock
<1>9. CASE RunReturns
  BY <1>9 DEF RunReturns
<1> QED
  BY <1>1, <1>2, <1>3, <1>4, <1>5, <1>6, <1>7, <1>8, <1>9 DEF IoThread

LEMMA WorldStep ==
  ASSUME IInv, RaceOnIdleWork \/ Transmit \/ Execute \/ NetworkBreaks
  PROVE  IInv'
<1> USE DEF IInv, TypeOK, Threads, Free, Held, Starting, Writing, Reading, Resolved,
        NoWrite, OwnWrite, Drained, InFlight, ReplyCorrelation, c,
        callVars, connVars, sockVars, runVars, netVars
<1>1. CASE RaceOnIdleWork
  BY <1>1 DEF RaceOnIdleWork
<1>2. CASE Transmit
  <2>1. Held /\ Writing /\ ops = {"write"}
    BY <1>2 DEF Transmit
  <2>2. Head(write_queue) = c /\ c \in Send
    BY <2>1, Singletons
  <2>3. wire' \in Seq(Send)
    BY <1>2, <2>2, Sequences DEF Transmit
  <2>4. net_up' => wire' = <<c>>
    BY <1>2, <2>1, <2>2, Singletons DEF Transmit
  <2>5. TypeOK' /\ Threads'
    BY <1>2, <2>1, <2>3 DEF Transmit
  <2>6. Held'
    BY <1>2, <2>1, <2>4 DEF Transmit
  <2> QED
    BY <1>2, <2>5, <2>6 DEF Transmit
<1>3. CASE Execute
  <2>1. Head(wire) \in Send /\ wire' \in Seq(Send)
    BY <1>3, Sequences DEF Execute
  <2>2. executed' \in [Send -> Nat]
    BY <1>3, <2>1 DEF Execute
  <2>3. CASE net_up
    <3>1. Held /\ wire = <<c>> /\ replies = <<>>
      BY <1>3, <2>3 DEF Execute
    <3>2. wire' = <<>> /\ replies' = <<c>> /\ replies' \in Seq(Send)
      BY <1>3, <2>3, <3>1, Singletons, Sequences DEF Execute
    <3>3. TypeOK' /\ Threads' /\ ReplyCorrelation'
      BY <1>3, <2>1, <2>2, <3>2 DEF Execute
    <3>4. Held'
      BY <1>3, <3>1, <3>2 DEF Execute
    <3> QED
      BY <3>3, <3>4
  <2>4. CASE ~net_up
    <3>1. TypeOK' /\ Threads' /\ ReplyCorrelation'
      BY <1>3, <2>1, <2>2, <2>4 DEF Execute
    <3>2. (Free => Free') /\ (Held => Held')
      BY <1>3, <2>4 DEF Execute
    <3> QED
      BY <3>1, <3>2
  <2> QED
    BY <2>3, <2>4
<1>4. CASE NetworkBreaks
  <2>1. PICK n \in 0..Len(replies) : replies' = SubSeq(replies, 1, n)
    BY <1>4 DEF NetworkBreaks
  <2>2. PICK k \in 0..Len(wire) : wire' = SubSeq(wire, 1, k)
    BY <1>4 DEF NetworkBreaks
  <2>3. replies' \in Seq(Send) /\ wire' \in Seq(Send)
    BY <2>1, <2>2, Sequences
  <2>4. n \in Nat
    BY <2>1
  <2>5. replies = <<>> => replies' = <<>>
    BY <2>1, <2>4, Prefixes
  <2>6. Held /\ replies = <<c>> => replies' \in {<<>>, <<c>>}
    BY <2>1, <2>4, Prefixes
  <2>7. TypeOK' /\ Threads' /\ ReplyCorrelation'
    BY <1>4, <2>3 DEF NetworkBreaks
  <2>8. (Free => Free') /\ (Held => Held')
    BY <1>4, <2>5, <2>6 DEF NetworkBreaks
  <2> QED
    BY <2>7, <2>8
<1> QED
  BY <1>1, <1>2, <1>3, <1>4

LEMMA NextIInv == IInv /\ [Next]_vars => IInv'
<1>1. ASSUME IInv, UNCHANGED vars PROVE IInv'
  BY <1>1 DEF IInv, TypeOK, Threads, Free, Held, Starting, Writing, Reading,
     Resolved, NoWrite, OwnWrite, Drained, InFlight, ReplyCorrelation, c,
     vars, callVars, connVars, sockVars, runVars, netVars
<1> QED
  BY <1>1, SenderStep, IoStep, WorldStep DEF Next

THEOREM Invariance == Spec => []IInv
<1>1. Init => IInv
  BY InitIInv
<1>2. IInv /\ [Next]_vars => IInv'
  BY NextIInv
<1> QED
  BY <1>1, <1>2, PTL DEF Spec

\* The types the connection keeps, whatever its threads do.
THEOREM TypeCorrect == Spec => []TypeOK
BY Invariance, PTL DEF IInv

\* Whoever gets a value from a send gets the answer to that send (mutex,
\* current_promise and current_receivable of DefaultConnection together).
THEOREM RepliesCorrelated == Spec => []ReplyCorrelation
BY Invariance, PTL DEF IInv

LEMMA Operations ==
  ASSUME IInv
  PROVE  OneOperationAtATime
<1> DEFINE early == {r \in Send : pc[r] \in {"push", "front"}}
<1>1. Cardinality({}) = 0
  BY FS_EmptySet
<1>2. \A x : Cardinality({x}) = 1
  BY FS_Singleton
<1>3. Cardinality(ops) + Cardinality(early) <= 1
  <2>1. CASE Free
    <3>1. early = {} /\ ops = {}
      BY <2>1 DEF IInv, Threads, Free
    <3> QED
      BY <1>1, <3>1
  <2>2. CASE Held /\ Starting
    <3>1. c \in Send /\ pc[c] \in {"push", "front"} /\ ops = {}
      BY <2>2 DEF Held, Starting
    <3>2. \A r \in Send : pc[r] \in {"push", "front"} => r = c
      BY DEF IInv, Threads
    <3>3. early = {c}
      BY <3>1, <3>2
    <3>4. Cardinality(early) = 1 /\ Cardinality(ops) = 0
      BY <1>1, <1>2, <3>1, <3>3, Zenon
    <3> QED
      BY <3>4
  <2>3. CASE Held /\ pc[c] \in {"reset", "done"}
    <3>1. early = {}
      BY <2>3 DEF IInv, Threads, Held
    <3>2. \/ ops = {} \/ ops = {"write"} \/ ops = {"sent"}
          \/ ops = {"header"} \/ ops = {"payload"}
      BY <2>3 DEF Held, Starting, Writing, Reading, Resolved
    <3>3. /\ Cardinality(early) = 0
          /\ Cardinality(ops) = 0 \/ Cardinality(ops) = 1
      BY <1>1, <1>2, <3>1, <3>2, Zenon
    <3> QED
      BY <3>3
  <2> QED
    BY <2>1, <2>2, <2>3 DEF IInv, Held
<1>4. ops \cap {"write", "sent"} # {} <=> write_queue_active
  BY DEF IInv, TypeOK, Free, Held, Starting, Writing, Reading, Resolved,
     NoWrite, OwnWrite
<1>5. write_queue_active => write_queue # <<>>
  BY Singletons DEF IInv, Free, Held, Starting, Writing, Reading,
     Resolved, NoWrite, OwnWrite
<1> QED
  BY <1>3, <1>4, <1>5 DEF OneOperationAtATime

\* DefaultSocket is asked for one thing at a time, and its write queue holds
\* what handle_write pops.
THEOREM OperationsAlternate == Spec => []OneOperationAtATime
BY Operations, Invariance, PTL

LEMMA Promises ==
  ASSUME IInv
  PROVE  ResolvedOnceUnlockedOnce
BY DEF IInv, Free, Held, Starting, Writing, Reading, Resolved, c,
   ResolvedOnceUnlockedOnce

\* No promise is set twice and no mutex unlocked that is not locked.
THEOREM PromisesSetOnce == Spec => []ResolvedOnceUnlockedOnce
BY Promises, Invariance, PTL

-----------------------------------------------------------------------------
(* The connection implements RequestReply.  Beyond the phases this needs   *)
(* to know that the daemon has each request before it at most once.        *)

Once ==
  /\ \A r \in Send :
       /\ executed[r] \in {0, 1}
       /\ pc[r] \in {"unborn", "lock", "push", "front"} => executed[r] = 0
  /\ \A i \in 1..Len(wire) :
       /\ executed[wire[i]] = 0
       /\ pc[wire[i]] \in {"reset", "done"}
       /\ "write" \in ops => wire[i] # c
  /\ \A i, j \in 1..Len(wire) : wire[i] = wire[j] => i = j
  /\ "write" \in ops => executed[c] = 0
  /\ replies # <<>> => executed[c] = 1

LEMMA OnceInit == Init => Once
BY DEF Init, Quiet, Once

LEMMA OnceTransmit ==
  ASSUME IInv, Once, Transmit
  PROVE  Once'
<1>1. Held /\ Writing /\ ops = {"write"} /\ c \in Send
  BY DEF Transmit, IInv, Free, Held, Starting, Writing, Reading, Resolved
<1>2. Head(write_queue) = c
  BY <1>1, Singletons DEF Writing, OwnWrite
<1>3. wire \in Seq(Send)
  BY DEF IInv, TypeOK
<1>4. CASE net_up
  <2>1. wire = <<>> /\ wire' = <<c>>
    BY <1>1, <1>2, <1>4, Singletons DEF Writing, Drained, Transmit, OwnWrite
  <2>2. \A i \in 1..Len(wire') : i = 1 /\ wire'[i] = c
    BY <2>1, <1>1
  <2>3. executed[c] = 0 /\ pc[c] \in {"reset", "done"}
    BY <1>1 DEF Once, Held, Starting, Writing, Reading, Resolved
  <2> QED
    BY <1>1, <2>2, <2>3 DEF Once, Transmit, connVars, callVars, c
<1>5. CASE ~net_up
  BY <1>1, <1>5 DEF Once, Transmit, connVars, callVars, c
<1> QED
  BY <1>4, <1>5

LEMMA OnceExecute ==
  ASSUME IInv, Once, Execute
  PROVE  Once'
<1>1. wire \in Seq(Send) /\ wire # <<>> /\ executed \in [Send -> Nat]
  BY DEF IInv, TypeOK, Execute
<1> DEFINE r == Head(wire)
<1>2. r \in Send /\ r = wire[1] /\ 1 \in 1..Len(wire)
  BY <1>1
<1>3. executed[r] = 0 /\ pc[r] \in {"reset", "done"}
  BY <1>2 DEF Once
<1>4. executed' = [executed EXCEPT ![r] = 1]
  BY <1>1, <1>2, <1>3 DEF Execute
<1>5. \A i \in 1..Len(wire') : i + 1 \in 1..Len(wire) /\ wire'[i] = wire[i + 1]
  BY <1>1 DEF Execute
<1>6. \A i \in 1..Len(wire') : wire'[i] # r /\ wire'[i] \in Send
  BY <1>1, <1>2, <1>5 DEF Once
<1>7. pc' = pc /\ ops' = ops /\ c' = c
  BY DEF Execute, callVars, sockVars, connVars, c
<1>8. \A i \in 1..Len(wire') :
        /\ executed'[wire'[i]] = 0
        /\ pc'[wire'[i]] \in {"reset", "done"}
        /\ "write" \in ops' => wire'[i] # c'
  BY <1>1, <1>4, <1>5, <1>6, <1>7 DEF Once
<1>9. \A i, j \in 1..Len(wire') : wire'[i] = wire'[j] => i = j
  BY <1>5 DEF Once
<1>10. "write" \in ops' => executed'[c'] = 0
  BY <1>1, <1>2, <1>4, <1>7 DEF Once
<1>11. replies' # <<>> => executed'[c'] = 1
  <2>1. CASE net_up
    <3>1. r = c
      BY <1>1, <1>2, <2>1, Singletons
         DEF IInv, Free, Held, Starting, Writing, Reading, Resolved, Drained, InFlight
    <3> QED
      BY <1>1, <1>2, <1>4, <1>7, <3>1
  <2>2. CASE ~net_up
    <3>1. replies' = replies
      BY <2>2 DEF Execute
    <3>2. CASE c \in Send
      BY <1>1, <1>2, <1>3, <1>4, <1>7, <3>1, <3>2 DEF Once
    <3>3. CASE c \notin Send
      BY <3>1, <3>3 DEF IInv, Free, Held, Drained
    <3> QED
      BY <3>2, <3>3
  <2> QED
    BY <2>1, <2>2
<1>12. \A q \in Send :
         /\ executed'[q] \in {0, 1}
         /\ pc'[q] \in {"unborn", "lock", "push", "front"} => executed'[q] = 0
  BY <1>1, <1>2, <1>3, <1>4, <1>7 DEF Once
<1> QED
  BY <1>8, <1>9, <1>10, <1>11, <1>12 DEF Once

LEMMA OnceBreaks ==
  ASSUME IInv, Once, NetworkBreaks
  PROVE  Once'
<1>1. PICK n \in 0..Len(wire) : wire' = SubSeq(wire, 1, n)
  BY DEF NetworkBreaks
<1>2. wire \in Seq(Send)
  BY DEF IInv, TypeOK
<1>3. \A i \in 1..Len(wire') : i \in 1..Len(wire) /\ wire'[i] = wire[i]
  BY <1>1, <1>2
<1>4. PICK k \in 0..Len(replies) : replies' = SubSeq(replies, 1, k)
  BY DEF NetworkBreaks
<1>5. replies = <<>> => replies' = <<>>
  BY <1>4, Prefixes DEF IInv, TypeOK
<1> QED
  BY <1>3, <1>5 DEF Once, NetworkBreaks, callVars, connVars, sockVars, c

LEMMA OnceStep == IInv /\ Once /\ [Next]_vars => Once'
<1> SUFFICES ASSUME IInv, Once, [Next]_vars PROVE Once'
  OBVIOUS
<1> USE DEF callVars, connVars, sockVars, runVars, netVars, c
<1>1. CASE UNCHANGED vars
  BY <1>1 DEF vars, Once
<1>2. ASSUME NEW r \in Send, SendCalled(r) PROVE Once'
  BY <1>2 DEF SendCalled, Once, IInv, TypeOK
<1>3. ASSUME NEW r \in Send, Lock(r) PROVE Once'
  BY <1>3 DEF Lock, Once, IInv, TypeOK, Free, Held, Drained
<1>4. ASSUME NEW r \in Send, AddToWriteQueue(r) PROVE Once'
  BY <1>4 DEF AddToWriteQueue, Once, IInv, TypeOK
<1>5. ASSUME NEW r \in Send, StartWrite(r) PROVE Once'
  BY <1>5 DEF StartWrite, write_front, Once, IInv, TypeOK, Threads
<1>6. ASSUME NEW r \in Send, ResetIdleWork(r) PROVE Once'
  BY <1>6 DEF ResetIdleWork, Once, IInv, TypeOK
<1>7. CASE WriteSucceeds \/ WriteFails
  BY <1>7 DEF WriteSucceeds, WriteFails, error_occurred, Once
<1>8. CASE ReadStarted
  BY <1>8 DEF ReadStarted, write_front, Once, IInv, Free, Held, Starting,
     Writing, Reading, Resolved, NoWrite
<1>9. CASE HeaderReceived
  BY <1>9 DEF HeaderReceived, Once
<1>10. CASE PayloadReceived
  <2>1. replies' = <<>>
    BY <1>10, Singletons DEF PayloadReceived, Ready, IInv, Free, Held, Starting,
       Writing, Reading, Resolved, InFlight
  <2> QED
    BY <1>10, <2>1 DEF PayloadReceived, Once
<1>11. CASE \E op \in {"header", "payload"} : ReadFails(op)
  BY <1>11 DEF ReadFails, error_occurred, Once
<1>12. CASE KeepAlive \/ Unlock \/ RunReturns
  BY <1>12 DEF KeepAlive, Unlock, RunReturns, Once
<1>13. CASE RaceOnIdleWork
  BY <1>13 DEF RaceOnIdleWork, Once
<1> QED
  BY <1>1, <1>2, <1>3, <1>4, <1>5, <1>6, <1>7, <1>8, <1>9, <1>10, <1>11, <1>12,
     <1>13, OnceTransmit, OnceExecute, OnceBreaks DEF Next, Sender, IoThread

results == [r \in Send |-> Result(r)]
Serving == IF mutex THEN current_promise ELSE Nobody
Taken == {r \in Send : pc[r] \in {"push", "front", "reset", "done"}}

\* A step that leaves what RequestReply sees alone
Unseen == UNCHANGED <<results, Serving, Taken, executed>>

LEMMA ResultsStay ==
  ASSUME future' = future, answer' = answer
  PROVE  results' = results
<1>1. \A r \in Send : Result(r)' = Result(r)
  BY DEF Result
<1> QED
  BY <1>1 DEF results

\* The futures and their names in RequestReply
Named(v) == CASE v = "value" -> "answered"
              [] v = "error" -> "failed"
              [] OTHER -> v

LEMMA ResultsChange ==
  ASSUME TypeOK, NEW r \in Send, NEW v \in {"pending", "value", "error"},
         future' = [future EXCEPT ![r] = v],
         IF v = "value" THEN answer' = [answer EXCEPT ![r] = r]
                        ELSE answer' = answer
  PROVE  results' = [results EXCEPT ![r] = Named(v)]
<1>1. future'[r] = v /\ (v = "value" => answer'[r] = r)
  BY DEF TypeOK
<1>2. Result(r)' = Named(v)
  <2>1. CASE v = "value"
    BY <1>1, <2>1 DEF Result, Named
  <2>2. CASE v = "error"
    BY <1>1, <2>2 DEF Result, Named
  <2>3. CASE v = "pending"
    BY <1>1, <2>3 DEF Result, Named
  <2> QED
    BY <2>1, <2>2, <2>3
<1>3. \A q \in Send : q # r => future'[q] = future[q] /\ answer'[q] = answer[q]
  BY DEF TypeOK
<1>4. \A q \in Send : q # r => Result(q)' = Result(q)
  BY <1>3 DEF Result
<1>5. results' = [q \in Send |-> Result(q)']
  BY DEF results
<1>6. [results EXCEPT ![r] = Named(v)]
        = [q \in Send |-> IF q = r THEN Named(v) ELSE Result(q)]
  BY DEF results
<1>7. \A q \in Send : Result(q)' = IF q = r THEN Named(v) ELSE Result(q)
  BY <1>2, <1>4
<1> QED
  BY <1>5, <1>6, <1>7

LEMMA PendingIsPending ==
  ASSUME NEW r \in Send
  PROVE  /\ future[r] = "unsent" => results[r] = "unsent"
         /\ future[r] = "pending" => results[r] = "pending"
         /\ future[r] = "error" => results[r] = "failed"
         /\ future[r] = "value" => results[r] # "pending"
BY DEF results, Result

LEMMA UnseenStutters ==
  ASSUME Unseen
  PROVE  UNCHANGED Promised!vars
BY DEF Unseen, Promised!vars, results, Serving, Taken

LEMMA UnseenCalls ==
  ASSUME UNCHANGED <<callVars, mutex, current_promise, executed>>
  PROVE  UNCHANGED Promised!vars
<1>1. Unseen
  BY ResultsStay DEF callVars, Unseen, Serving, Taken
<1> QED
  BY <1>1, UnseenStutters

LEMMA PromisedInit == Quiet => Promised!Init
BY DEF Quiet, Promised!Init, Result

LEMMA SenderImplements ==
  ASSUME IInv, NEW r \in Send, SendCalled(r) \/ Sender(r)
  PROVE  [Promised!Next]_Promised!vars
<1> USE DEF IInv, TypeOK, callVars, connVars, runVars, netVars
<1>1. CASE SendCalled(r)
  <2>1. results[r] = "unsent"
    BY <1>1, PendingIsPending DEF SendCalled, Threads
  <2>2. results' = [results EXCEPT ![r] = "pending"]
    BY <1>1, ResultsChange DEF SendCalled, Named
  <2>3. UNCHANGED <<Serving, Taken, executed>>
    BY <1>1 DEF SendCalled, Serving, Taken, connVars
  <2>4. Promised!Ask(r)
    BY <2>1, <2>2, <2>3 DEF Promised!Ask, results, Serving, Taken
  <2> QED
    BY <2>4 DEF Promised!Next
<1>2. CASE Lock(r)
  <2>1. Promised!Serve(r)
    BY <1>2 DEF Lock, Promised!Serve, Result, Threads
  <2> QED
    BY <2>1 DEF Promised!Next
<1>3. CASE AddToWriteQueue(r) \/ StartWrite(r) \/ ResetIdleWork(r)
  <2>1. future' = future /\ answer' = answer /\ UNCHANGED <<connVars, executed>>
    BY <1>3 DEF AddToWriteQueue, StartWrite, ResetIdleWork
  <2>2. UNCHANGED Taken
    BY <1>3 DEF AddToWriteQueue, StartWrite, ResetIdleWork, Taken
  <2>3. Unseen
    BY <2>1, <2>2, ResultsStay DEF Unseen, Serving
  <2> QED
    BY <2>3, UnseenStutters
<1> QED
  BY <1>1, <1>2, <1>3 DEF Sender

LEMMA ErrorImplements ==
  ASSUME IInv, Held, future[c] = "pending", error_occurred, UNCHANGED executed
  PROVE  [Promised!Next]_Promised!vars
<1>1. c \in Send /\ mutex /\ results[c] = "pending"
  BY PendingIsPending DEF Held
<1>2. results' = [results EXCEPT ![c] = "failed"]
  BY <1>1, ResultsChange DEF error_occurred, IInv, Named, c
<1>3. UNCHANGED <<Serving, Taken>> /\ Serving = c
  BY <1>1 DEF error_occurred, Serving, Taken, c
<1>4. Promised!Resolve(c, "failed")
  BY <1>1, <1>2, <1>3 DEF Promised!Resolve, results, Serving, Taken
<1> QED
  BY <1>1, <1>4 DEF Promised!Next

LEMMA IoImplements ==
  ASSUME IInv, Once, IoThread
  PROVE  [Promised!Next]_Promised!vars
<1> USE DEF callVars, connVars, sockVars, runVars, netVars
<1>1. CASE WriteSucceeds \/ ReadStarted \/ HeaderReceived \/ KeepAlive \/ RunReturns
  <2>1. UNCHANGED <<callVars, mutex, current_promise, executed>>
    BY <1>1 DEF WriteSucceeds, ReadStarted, HeaderReceived, KeepAlive, RunReturns
  <2> QED
    BY <2>1, UnseenCalls
<1>2. CASE WriteFails
  BY <1>2, ErrorImplements
     DEF WriteFails, IInv, Free, Held, Starting, Writing, Reading, Resolved
<1>3. ASSUME NEW op \in {"header", "payload"}, ReadFails(op)
      PROVE  [Promised!Next]_Promised!vars
  BY <1>3, ErrorImplements
     DEF ReadFails, IInv, Free, Held, Starting, Writing, Reading, Resolved
<1>4. CASE PayloadReceived
  <2>1. Held /\ c \in Send /\ future[c] = "pending" /\ replies = <<c>>
    BY <1>4 DEF PayloadReceived, IInv, Free, Held, Starting, Writing, Reading,
       Resolved, InFlight
  <2>2. Head(replies) = c /\ executed[c] = 1
    BY <2>1, Singletons DEF Once
  <2>3. results[c] = "pending" /\ mutex
    BY <2>1, PendingIsPending DEF Held
  <2>4. results' = [results EXCEPT ![c] = "answered"]
    BY <1>4, <2>1, <2>2, ResultsChange DEF PayloadReceived, IInv, Named, c
  <2>5. UNCHANGED <<Serving, Taken, executed>> /\ Serving = c
    BY <1>4, <2>3 DEF PayloadReceived, Serving, Taken, c
  <2>6. Promised!Resolve(c, "answered")
    BY <2>2, <2>3, <2>4, <2>5 DEF Promised!Resolve, results, Serving, Taken
  <2> QED
    BY <2>1, <2>6 DEF Promised!Next
<1>5. CASE Unlock
  <2>1. Held /\ c \in Send /\ future[c] \in {"value", "error"}
    BY <1>5 DEF Unlock, IInv, Free, Held, Starting, Writing, Reading, Resolved
  <2>2. results[c] # "pending" /\ results' = results
    BY <1>5, <2>1, PendingIsPending, ResultsStay DEF Unlock
  <2>3. UNCHANGED <<Taken, executed>> /\ Serving = c /\ Serving' = Nobody
    BY <1>5, <2>1 DEF Unlock, Held, Serving, Taken, c
  <2>4. Promised!Release(c)
    BY <2>2, <2>3 DEF Promised!Release, results, Serving, Taken
  <2> QED
    BY <2>1, <2>4 DEF Promised!Next
<1> QED
  BY <1>1, <1>2, <1>3, <1>4, <1>5 DEF IoThread

LEMMA WorldImplements ==
  ASSUME IInv, Once, RaceOnIdleWork \/ Transmit \/ Execute \/ NetworkBreaks
  PROVE  [Promised!Next]_Promised!vars
<1> USE DEF callVars, connVars, sockVars, runVars, netVars
<1>1. CASE RaceOnIdleWork \/ Transmit \/ NetworkBreaks
  <2>1. UNCHANGED <<callVars, mutex, current_promise, executed>>
    BY <1>1 DEF RaceOnIdleWork, Transmit, NetworkBreaks
  <2> QED
    BY <2>1, UnseenCalls
<1>2. CASE Execute
  <2>1. wire \in Seq(Send) /\ wire # <<>> /\ executed \in [Send -> Nat]
    BY <1>2 DEF IInv, TypeOK, Execute
  <2> DEFINE r == Head(wire)
  <2>2. r \in Send /\ r = wire[1] /\ 1 \in 1..Len(wire)
    BY <2>1
  <2>3. executed[r] = 0 /\ pc[r] \in {"reset", "done"}
    BY <2>2 DEF Once
  <2>4. executed' = [executed EXCEPT ![r] = 1]
    BY <1>2, <2>1, <2>2, <2>3 DEF Execute
  <2>5. UNCHANGED <<results, Serving, Taken>>
    BY <1>2, ResultsStay DEF Execute, Serving, Taken
  <2>6. Promised!Execute(r)
    BY <2>2, <2>3, <2>4, <2>5 DEF Promised!Execute, results, Serving, Taken
  <2> QED
    BY <2>2, <2>6 DEF Promised!Next
<1> QED
  BY <1>1, <1>2

LEMMA NextImplements ==
  ASSUME IInv, Once, [Next]_vars
  PROVE  [Promised!Next]_Promised!vars
<1>1. CASE UNCHANGED vars
  <2>1. UNCHANGED <<callVars, mutex, current_promise, executed>>
    BY <1>1 DEF vars, connVars, netVars
  <2> QED
    BY <2>1, UnseenCalls
<1> QED
  BY <1>1, SenderImplements, IoImplements, WorldImplements DEF Next

\* Whatever its threads and the network do, a connection keeps the promises of
\* RequestReply: one request at a time, executed at most once, each answered by
\* its own reply or failed.
THEOREM ConnectionImplements == Spec => KeepsRequestReply
<1>1. Init => Promised!Init
  BY PromisedInit DEF Init
<1>2. Init => Once
  BY OnceInit
<1>3. IInv /\ Once /\ [Next]_vars => [Promised!Next]_Promised!vars
  BY NextImplements
<1>4. IInv /\ Once /\ [Next]_vars => Once'
  BY OnceStep
<1> QED
  BY <1>1, <1>2, <1>3, <1>4, Invariance, PTL DEF Spec, KeepsRequestReply, Promised!Spec
=============================================================================
