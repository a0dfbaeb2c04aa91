--------------------- MODULE HostConnectionFactoryProofs ---------------------
(***************************************************************************)
(* What is proved of a client process that makes connection after          *)
(* connection, for any number of them and any set of sends: each is a      *)
(* connection as DefaultConnectionProofs knows it, whatever the one before *)
(* it left behind in the io_service they share.                            *)
(***************************************************************************)
EXTENDS HostConnectionFactory, DefaultConnectionProofs

-----------------------------------------------------------------------------
(* The invariant *)

\* Every sender there was has ended.
NoSender == \A r \in Send : pc[r] \in {"unborn", "done"}

\* Of a connection whose socket is gone the io_service has nothing left but the
\* end of a handler; when all of it is gone, no sender is left either.
LeftBehind ==
  /\ life # "alive" => /\ ops = {}
                       /\ \A r \in Send : future[r] # "pending"
  /\ life = "gone" => NoSender

\* A connection is only made when the one before it is gone.
Connecting == app \in {"begun", "waiting", "connected", "refused"}

\* From the handler of async_connect until the first send on the connection
Fresh == app = "connected" \/ (life = "alive" /\ fresh)

Idling == running /\ idle_work /\ io = "idle" /\ ops = {}

FactoryInv ==
  /\ IInv
  /\ Once
  /\ life \in {"alive", "socket_gone", "gone"}
  /\ LeftBehind
  /\ Connecting => life = "gone"
  /\ connecting => app \in {"begun", "waiting"}
  /\ fresh \in BOOLEAN
  /\ Fresh => Idling /\ NoSender

LEMMA FactoryStart == FactoryInit => FactoryInv
<1> SUFFICES ASSUME FactoryInit PROVE FactoryInv
  OBVIOUS
<1>1. Quiet /\ idle_work = FALSE /\ running = FALSE /\ life = "gone" /\ app = "out"
      /\ connecting = FALSE /\ fresh = FALSE
  BY DEF FactoryInit
<1>2. TypeOK
  <2>1. /\ pc \in [Send -> {"unborn", "lock", "push", "front", "reset", "done"}]
        /\ future \in [Send -> {"unsent", "pending", "value", "error"}]
        /\ answer \in [Send -> Send \cup {Nobody}]
        /\ executed \in [Send -> Nat]
    BY <1>1 DEF Quiet
  <2>2. <<>> \in Seq(Send)
    OBVIOUS
  <2> QED
    BY <1>1, <2>1, <2>2 DEF Quiet, TypeOK
<1>3. Free /\ Threads /\ ReplyCorrelation
  BY <1>1 DEF Quiet, Free, NoWrite, Drained, Threads, ReplyCorrelation
<1>4. Once
  BY <1>1 DEF Quiet, Once
<1>5. LeftBehind
  BY <1>1 DEF Quiet, LeftBehind, NoSender
<1> QED
  BY <1>1, <1>2, <1>3, <1>4, <1>5 DEF FactoryInv, IInv, Connecting, Fresh

-----------------------------------------------------------------------------
(* The connection's own steps *)

\* While its objects go, no operation begins, and no thread appears.
LEMMA DyingStep ==
  ASSUME IInv, LeftBehind, life # "alive", life' = life, Next,
         future' = future
  PROVE  LeftBehind'
<1> USE DEF IInv, TypeOK, Threads, LeftBehind, NoSender
<1>1. ASSUME NEW r \in Send, SendCalled(r) \/ Sender(r)
      PROVE  LeftBehind'
  <2>1. ~SendCalled(r)
    BY DEF SendCalled
  <2>2. pc[r] = "reset" /\ ResetIdleWork(r)
    <3>1. pc[r] \notin {"lock", "push", "front"}
      BY DEF Free, Held, Starting, Writing, Reading, Resolved
    <3> QED
      BY <1>1, <2>1, <3>1 DEF Sender, Lock, AddToWriteQueue, StartWrite,
         ResetIdleWork
  <2> QED
    BY <2>2 DEF ResetIdleWork
<1>2. CASE IoThread
  <2>1. pc' = pc /\ ops' = {}
    BY <1>2 DEF IoThread, WriteSucceeds, WriteFails, ReadStarted, HeaderReceived,
       PayloadReceived, ReadFails, KeepAlive, Unlock, RunReturns, error_occurred,
       callVars, connVars, sockVars
  <2> QED
    BY <2>1
<1>3. CASE RaceOnIdleWork \/ Transmit \/ Execute \/ NetworkBreaks
  <2>1. pc' = pc /\ ops' = {}
    BY <1>3 DEF RaceOnIdleWork, Transmit, Execute, NetworkBreaks, callVars, sockVars
  <2> QED
    BY <2>1
<1> QED
  BY <1>1, <1>2, <1>3 DEF Next

\* An io_service that has nothing to do but idle work waits.
LEMMA IdlingStep ==
  ASSUME Idling, NoSender, Next
  PROVE  Idling'
<1> USE DEF Idling, NoSender
<1>1. ASSUME NEW r \in Send, SendCalled(r) \/ Sender(r) PROVE Idling'
  <2>1. SendCalled(r)
    BY <1>1 DEF Sender, Lock, AddToWriteQueue, StartWrite, ResetIdleWork
  <2> QED
    BY <2>1 DEF SendCalled, sockVars, runVars
<1>2. ~IoThread /\ ~Transmit
  BY DEF IoThread, WriteSucceeds, WriteFails, ReadStarted, HeaderReceived,
     PayloadReceived, ReadFails, KeepAlive, Unlock, RunReturns, Transmit
<1>3. CASE RaceOnIdleWork \/ Execute \/ NetworkBreaks
  BY <1>3 DEF RaceOnIdleWork, Execute, NetworkBreaks, sockVars, runVars
<1> QED
  BY <1>1, <1>2, <1>3 DEF Next

\* Where there is no sender, nothing but a new send moves one.
LEMMA NoSenderStep ==
  ASSUME TypeOK, NoSender, Next, Unborn' = Unborn
  PROVE  pc' = pc
<1>1. ASSUME NEW q \in Send, SendCalled(q) PROVE FALSE
  <2>1. q \in Unborn /\ q \notin Unborn'
    BY <1>1 DEF SendCalled, Unborn, TypeOK
  <2> QED
    BY <2>1
<1>2. ASSUME NEW q \in Send, Sender(q) PROVE FALSE
  BY <1>2 DEF NoSender, Sender, Lock, AddToWriteQueue, StartWrite, ResetIdleWork
<1>3. CASE IoThread
  BY <1>3 DEF IoThread, WriteSucceeds, WriteFails, ReadStarted, HeaderReceived,
     PayloadReceived, ReadFails, KeepAlive, Unlock, RunReturns, error_occurred,
     callVars
<1>4. CASE RaceOnIdleWork \/ Transmit \/ Execute \/ NetworkBreaks
  BY <1>4 DEF RaceOnIdleWork, Transmit, Execute, NetworkBreaks, callVars
<1> QED
  BY <1>1, <1>2, <1>3, <1>4 DEF Next

LEMMA LifeStep ==
  ASSUME FactoryInv, LifeNext, running' # running => ~connecting,
         UNCHANGED <<app, connecting>>, fresh' = (fresh /\ Unborn' = Unborn)
  PROVE  FactoryInv'
<1>1. IInv /\ TypeOK /\ Once /\ LeftBehind
  BY DEF FactoryInv, IInv
<1>0. fresh' \in BOOLEAN /\ (fresh' => fresh /\ Unborn' = Unborn)
  BY DEF FactoryInv
<1>2. CASE Next /\ UNCHANGED life /\ (life # "alive" => future' = future)
  <2>1. IInv' /\ Once'
    BY <1>1, <1>2, NextIInv, OnceStep
  <2>2. LeftBehind'
    BY <1>1, <1>2, DyingStep DEF LeftBehind
  <2>3. Fresh' => Idling' /\ NoSender'
    <3> SUFFICES ASSUME Fresh' PROVE Idling' /\ NoSender'
      OBVIOUS
    <3>1. Fresh /\ Idling /\ NoSender
      BY <1>0, <1>2 DEF Fresh, FactoryInv
    <3>2. Idling'
      BY <1>2, <3>1, IdlingStep
    <3>3. CASE life = "alive"
      <4>1. app # "connected"
        BY <3>3 DEF FactoryInv, Connecting
      <4>2. Unborn' = Unborn
        BY <1>0, <1>2, <4>1 DEF Fresh
      <4>3. pc' = pc
        BY <1>1, <1>2, <3>1, <4>2, NoSenderStep
      <4> QED
        BY <3>1, <3>2, <4>3 DEF NoSender
    <3>4. CASE life # "alive"
      <4>1. life' = "gone"
        BY <1>2, <3>1, <3>4 DEF Fresh, FactoryInv, Connecting
      <4> QED
        BY <2>2, <3>2, <4>1 DEF LeftBehind
    <3> QED
      BY <3>3, <3>4
  <2> QED
    BY <1>0, <1>2, <2>1, <2>2, <2>3 DEF FactoryInv, Connecting
<1>3. CASE DestroySocket
  <2>1. Free \/ (Held /\ Resolved)
    BY <1>1, <1>3 DEF DestroySocket, IInv, Free, Held, Starting, Writing, Reading,
       Resolved
  <2>2. IInv'
    BY <1>1, <1>3, <2>1 DEF DestroySocket, IInv, TypeOK, Threads, Free, Held,
       Resolved, NoWrite, Drained, ReplyCorrelation, c, callVars, connVars,
       runVars, netVars
  <2>3. Once'
    BY <1>1, <1>3 DEF DestroySocket, Once, c, callVars, connVars, netVars
  <2>4. LeftBehind'
    BY <1>3 DEF DestroySocket, LeftBehind, NoSender, callVars
  <2>5. ~Fresh' /\ ~Connecting'
    BY <1>3 DEF DestroySocket, Fresh, Connecting, FactoryInv
  <2> QED
    BY <1>0, <1>3, <2>2, <2>3, <2>4, <2>5 DEF FactoryInv, DestroySocket, Connecting
<1>4. CASE JoinThreads
  <2>1. IInv' /\ Once'
    BY <1>1, <1>4, NextIInv, OnceStep DEF JoinThreads
  <2>2. LeftBehind'
    BY <1>1, <1>4 DEF JoinThreads, LeftBehind, NoSender, vars, callVars, sockVars
  <2>3. ~Fresh' /\ ~Connecting'
    BY <1>4 DEF JoinThreads, Fresh, Connecting, FactoryInv
  <2> QED
    BY <1>0, <1>4, <2>1, <2>2, <2>3 DEF FactoryInv, JoinThreads, Connecting
<1>5. CASE KeepAlive_Dying
  <2>1. IInv'
    BY <1>1, <1>5 DEF KeepAlive_Dying, IInv, TypeOK, Threads, Free, Held, Starting,
       Writing, Reading, Resolved, NoWrite, Drained, ReplyCorrelation, c,
       callVars, connVars, sockVars, netVars
  <2>2. Once' /\ LeftBehind'
    BY <1>1, <1>5 DEF KeepAlive_Dying, Once, LeftBehind, NoSender, c, callVars, connVars,
       sockVars, netVars
  <2>3. ~Fresh'
    BY <1>5 DEF KeepAlive_Dying, Fresh, FactoryInv, Idling, callVars
  <2> QED
    BY <1>0, <1>5, <2>1, <2>2, <2>3 DEF FactoryInv, KeepAlive_Dying, Connecting
<1>6. CASE DanglingCall
  <2>1. IInv'
    BY <1>1, <1>6 DEF DanglingCall, IInv, TypeOK, Threads, Free, Held, Starting,
       Writing, Reading, Resolved, NoWrite, OwnWrite, Drained, InFlight,
       ReplyCorrelation, c, callVars, connVars, sockVars, netVars
  <2>2. Once' /\ LeftBehind'
    BY <1>1, <1>6 DEF DanglingCall, Once, LeftBehind, NoSender, c, callVars, connVars,
       sockVars, netVars
  <2>3. (Fresh' => Fresh) /\ (Idling' <=> Idling) /\ (NoSender' <=> NoSender)
    BY <1>0, <1>6 DEF DanglingCall, Fresh, Idling, NoSender, callVars, sockVars
  <2> QED
    BY <1>0, <1>6, <2>1, <2>2, <2>3 DEF FactoryInv, DanglingCall, Connecting
<1> QED
  BY <1>2, <1>3, <1>4, <1>5, <1>6 DEF LifeNext

-----------------------------------------------------------------------------
(* The steps of create_session, and of the process at its end *)

\* Those that touch nothing of the connection but the thread that runs the
\* io_service, or its idle work
LEMMA SameConnection ==
  ASSUME FactoryInv, UNCHANGED <<callVars, connVars, netVars, life, io, aborted,
                                 write_queue, write_queue_active, ops>>,
         running' \in BOOLEAN, idle_work' \in BOOLEAN
  PROVE  IInv' /\ Once' /\ LeftBehind'
<1>1. IInv /\ Once /\ LeftBehind
  BY DEF FactoryInv
<1>2. IInv'
  BY <1>1 DEF IInv, TypeOK, Threads, Free, Held, Starting, Writing, Reading,
     Resolved, NoWrite, OwnWrite, Drained, InFlight, ReplyCorrelation, c,
     callVars, connVars, netVars
<1> QED
  BY <1>1, <1>2 DEF Once, LeftBehind, NoSender, c, callVars, connVars, netVars

LEMMA AppStep ==
  ASSUME FactoryInv, \/ CreateSession \/ Exit \/ make_sure_it_runs
                     \/ Thrown \/ Joined \/ Refused \/ RunStarts
  PROVE  FactoryInv'
<1>1. /\ UNCHANGED <<callVars, connVars, netVars, life, io, aborted, idle_work,
                     write_queue, write_queue_active, ops>>
      /\ running' \in {running, TRUE}
  BY DEF CreateSession, Exit, make_sure_it_runs, Thrown, Joined, Refused,
     RunStarts, lifeVars, vars, sockVars, runVars
<1>2. running' \in BOOLEAN /\ idle_work' \in BOOLEAN
  BY <1>1 DEF FactoryInv, IInv, TypeOK
<1>3. IInv' /\ Once' /\ LeftBehind'
  BY <1>1, <1>2, SameConnection
<1>4. (Fresh' => Fresh) /\ fresh' = fresh
  BY <1>1 DEF Fresh, CreateSession, Exit, make_sure_it_runs, Thrown,
     Joined, Refused, RunStarts
<1>5. Idling /\ NoSender => Idling' /\ NoSender'
  BY <1>1 DEF Idling, NoSender, callVars
<1>6. (Connecting' => life' = "gone") /\ (connecting' => app' \in {"begun", "waiting"})
  BY <1>1 DEF FactoryInv, Connecting, CreateSession, Exit, make_sure_it_runs,
     Thrown, Joined, Refused, RunStarts
<1> QED
  BY <1>1, <1>3, <1>4, <1>5, <1>6 DEF FactoryInv

LEMMA ConnectedStep ==
  ASSUME FactoryInv, Connected
  PROVE  FactoryInv'
<1>1. /\ UNCHANGED <<callVars, connVars, netVars, life, io, aborted, running,
                     write_queue, write_queue_active, ops>>
      /\ app' = "connected" /\ idle_work' = TRUE /\ running /\ io = "idle"
      /\ connecting' = FALSE /\ life = "gone" /\ fresh' = fresh
  BY DEF Connected, Ready, FactoryInv, Connecting, runVars
<1>2. running' \in BOOLEAN /\ idle_work' \in BOOLEAN
  BY <1>1 DEF FactoryInv, IInv, TypeOK
<1>3. IInv' /\ Once' /\ LeftBehind'
  BY <1>1, <1>2, SameConnection
<1>4. Idling' /\ NoSender'
  BY <1>1 DEF Idling, NoSender, FactoryInv, LeftBehind, callVars
<1> QED
  BY <1>1, <1>3, <1>4 DEF FactoryInv

LEMMA ConstructedStep ==
  ASSUME FactoryInv, Constructed
  PROVE  FactoryInv'
<1>1. /\ life = "gone" /\ Idling /\ TypeOK /\ Threads /\ Once /\ LeftBehind
      /\ ReplyCorrelation
  BY DEF Constructed, FactoryInv, Connecting, Fresh, IInv
<1>2. <<>> \in Seq(Send)
  OBVIOUS
<1>3. TypeOK'
  BY <1>1, <1>2 DEF Constructed, TypeOK, callVars, runVars
<1>4. Free'
  BY <1>1 DEF Constructed, Idling, Free, NoWrite, Drained, runVars
<1>5. Threads' /\ ReplyCorrelation'
  BY <1>1 DEF Constructed, Threads, ReplyCorrelation, LeftBehind, NoSender, callVars
<1>6. Once'
  BY <1>1 DEF Constructed, Once, callVars
<1>7. Idling' /\ NoSender'
  BY <1>1 DEF Constructed, Idling, NoSender, LeftBehind, runVars, callVars
<1> QED
  BY <1>3, <1>4, <1>5, <1>6, <1>7 DEF FactoryInv, IInv, Constructed, LeftBehind,
     Connecting

LEMMA FactoryStep == FactoryInv /\ [FactoryNext]_factoryVars => FactoryInv'
<1> SUFFICES ASSUME FactoryInv, [FactoryNext]_factoryVars PROVE FactoryInv'
  OBVIOUS
<1>1. CASE UNCHANGED factoryVars
  <2>1. UNCHANGED vars /\ UNCHANGED <<life, app, connecting, fresh>>
    BY <1>1 DEF factoryVars, lifeVars
  <2>2. IInv' /\ Once'
    BY <2>1, NextIInv, OnceStep DEF FactoryInv
  <2> QED
    BY <2>1, <2>2 DEF FactoryInv, LeftBehind, Connecting, Fresh, Idling, NoSender, vars,
       callVars, sockVars, runVars
<1> QED
  BY <1>1, LifeStep, AppStep, ConnectedStep, ConstructedStep
  DEF FactoryNext, AppNext, FactoryIo

LEMMA FactoryInvariant == FactorySpec => []FactoryInv
BY FactoryStart, FactoryStep, PTL DEF FactorySpec

-----------------------------------------------------------------------------
(* What holds of every connection a process makes *)

\* The types are kept from the first connection of a process to its exit.
THEOREM FactoryTypes == FactorySpec => []TypeOK
BY FactoryInvariant, PTL DEF FactoryInv, IInv

\* Whichever connection of the process a send was made on, a value in its
\* future is the answer to it: what an earlier connection had under way never
\* reaches the promise of a later one.
THEOREM FactoryCorrelates == FactorySpec => []ReplyCorrelation
BY FactoryInvariant, PTL DEF FactoryInv, IInv

\* No socket is asked for two things at once, also where the socket before it
\* was destroyed with a handler still under way.
THEOREM FactoryAlternates == FactorySpec => []OneOperationAtATime
<1>1. FactoryInv => OneOperationAtATime
  BY Operations DEF FactoryInv
<1> QED
  BY <1>1, FactoryInvariant, PTL

\* No promise is set twice and no mutex unlocked that is not locked, also by the
\* handler that outlives its connection.
THEOREM FactoryPromises == FactorySpec => []ResolvedOnceUnlockedOnce
<1>1. FactoryInv => ResolvedOnceUnlockedOnce
  BY Promises DEF FactoryInv
<1> QED
  BY <1>1, FactoryInvariant, PTL

\* However connections follow each other, and whatever was sent on those before,
\* io_service::run has not returned when one is made, and does not before the
\* first send on that one (create_session, DefaultConnection's constructor).
THEOREM FreshIsRun == FactorySpec => []FreshConnectionIsRun
<1>1. FactoryInv => FreshConnectionIsRun
  BY DEF FactoryInv, Fresh, Idling, FreshConnectionIsRun
<1> QED
  BY <1>1, FactoryInvariant, PTL

LEMMA LifeImplements ==
  ASSUME FactoryInv, LifeNext
  PROVE  [Promised!Next]_Promised!vars
<1>1. CASE Next
  BY <1>1, NextImplements DEF FactoryInv
<1>2. CASE DestroySocket \/ JoinThreads \/ KeepAlive_Dying \/ DanglingCall
  <2>1. UNCHANGED <<callVars, mutex, current_promise, executed>>
    BY <1>2 DEF DestroySocket, JoinThreads, KeepAlive_Dying, DanglingCall, vars,
       connVars, netVars
  <2> QED
    BY <2>1, UnseenCalls
<1> QED
  BY <1>1, <1>2 DEF LifeNext

\* All the connections of a process together keep the promises of RequestReply
\* to all its sends: a new connection takes up where the last one has let go.
THEOREM FactoryImplements == FactorySpec => KeepsRequestReply
<1>1. FactoryInit => Promised!Init
  BY PromisedInit DEF FactoryInit
<1>2. FactoryInv /\ [FactoryNext]_factoryVars => [Promised!Next]_Promised!vars
  <2> SUFFICES ASSUME FactoryInv, [FactoryNext]_factoryVars
               PROVE  [Promised!Next]_Promised!vars
    OBVIOUS
  <2>1. CASE Constructed
    <3>1. ~mutex
      BY <2>1 DEF Constructed, FactoryInv, Fresh, Idling, LeftBehind, Connecting,
         IInv, Free, Held, Starting, Writing, Reading, Resolved
    <3>2. UNCHANGED <<callVars, Serving, executed>>
      BY <2>1, <3>1 DEF Constructed, Serving
    <3>3. Unseen
      BY <3>2, ResultsStay DEF Unseen, Taken, callVars
    <3> QED
      BY <3>3, UnseenStutters
  <2>2. CASE \/ UNCHANGED lifeVars
             \/ CreateSession \/ Exit \/ make_sure_it_runs \/ Thrown \/ Joined
             \/ Refused \/ RunStarts \/ Connected
    <3>1. UNCHANGED <<callVars, mutex, current_promise, executed>>
      BY <2>2 DEF CreateSession, Exit, make_sure_it_runs, Thrown, Joined, Refused,
         RunStarts, Connected, lifeVars, vars, connVars, netVars
    <3> QED
      BY <3>1, UnseenCalls
  <2> QED
    BY <2>1, <2>2, LifeImplements DEF FactoryNext, AppNext, FactoryIo, factoryVars
<1> QED
  BY <1>1, <1>2, FactoryInvariant, PTL
  DEF FactorySpec, KeepsRequestReply, Promised!Spec
=============================================================================
