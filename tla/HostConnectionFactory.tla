------------------------ MODULE HostConnectionFactory ------------------------
(***************************************************************************)
(* A client process from its first connection to its exit.  The            *)
(* connections it makes, one after the other, share one io_service and one *)
(* thread to run it, the IOServiceSingleton; create_session begins an      *)
(* async_connect, makes sure that the io_service runs, and waits.  Each    *)
(* connection lives and ends as in ConnectionLifetime; a send belongs to   *)
(* the connection it was made on.                                          *)
(***************************************************************************)
EXTENDS ConnectionLifetime

CONSTANT MaxConnects   \* bound: calls of create_session

ASSUME ConnectsAssumption == MaxConnects \in Nat

VARIABLES
  app,          \* where the application stands in create_session, or in exit
  connecting,   \* an async_connect is under way
  thread,       \* IOServiceSingleton's thread: none; starting, not yet in run;
                \* started, which is all that joinable() tells of it
  connects,     \* calls of create_session so far
  fresh         \* history: nothing has been sent on the connection yet

factoryVars == <<lifeVars, app, connecting, thread, connects, fresh>>

\* The calls of send to come
Unborn == {r \in Send : pc[r] = "unborn"}

\* A process that has no connection yet
FactoryInit ==
  /\ Quiet
  /\ idle_work = FALSE
  /\ running = FALSE
  /\ life = "gone"
  /\ app = "out"
  /\ connecting = FALSE
  /\ thread = "none"
  /\ connects = 0
  /\ fresh = FALSE

-----------------------------------------------------------------------------
(* create_session *)

\* resolve, a socket, a promise and its future, async_connect
CreateSession ==
  /\ life = "gone"
  /\ app = "out"
  /\ connects < MaxConnects
  /\ app' = "begun"
  /\ connecting' = TRUE
  /\ connects' = connects + 1
  /\ UNCHANGED <<lifeVars, thread, fresh>>

\* Mutant: the test of joinable() lacks its negation.
make_sure_it_runs_IfItDoes ==
  /\ app = "begun"
  /\ app' = "waiting"
  /\ thread' = IF thread # "none" THEN "starting" ELSE thread
  /\ UNCHANGED <<lifeVars, connecting, connects, fresh>>

\* IOServiceSingleton::make_sure_it_runs; create_session then waits.
make_sure_it_runs ==
  /\ app = "begun"
  /\ app' = "waiting"
  /\ thread' = IF thread = "none" THEN "starting" ELSE thread
  /\ UNCHANGED <<lifeVars, connecting, connects, fresh>>

\* io_service::run, in the new thread
RunStarts ==
  /\ thread = "starting"
  /\ thread' = "started"
  /\ running' = TRUE
  /\ UNCHANGED <<callVars, connVars, sockVars, io, aborted, netVars, life,
                 app, connecting, connects, fresh>>

\* Mutant: the new socket is not kept alive.
Connected_NotKept ==
  /\ Ready
  /\ connecting
  /\ connecting' = FALSE
  /\ app' = "connected"
  /\ UNCHANGED <<lifeVars, thread, connects, fresh>>

\* async_connect's handler: keep_alive on the new socket, and set_value
Connected ==
  /\ Ready
  /\ connecting
  /\ connecting' = FALSE
  /\ idle_work' = TRUE
  /\ app' = "connected"
  /\ UNCHANGED <<callVars, connVars, write_queue, write_queue_active, ops,
                 runVars, netVars, life, thread, connects, fresh>>

\* ... or set_exception
Refused ==
  /\ Ready
  /\ connecting
  /\ connecting' = FALSE
  /\ app' = "refused"
  /\ UNCHANGED <<lifeVars, thread, connects, fresh>>

\* future_connection.get() returns.  DefaultConnection's constructor calls
\* keep_alive once more; the network is that of a new TCP connection.
Constructed ==
  /\ app = "connected"
  /\ app' = "out"
  /\ life' = "alive"
  /\ idle_work' = TRUE
  /\ mutex' = FALSE
  /\ current_promise' = Nobody
  /\ current_receivable' = FALSE
  /\ write_queue' = <<>>
  /\ write_queue_active' = FALSE
  /\ net_up' = TRUE
  /\ wire' = <<>>
  /\ replies' = <<>>
  /\ ops' = {}
  /\ fresh' = TRUE
  /\ UNCHANGED <<callVars, runVars, executed, connecting, thread, connects>>

\* future_connection.get() throws UnableToConnectError.
Thrown ==
  /\ app = "refused"
  /\ app' = "out"
  /\ UNCHANGED <<lifeVars, connecting, thread, connects, fresh>>

-----------------------------------------------------------------------------
(* The end of the process: static objects are destroyed, IOServiceSingleton  *)
(* among them, with whatever connections are still there left as they are.   *)

Exit ==
  /\ app = "out"
  /\ life # "socket_gone"
  /\ \A r \in Send : future[r] # "pending"
  /\ app' = "exiting"
  /\ UNCHANGED <<lifeVars, connecting, thread, connects, fresh>>

\* Mutant: the thread is joined whether it was ever started or not.
Joined_Always ==
  /\ app = "exiting"
  /\ thread = "started" /\ ~running
  /\ app' = "ended"
  /\ UNCHANGED <<lifeVars, connecting, thread, connects, fresh>>

\* ~IOServiceSingleton
Joined ==
  /\ app = "exiting"
  /\ thread = "none" \/ (thread = "started" /\ ~running)
  /\ app' = "ended"
  /\ UNCHANGED <<lifeVars, connecting, thread, connects, fresh>>

-----------------------------------------------------------------------------
AppNext == ~aborted /\ (make_sure_it_runs \/ Constructed \/ Thrown \/ Joined)

FactoryIo == RunStarts \/ Connected \/ Refused

FactoryNext ==
  \/ /\ LifeNext
     /\ running' # running => ~connecting       \* a connect is work, too
     /\ app = "exiting" => life' = life /\ future' = future
     /\ fresh' = (fresh /\ Unborn' = Unborn)
     /\ UNCHANGED <<app, connecting, thread, connects>>
  \/ ~aborted /\ (CreateSession \/ Exit)
  \/ AppNext
  \/ FactoryIo

FactoryFairness ==
  /\ LifeFairness
  /\ WF_factoryVars(AppNext)
  /\ WF_factoryVars(FactoryIo)

FactorySpec == FactoryInit /\ [][FactoryNext]_factoryVars /\ FactoryFairness

-----------------------------------------------------------------------------
(* Properties *)

\* The io_service has run out of work, or its thread is at an end.
RunIsOver == thread = "started" /\ ~running

\* create_session returns, with a connection or an error, unless run had
\* returned before it began (the order of async_connect, make_sure_it_runs and
\* the wait; joinable() does not tell a thread that runs from one that ran).
ConnectReturns ==
  app = "begun" /\ ~RunIsOver ~> (app # "begun" /\ app # "waiting") \/ aborted

\* From the moment a process is connected, whatever it has sent on connections
\* before, until the first send on this one at the earliest, run does not return:
\* there is no gap between the connect, the keep_alive of its handler and that of
\* the constructor.
FreshConnectionIsRun ==
  app = "connected" \/ (life = "alive" /\ fresh) => running

\* A process that has destroyed its connections can end: nothing they leave
\* behind keeps the thread that ~IOServiceSingleton joins.  (With a Host of
\* static storage, destroyed only afterwards, it waits for ever.)
ExitReturns ==
  app = "exiting" /\ life = "gone" ~> app = "ended" \/ aborted
=============================================================================
