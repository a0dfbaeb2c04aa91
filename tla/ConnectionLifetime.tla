------------------------- MODULE ConnectionLifetime -------------------------
(***************************************************************************)
(* The end of a connection.  Its owner (LocalClient, and through it the    *)
(* application) has waited for the futures of all its sends and destroys   *)
(* it: first the socket goes, then the sender threads are joined, then the *)
(* rest goes.  Nobody waits for the io_service thread, which may still be  *)
(* in the handler that resolved the last of the futures.                   *)
(***************************************************************************)
EXTENDS DefaultConnection

VARIABLE life   \* "alive"; "socket_gone"; "gone": all members are destroyed

lifeVars == <<vars, life>>

LifeInit == Init /\ life = "alive"

\* Mutant: the owner does not wait for what it has sent.
DestroySocket_NoWait ==
  /\ ~aborted
  /\ life = "alive"
  /\ life' = "socket_gone"
  /\ ops' = {}
  /\ idle_work' = FALSE
  /\ UNCHANGED <<callVars, connVars, write_queue, write_queue_active, runVars, netVars>>

\* socket.reset(): operations are cancelled, and their handlers find the socket
\* dying and return at once; the idle work goes with the socket.
DestroySocket ==
  /\ ~aborted
  /\ life = "alive"
  /\ \A r \in Send : future[r] # "pending"
  /\ life' = "socket_gone"
  /\ ops' = {}
  /\ idle_work' = FALSE
  /\ UNCHANGED <<callVars, connVars, write_queue, write_queue_active, runVars, netVars>>

JoinThreads ==
  /\ ~aborted
  /\ life = "socket_gone"
  /\ \A r \in Send : pc[r] \in {"unborn", "done"}
  /\ life' = "gone"
  /\ UNCHANGED vars

\* Threads that use the connection, and within it the socket
InSocket == {r \in Send : pc[r] \in {"push", "front", "reset"}}
              \cup (IF io \in {"reading", "resolved"} THEN {Nobody} ELSE {})
InConnection == InSocket \cup {r \in Send : pc[r] = "lock"}
                  \cup (IF io = "unlock" THEN {Nobody} ELSE {})

\* A call on an object that is gone may also do no harm; its steps are those
\* of DefaultConnection.
DanglingCall ==
  /\ ~aborted
  /\ \/ life # "alive" /\ InSocket # {}
     \/ life = "gone" /\ InConnection # {}
  /\ aborted' = TRUE
  /\ UNCHANGED <<callVars, connVars, sockVars, io, running, netVars, life>>

\* keep_alive, "called while we're dying... Returning."
KeepAlive_Dying ==
  /\ ~aborted
  /\ life # "alive"
  /\ io = "resolved"
  /\ io' = "unlock"
  /\ UNCHANGED <<callVars, connVars, sockVars, running, aborted, netVars, life>>

LifeNext ==
  \/ /\ Next
     \* no more sends, and no more work for the socket's sake
     /\ life # "alive" => future' = future /\ ~idle_work'
     /\ UNCHANGED life
  \/ DestroySocket
  \/ JoinThreads
  \/ KeepAlive_Dying
  \/ DanglingCall

LifeFairness == Fairness /\ WF_lifeVars(JoinThreads \/ KeepAlive_Dying)

LifeSpec == LifeInit /\ [][LifeNext]_lifeVars /\ LifeFairness

-----------------------------------------------------------------------------
(* Properties *)

\* The destructor returns: no sender it joins waits for a mutex that only a
\* handler of the destroyed socket would unlock.
DestructorReturns == life = "socket_gone" ~> (life = "gone" \/ aborted)

\* DefaultSocket::keep_alive foresees being "called while we're dying...
\* Returning.", and bytes_received asks whether the socket is still there: a
\* handler under way when the owner lets go finds all it uses.
CallsFindTheirObjects ==
  /\ life # "alive" => InSocket = {}
  /\ life = "gone" => InConnection = {}
=============================================================================
