---------------------------- MODULE DefaultSocket ----------------------------
(***************************************************************************)
(* DefaultSocket as its interface offers it: async_write may be called     *)
(* from any thread, and completions come from the one that runs the        *)
(* io_service.  A mutex guards the write queue and an atomic flag says     *)
(* that a write is under way, but nothing guards the two together, so      *)
(* every access to either is a step of its own.                            *)
(*                                                                         *)
(* The library's own users are stricter: DefaultConnection has a mutex     *)
(* around the socket, and the daemon uses it from the io_service thread    *)
(* alone.  Both may destroy it while a handler of it runs, though: the     *)
(* daemon does so in what it is called for by that handler, and the owner  *)
(* of a DefaultConnection as soon as his future is set.  Nothing in the    *)
(* destructor waits.                                                       *)
(*                                                                         *)
(* Where its behaviour is undefined the model ends.  What keeps the        *)
(* io_service running is left to DefaultConnection.                        *)
(***************************************************************************)
EXTENDS Naturals, Sequences

CONSTANTS
  Write,    \* the calls of async_write, each with its message and listener
  Io,       \* the io_service thread
  None      \* no message

ASSUME ThreadAssumption == Io \notin Write /\ None \notin Write

Thread == Write \cup {Io}

VARIABLES
  pc,                  \* where each thread stands
  queued, popped,      \* all messages ever queued, and how many were popped
  write_queue_active,
  writing, result,     \* the asio write under way, and what became of it
  handling, error,     \* parameters of handle_write
  told,                \* what each message's listener has been told
  lost,                \* the state listeners were told of a lost connection
  sent, net_up,        \* what the kernel has taken over, in order
  life,                \* "dying" within the destructor, "dead" after it
  caught,              \* history: threads the destructor finds in a call, or
                       \* (Io) with a handler to come
  touched,             \* history: threads that have touched the freed object
  aborted              \* they have, or the front of an empty deque was taken

queueVars == <<queued, popped, write_queue_active>>
asioVars == <<writing, result, sent, net_up>>
handlerVars == <<handling, error, told, lost>>
lifeVars == <<life, caught, touched>>
vars == <<pc, queueVars, asioVars, handlerVars, lifeVars, aborted>>

\* The deque is what has been queued and not popped.
is_write_queue_empty == popped = Len(queued)

\* Mutant: the newest message goes first.
front_of_write_queue_Back == queued[Len(queued)]

front_of_write_queue == queued[popped + 1]

Init ==
  /\ pc = [t \in Thread |-> "idle"]
  /\ queued = <<>>
  /\ popped = 0
  /\ write_queue_active = FALSE
  /\ writing = None
  /\ result = "none"
  /\ handling = None
  /\ error = FALSE
  /\ told = [w \in Write |-> "nothing"]
  /\ lost = FALSE
  /\ sent = <<>>
  /\ net_up = TRUE
  /\ life = "alive"
  /\ caught = {}
  /\ touched = {}
  /\ aborted = FALSE

\* A step within a call, on an object that is still there
Goes(t, from, to) ==
  /\ life # "dead"
  /\ pc[t] = from
  /\ pc' = [pc EXCEPT ![t] = to]

InCall(t) == pc[t] \notin {"idle", "done"}

\* Where a thread is that has left write_front
Left(t) == IF t = Io THEN "idle" ELSE "reset"

-----------------------------------------------------------------------------
(* async_write *)

\* Mutant: a call that comes while the destructor runs is served.
async_write_AnyLife(w) ==
  /\ Goes(w, "idle", "push")
  /\ UNCHANGED <<queueVars, asioVars, handlerVars, lifeVars, aborted>>

async_write(w) ==
  \/ /\ life = "alive"
     /\ Goes(w, "idle", "push")
     /\ UNCHANGED <<queueVars, asioVars, handlerVars, lifeVars, aborted>>
  \/ /\ life = "dying"
     /\ Goes(w, "idle", "done")
     /\ told' = [told EXCEPT ![w] = "error"]
     /\ UNCHANGED <<queueVars, asioVars, handling, error, lost, lifeVars, aborted>>

add_to_write_queue(w) ==
  /\ Goes(w, "push", "exchange")
  /\ queued' = Append(queued, w)
  /\ UNCHANGED <<popped, write_queue_active, asioVars, handlerVars, lifeVars, aborted>>

\* Mutant: the flag is read, and set only with the start of the write.
exchange_active_NotAtomic(t) ==
  /\ Goes(t, "exchange", IF write_queue_active THEN Left(t) ELSE "front")
  /\ UNCHANGED <<queueVars, asioVars, handlerVars, lifeVars, aborted>>

\* write_front, of a writer or of the handler: who finds a write under way
\* leaves the rest to the handler of that.
exchange_active(t) ==
  /\ Goes(t, "exchange", IF write_queue_active THEN Left(t) ELSE "front")
  /\ write_queue_active' = TRUE
  /\ UNCHANGED <<queued, popped, asioVars, handlerVars, lifeVars, aborted>>

\* The rest of write_front.  What front() of an empty deque refers to is
\* undefined; a handler that came back from it would fail an assertion.
write_front(t) ==
  /\ Goes(t, "front", Left(t))
  /\ IF is_write_queue_empty
       THEN /\ aborted' = TRUE
            /\ UNCHANGED <<writing, result>>
       ELSE /\ writing' = front_of_write_queue
            /\ result' = "none"
            /\ UNCHANGED aborted
  /\ UNCHANGED <<queueVars, sent, net_up, handlerVars, lifeVars>>

\* async_write's last access to the socket: idle_work.reset()
reset_idle_work(w) ==
  /\ Goes(w, "reset", "done")
  /\ UNCHANGED <<queueVars, asioVars, handlerVars, lifeVars, aborted>>

-----------------------------------------------------------------------------
(* asio and the network *)

\* A write succeeds when the kernel has the message, and fails when the
\* connection is lost.
Transmit ==
  /\ writing # None /\ result = "none"
  /\ IF net_up THEN result' = "success" /\ sent' = Append(sent, writing)
               ELSE result' = "error" /\ UNCHANGED sent
  /\ UNCHANGED <<pc, queueVars, writing, net_up, handlerVars, lifeVars, aborted>>

NetworkBreaks ==
  /\ net_up
  /\ net_up' = FALSE
  /\ UNCHANGED <<pc, queueVars, writing, result, sent, handlerVars, lifeVars, aborted>>

-----------------------------------------------------------------------------
(* handle_write *)

pop_write_queue ==
  /\ result # "none"
  /\ life = "alive"
  /\ Goes(Io, "idle", "clear")
  /\ popped' = popped + 1
  /\ handling' = writing
  /\ error' = (result = "error")
  /\ writing' = None
  /\ result' = "none"
  /\ UNCHANGED <<queued, write_queue_active, sent, net_up, told, lost, lifeVars, aborted>>

clear_active ==
  /\ Goes(Io, "clear", "tell")
  /\ write_queue_active' = FALSE
  /\ UNCHANGED <<queued, popped, asioVars, handlerVars, lifeVars, aborted>>

\* Mutant: the handler ends here whether there is more to write or not.
tell_listener_Ends ==
  /\ Goes(Io, "tell", IF error THEN "notify" ELSE "idle")
  /\ told' = [told EXCEPT ![handling] = IF error THEN "error" ELSE "success"]
  /\ UNCHANGED <<queueVars, asioVars, handling, error, lost, lifeVars, aborted>>

\* Mutant: the listener hears of a failed write as of any other.
tell_listener_SwallowsError ==
  /\ Goes(Io, "tell", IF error THEN "notify" ELSE "check")
  /\ told' = [told EXCEPT ![handling] = "success"]
  /\ UNCHANGED <<queueVars, asioVars, handling, error, lost, lifeVars, aborted>>

\* Mutant: the state listeners do not hear of a failed write.
tell_listener_NotOthers ==
  /\ Goes(Io, "tell", IF error THEN "idle" ELSE "check")
  /\ told' = [told EXCEPT ![handling] = IF error THEN "error" ELSE "success"]
  /\ UNCHANGED <<queueVars, asioVars, handling, error, lost, lifeVars, aborted>>

tell_listener ==
  /\ Goes(Io, "tell", IF error THEN "notify" ELSE "check")
  /\ told' = [told EXCEPT ![handling] = IF error THEN "error" ELSE "success"]
  /\ UNCHANGED <<queueVars, asioVars, handling, error, lost, lifeVars, aborted>>

\* After an error the handler tells the state listeners, and returns: what is
\* still queued waits for another call of async_write.
notify_state_listeners_of_connection_lost ==
  /\ Goes(Io, "notify", "idle")
  /\ lost' = TRUE
  /\ UNCHANGED <<queueVars, asioVars, handling, error, told, lifeVars, aborted>>

\* Mutant: the handler goes on without looking.
check_queue_NoLook ==
  /\ Goes(Io, "check", "exchange")
  /\ UNCHANGED <<queueVars, asioVars, handlerVars, lifeVars, aborted>>

check_queue ==
  /\ Goes(Io, "check", IF is_write_queue_empty THEN "idle" ELSE "exchange")
  /\ UNCHANGED <<queueVars, asioVars, handlerVars, lifeVars, aborted>>

\* The handler of an operation the destructor cancelled.  When it finds that
\* were_dying is set, the destructor has as a rule returned, and what it reads
\* is what freed memory happens to hold: see touch_freed.
handle_write_Dying ==
  /\ result # "none"
  /\ life # "alive"
  /\ pc[Io] = "idle"
  /\ writing' = None
  /\ result' = "none"
  /\ UNCHANGED <<pc, queueVars, sent, net_up, handlerVars, lifeVars, aborted>>

-----------------------------------------------------------------------------
(* The destructor.  Nothing holds it up: it may be called by a listener that *)
(* handle_write has called, as the daemon's are, or by any thread while      *)
(* others are in a call or a write is under way.                             *)

BeginDestruction ==
  /\ life = "alive"
  /\ life' = "dying"
  /\ caught' = {t \in Thread : InCall(t)}
                 \cup (IF writing # None THEN {Io} ELSE {})
  /\ UNCHANGED <<pc, queueVars, asioVars, handlerVars, touched, aborted>>

\* shutdown, cancel and close: what is under way fails.  The memory is freed.
EndDestruction ==
  /\ life = "dying"
  /\ life' = "dead"
  /\ result' = IF writing # None /\ result = "none" THEN "error" ELSE result
  /\ net_up' = FALSE
  /\ UNCHANGED <<pc, queueVars, writing, sent, handlerVars, caught, touched, aborted>>

\* A thread goes on in a call on the freed object, or a handler begins one.
touch_freed(t) ==
  /\ life = "dead"
  /\ InCall(t) \/ (t = Io /\ result # "none")
  /\ touched' = touched \cup {t}
  /\ aborted' = TRUE
  /\ UNCHANGED <<pc, queueVars, asioVars, handlerVars, life, caught>>

-----------------------------------------------------------------------------
Writer(w) ==
  \/ add_to_write_queue(w)
  \/ exchange_active(w)
  \/ write_front(w)
  \/ reset_idle_work(w)

IoThread ==
  \/ pop_write_queue
  \/ clear_active
  \/ tell_listener
  \/ notify_state_listeners_of_connection_lost
  \/ check_queue
  \/ exchange_active(Io)
  \/ write_front(Io)
  \/ handle_write_Dying

Next ==
  /\ ~aborted
  /\ \/ \E w \in Write : async_write(w) \/ Writer(w)
     \/ IoThread
     \/ Transmit
     \/ NetworkBreaks
     \/ BeginDestruction
     \/ EndDestruction
     \/ \E t \in Thread : touch_freed(t)

\* Threads run, and the kernel takes what it is given.
Fairness ==
  /\ \A w \in Write : WF_vars(Writer(w) /\ ~aborted)
  /\ WF_vars(IoThread /\ ~aborted)
  /\ WF_vars(Transmit /\ ~aborted)

Spec == Init /\ [][Next]_vars /\ Fairness

-----------------------------------------------------------------------------
(* Properties *)

TypeOK ==
  /\ pc \in [Thread -> {"idle", "push", "exchange", "front", "reset", "done",
                        "clear", "tell", "notify", "check"}]
  /\ queued \in Seq(Write)
  /\ popped \in 0..Len(queued)
  /\ write_queue_active \in BOOLEAN
  /\ writing \in Write \cup {None}
  /\ result \in {"none", "success", "error"}
  /\ handling \in Write \cup {None}
  /\ error \in BOOLEAN
  /\ told \in [Write -> {"nothing", "success", "error"}]
  /\ lost \in BOOLEAN
  /\ sent \in Seq(Write)
  /\ net_up \in BOOLEAN
  /\ life \in {"alive", "dying", "dead"}
  /\ caught \subseteq Thread
  /\ touched \subseteq Thread
  /\ aborted \in BOOLEAN

\* asio forbids a second async_write before the first has completed: whoever
\* has won the flag is alone, until the handler clears it, and what that pops,
\* asserting that there is something, is what was written (write_front,
\* handle_write).
AtFront == {t \in Thread : pc[t] = "front"}
OneWriteAtATime ==
  /\ \A t, u \in AtFront : t = u
  /\ writing # None =>
       /\ AtFront = {} /\ pc[Io] # "clear" /\ write_queue_active
       /\ ~is_write_queue_empty /\ writing = front_of_write_queue

\* Messages reach the kernel in the order they were queued in, none twice and
\* none left out (write_queue and the handler that works it off).
WrittenInOrder ==
  /\ Len(sent) <= Len(queued)
  /\ sent = SubSeq(queued, 1, Len(sent))

\* A listener is told that its message was written only when it was, and of an
\* error only when it was not (handle_write's listener is its message's own).
ToldTheTruth ==
  \A w \in Write : told[w] # "nothing" =>
    (told[w] = "success" <=> \E i \in DOMAIN sent : sent[i] = w)

\* Until the state listeners hear that the connection is lost, no message waits
\* without anyone to write it: a writer that finds the flag set can rely on the
\* handler, which looks at the queue after it has cleared the flag.
NothingStranded ==
  ~is_write_queue_empty /\ ~lost /\ life = "alive" =>
    \/ write_queue_active
    \/ \E t \in Thread : pc[t] = "exchange"
    \/ pc[Io] \in {"tell", "notify", "check"}

\* front() meets an empty deque in one case only: the message of a writer that
\* was slow to try the flag has meanwhile been written, and popped, by others.
\* The handler itself always finds what it looked for.
OnlyTheOvertakenMissTheFront ==
  \A t \in AtFront : is_write_queue_empty =>
    t # Io /\ \E i \in 1..popped : queued[i] = t

\* The destructor does not wait, and needs not where it finds no call and no
\* write under way: a call that comes while it runs is over before it ends
\* (async_write's test of were_dying).  A thread other than the io_service's only
\* ever touches the freed object in a call the destructor has found it in.
OnlyTheCaughtTouchFreed ==
  /\ touched \subseteq caught \cup {Io}
  /\ touched # {} => caught # {}

\* Every listener hears of its message, or the state listeners of the loss of
\* the connection: whom handle_write leaves behind after an error is not the
\* only one to know (handle_write, which returns there, and looks at the queue
\* otherwise).
EveryListenerTold ==
  \A w \in Write :
    pc[w] # "idle" ~> (told[w] # "nothing" \/ lost \/ life # "alive" \/ aborted)
=============================================================================
