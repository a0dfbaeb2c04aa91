------------------------ MODULE DefaultSocketProofs -------------------------
(***************************************************************************)
(* What DefaultSocket promises its writers, for any set of them.           *)
(*                                                                         *)
(* The argument: the flag has one owner at a time (a thread at the front   *)
(* of the queue, the write under way, or its handler before it clears the  *)
(* flag), so that only the owner moves the queue's front, and what has     *)
(* been sent is what has been popped until the connection breaks.          *)
(***************************************************************************)
EXTENDS DefaultSocket, TLAPS

IsQueued(w) == \E i \in 1..Len(queued) : queued[i] = w
IsSent(w) == \E i \in 1..Len(sent) : sent[i] = w

Types ==
  /\ TypeOK
  /\ pc[Io] \in {"idle", "clear", "tell", "notify", "check", "exchange", "front"}
  /\ \A w \in Write :
       pc[w] \in {"idle", "push", "exchange", "front", "reset", "done"}

\* The flag's owner
OneOwner ==
  /\ \A t, u \in AtFront : t = u
  /\ writing # None => AtFront = {} /\ pc[Io] # "clear" /\ write_queue_active
  /\ AtFront # {} => write_queue_active
  /\ pc[Io] = "clear" => AtFront = {} /\ write_queue_active
  /\ writing = None => result = "none"

\* Each message is queued once, by the writer that has got that far.
Queue ==
  /\ \A i, j \in 1..Len(queued) : queued[i] = queued[j] => i = j
  /\ \A w \in Write :
       /\ pc[w] \in {"idle", "push"} => ~IsQueued(w)
       /\ pc[w] \in {"exchange", "front"} => IsQueued(w)
  /\ pc[Io] \in {"exchange", "front"} => popped < Len(queued)

\* The flag is clear, or it has its owner.  Without one it stays set for good:
\* the handler of a cancelled write leaves it so.
Owned ==
  ~write_queue_active \/ AtFront # {} \/ writing # None \/ pc[Io] = "clear"

\* What is sent is a beginning of the queue, and what is popped until the
\* connection breaks.
SentIsPopped ==
  /\ Len(sent) <= Len(queued)
  /\ \A i \in 1..Len(sent) : sent[i] = queued[i]
  /\ writing # None => popped < Len(queued) /\ writing = queued[popped + 1]
  /\ result = "success" => Len(sent) = popped + 1
  /\ result = "error" => ~net_up /\ Len(sent) <= popped
  /\ net_up /\ result = "none" /\ Owned => Len(sent) = popped
  /\ result = "none" /\ Owned => Len(sent) <= popped

\* The handler tells the listener of the message it has popped.
HandlerKnows ==
  pc[Io] \in {"clear", "tell"} =>
    /\ popped > 0
    /\ handling = queued[popped]
    /\ error => ~net_up /\ Len(sent) < popped
    /\ ~error => Len(sent) >= popped

Told ==
  \A w \in Write :
    /\ told[w] = "success" => IsSent(w)
    /\ told[w] = "error" =>
         /\ ~IsSent(w)
         /\ ~net_up \/ (~IsQueued(w) /\ pc[w] = "done")

\* Whom the destructor may hurt: no writer gets into a call once it has begun.
Freed ==
  /\ life # "dead" => touched = {}
  /\ life # "alive" =>
       /\ \A w \in Write : InCall(w) => w \in caught
       /\ caught = {} => ~InCall(Io) /\ writing = None
  /\ OnlyTheCaughtTouchFreed

IInv ==
  /\ Types
  /\ OneOwner
  /\ Queue
  /\ SentIsPopped
  /\ HandlerKnows
  /\ Told
  /\ NothingStranded
  /\ Freed

-----------------------------------------------------------------------------
LEMMA IInvInit == Init => IInv
<1> SUFFICES ASSUME Init PROVE IInv
  OBVIOUS
<1>1. /\ Len(queued) = 0 /\ Len(sent) = 0 /\ queued \in Seq(Write)
      /\ sent \in Seq(Write)
  BY DEF Init
<1>2. Types
  <2>1. pc = [t \in Thread |-> "idle"] /\ popped \in 0..Len(queued)
    BY <1>1 DEF Init
  <2>2. told \in [Write -> {"nothing", "success", "error"}]
    BY DEF Init
  <2> QED
    BY <1>1, <2>1, <2>2 DEF Init, Types, TypeOK, Thread
<1>3. OneOwner
  BY DEF Init, OneOwner, AtFront, Thread
<1>4. Queue /\ SentIsPopped /\ HandlerKnows /\ Told
  BY <1>1, ThreadAssumption DEF Init, Queue, IsQueued, SentIsPopped,
     HandlerKnows, Told, IsSent, Thread
<1>5. NothingStranded
  BY <1>1 DEF Init, NothingStranded, is_write_queue_empty
<1>6. Freed
  BY DEF Init, Freed, OnlyTheCaughtTouchFreed
<1> QED
  BY <1>2, <1>3, <1>4, <1>5, <1>6 DEF IInv

\* Every action of a thread is one of these.
Action ==
  \/ \E w \in Write : async_write(w) \/ add_to_write_queue(w)
                         \/ reset_idle_work(w)
  \/ \E t \in Thread : exchange_active(t) \/ write_front(t)
  \/ pop_write_queue \/ clear_active \/ tell_listener \/ check_queue
  \/ notify_state_listeners_of_connection_lost
  \/ handle_write_Dying
  \/ Transmit \/ NetworkBreaks \/ BeginDestruction \/ EndDestruction
  \/ \E t \in Thread : touch_freed(t)

LEMMA NextIsAction == [Next]_vars => Action \/ UNCHANGED vars
BY DEF Next, Action, Writer, IoThread, Thread

LEMMA TypesStep ==
  ASSUME IInv, Action
  PROVE  Types'
<1> USE ThreadAssumption DEF Types, TypeOK, Goes, Thread, lifeVars
<1>1. ASSUME NEW w \in Write, async_write(w) PROVE Types'
  BY <1>1 DEF IInv, async_write, queueVars, asioVars, handlerVars
<1>2. ASSUME NEW w \in Write, add_to_write_queue(w) PROVE Types'
  BY <1>2 DEF IInv, add_to_write_queue, asioVars, handlerVars
<1>3. ASSUME NEW t \in Thread, exchange_active(t) PROVE Types'
  BY <1>3 DEF IInv, exchange_active, Left, asioVars, handlerVars
<1>4. ASSUME NEW t \in Thread, write_front(t) PROVE Types'
  <2>1. writing' \in Write \cup {None}
    BY <1>4 DEF IInv, SentIsPopped, write_front, is_write_queue_empty,
                front_of_write_queue
  <2> QED
    BY <1>4, <2>1 DEF IInv, write_front, Left, queueVars, handlerVars
<1>5. CASE pop_write_queue
  <2>1. writing # None /\ popped < Len(queued)
    BY <1>5 DEF IInv, OneOwner, SentIsPopped, pop_write_queue
  <2> QED
    BY <1>5, <2>1 DEF IInv, pop_write_queue
<1>6. CASE clear_active \/ check_queue
  <2>1. CASE clear_active
    BY <2>1 DEF IInv, clear_active, asioVars, handlerVars
  <2>2. CASE check_queue
    BY <2>2 DEF IInv, check_queue, queueVars, asioVars, handlerVars
  <2> QED
    BY <1>6, <2>1, <2>2
<1>7. CASE tell_listener
  BY <1>7 DEF IInv, tell_listener, queueVars, asioVars
<1>8. CASE handle_write_Dying \/ NetworkBreaks
  BY <1>8 DEF IInv, handle_write_Dying, NetworkBreaks, queueVars, handlerVars
<1>9. CASE Transmit
  <2>1. sent' \in Seq(Write) /\ result' \in {"none", "success", "error"}
    <3>1. writing \in Write /\ sent \in Seq(Write) /\ result = "none"
      BY <1>9 DEF IInv, Transmit
    <3>2. Append(sent, writing) \in Seq(Write)
      BY <3>1
    <3> QED
      BY <1>9, <3>1, <3>2 DEF Transmit
  <2>2. UNCHANGED <<pc, queued, popped, write_queue_active, writing, handling,
                    error, told, lost, net_up, lifeVars, aborted>>
    BY <1>9 DEF Transmit, queueVars, handlerVars
  <2> QED
    BY <2>1, <2>2 DEF IInv
<1>10. CASE BeginDestruction \/ EndDestruction
  BY <1>10 DEF IInv, BeginDestruction, EndDestruction, queueVars, asioVars,
               handlerVars
<1>11. ASSUME NEW w \in Write, reset_idle_work(w) PROVE Types'
  BY <1>11 DEF IInv, reset_idle_work, queueVars, asioVars, handlerVars
<1>12. CASE notify_state_listeners_of_connection_lost
  BY <1>12 DEF IInv, notify_state_listeners_of_connection_lost,
     queueVars, asioVars
<1>13. ASSUME NEW t \in Thread, touch_freed(t) PROVE Types'
  BY <1>13 DEF IInv, touch_freed, queueVars, asioVars, handlerVars
<1> QED
  BY <1>1, <1>2, <1>3, <1>4, <1>5, <1>6, <1>7, <1>8, <1>9, <1>10, <1>11, <1>12,
     <1>13 DEF Action

LEMMA OwnerStep ==
  ASSUME IInv, Action
  PROVE  OneOwner'
<1> USE ThreadAssumption
        DEF IInv, OneOwner, AtFront, Types, TypeOK, Goes, Thread, lifeVars
<1>1. ASSUME NEW w \in Write, async_write(w) PROVE OneOwner'
  BY <1>1 DEF async_write, queueVars, asioVars, handlerVars
<1>2. ASSUME NEW w \in Write, add_to_write_queue(w) PROVE OneOwner'
  BY <1>2 DEF add_to_write_queue, asioVars
<1>3. ASSUME NEW t \in Thread, exchange_active(t) PROVE OneOwner'
  BY <1>3 DEF exchange_active, Left, asioVars
<1>4. ASSUME NEW t \in Thread, write_front(t) PROVE OneOwner'
  BY <1>4 DEF write_front, Left, queueVars
<1>5. CASE pop_write_queue
  BY <1>5 DEF pop_write_queue
<1>6. CASE clear_active \/ check_queue \/ tell_listener
  BY <1>6 DEF clear_active, check_queue, tell_listener, queueVars, asioVars
<1>7. CASE handle_write_Dying \/ NetworkBreaks \/ Transmit
  BY <1>7 DEF handle_write_Dying, NetworkBreaks, Transmit, queueVars
<1>8. CASE BeginDestruction \/ EndDestruction
  BY <1>8 DEF BeginDestruction, EndDestruction, queueVars, asioVars
<1>9. ASSUME NEW w \in Write, reset_idle_work(w) PROVE OneOwner'
  BY <1>9 DEF reset_idle_work, queueVars, asioVars, handlerVars
<1>10. CASE notify_state_listeners_of_connection_lost
  BY <1>10 DEF notify_state_listeners_of_connection_lost,
     queueVars, asioVars
<1>11. ASSUME NEW t \in Thread, touch_freed(t) PROVE OneOwner'
  BY <1>11 DEF touch_freed, queueVars, asioVars, handlerVars
<1> QED
  BY <1>1, <1>2, <1>3, <1>4, <1>5, <1>6, <1>7, <1>8, <1>9, <1>10,
     <1>11 DEF Action

LEMMA QueueStep ==
  ASSUME IInv, Action
  PROVE  Queue'
<1> USE ThreadAssumption DEF IInv, Queue, Types, TypeOK, Goes, Thread
<1>0. UNCHANGED queued => \A v : IsQueued(v)' <=> IsQueued(v)
  BY DEF IsQueued
<1>1. ASSUME NEW w \in Write, async_write(w) PROVE Queue'
  BY <1>0, <1>1 DEF async_write, queueVars
<1>2. ASSUME NEW w \in Write, add_to_write_queue(w) PROVE Queue'
  <2>1. /\ Len(queued') = Len(queued) + 1
        /\ queued'[Len(queued) + 1] = w
        /\ \A i \in 1..Len(queued) : queued'[i] = queued[i]
    BY <1>2 DEF add_to_write_queue
  <2>2. ~IsQueued(w)
    BY <1>2 DEF add_to_write_queue
  <2>3. \A i, j \in 1..Len(queued') : queued'[i] = queued'[j] => i = j
    BY <2>1, <2>2 DEF IsQueued
  <2>4. \A v \in Write : IsQueued(v)' <=> IsQueued(v) \/ v = w
    BY <2>1 DEF IsQueued
  <2> QED
    BY <1>2, <2>1, <2>3, <2>4 DEF add_to_write_queue
<1>3. ASSUME NEW t \in Thread, exchange_active(t) PROVE Queue'
  <2>1. /\ UNCHANGED <<queued, popped>>
        /\ \A v \in Write : IsQueued(v)' <=> IsQueued(v)
    BY <1>3 DEF exchange_active, IsQueued
  <2>2. pc[t] = "exchange"
    BY <1>3 DEF exchange_active
  <2> QED
    BY <1>3, <2>1, <2>2 DEF exchange_active, Left
<1>4. ASSUME NEW t \in Thread, write_front(t) PROVE Queue'
  <2>1. /\ UNCHANGED <<queued, popped>>
        /\ \A v \in Write : IsQueued(v)' <=> IsQueued(v)
    BY <1>4 DEF write_front, IsQueued, queueVars
  <2>2. pc[t] = "front"
    BY <1>4 DEF write_front
  <2> QED
    BY <1>4, <2>1, <2>2 DEF write_front, Left
<1>5. CASE pop_write_queue
  BY <1>0, <1>5 DEF pop_write_queue
<1>6. CASE clear_active \/ tell_listener
  BY <1>0, <1>6 DEF clear_active, tell_listener, queueVars
<1>7. CASE check_queue
  BY <1>0, <1>7 DEF check_queue, is_write_queue_empty, queueVars
<1>8. CASE handle_write_Dying \/ NetworkBreaks \/ Transmit
  BY <1>0, <1>8 DEF handle_write_Dying, NetworkBreaks, Transmit, queueVars
<1>9. CASE BeginDestruction \/ EndDestruction
  BY <1>0, <1>9 DEF BeginDestruction, EndDestruction, queueVars
<1>10. ASSUME NEW w \in Write, reset_idle_work(w) PROVE Queue'
  BY <1>0, <1>10 DEF reset_idle_work, queueVars, asioVars, handlerVars
<1>11. CASE notify_state_listeners_of_connection_lost
  BY <1>0, <1>11 DEF notify_state_listeners_of_connection_lost,
     queueVars, asioVars
<1>12. ASSUME NEW t \in Thread, touch_freed(t) PROVE Queue'
  BY <1>0, <1>12 DEF touch_freed, queueVars, asioVars, handlerVars
<1> QED
  BY <1>1, <1>2, <1>3, <1>4, <1>5, <1>6, <1>7, <1>8, <1>9, <1>10, <1>11,
     <1>12 DEF Action

\* A flag that has lost its owner does not get another.
LEMMA OwnedBefore ==
  ASSUME IInv, Action, Owned'
  PROVE  Owned
<1> USE ThreadAssumption
        DEF IInv, Owned, OneOwner, AtFront, Types, TypeOK, Goes, Thread
<1>1. ASSUME NEW w \in Write,
             async_write(w) \/ add_to_write_queue(w) \/ reset_idle_work(w)
      PROVE  Owned
  BY <1>1 DEF async_write, add_to_write_queue, reset_idle_work, queueVars, asioVars
<1>2. ASSUME NEW t \in Thread, exchange_active(t) PROVE Owned
  BY <1>2 DEF exchange_active, Left, asioVars
<1>3. ASSUME NEW t \in Thread, write_front(t) PROVE Owned
  BY <1>3 DEF write_front
<1>4. CASE pop_write_queue \/ clear_active
  BY <1>4 DEF pop_write_queue, clear_active
<1>5. CASE tell_listener \/ check_queue \/ notify_state_listeners_of_connection_lost
  BY <1>5 DEF tell_listener, check_queue, queueVars, asioVars,
     notify_state_listeners_of_connection_lost
<1>6. CASE \/ handle_write_Dying \/ Transmit \/ NetworkBreaks
           \/ BeginDestruction \/ EndDestruction
  BY <1>6 DEF handle_write_Dying, Transmit, NetworkBreaks, BeginDestruction,
     EndDestruction, queueVars, asioVars
<1>7. ASSUME NEW t \in Thread, touch_freed(t) PROVE Owned
  BY <1>7 DEF touch_freed, queueVars, asioVars
<1> QED
  BY <1>1, <1>2, <1>3, <1>4, <1>5, <1>6, <1>7 DEF Action

LEMMA SentStep ==
  ASSUME IInv, Action
  PROVE  SentIsPopped'
<1> USE DEF IInv, SentIsPopped, Types, TypeOK, Goes, Thread
<1>0. Owned' => Owned
  BY OwnedBefore
<1>1. ASSUME NEW w \in Write, async_write(w) PROVE SentIsPopped'
  BY <1>0, <1>1 DEF async_write, queueVars, asioVars
<1>2. ASSUME NEW w \in Write, add_to_write_queue(w) PROVE SentIsPopped'
  <2>1. /\ Len(queued') = Len(queued) + 1
        /\ \A i \in 1..Len(queued) : queued'[i] = queued[i]
    BY <1>2 DEF add_to_write_queue
  <2> QED
    BY <1>0, <1>2, <2>1 DEF add_to_write_queue, asioVars
<1>3. ASSUME NEW t \in Thread, exchange_active(t) PROVE SentIsPopped'
  BY <1>0, <1>3 DEF exchange_active, asioVars
<1>4. ASSUME NEW t \in Thread, write_front(t) PROVE SentIsPopped'
  <2>1. Owned
    BY <1>4 DEF Owned, AtFront, write_front
  <2>2. writing = None /\ result = "none"
    BY <1>4 DEF OneOwner, AtFront, write_front
  <2>3. ~is_write_queue_empty => popped < Len(queued)
    BY DEF is_write_queue_empty
  <2> QED
    BY <1>4, <2>1, <2>2, <2>3 DEF write_front, front_of_write_queue, queueVars
<1>5. CASE pop_write_queue
  <2>1. writing # None /\ Owned
    BY <1>5 DEF pop_write_queue, OneOwner, Owned
  <2> QED
    BY <1>5, <2>1 DEF pop_write_queue, OneOwner
<1>6. CASE clear_active \/ check_queue \/ tell_listener
  BY <1>0, <1>6 DEF clear_active, check_queue, tell_listener, queueVars, asioVars
<1>7. CASE handle_write_Dying
  <2>1. ~Owned'
    BY <1>7 DEF handle_write_Dying, Owned, OneOwner, AtFront, queueVars
  <2> QED
    BY <1>7, <2>1 DEF handle_write_Dying, queueVars
<1>13. CASE NetworkBreaks
  BY <1>0, <1>13 DEF NetworkBreaks, queueVars
<1>8. CASE Transmit
  <2>1. CASE net_up
    <3>1. Len(sent) = popped /\ popped < Len(queued)
      BY <1>8, <2>1 DEF Transmit, Owned
    <3>2. /\ Len(sent') = Len(sent) + 1
          /\ sent'[Len(sent) + 1] = queued[popped + 1]
          /\ \A i \in 1..Len(sent) : sent'[i] = sent[i]
      <4>1. writing \in Write /\ writing = queued[popped + 1]
        BY <1>8 DEF Transmit
      <4>2. sent' = Append(sent, writing)
        BY <1>8, <2>1 DEF Transmit
      <4> QED
        BY <3>1, <4>1, <4>2
    <3>3. /\ UNCHANGED <<queued, popped, writing, net_up>>
          /\ result' = "success" /\ net_up
          /\ writing = queued[popped + 1]
          /\ \A i \in 1..Len(sent) : sent[i] = queued[i]
      BY <1>8, <2>1 DEF Transmit, queueVars
    <3>4. Len(sent) \in Nat /\ popped \in Nat /\ Len(queued) \in Nat
      OBVIOUS
    <3> HIDE DEF IInv, Types, TypeOK, Goes, Thread
    <3>5. Len(sent') = popped' + 1 /\ Len(sent') <= Len(queued')
      BY <3>1, <3>2, <3>3, <3>4
    <3>6. \A i \in 1..Len(sent') : sent'[i] = queued'[i]
      BY <3>1, <3>2, <3>3, <3>4
    <3> QED
      BY <3>1, <3>3, <3>5, <3>6
  <2>2. CASE ~net_up
    <3>1. Owned /\ result = "none"
      BY <1>8 DEF Transmit, Owned
    <3> QED
      BY <1>8, <2>2, <3>1 DEF Transmit, queueVars
  <2> QED
    BY <2>1, <2>2
<1>9. CASE BeginDestruction
  BY <1>0, <1>9 DEF BeginDestruction, queueVars, asioVars
<1>14. CASE EndDestruction
  <2>1. writing # None => Owned
    BY DEF Owned
  <2> QED
    BY <1>0, <1>14, <2>1 DEF EndDestruction, queueVars
<1>10. ASSUME NEW w \in Write, reset_idle_work(w) PROVE SentIsPopped'
  BY <1>0, <1>10 DEF reset_idle_work, queueVars, asioVars, handlerVars
<1>11. CASE notify_state_listeners_of_connection_lost
  BY <1>0, <1>11 DEF notify_state_listeners_of_connection_lost,
     queueVars, asioVars
<1>12. ASSUME NEW t \in Thread, touch_freed(t) PROVE SentIsPopped'
  BY <1>0, <1>12 DEF touch_freed, queueVars, asioVars, handlerVars
<1> QED
  BY <1>1, <1>2, <1>3, <1>4, <1>5, <1>6, <1>7, <1>8, <1>9, <1>10, <1>11,
     <1>12, <1>13, <1>14 DEF Action

LEMMA HandlerStep ==
  ASSUME IInv, Action
  PROVE  HandlerKnows'
<1> USE ThreadAssumption
        DEF IInv, HandlerKnows, Types, TypeOK, Goes, Thread
<1>1. ASSUME NEW w \in Write, async_write(w) PROVE HandlerKnows'
  BY <1>1 DEF async_write, queueVars, asioVars, handlerVars
<1>2. ASSUME NEW w \in Write, add_to_write_queue(w) PROVE HandlerKnows'
  <2>1. \A i \in 1..Len(queued) : queued'[i] = queued[i]
    BY <1>2 DEF add_to_write_queue
  <2> QED
    BY <1>2, <2>1 DEF add_to_write_queue, asioVars, handlerVars
<1>3. ASSUME NEW t \in Thread, exchange_active(t) PROVE HandlerKnows'
  BY <1>3 DEF exchange_active, Left, asioVars, handlerVars
<1>4. ASSUME NEW t \in Thread, write_front(t) PROVE HandlerKnows'
  BY <1>4 DEF write_front, Left, queueVars, handlerVars
<1>5. CASE pop_write_queue
  <2>1. /\ popped' = popped + 1 /\ handling' = writing
        /\ UNCHANGED <<queued, sent, net_up>>
        /\ result \in {"success", "error"}
    BY <1>5 DEF pop_write_queue
  <2>2. error' <=> result = "error"
    BY <1>5 DEF pop_write_queue
  <2>3. writing = queued[popped + 1]
    BY <2>1 DEF OneOwner, SentIsPopped
  <2>4. /\ result = "success" => Len(sent) = popped + 1
        /\ result = "error" => ~net_up /\ Len(sent) <= popped
    BY DEF SentIsPopped
  <2>5. popped \in Nat /\ Len(sent) \in Nat
    OBVIOUS
  <2> QED
    BY <2>1, <2>2, <2>3, <2>4, <2>5
<1>6. CASE clear_active \/ check_queue \/ tell_listener
  BY <1>6 DEF clear_active, check_queue, tell_listener, queueVars, asioVars,
              handlerVars
<1>7. CASE handle_write_Dying \/ NetworkBreaks
  BY <1>7 DEF handle_write_Dying, NetworkBreaks, queueVars, handlerVars
<1>8. CASE Transmit
  BY <1>8 DEF Transmit, queueVars, handlerVars
<1>9. CASE BeginDestruction \/ EndDestruction
  BY <1>9 DEF BeginDestruction, EndDestruction, queueVars, asioVars,
              handlerVars
<1>10. ASSUME NEW w \in Write, reset_idle_work(w) PROVE HandlerKnows'
  BY <1>10 DEF reset_idle_work, queueVars, asioVars, handlerVars
<1>11. CASE notify_state_listeners_of_connection_lost
  BY <1>11 DEF notify_state_listeners_of_connection_lost,
     queueVars, asioVars
<1>12. ASSUME NEW t \in Thread, touch_freed(t) PROVE HandlerKnows'
  BY <1>12 DEF touch_freed, queueVars, asioVars, handlerVars
<1> QED
  BY <1>1, <1>2, <1>3, <1>4, <1>5, <1>6, <1>7, <1>8, <1>9, <1>10, <1>11,
     <1>12 DEF Action

LEMMA ToldStep ==
  ASSUME IInv, Action
  PROVE  Told'
<1> USE ThreadAssumption DEF IInv, Told, Types, TypeOK, Goes, Thread
<1>0. /\ UNCHANGED queued => \A v : IsQueued(v)' <=> IsQueued(v)
      /\ UNCHANGED sent => \A v : IsSent(v)' <=> IsSent(v)
      /\ \A v : IsSent(v) => IsQueued(v)
  <2>1. Len(sent) \in Nat /\ Len(queued) \in Nat
    OBVIOUS
  <2>2. \A v : IsSent(v) => IsQueued(v)
    BY <2>1 DEF IsQueued, IsSent, SentIsPopped
  <2> QED
    BY <2>2 DEF IsQueued, IsSent
<1>1. ASSUME NEW w \in Write, async_write(w) PROVE Told'
  <2>1. ~IsQueued(w)
    BY <1>1 DEF async_write, Queue
  <2> QED
    BY <1>0, <1>1, <2>1 DEF async_write, queueVars, asioVars, handlerVars
<1>2. ASSUME NEW w \in Write, add_to_write_queue(w) PROVE Told'
  <2>1. \A v \in Write : IsQueued(v)' => IsQueued(v) \/ v = w
    BY <1>2 DEF add_to_write_queue, IsQueued
  <2> QED
    BY <1>0, <1>2, <2>1 DEF add_to_write_queue, asioVars, handlerVars
<1>3. ASSUME NEW t \in Thread, exchange_active(t) PROVE Told'
  BY <1>0, <1>3 DEF exchange_active, asioVars, handlerVars
<1>4. ASSUME NEW t \in Thread, write_front(t) PROVE Told'
  BY <1>0, <1>4 DEF write_front, queueVars, handlerVars
<1>5. CASE pop_write_queue
  BY <1>0, <1>5 DEF pop_write_queue
<1>6. CASE clear_active \/ check_queue
  BY <1>0, <1>6 DEF clear_active, check_queue, queueVars, asioVars,
                    handlerVars
<1>7. CASE tell_listener
  <2>1. popped > 0 /\ handling = queued[popped] /\ handling \in Write
    BY <1>7 DEF tell_listener, HandlerKnows
  <2>2. CASE error
    <3>1. ~net_up /\ Len(sent) < popped
      BY <1>7, <2>2 DEF tell_listener, HandlerKnows
    <3>2. ~IsSent(handling)
      BY <2>1, <3>1 DEF IsSent, SentIsPopped, Queue
    <3> QED
      BY <1>0, <1>7, <2>2, <3>1, <3>2 DEF tell_listener, queueVars, asioVars
  <2>3. CASE ~error
    <3>1. Len(sent) >= popped
      BY <1>7, <2>3 DEF tell_listener, HandlerKnows
    <3>2. IsSent(handling)
      BY <2>1, <3>1 DEF IsSent, SentIsPopped
    <3> QED
      BY <1>0, <1>7, <2>3, <3>2 DEF tell_listener, queueVars, asioVars
  <2> QED
    BY <2>2, <2>3
<1>8. CASE handle_write_Dying \/ NetworkBreaks
  BY <1>0, <1>8 DEF handle_write_Dying, NetworkBreaks, queueVars, handlerVars
<1>9. CASE Transmit
  <2>1. CASE net_up
    <3>1. writing \in Write /\ IsQueued(writing)
      BY <1>9 DEF Transmit, SentIsPopped, IsQueued
    <3>2. \A v : IsSent(v)' <=> IsSent(v) \/ v = writing
      <4>1. sent' = Append(sent, writing)
        BY <1>9, <2>1 DEF Transmit
      <4>2. /\ Len(sent') = Len(sent) + 1
            /\ sent'[Len(sent) + 1] = writing
            /\ \A i \in 1..Len(sent) : sent'[i] = sent[i]
        BY <3>1, <4>1
      <4>3. Len(sent) \in Nat
        OBVIOUS
      <4>4. \A v : IsSent(v) => IsSent(v)'
        BY <4>2, <4>3 DEF IsSent
      <4>5. \A v : v = writing => IsSent(v)'
        <5>1. Len(sent) + 1 \in 1..Len(sent')
          BY <4>2, <4>3
        <5> QED
          BY <4>2, <5>1 DEF IsSent
      <4>6. \A v : IsSent(v)' => IsSent(v) \/ v = writing
        BY <4>2, <4>3 DEF IsSent
      <4> QED
        BY <4>4, <4>5, <4>6
    <3> QED
      BY <1>0, <1>9, <2>1, <3>1, <3>2 DEF Transmit, queueVars, handlerVars
  <2>2. CASE ~net_up
    BY <1>0, <1>9, <2>2 DEF Transmit, queueVars, handlerVars
  <2> QED
    BY <2>1, <2>2
<1>10. CASE BeginDestruction \/ EndDestruction
  BY <1>0, <1>10 DEF BeginDestruction, EndDestruction, queueVars, asioVars,
                     handlerVars
<1>11. ASSUME NEW w \in Write, reset_idle_work(w) PROVE Told'
  BY <1>0, <1>11 DEF reset_idle_work, queueVars, asioVars, handlerVars
<1>12. CASE notify_state_listeners_of_connection_lost
  BY <1>0, <1>12 DEF notify_state_listeners_of_connection_lost,
     queueVars, asioVars
<1>13. ASSUME NEW t \in Thread, touch_freed(t) PROVE Told'
  BY <1>0, <1>13 DEF touch_freed, queueVars, asioVars, handlerVars
<1> QED
  BY <1>1, <1>2, <1>3, <1>4, <1>5, <1>6, <1>7, <1>8, <1>9, <1>10, <1>11, <1>12,
     <1>13 DEF Action

LEMMA StrandedStep ==
  ASSUME IInv, Action
  PROVE  NothingStranded'
<1> USE ThreadAssumption
        DEF IInv, NothingStranded, Types, TypeOK, Goes, Thread,
            is_write_queue_empty, lifeVars
<1>1. ASSUME NEW w \in Write, async_write(w) PROVE NothingStranded'
  BY <1>1 DEF async_write, queueVars, asioVars, handlerVars
<1>2. ASSUME NEW w \in Write, add_to_write_queue(w) PROVE NothingStranded'
  <2>1. pc'[w] = "exchange"
    BY <1>2 DEF add_to_write_queue
  <2> QED
    BY <2>1
<1>3. ASSUME NEW t \in Thread, exchange_active(t) PROVE NothingStranded'
  BY <1>3 DEF exchange_active
<1>4. ASSUME NEW t \in Thread, write_front(t) PROVE NothingStranded'
  <2>1. write_queue_active
    BY <1>4 DEF write_front, OneOwner, AtFront
  <2> QED
    BY <1>4, <2>1 DEF write_front, queueVars
<1>5. CASE pop_write_queue
  BY <1>5 DEF pop_write_queue, OneOwner
<1>6. CASE clear_active
  BY <1>6 DEF clear_active
<1>7. CASE check_queue
  BY <1>7 DEF check_queue, queueVars, asioVars
<1>8. CASE tell_listener
  BY <1>8 DEF tell_listener, HandlerKnows, queueVars, asioVars
<1>9. CASE handle_write_Dying \/ NetworkBreaks \/ Transmit
  <2>1. UNCHANGED <<queueVars, pc, lost, life>>
    BY <1>9 DEF handle_write_Dying, NetworkBreaks, Transmit, handlerVars
  <2> QED
    BY <2>1 DEF queueVars
<1>10. CASE BeginDestruction \/ EndDestruction
  BY <1>10 DEF BeginDestruction, EndDestruction, queueVars, asioVars
<1>11. ASSUME NEW w \in Write, reset_idle_work(w) PROVE NothingStranded'
  BY <1>11 DEF reset_idle_work, queueVars, asioVars, handlerVars
<1>12. CASE notify_state_listeners_of_connection_lost
  BY <1>12 DEF notify_state_listeners_of_connection_lost,
     queueVars, asioVars
<1>13. ASSUME NEW t \in Thread, touch_freed(t) PROVE NothingStranded'
  BY <1>13 DEF touch_freed, queueVars, asioVars, handlerVars
<1> QED
  BY <1>1, <1>2, <1>3, <1>4, <1>5, <1>6, <1>7, <1>8, <1>9, <1>10, <1>11, <1>12,
     <1>13 DEF Action

LEMMA FreedStep ==
  ASSUME IInv, Action
  PROVE  Freed'
<1> USE ThreadAssumption
        DEF IInv, Freed, OnlyTheCaughtTouchFreed, InCall, Types, TypeOK, Goes,
            Thread
<1>1. ASSUME NEW w \in Write,
             async_write(w) \/ add_to_write_queue(w) \/ reset_idle_work(w)
      PROVE  Freed'
  BY <1>1 DEF async_write, add_to_write_queue, reset_idle_work, asioVars, lifeVars
<1>2. ASSUME NEW t \in Thread, exchange_active(t) \/ write_front(t)
      PROVE  Freed'
  <2>1. InCall(t) /\ UNCHANGED lifeVars /\ life # "dead"
    BY <1>2 DEF exchange_active, write_front
  <2>2. \A u \in Thread : u # t => pc'[u] = pc[u]
    BY <1>2 DEF exchange_active, write_front
  <2>3. life # "alive" => caught # {}
    BY <2>1
  <2> QED
    BY <2>1, <2>2, <2>3 DEF lifeVars
<1>3. CASE pop_write_queue \/ clear_active \/ tell_listener \/ check_queue
           \/ notify_state_listeners_of_connection_lost
  BY <1>3 DEF pop_write_queue, clear_active, tell_listener, check_queue,
     notify_state_listeners_of_connection_lost, asioVars, lifeVars
<1>4. CASE handle_write_Dying \/ Transmit \/ NetworkBreaks
  BY <1>4 DEF handle_write_Dying, Transmit, NetworkBreaks, lifeVars
<1>5. CASE BeginDestruction
  BY <1>5 DEF BeginDestruction, asioVars
<1>6. CASE EndDestruction
  BY <1>6 DEF EndDestruction
<1>7. ASSUME NEW t \in Thread, touch_freed(t) PROVE Freed'
  <2>1. result # "none" => writing # None
    BY DEF OneOwner
  <2>2. caught # {} /\ (t # Io => t \in caught)
    BY <1>7, <2>1 DEF touch_freed
  <2> QED
    BY <1>7, <2>2 DEF touch_freed, asioVars
<1> QED
  BY <1>1, <1>2, <1>3, <1>4, <1>5, <1>6, <1>7 DEF Action

-----------------------------------------------------------------------------
LEMMA IInvStep == IInv /\ [Next]_vars => IInv'
<1> SUFFICES ASSUME IInv, [Next]_vars PROVE IInv'
  OBVIOUS
<1>1. CASE Action
  BY <1>1, TypesStep, OwnerStep, QueueStep, SentStep, HandlerStep, ToldStep,
     StrandedStep, FreedStep DEF IInv
<1>2. CASE UNCHANGED vars
  BY <1>2 DEF IInv, Types, TypeOK, OneOwner, AtFront, Owned, Queue,
     IsQueued, SentIsPopped, HandlerKnows, Told, IsSent, NothingStranded,
     is_write_queue_empty, Freed, InCall, OnlyTheCaughtTouchFreed, vars,
     queueVars, asioVars, handlerVars, lifeVars
<1> QED
  BY <1>1, <1>2, NextIsAction

LEMMA Invariance == Spec => []IInv
BY IInvInit, IInvStep, PTL DEF Spec

\* asio is never asked for a second write before the first has completed
\* (write_queue_active, set by write_front and cleared by handle_write).
THEOREM WritesAlternate == Spec => []OneWriteAtATime
<1>1. IInv => OneWriteAtATime
  BY DEF IInv, Types, TypeOK, OneOwner, SentIsPopped, OneWriteAtATime,
     is_write_queue_empty, front_of_write_queue
<1> QED
  BY <1>1, Invariance, PTL

\* Messages reach the kernel in the order of the queue, none twice and none
\* left out (add_to_write_queue, front_of_write_queue, pop_write_queue).
THEOREM QueueOrder == Spec => []WrittenInOrder
<1>1. ASSUME IInv PROVE WrittenInOrder
  <2>1. /\ sent \in Seq(Write) /\ queued \in Seq(Write)
        /\ Len(sent) <= Len(queued)
        /\ \A i \in 1..Len(sent) : sent[i] = queued[i]
    BY <1>1 DEF IInv, Types, TypeOK, SentIsPopped
  <2>2. /\ SubSeq(queued, 1, Len(sent)) \in Seq(Write)
        /\ Len(SubSeq(queued, 1, Len(sent))) = Len(sent)
        /\ \A i \in 1..Len(sent) :
             SubSeq(queued, 1, Len(sent))[i] = queued[i]
    BY <2>1
  <2>3. sent = SubSeq(queued, 1, Len(sent))
    BY <2>1, <2>2
  <2> QED
    BY <2>1, <2>3 DEF WrittenInOrder
<1> QED
  BY <1>1, Invariance, PTL

\* A listener is told of success when its message was written, and of an error
\* when it was not (handle_write).
THEOREM ListenersToldTheTruth == Spec => []ToldTheTruth
<1>1. ASSUME IInv PROVE ToldTheTruth
  <2>1. DOMAIN sent = 1..Len(sent)
    BY <1>1 DEF IInv, Types, TypeOK
  <2>2. told \in [Write -> {"nothing", "success", "error"}]
    BY <1>1 DEF IInv, Types, TypeOK
  <2> QED
    BY <1>1, <2>1, <2>2 DEF IInv, Told, IsSent, ToldTheTruth
<1> QED
  BY <1>1, Invariance, PTL

\* Until the state listeners hear of a lost connection, someone is about to write what is queued
\* (handle_write looks at the queue after it has cleared the flag).
THEOREM NoMessageStranded == Spec => []NothingStranded
<1>1. IInv => NothingStranded
  BY DEF IInv
<1> QED
  BY <1>1, Invariance, PTL

\* Only a writer whose message others have written finds the queue empty
\* (write_front takes the front without a look at the queue).
THEOREM OvertakenMiss == Spec => []OnlyTheOvertakenMissTheFront
<1>1. ASSUME IInv PROVE OnlyTheOvertakenMissTheFront
  <2> SUFFICES ASSUME NEW t \in AtFront, is_write_queue_empty
      PROVE  t # Io /\ \E i \in 1..popped : queued[i] = t
    BY DEF OnlyTheOvertakenMissTheFront
  <2>1. popped = Len(queued) /\ Len(queued) \in Nat
    BY <1>1 DEF is_write_queue_empty, IInv, Types, TypeOK
  <2>2. t # Io
    BY <1>1, <2>1 DEF AtFront, IInv, Queue
  <2>3. IsQueued(t)
    BY <1>1, <2>2 DEF AtFront, Thread, IInv, Queue
  <2> QED
    BY <2>1, <2>2, <2>3 DEF IsQueued
<1> QED
  BY <1>1, Invariance, PTL

\* The destructor hurts nobody it does not find in a call or with a handler to
\* come (~DefaultSocket, which waits for nothing, and async_write's test).
THEOREM DestructorHurtsTheCaught == Spec => []OnlyTheCaughtTouchFreed
<1>1. IInv => OnlyTheCaughtTouchFreed
  BY DEF IInv, Freed
<1> QED
  BY <1>1, Invariance, PTL
=============================================================================
