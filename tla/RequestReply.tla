---------------------------- MODULE RequestReply ----------------------------
(***************************************************************************)
(* What a SessionConnection promises whoever sends over it: requests are   *)
(* served one at a time; the daemon executes each at most once; whoever    *)
(* gets a value gets the answer to his own request, executed; and whoever  *)
(* gets an error cannot tell whether his request was executed, or still    *)
(* will be.                                                                *)
(***************************************************************************)
EXTENDS Naturals

CONSTANTS Request, Nobody

VARIABLES
  result,    \* what has become of each request's future
  serving,   \* the request being served
  taken,     \* the requests ever served
  executed   \* how often the daemon has executed each

vars == <<result, serving, taken, executed>>

Init ==
  /\ result = [r \in Request |-> "unsent"]
  /\ serving = Nobody
  /\ taken = {}
  /\ executed = [r \in Request |-> 0]

Ask(r) ==
  /\ result[r] = "unsent"
  /\ result' = [result EXCEPT ![r] = "pending"]
  /\ UNCHANGED <<serving, taken, executed>>

Serve(r) ==
  /\ serving = Nobody
  /\ result[r] = "pending"
  /\ serving' = r
  /\ taken' = taken \cup {r}
  /\ UNCHANGED <<result, executed>>

Execute(r) ==
  /\ r \in taken
  /\ executed[r] = 0
  /\ executed' = [executed EXCEPT ![r] = 1]
  /\ UNCHANGED <<result, serving, taken>>

Resolve(r, how) ==
  /\ serving = r
  /\ result[r] = "pending"
  /\ how = "answered" => executed[r] = 1
  /\ result' = [result EXCEPT ![r] = how]
  /\ UNCHANGED <<serving, taken, executed>>

Release(r) ==
  /\ serving = r
  /\ result[r] # "pending"
  /\ serving' = Nobody
  /\ UNCHANGED <<result, taken, executed>>

Next ==
  \E r \in Request :
    \/ Ask(r)
    \/ Serve(r)
    \/ Execute(r)
    \/ \E how \in {"answered", "failed"} : Resolve(r, how)
    \/ Release(r)

Spec == Init /\ [][Next]_vars
=============================================================================
