----------------------------- MODULE MCDialogue -----------------------------
(* Handles at the boundaries of bytes and of their signs, times about the end *)
(* of a second, a minute and a day.                                           *)
EXTENDS Dialogue

Names == {<<B(3), B(1)>>}
Invalid == <<B(0)>>
Locked == <<B(3)>>   \* exists() may throw: a directory it may not search
Paths == {<<B(2)>>, Locked, Invalid}
LockedPaths == {Locked}
Texts == {<<>>, <<B(2), B(0)>>}
Reasons == {<<B(1)>>}
Numbers == {1, 2, 8, 128}
At(second, micro) == [day |-> 1, second |-> second, micro |-> micro]
Times == {At(59, 999499), At(59, 999500), At(60, 0), At(86399, 999999)}
Words == Numbers \cup {n + 1 : n \in Numbers}
Everything == Objects(Words, Names \cup Paths \cup Texts \cup Reasons)
=============================================================================
