------------------------------ MODULE MCGateway ------------------------------
(***************************************************************************)
(* Two callers upload the same two chunks and submit under the same key.   *)
(* One of them then submits a sweep of two points and logs out, the other  *)
(* cancels its run and submits a task that names the first one's input.    *)
(***************************************************************************)
EXTENDS Gateway, TLC

CONSTANTS u1, u2, k1, k2, p1, p2

Upload == [op |-> "upload", data |-> <<"a", "b">>]
Submit(k, u) == [op |-> "submit", key |-> k, of |-> u]
TwoPoints == [op |-> "sweep", points |-> <<p1, p2>>]
Point(k) == [op |-> "point", key |-> k]
SignOut == [op |-> "logout"]
Cancel == [op |-> "cancel"]

MCProgram == [u \in Users |->
    IF u = u1 THEN <<Upload, Submit(k1, u1), TwoPoints, Point(p1), Point(p2), SignOut>>
    ELSE <<Upload, Submit(k1, u2), Cancel, Submit(k2, u1)>>]

MCSymmetry == Permutations(Threads)
==============================================================================
