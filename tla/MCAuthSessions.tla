--------------------------- MODULE MCAuthSessions ---------------------------
(* One user, two passwords and a few tokens and requests for TLC. *)
EXTENDS AuthSessions, TLC

CONSTANTS u1, p1, p2, t1, t2, t3, q1, q2, q3, q4

OneUser == t1 :> u1 @@ t2 :> u1 @@ t3 :> u1

NewPassword == [NoWish EXCEPT !.password = p2]
Lock == [NoWish EXCEPT !.locked = "on"]
Unlock == [NoWish EXCEPT !.locked = "off", !.timed = "off"]
SetTimeout == [NoWish EXCEPT !.timed = "on"]

AllWishes == {NewPassword, Lock, Unlock, SetTimeout}
NoWishes == {}

Interchangeable == Permutations({t1, t2, t3}) \cup Permutations({q1, q2, q3, q4})
=============================================================================
