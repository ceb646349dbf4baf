---------------------------- MODULE MCCredentials ----------------------------
(* One deployment with credentials of a provider whose name and secret are *)
(* columns of their own and of another that has all values in one.         *)
EXTENDS Credentials, TLC

CONSTANTS d1, q1, q2, n1, n2, s1, s2

Pair(n, s) == [name |-> n, secret |-> s]
Value(s) == [secret |-> s]

Input(aws, other) == "aws" :> aws @@ "other" :> other

Selection ==
    {Input(Pair(n1, s1), Absent), Input(Pair(n2, s2), Absent),
     Input(Pair(n1, s2), Value(s1)), Input(Absent, Value(s2)),
     Input(Absent, Odd), Input(Absent, Absent)}

Interchangeable == Permutations({q1, q2})
=============================================================================
