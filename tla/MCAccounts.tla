----------------------------- MODULE MCAccounts -----------------------------
(* Two seeded users and room for a third, for TLC. *)
EXTENDS Accounts, TLC

CONSTANTS u1, u2, u3, u4, e1, e2, e3, o1, o2, o3, o4, q1, q2, q3

SomeRow(e, o, r) == [email |-> e, organisation |-> o, role |-> r]

AdminAndStaff ==
    u1 :> SomeRow(e1, o1, "ADMIN") @@ u2 :> SomeRow(e2, o1, "STAFF")
    @@ u3 :> NoRow

OneCustomer ==
    u1 :> SomeRow(e1, o1, "CUSTOMER") @@ u2 :> NoRow @@ u3 :> NoRow

Interchangeable == Permutations(Request)
=============================================================================
