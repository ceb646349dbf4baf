---------------------------- MODULE ServiceBoard ----------------------------
(***************************************************************************)
(* What the registry of services promises to their authors.  A service is  *)
(* entered once, open; its namespace is never changed; it may move to      *)
(* another address.  It is blocked, for good, only if one of the addresses *)
(* it has lived at has answered with an unsound protocol; and what is      *)
(* removed is not entered again.                                           *)
(***************************************************************************)
CONSTANTS Service, Address, Namespace, Absent, Removed

VARIABLES
    row,    \* row[s]: the entry of the service, if there is one
    homes,  \* homes[s]: every address the service has lived at
    faulty  \* the addresses that have answered an unsound protocol

Entered(s) == row[s] \notin {Absent, Removed}

Init ==
    /\ row = [s \in Service |-> Absent]
    /\ homes = [s \in Service |-> {}]
    /\ faulty \subseteq Address

Enter(s, a, n) ==
    /\ row[s] = Absent
    /\ row' = [row EXCEPT ![s] = [state |-> "stored", address |-> a,
                                  namespace |-> n, blocked |-> FALSE]]
    /\ homes' = [homes EXCEPT ![s] = {a}]
    /\ UNCHANGED faulty

(* Also a blocked service may move. *)
Move(s, a) ==
    /\ Entered(s)
    /\ row' = [row EXCEPT ![s].address = a]
    /\ homes' = [homes EXCEPT ![s] = @ \cup {a}]
    /\ UNCHANGED faulty

(* Several services may be blocked at once. *)
Block(some) ==
    /\ \A s \in some : Entered(s) /\ homes[s] \cap faulty # {}
    /\ row' = [s \in Service |->
                 IF s \in some THEN [row[s] EXCEPT !.blocked = TRUE] ELSE row[s]]
    /\ UNCHANGED <<homes, faulty>>

Remove(s) ==
    /\ row[s] # Absent
    /\ row' = [row EXCEPT ![s] = Removed]
    /\ UNCHANGED <<homes, faulty>>

Fault(a) ==
    /\ faulty' = faulty \cup {a}
    /\ UNCHANGED <<row, homes>>

Next ==
    \/ \E some \in SUBSET Service : Block(some)
    \/ \E a \in Address : Fault(a)
    \/ \E s \in Service :
           \/ \E a \in Address : Move(s, a) \/ \E n \in Namespace : Enter(s, a, n)
           \/ Remove(s)

Spec == Init /\ [][Next]_<<row, homes, faulty>>
=============================================================================
