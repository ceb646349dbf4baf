--------------------------- MODULE ResourceCatalog ---------------------------
(***************************************************************************)
(* What the system, deployment, resource and service tables promise to the *)
(* users of the API, whatever happens between the server, the database and *)
(* the remote services: an identifier is stored at most once, under        *)
(* parents that are stored, and it leaves the tables together with         *)
(* everything it owns, in one step, never to return.                       *)
(***************************************************************************)
CONSTANTS
    Entity,     \* identifiers of rows of the four tables
    References, \* References[e]: the rows the foreign keys of e name
    Owned       \* Owned[e]: the rows that are deleted along with e

VARIABLE row    \* row[e]: "none" before it is stored, "present", "deleted"

Stored(e) == row[e] = "present"

Init == row \in [Entity -> {"none", "present"}]

(* A new row appears below parents that are there. *)
Add(e) ==
    /\ row[e] = "none"
    /\ \A p \in References[e] : Stored(p)
    /\ row' = [row EXCEPT ![e] = "present"]

(* A row goes with all it owns; it must not be needed by any other row. *)
Retire(e) ==
    LET going == {e} \cup Owned[e]
    IN  /\ Stored(e)
        /\ \A x \in Entity \ going :
               Stored(x) => going \cap References[x] = {}
        /\ row' = [x \in Entity |->
                     IF x \in going /\ Stored(x) THEN "deleted" ELSE row[x]]

Next == \E e \in Entity : Add(e) \/ Retire(e)

Spec == Init /\ [][Next]_row
=============================================================================
