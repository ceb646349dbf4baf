------------------------------ MODULE Directory ------------------------------
(***************************************************************************)
(* What the tables of users and organisations promise to those who run the *)
(* server.  Identifiers and organisations are new when they are drawn, and *)
(* addresses are taken once.  A user joins an organisation, may be moved   *)
(* to one that is made for it, and belongs to it whatever else is changed. *)
(* Roles are given as long as somebody is there to give them: the roles    *)
(* that may be given only become fewer.                                    *)
(***************************************************************************)
CONSTANTS User, Email, Organisation, Role, Nobody

VARIABLES
    user,          \* user[u]: address, organisation and role, or Nobody
    organisation,  \* the organisations there are
    drawn,         \* the users there have been
    givable        \* the roles that somebody may give

Members == {u \in User : user[u] # Nobody}

Free(e, u) == \A v \in Members \ {u} : user[v].email # e

Writes(u, e, o, r) ==
    user' = [user EXCEPT ![u] = [email |-> e, organisation |-> o, role |-> r]]

Init ==
    /\ \A u \in Members : Free(user[u].email, u) /\ user[u].role \in givable
    /\ organisation = {user[u].organisation : u \in Members}
    /\ drawn = Members

(* In an organisation that is there, or in a new one. *)
Join(u, e, o, r) ==
    /\ u \notin drawn /\ Free(e, u) /\ r \in givable
    /\ Writes(u, e, o, r)
    /\ organisation' = organisation \cup {o}
    /\ drawn' = drawn \cup {u}

Edit(u, e, r) ==
    /\ u \in Members /\ Free(e, u) /\ r \in givable
    /\ Writes(u, e, user[u].organisation, r)
    /\ UNCHANGED <<organisation, drawn>>

Move(u, o) ==
    /\ u \in Members /\ o \notin organisation
    /\ Writes(u, user[u].email, o, user[u].role)
    /\ organisation' = organisation \cup {o}
    /\ UNCHANGED drawn

(* An organisation made for a user who has left meanwhile. *)
Found(o) ==
    /\ organisation' = organisation \cup {o}
    /\ UNCHANGED <<user, drawn>>

Leave(u) ==
    /\ user' = [user EXCEPT ![u] = Nobody]
    /\ UNCHANGED <<organisation, drawn>>

Next ==
    /\ givable' \subseteq givable
    /\ \/ UNCHANGED <<user, organisation, drawn>>
       \/ \E o \in Organisation : Found(o)
       \/ \E u \in User :
              \/ Leave(u)
              \/ \E o \in Organisation : Move(u, o)
              \/ \E e \in Email, r \in Role :
                     \/ Edit(u, e, r)
                     \/ \E o \in Organisation : Join(u, e, o, r)

Spec == Init /\ [][Next]_<<user, organisation, drawn, givable>>
=============================================================================
