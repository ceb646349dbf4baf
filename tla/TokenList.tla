------------------------------ MODULE TokenList ------------------------------
(***************************************************************************)
(* What the list of refresh tokens promises to the clients that hold them. *)
(* A login signs a token and lists it.  A client gives a token up when it  *)
(* logs out or exchanges it, and only then is the token struck from the    *)
(* list, for good.  A token can be exchanged if a login has listed it, and *)
(* the token it is exchanged for belongs to the same user and is itself    *)
(* spare: it is never listed, and never exchanged in its turn.             *)
(***************************************************************************)
CONSTANTS Token, Owner

VARIABLES
    standing,    \* standing[t]: "none" until signed; "listed"; "struck"; "spare"
    surrendered  \* the tokens their clients have given up

Init == standing = [t \in Token |-> "none"] /\ surrendered = {}

Becomes(t, st) == standing' = [standing EXCEPT ![t] = st]

List(t) ==
    /\ standing[t] = "none"
    /\ Becomes(t, "listed")
    /\ UNCHANGED surrendered

(* A client may give a token up more than once, and one that is spare. *)
Surrender(t) ==
    /\ standing[t] # "none"
    /\ surrendered' = surrendered \cup {t}
    /\ UNCHANGED standing

(* Two exchanges of a token may overlap: it may be struck by then. *)
Exchange(t, new) ==
    /\ standing[t] \in {"listed", "struck"}
    /\ standing[new] = "none" /\ Owner[new] = Owner[t]
    /\ Becomes(new, "spare")
    /\ surrendered' = surrendered \cup {t}

Strike(t) ==
    /\ standing[t] = "listed" /\ t \in surrendered
    /\ Becomes(t, "struck")
    /\ UNCHANGED surrendered

Next ==
    \E t \in Token :
        \/ List(t) \/ Surrender(t) \/ Strike(t)
        \/ \E new \in Token : Exchange(t, new)

Spec == Init /\ [][Next]_<<standing, surrendered>>
=============================================================================
