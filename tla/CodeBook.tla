------------------------------ MODULE CodeBook ------------------------------
(***************************************************************************)
(* What the one-time codes promise the people they are sent to.  A code    *)
(* that is in the book is in it once, is accepted only until it lapses,    *)
(* and is struck only when it has lapsed or was accepted.  The same digits *)
(* may then be entered again.                                              *)
(***************************************************************************)
CONSTANTS Entry, Code

VARIABLES
    digits,    \* the codes of the entries that have been made
    lapsed,    \* the entries that are too old to be accepted
    accepted,  \* the entries whose codes somebody has verified
    struck     \* the entries that are no longer in the book

Made == DOMAIN digits

Init == Made = {} /\ lapsed = {} /\ accepted = {} /\ struck = {}

(* Making an entry may take so long that it has lapsed by then. *)
Enter(e, c) ==
    /\ e \notin Made
    /\ \A f \in Made \ struck : digits[f] # c
    /\ digits' = [f \in Made \cup {e} |-> IF f = e THEN c ELSE digits[f]]
    /\ lapsed' \in {lapsed, lapsed \cup {e}}
    /\ UNCHANGED <<accepted, struck>>

(* Time passes; several entries may lapse at once. *)
Lapse ==
    /\ lapsed \subseteq lapsed' /\ lapsed' \subseteq Made
    /\ UNCHANGED <<digits, accepted, struck>>

Accept(e) ==
    /\ e \in Made \ lapsed
    /\ accepted' = accepted \cup {e}
    /\ UNCHANGED <<digits, lapsed, struck>>

Strike(e) ==
    /\ e \in (lapsed \cup accepted) \ struck
    /\ struck' = struck \cup {e}
    /\ UNCHANGED <<digits, lapsed, accepted>>

Next ==
    \/ \E e \in Entry :
           \/ \E c \in Code : Enter(e, c)
           \/ Accept(e) \/ Strike(e)
    \/ Lapse

Spec == Init /\ [][Next]_<<digits, lapsed, accepted, struck>>
=============================================================================
