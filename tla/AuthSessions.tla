---------------------------- MODULE AuthSessions ----------------------------
(***************************************************************************)
(* Logging in, refreshing and logging out: the login attempts and the lock *)
(* of an account, and the whitelist of refresh tokens.                     *)
(*                                                                         *)
(* A Request is one GraphQL mutation in an HTTP request of its own.  It    *)
(* loads the account into its entity manager, works on that copy across    *)
(* several awaits, and a flush writes the columns it changed.  The         *)
(* deletion of a revoked token is started and not awaited: nobody learns   *)
(* when it is done, or that it failed.                                     *)
(*                                                                         *)
(* Expiry of tokens, e-mail addresses and access tokens are left out; so   *)
(* are registration and deletion of users.                                 *)
(***************************************************************************)
EXTENDS Naturals, FiniteSets

CONSTANTS
    User, Password,
    Token,      \* refresh tokens; no two signatures are equal
    UserOf,     \* the user a token is signed for
    NoToken,    \* a mutation has no token (yet)
    Request,    \* mutations, each run once
    Wishes      \* the columns the updates of the clients set

Switch == {"on", "off"}

\* "keep" leaves a column out of an update
Wish == [password : Password \cup {"keep"},
         locked : Switch \cup {"keep"},
         timed : Switch \cup {"keep"}]

ASSUME UserTypes == User # {} /\ "keep" \notin Password

ASSUME TokenTypes == UserOf \in [Token -> User] /\ NoToken \notin Token

ASSUME WishTypes == Wishes \subseteq Wish

ASSUME FiniteRequests == IsFiniteSet(Request)

VARIABLES
    account,    \* the row of each user; timed: does its timeout lie ahead?
    whitelist,  \* the rows of the table of issued tokens
    issued,     \* tokens signed so far
    revoking,   \* tokens whose deletion is under way, unawaited
    phase,      \* phase[q]: where the mutation stands, and its answer
    asked,      \* asked[q]: operation and arguments of the mutation
    seen,       \* seen[q]: the account as its entity manager loaded it
    got         \* got[q]: the refresh token it signs

tokens == <<whitelist, issued, revoking>>
request == <<phase, asked, seen, got>>
vars == <<account, tokens, request>>

-----------------------------------------------------------------------------
Account == [password : Password, locked : Switch, timed : Switch, attempts : Nat]

NoWish == [password |-> "keep", locked |-> "keep", timed |-> "keep"]

Asking(op, u, t, p, w) ==
    [op |-> op, user |-> u, token |-> t, password |-> p, wish |-> w]

Answered(q) == phase[q] \in {"tokens", "denied", "refused", "done", "broken"}

\* refresh tokens the clients have been given
Handed == {got[q] : q \in {r \in Request : phase[r] = "tokens"}}

(* isUserLocked *)
Barred(a) == a.locked = "on" \/ a.timed = "on"

Is(q, op, ph) == asked[q].op = op /\ phase[q] = ph

Goes(q, ph) == phase' = [phase EXCEPT ![q] = ph]

-----------------------------------------------------------------------------
(* login *)

(* The user is found by e-mail; a locked or timed out one is refused.      *)
LoginFind(q, u, p) ==
    /\ phase[q] = "new"
    /\ asked' = [asked EXCEPT ![q] = Asking("login", u, NoToken, p, NoWish)]
    /\ seen' = [seen EXCEPT ![q] = account[u]]
    /\ Goes(q, IF Barred(account[u]) THEN "refused" ELSE "found")
    /\ UNCHANGED <<account, tokens, got>>

(* Mutant: the whole row is written back, not the changed columns. *)
WrongPasswordWholeRow(q) ==
    /\ Is(q, "login", "found")
    /\ asked[q].password # seen[q].password
    /\ account' = [account EXCEPT ![asked[q].user] =
                     [seen[q] EXCEPT !.attempts = @ + 1, !.timed = "on"]]
    /\ Goes(q, "denied")
    /\ UNCHANGED <<tokens, asked, seen, got>>

(* Mutant: the attempt is counted twice, by the resolver and the service.  *)
WrongPasswordTwice(q) ==
    /\ Is(q, "login", "found")
    /\ asked[q].password # seen[q].password
    /\ account' = [account EXCEPT ![asked[q].user] =
                     [account[asked[q].user] EXCEPT !.attempts = seen[q].attempts + 2,
                                                    !.timed = "on"]]
    /\ Goes(q, "denied")
    /\ UNCHANGED <<tokens, asked, seen, got>>

(* incrementLoginAttempts counts from the copy loaded by this request.     *)
WrongPassword(q) ==
    /\ Is(q, "login", "found")
    /\ asked[q].password # seen[q].password
    /\ account' = [account EXCEPT ![asked[q].user] =
                     [account[asked[q].user] EXCEPT !.attempts = seen[q].attempts + 1,
                                                    !.timed = "on"]]
    /\ Goes(q, "denied")
    /\ UNCHANGED <<tokens, asked, seen, got>>

(* Mutant: a login takes one failed attempt back instead of all. *)
RightPasswordDecrements(q) ==
    /\ Is(q, "login", "found")
    /\ asked[q].password = seen[q].password
    /\ LET now == account[asked[q].user]
           n == IF seen[q].attempts = 0 THEN now.attempts ELSE now.attempts - 1
       IN  \E t \in {now.timed, "off"} :
               account' = [account EXCEPT ![asked[q].user] =
                             [now EXCEPT !.attempts = n, !.timed = t]]
    /\ Goes(q, "reset")
    /\ UNCHANGED <<tokens, asked, seen, got>>

(* resetLoginAttempts writes the counter if the copy is not 0, and clears  *)
(* the timeout if the copy has one, which is past by now.                  *)
RightPassword(q) ==
    /\ Is(q, "login", "found")
    /\ asked[q].password = seen[q].password
    /\ LET now == account[asked[q].user]
           n == IF seen[q].attempts = 0 THEN now.attempts ELSE 0
       IN  \E t \in {now.timed, "off"} :
               account' = [account EXCEPT ![asked[q].user] =
                             [now EXCEPT !.attempts = n, !.timed = t]]
    /\ Goes(q, "reset")
    /\ UNCHANGED <<tokens, asked, seen, got>>

(* Mutant: the token is saved without awaiting it, and saving may fail. *)
SaveTokenUnawaited(q, t) ==
    /\ Is(q, "login", "reset")
    /\ t \in Token \ issued /\ UserOf[t] = asked[q].user
    /\ issued' = issued \cup {t}
    /\ whitelist' \in {whitelist, whitelist \cup {t}}
    /\ got' = [got EXCEPT ![q] = t]
    /\ Goes(q, "saved")
    /\ UNCHANGED <<account, revoking, asked, seen>>

(* createToken and saveToken: the refresh token is signed and whitelisted. *)
SaveToken(q, t) ==
    /\ Is(q, "login", "reset")
    /\ t \in Token \ issued /\ UserOf[t] = asked[q].user
    /\ issued' = issued \cup {t}
    /\ whitelist' = whitelist \cup {t}
    /\ got' = [got EXCEPT ![q] = t]
    /\ Goes(q, "saved")
    /\ UNCHANGED <<account, revoking, asked, seen>>

LoginAnswer(q) ==
    /\ Is(q, "login", "saved")
    /\ Goes(q, "tokens")
    /\ UNCHANGED <<account, tokens, asked, seen, got>>

-----------------------------------------------------------------------------
(* refresh and logout *)

(* verifyToken: the token was signed here and is on the whitelist.         *)
RefreshVerify(q, t) ==
    /\ phase[q] = "new"
    /\ t \in Handed
    /\ asked' = [asked EXCEPT ![q] =
                   Asking("refresh", UserOf[t], t, "keep", NoWish)]
    /\ Goes(q, IF t \in whitelist THEN "verified" ELSE "refused")
    /\ UNCHANGED <<account, tokens, seen, got>>

RefreshBarred(q) ==
    /\ Is(q, "refresh", "verified")
    /\ Barred(account[asked[q].user])
    /\ Goes(q, "refused")
    /\ UNCHANGED <<account, tokens, asked, seen, got>>

(* Mutant: the presented token is put back instead of being revoked. *)
RefreshIssueRelisting(q, t) ==
    /\ Is(q, "refresh", "verified")
    /\ ~Barred(account[asked[q].user])
    /\ t \in Token \ issued /\ UserOf[t] = asked[q].user
    /\ issued' = issued \cup {t}
    /\ whitelist' = whitelist \cup {asked[q].token}
    /\ got' = [got EXCEPT ![q] = t]
    /\ Goes(q, "tokens")
    /\ UNCHANGED <<account, revoking, asked, seen>>

(* The user may access the account: the deletion of the presented token is *)
(* started, a new refresh token is signed and returned, and not saved.     *)
RefreshIssue(q, t) ==
    /\ Is(q, "refresh", "verified")
    /\ ~Barred(account[asked[q].user])
    /\ t \in Token \ issued /\ UserOf[t] = asked[q].user
    /\ issued' = issued \cup {t}
    /\ revoking' = revoking \cup {asked[q].token}
    /\ got' = [got EXCEPT ![q] = t]
    /\ Goes(q, "tokens")
    /\ UNCHANGED <<account, whitelist, asked, seen>>

(* logout answers at once, while the deletion is under way. *)
Logout(q, t) ==
    /\ phase[q] = "new"
    /\ t \in Handed
    /\ asked' = [asked EXCEPT ![q] =
                   Asking("logout", UserOf[t], t, "keep", NoWish)]
    /\ revoking' = revoking \cup {t}
    /\ Goes(q, "done")
    /\ UNCHANGED <<account, whitelist, issued, seen, got>>

(* The unawaited deletion reaches the database, or fails unnoticed. *)
Revoked(t) ==
    /\ t \in revoking
    /\ whitelist' = whitelist \ {t}
    /\ revoking' = revoking \ {t}
    /\ UNCHANGED <<account, issued, request>>

RevokeFails(t) ==
    /\ t \in revoking
    /\ revoking' = revoking \ {t}
    /\ UNCHANGED <<account, whitelist, issued, request>>

-----------------------------------------------------------------------------
(* userUpdate, adminUserUpdate, userSetTimeout, adminUserRemoveTimeout *)

UpdateFind(q, u, w) ==
    /\ phase[q] = "new"
    /\ asked' = [asked EXCEPT ![q] = Asking("update", u, NoToken, "keep", w)]
    /\ seen' = [seen EXCEPT ![q] = account[u]]
    /\ Goes(q, "found")
    /\ UNCHANGED <<account, tokens, got>>

(* The timeout after the flush: a date set is written; clearing it is, too,*)
(* unless the copy has none already.                                       *)
TimedAfter(q) ==
    LET now == account[asked[q].user].timed
        w == asked[q].wish.timed
    IN  IF w = "keep" THEN {now}
        ELSE IF w = "off" /\ seen[q].timed = "off" THEN {now, "off"}
        ELSE {w}

(* A password is hashed afresh and always written, a lock when it differs  *)
(* from the copy.                                                          *)
UpdateWrite(q) ==
    LET w == asked[q].wish
        now == account[asked[q].user]
        p == IF w.password = "keep" THEN now.password ELSE w.password
        l == IF w.locked \in {"keep", seen[q].locked} THEN now.locked ELSE w.locked
    IN  /\ Is(q, "update", "found")
        /\ \E t \in TimedAfter(q) :
               account' = [account EXCEPT ![asked[q].user] =
                   [now EXCEPT !.password = p, !.locked = l, !.timed = t]]
        /\ Goes(q, "done")
        /\ UNCHANGED <<tokens, asked, seen, got>>

-----------------------------------------------------------------------------
(* A timeout passes. *)
TimePasses(u) ==
    /\ account[u].timed = "on"
    /\ account' = [account EXCEPT ![u].timed = "off"]
    /\ UNCHANGED <<tokens, request>>

(* A flush fails, or the process stops: the mutation ends where it is. *)
Breaks(q) ==
    /\ phase[q] # "new" /\ ~Answered(q)
    /\ Goes(q, "broken")
    /\ UNCHANGED <<account, tokens, asked, seen, got>>

Somebody == CHOOSE u \in User : TRUE

Init ==
    /\ account \in [User -> [password : Password, locked : {"off"},
                            timed : {"off"}, attempts : {0}]]
    /\ whitelist = {}
    /\ issued = {}
    /\ revoking = {}
    /\ phase = [q \in Request |-> "new"]
    /\ asked = [q \in Request |-> Asking("none", Somebody, NoToken, "keep", NoWish)]
    /\ seen = [q \in Request |-> account[Somebody]]
    /\ got = [q \in Request |-> NoToken]

Login(q) ==
    \/ \E u \in User, p \in Password : LoginFind(q, u, p)
    \/ WrongPassword(q)
    \/ RightPassword(q)
    \/ \E t \in Token : SaveToken(q, t)
    \/ LoginAnswer(q)

Refresh(q) ==
    \/ \E t \in Token : RefreshVerify(q, t) \/ RefreshIssue(q, t)
    \/ RefreshBarred(q)

Update(q) ==
    \/ \E u \in User, w \in Wishes : UpdateFind(q, u, w)
    \/ UpdateWrite(q)

Next ==
    \/ \E q \in Request :
           \/ Login(q)
           \/ Refresh(q)
           \/ \E t \in Token : Logout(q, t)
           \/ Update(q)
           \/ Breaks(q)
    \/ \E t \in Token : Revoked(t) \/ RevokeFails(t)
    \/ \E u \in User : TimePasses(u)

Spec == Init /\ [][Next]_vars
-----------------------------------------------------------------------------
(* Properties *)

TypeOK ==
    /\ account \in [User -> Account]
    /\ whitelist \subseteq issued
    /\ issued \subseteq Token
    /\ revoking \subseteq Token
    /\ phase \in [Request -> {"new", "found", "reset", "saved", "verified",
                              "tokens", "denied", "refused", "done", "broken"}]
    /\ asked \in [Request -> [op : {"none", "login", "refresh", "logout", "update"},
                              user : User, token : Token \cup {NoToken},
                              password : Password \cup {"keep"}, wish : Wish]]
    /\ \A q \in Request : asked[q].op \in {"refresh", "logout"} =>
                            asked[q].token # NoToken
    /\ seen \in [Request -> Account]
    /\ got \in [Request -> Token \cup {NoToken}]

(* A client has asked to take the token off the whitelist. *)
RevocationAsked(t) ==
    \E q \in Request : asked[q].token = t /\ phase[q] \in {"done", "tokens"}

(* The refresh token that login returns can be used: it is on the          *)
(* whitelist before the client has it, and stays there until the client    *)
(* asks to refresh it or to log out.                                       *)
LoginTokensListed ==
    \A q \in Request :
        /\ asked[q].op = "login" /\ phase[q] \in {"saved", "tokens"}
        /\ ~RevocationAsked(got[q])
        => got[q] \in whitelist

(* A token that has left the whitelist never returns to it, whatever       *)
(* logins, refreshes and deletions overlap.                                *)
NeverRelisted == [][\A t \in issued : t \notin whitelist => t \notin whitelist']_vars

(* The tokens that logins have signed, and all that clients gave up. *)
FromLogins ==
    {t \in issued : \E q \in Request : asked[q].op = "login" /\ got[q] = t}

Surrendered == {t \in Token : RevocationAsked(t)}

Standing == [t \in Token |->
    IF t \notin issued THEN "none"
    ELSE IF t \in whitelist THEN "listed"
    ELSE IF t \in FromLogins THEN "struck" ELSE "spare"]

(* The table of tokens keeps the promises of a list of tokens: a token is  *)
(* taken off it only at the client's wish and never comes back, only those *)
(* of logins are ever exchanged, and always for one of the same user,      *)
(* whatever logins, refreshes, logouts and unawaited deletions overlap.    *)
List == INSTANCE TokenList WITH
            Owner <- UserOf, standing <- Standing, surrendered <- Surrendered

TokenListSpec == List!Spec

(* The logins of a user that failed. *)
Denied(u) == {q \in Request : Is(q, "login", "denied") /\ asked[q].user = u}

(* The counter of failed logins is never above the number of logins that   *)
(* failed, although requests write it from copies that may be stale.       *)
AttemptsBounded == \A u \in User : account[u].attempts <= Cardinality(Denied(u))

(* Only an update that asks for it changes a password or a lock: a login   *)
(* that loaded the account earlier writes nothing of its stale copy back.  *)
OnlyUpdatesTouchCredentials == [][
    \A u \in User :
        \/ /\ account'[u].password = account[u].password
           /\ account'[u].locked = account[u].locked
        \/ \E q \in Request :
               /\ Is(q, "update", "found") /\ phase'[q] = "done"
               /\ asked[q].user = u
               /\ account'[u].password \in
                      {account[u].password, asked[q].wish.password}
               /\ account'[u].locked \in
                      {account[u].locked, asked[q].wish.locked}]_vars

-----------------------------------------------------------------------------
(* The inductive invariant behind them *)

(* Deletions are under way only for tokens whose clients asked for them,   *)
(* and a token a login has signed is its own and off the whitelist only    *)
(* after such a request.                                                   *)
TokensInv ==
    /\ \A t \in revoking : RevocationAsked(t)
    /\ \A q \in Request :
           asked[q].op = "login" /\ phase[q] \in {"saved", "tokens"} =>
               /\ got[q] \in issued
               /\ got[q] \in whitelist \/ RevocationAsked(got[q])

(* Only logins fill the whitelist.  A token that is presented, which only  *)
(* refreshes and logouts do, was signed; a verified one is from a login,   *)
(* and is the user's who refreshes.                                        *)
ListInv ==
    /\ whitelist \subseteq FromLogins
    /\ \A q \in Request :
           /\ got[q] # NoToken =>
                  got[q] \in issued /\ phase[q] \in {"saved", "tokens", "broken"}
           /\ asked[q].token # NoToken =>
                  asked[q].token \in issued /\ asked[q].op \in {"refresh", "logout"}
           /\ Is(q, "refresh", "verified") =>
                  /\ asked[q].token \in FromLogins
                  /\ asked[q].user = UserOf[asked[q].token]

IInv == TypeOK /\ TokensInv /\ ListInv

(* So is the counter of a copy from which a login may go on to fail.       *)
CountInv ==
    /\ AttemptsBounded
    /\ \A q \in Request : Is(q, "login", "found") =>
           seen[q].attempts <= Cardinality(Denied(asked[q].user))

-----------------------------------------------------------------------------
(* What comments and tests of the repository say, and the code does not do *)

(* token.response.ts: a refresh token allows the user to request a new     *)
(* access token.  Those that refresh returns are never whitelisted.        *)
HandedTokensListed ==
    \A q \in Request : phase[q] = "tokens" /\ ~RevocationAsked(got[q])
                           => got[q] \in whitelist

(* logout.e2e-spec.ts: once logout is answered the token is gone.  Its     *)
(* deletion is not awaited.                                                *)
LogoutRevokes ==
    \A q \in Request : Is(q, "logout", "done") => asked[q].token \notin whitelist
=============================================================================
