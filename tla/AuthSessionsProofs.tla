-------------------------- MODULE AuthSessionsProofs --------------------------
(***************************************************************************)
(* Proofs about AuthSessions for every set of users, tokens and requests.  *)
(***************************************************************************)
EXTENDS AuthSessions, FiniteSetTheorems, TLAPS

(* The accounts, tables and requests have their types at the start. *)
LEMMA InitTypeOK == Init => TypeOK
  <1> SUFFICES ASSUME Init PROVE TypeOK
    OBVIOUS
  <1>1. Somebody \in User
    BY UserTypes DEF Somebody
  <1>2. account \in [User -> Account]
    BY DEF Init, Account, Switch
  <1>3. NoWish \in Wish
    BY DEF NoWish, Wish
  <1> QED BY <1>1, <1>2, <1>3 DEF Init, TypeOK, Asking

(* A row keeps its type when columns are written with values of theirs. *)
LEMMA RowWritten ==
  ASSUME NEW a \in Account, NEW p \in Password, NEW l \in Switch,
         NEW d \in Switch, NEW n \in Nat
  PROVE  /\ [a EXCEPT !.attempts = n, !.timed = d] \in Account
         /\ [a EXCEPT !.password = p, !.locked = l, !.timed = d] \in Account
         /\ [a EXCEPT !.timed = d] \in Account
  BY DEF Account

(* Every step keeps them. *)
LEMMA StepTypeOK == TypeOK /\ [Next]_vars => TypeOK'
  <1> SUFFICES ASSUME TypeOK, [Next]_vars PROVE TypeOK'
    OBVIOUS
  <1> USE DEF TypeOK, tokens, request, Goes
  <1>0. NoWish \in Wish
    BY DEF NoWish, Wish
  <1>1. CASE UNCHANGED vars
    BY <1>1 DEF vars
  <1>2. ASSUME NEW q \in Request, NEW u \in User, NEW p \in Password,
               LoginFind(q, u, p)
        PROVE  TypeOK'
    BY <1>0, <1>2 DEF LoginFind, Asking
  <1>3. ASSUME NEW q \in Request, WrongPassword(q) PROVE TypeOK'
    <2>1. /\ account[asked[q].user] \in Account
          /\ seen[q].attempts + 1 \in Nat
          /\ "on" \in Switch
      BY DEF Account, Switch
    <2>2. [account[asked[q].user] EXCEPT !.attempts = seen[q].attempts + 1,
                                         !.timed = "on"] \in Account
      BY <2>1, RowWritten DEF Account
    <2> QED BY <1>3, <2>2 DEF WrongPassword, Is
  <1>4. ASSUME NEW q \in Request, RightPassword(q) PROVE TypeOK'
    <2> DEFINE u == asked[q].user
               n == IF seen[q].attempts = 0 THEN account[u].attempts ELSE 0
    <2>1. /\ u \in User
          /\ account[u] \in Account
          /\ account[u].timed \in Switch
          /\ n \in Nat
          /\ "off" \in Switch
      BY DEF Account, Switch
    <2>2. PICK t \in {account[u].timed, "off"} : account' =
               [account EXCEPT ![u] = [account[u] EXCEPT !.attempts = n, !.timed = t]]
      BY <1>4, <2>1 DEF RightPassword
    <2>3. t \in Switch
      BY <2>1
    <2> HIDE DEF n
    <2>4. [account[u] EXCEPT !.attempts = n, !.timed = t] \in Account
      BY <2>1, <2>3, RowWritten DEF Account
    <2>5. account' \in [User -> Account]
      BY <2>1, <2>2, <2>4
    <2> QED BY <1>4, <2>5 DEF RightPassword
  <1>5. ASSUME NEW q \in Request, NEW t \in Token, SaveToken(q, t) PROVE TypeOK'
    BY <1>5 DEF SaveToken, Is
  <1>6. ASSUME NEW q \in Request, LoginAnswer(q) PROVE TypeOK'
    BY <1>6 DEF LoginAnswer, Is
  <1>7. ASSUME NEW q \in Request, NEW t \in Token, RefreshVerify(q, t)
        PROVE  TypeOK'
    BY <1>0, <1>7, TokenTypes DEF RefreshVerify, Asking
  <1>8. ASSUME NEW q \in Request, NEW t \in Token, RefreshIssue(q, t)
        PROVE  TypeOK'
    BY <1>8 DEF RefreshIssue, Is
  <1>9. ASSUME NEW q \in Request, RefreshBarred(q) PROVE TypeOK'
    BY <1>9 DEF RefreshBarred, Is
  <1>10. ASSUME NEW q \in Request, NEW t \in Token, Logout(q, t) PROVE TypeOK'
    BY <1>0, <1>10, TokenTypes DEF Logout, Asking
  <1>11. ASSUME NEW q \in Request, NEW u \in User, NEW w \in Wishes,
                UpdateFind(q, u, w)
         PROVE  TypeOK'
    BY <1>11, WishTypes DEF UpdateFind, Asking
  <1>12. ASSUME NEW q \in Request, UpdateWrite(q) PROVE TypeOK'
    <2> DEFINE w == asked[q].wish
               u == asked[q].user
               p == IF w.password = "keep" THEN account[u].password ELSE w.password
               l == IF w.locked \in {"keep", seen[q].locked}
                    THEN account[u].locked ELSE w.locked
    <2>1. /\ w.password \in Password \cup {"keep"}
          /\ w.locked \in Switch \cup {"keep"}
          /\ w.timed \in Switch \cup {"keep"}
          /\ u \in User
          /\ account[u] \in Account
          /\ account[u].password \in Password
          /\ account[u].locked \in Switch
          /\ account[u].timed \in Switch
      BY DEF Wish, Account
    <2>2. PICK t \in TimedAfter(q) : account' = [account EXCEPT ![u] =
               [account[u] EXCEPT !.password = p, !.locked = l, !.timed = t]]
      BY <1>12, <2>1 DEF UpdateWrite
    <2>3. t \in Switch
      BY <2>1 DEF TimedAfter, Switch
    <2>4. p \in Password /\ l \in Switch
      BY <2>1
    <2> HIDE DEF p, l
    <2>5. [account[u] EXCEPT !.password = p, !.locked = l, !.timed = t] \in Account
      BY <2>1, <2>3, <2>4, RowWritten DEF Account
    <2>6. account' \in [User -> Account]
      BY <2>1, <2>2, <2>5
    <2> QED BY <1>12, <2>6 DEF UpdateWrite
  <1>13. ASSUME NEW q \in Request, Breaks(q) PROVE TypeOK'
    BY <1>13 DEF Breaks
  <1>14. ASSUME NEW t \in Token, Revoked(t) \/ RevokeFails(t) PROVE TypeOK'
    BY <1>14 DEF Revoked, RevokeFails
  <1>15. ASSUME NEW u \in User, TimePasses(u) PROVE TypeOK'
    <2>1. account[u] \in Account /\ "off" \in Switch
      BY DEF Switch
    <2>2. [account[u] EXCEPT !.timed = "off"] \in Account
      BY <2>1, RowWritten DEF Account
    <2>3. account' = [account EXCEPT ![u] = [account[u] EXCEPT !.timed = "off"]]
      BY <1>15 DEF TimePasses
    <2> QED BY <1>15, <2>2, <2>3 DEF TimePasses
  <1> QED BY <1>1, <1>2, <1>3, <1>4, <1>5, <1>6, <1>7, <1>8, <1>9, <1>10,
             <1>11, <1>12, <1>13, <1>14, <1>15 DEF Next, Login, Refresh, Update

(* Every variable always has its type. *)
THEOREM TypeCorrectness == Spec => []TypeOK
  <1> QED BY InitTypeOK, StepTypeOK, PTL DEF Spec

(* A request once made is not taken back: its arguments and its answer are *)
(* final, so a token that was to be revoked stays one that was.            *)
LEMMA RevocationFinal ==
  ASSUME [Next]_vars, TypeOK, NEW t \in Token, RevocationAsked(t)
  PROVE  RevocationAsked(t)'
  <1>1. PICK q \in Request :
            asked[q].token = t /\ phase[q] \in {"done", "tokens"}
    BY DEF RevocationAsked
  <1>2. asked'[q] = asked[q] /\ phase'[q] = phase[q]
    <2> USE <1>1 DEF TypeOK, Goes, Is, request
    <2>1. CASE UNCHANGED vars
      BY <2>1 DEF vars
    <2>2. ASSUME NEW r \in Request, Login(r)
          PROVE  asked'[q] = asked[q] /\ phase'[q] = phase[q]
      BY <2>2 DEF Login, LoginFind, WrongPassword, RightPassword, SaveToken,
                  LoginAnswer
    <2>3. ASSUME NEW r \in Request, Refresh(r)
          PROVE  asked'[q] = asked[q] /\ phase'[q] = phase[q]
      BY <2>3 DEF Refresh, RefreshVerify, RefreshIssue, RefreshBarred
    <2>4. ASSUME NEW r \in Request, NEW o \in Token, Logout(r, o)
          PROVE  asked'[q] = asked[q] /\ phase'[q] = phase[q]
      BY <2>4 DEF Logout
    <2>5. ASSUME NEW r \in Request, Update(r)
          PROVE  asked'[q] = asked[q] /\ phase'[q] = phase[q]
      BY <2>5 DEF Update, UpdateFind, UpdateWrite
    <2>6. ASSUME NEW r \in Request, Breaks(r)
          PROVE  asked'[q] = asked[q] /\ phase'[q] = phase[q]
      BY <2>6 DEF Breaks, Answered
    <2>7. ASSUME NEW o \in Token, Revoked(o) \/ RevokeFails(o)
          PROVE  asked'[q] = asked[q] /\ phase'[q] = phase[q]
      BY <2>7 DEF Revoked, RevokeFails
    <2>8. ASSUME NEW u \in User, TimePasses(u)
          PROVE  asked'[q] = asked[q] /\ phase'[q] = phase[q]
      BY <2>8 DEF TimePasses
    <2> QED BY <2>1, <2>2, <2>3, <2>4, <2>5, <2>6, <2>7, <2>8 DEF Next
  <1> QED BY <1>1, <1>2 DEF RevocationAsked

(* How each step may touch the whitelist: it only gains a token that was   *)
(* not signed before, and only loses one whose deletion is under way.      *)
LEMMA WhitelistSteps ==
  ASSUME [Next]_vars, TypeOK
  PROVE  /\ issued \subseteq issued'
         /\ whitelist' \cap issued \subseteq whitelist
         /\ whitelist \ revoking \subseteq whitelist'
  <1> USE DEF TypeOK, tokens
  <1>1. CASE UNCHANGED vars
    BY <1>1 DEF vars
  <1>2. ASSUME NEW q \in Request, Login(q)
        PROVE  /\ issued \subseteq issued'
               /\ whitelist' \cap issued \subseteq whitelist
               /\ whitelist \ revoking \subseteq whitelist'
    BY <1>2 DEF Login, LoginFind, WrongPassword, RightPassword, SaveToken,
                LoginAnswer
  <1>3. ASSUME NEW q \in Request, Refresh(q)
        PROVE  issued \subseteq issued' /\ whitelist' = whitelist
    BY <1>3 DEF Refresh, RefreshVerify, RefreshIssue, RefreshBarred
  <1>4. ASSUME NEW q \in Request, NEW t \in Token, Logout(q, t)
        PROVE  issued' = issued /\ whitelist' = whitelist
    BY <1>4 DEF Logout
  <1>5. ASSUME NEW q \in Request, Update(q) \/ Breaks(q)
        PROVE  issued' = issued /\ whitelist' = whitelist
    BY <1>5 DEF Update, UpdateFind, UpdateWrite, Breaks
  <1>6. ASSUME NEW t \in Token, Revoked(t) \/ RevokeFails(t)
        PROVE  /\ issued \subseteq issued'
               /\ whitelist' \cap issued \subseteq whitelist
               /\ whitelist \ revoking \subseteq whitelist'
    BY <1>6 DEF Revoked, RevokeFails
  <1>7. ASSUME NEW u \in User, TimePasses(u)
        PROVE  issued' = issued /\ whitelist' = whitelist
    BY <1>7 DEF TimePasses
  <1> QED BY <1>1, <1>2, <1>3, <1>4, <1>5, <1>6, <1>7 DEF Next

(* What a login has signed is fixed once it is saved. *)
LEMMA LoginSigns ==
  ASSUME [Next]_vars, TypeOK, NEW q \in Request,
         asked'[q].op = "login", phase'[q] \in {"saved", "tokens"}
  PROVE  \/ /\ asked[q].op = "login" /\ phase[q] \in {"saved", "tokens"}
            /\ got'[q] = got[q]
         \/ got'[q] \in issued' /\ got'[q] \in whitelist'
  <1> DEFINE Old == /\ asked[q].op = "login" /\ phase[q] \in {"saved", "tokens"}
                    /\ got'[q] = got[q]
             New == got'[q] \in issued' /\ got'[q] \in whitelist'
  <1> USE DEF TypeOK, Goes, Is, request, Asking
  <1>1. CASE UNCHANGED vars
    BY <1>1 DEF vars
  <1>2. ASSUME NEW r \in Request, Login(r) PROVE Old \/ New
    <2>1. CASE \E u \in User, p \in Password : LoginFind(r, u, p)
      BY <2>1 DEF LoginFind
    <2>2. CASE WrongPassword(r) \/ RightPassword(r)
      BY <2>2 DEF WrongPassword, RightPassword
    <2>3. CASE \E t \in Token : SaveToken(r, t)
      BY <2>3 DEF SaveToken
    <2>4. CASE LoginAnswer(r)
      BY <2>4 DEF LoginAnswer
    <2> QED BY <1>2, <2>1, <2>2, <2>3, <2>4 DEF Login
  <1>3. ASSUME NEW r \in Request, Refresh(r) PROVE Old
    BY <1>3 DEF Refresh, RefreshVerify, RefreshIssue, RefreshBarred
  <1>4. ASSUME NEW r \in Request, NEW t \in Token, Logout(r, t) PROVE Old
    BY <1>4 DEF Logout
  <1>5. ASSUME NEW r \in Request, Update(r) \/ Breaks(r) PROVE Old
    BY <1>5 DEF Update, UpdateFind, UpdateWrite, Breaks
  <1>6. ASSUME NEW t \in Token, Revoked(t) \/ RevokeFails(t) PROVE Old
    BY <1>6 DEF Revoked, RevokeFails
  <1>7. ASSUME NEW u \in User, TimePasses(u) PROVE Old
    BY <1>7 DEF TimePasses
  <1> QED BY <1>1, <1>2, <1>3, <1>4, <1>5, <1>6, <1>7 DEF Next

(* A deletion gets under way only with the answer to a refresh or a logout *)
(* that names the token.                                                   *)
LEMMA RevokingAsked ==
  ASSUME [Next]_vars, TypeOK, NEW t \in revoking', t \notin revoking
  PROVE  RevocationAsked(t)'
  <1> USE DEF TypeOK, Goes, Is, tokens, request, Asking
  <1>1. CASE UNCHANGED vars
    BY <1>1 DEF vars
  <1>2. ASSUME NEW q \in Request,
               Login(q) \/ Update(q) \/ Breaks(q)
        PROVE  revoking' = revoking
    BY <1>2 DEF Login, LoginFind, WrongPassword, RightPassword, SaveToken,
                LoginAnswer, Update, UpdateFind, UpdateWrite, Breaks
  <1>3. ASSUME NEW q \in Request, NEW o \in Token, RefreshIssue(q, o)
        PROVE  RevocationAsked(t)'
    <2>1. t = asked[q].token
      BY <1>3 DEF RefreshIssue
    <2>2. asked'[q].token = t /\ phase'[q] = "tokens"
      BY <1>3, <2>1 DEF RefreshIssue
    <2> QED BY <2>2 DEF RevocationAsked
  <1>4. ASSUME NEW q \in Request, NEW o \in Token,
               RefreshVerify(q, o) \/ RefreshBarred(q)
        PROVE  revoking' = revoking
    BY <1>4 DEF RefreshVerify, RefreshBarred
  <1>5. ASSUME NEW q \in Request, NEW o \in Token, Logout(q, o)
        PROVE  RevocationAsked(t)'
    <2>1. t = o
      BY <1>5 DEF Logout
    <2>2. asked'[q].token = t /\ phase'[q] = "done"
      BY <1>5, <2>1 DEF Logout
    <2> QED BY <2>2 DEF RevocationAsked
  <1>6. ASSUME NEW o \in Token, Revoked(o) \/ RevokeFails(o)
        PROVE  revoking' \subseteq revoking
    BY <1>6 DEF Revoked, RevokeFails
  <1>7. ASSUME NEW u \in User, TimePasses(u) PROVE revoking' = revoking
    BY <1>7 DEF TimePasses
  <1>8. ASSUME NEW q \in Request, RefreshBarred(q) PROVE revoking' = revoking
    BY <1>8 DEF RefreshBarred
  <1> QED BY <1>1, <1>2, <1>3, <1>4, <1>5, <1>6, <1>7, <1>8 DEF Next, Refresh

(* What a request that moves adds to the tokens that clients gave up.      *)
LEMMA SurrenderedStep ==
  ASSUME NEW q \in Request, phase[q] \notin {"done", "tokens"},
         \A r \in Request \ {q} : asked'[r] = asked[r] /\ phase'[r] = phase[r]
  PROVE  Surrendered' = Surrendered \cup
             {t \in Token : asked'[q].token = t /\ phase'[q] \in {"done", "tokens"}}
  BY DEF Surrendered, RevocationAsked

(* A request that signs no token leaves those of the logins as they are.   *)
LEMMA FromLoginsStep ==
  ASSUME TypeOK, ListInv, NEW q \in Request, issued' = issued, got' = got,
         asked'[q].op = asked[q].op \/ phase[q] = "new",
         \A r \in Request \ {q} : asked'[r] = asked[r]
  PROVE  FromLogins' = FromLogins
  <1>1. \A t \in issued : t # NoToken
    BY TokenTypes DEF TypeOK
  <1>2. CASE phase[q] = "new"
    <2>1. got[q] = NoToken
      BY <1>2 DEF ListInv
    <2> QED BY <1>1, <2>1 DEF FromLogins
  <1>3. CASE asked'[q].op = asked[q].op
    BY <1>3 DEF FromLogins
  <1> QED BY <1>2, <1>3

(* Steps that sign nothing, present nothing and take nothing off the list. *)
Quiet(q) ==
    \/ \E u \in User, p \in Password : LoginFind(q, u, p)
    \/ WrongPassword(q) \/ RightPassword(q) \/ LoginAnswer(q)
    \/ \E t \in Token : RefreshVerify(q, t)
    \/ RefreshBarred(q) \/ Update(q) \/ Breaks(q)

LEMMA QuietSteps ==
  ASSUME TypeOK, ListInv, NEW q \in Request, Quiet(q)
  PROVE  /\ UNCHANGED <<issued, whitelist, got>>
         /\ FromLogins' = FromLogins /\ Surrendered' = Surrendered
  <1> USE DEF TypeOK, Goes, Is, Asking, tokens
  <1>1. /\ UNCHANGED <<issued, whitelist, got>>
        /\ phase[q] \notin {"done", "tokens"}
        /\ asked'[q].op = asked[q].op \/ phase[q] = "new"
        /\ \A r \in Request \ {q} : asked'[r] = asked[r] /\ phase'[r] = phase[r]
        /\ asked'[q].token = NoToken \/ phase'[q] \notin {"done", "tokens"}
    <2> DEFINE Shape ==
           /\ UNCHANGED <<issued, whitelist, got>>
           /\ phase[q] \notin {"done", "tokens"}
           /\ asked'[q].op = asked[q].op \/ phase[q] = "new"
           /\ \A r \in Request \ {q} : asked'[r] = asked[r] /\ phase'[r] = phase[r]
           /\ asked'[q].token = NoToken \/ phase'[q] \notin {"done", "tokens"}
    <2>1. ASSUME NEW u \in User, NEW p \in Password, LoginFind(q, u, p) PROVE Shape
      BY <2>1 DEF LoginFind
    <2>2. CASE WrongPassword(q)
      BY <2>2 DEF WrongPassword
    <2>3. CASE RightPassword(q)
      BY <2>3 DEF RightPassword
    <2>4. CASE LoginAnswer(q)
      <3>1. asked[q].token = NoToken
        BY <2>4 DEF ListInv, LoginAnswer
      <3> QED BY <2>4, <3>1 DEF LoginAnswer
    <2>5. ASSUME NEW t \in Token, RefreshVerify(q, t) PROVE Shape
      BY <2>5 DEF RefreshVerify
    <2>6. CASE RefreshBarred(q)
      BY <2>6 DEF RefreshBarred
    <2>7. ASSUME NEW u \in User, NEW w \in Wishes, UpdateFind(q, u, w) PROVE Shape
      BY <2>7 DEF UpdateFind
    <2>8. CASE UpdateWrite(q)
      <3>1. asked[q].token = NoToken
        BY <2>8 DEF ListInv, UpdateWrite
      <3> QED BY <2>8, <3>1 DEF UpdateWrite
    <2>9. CASE Breaks(q)
      BY <2>9 DEF Breaks, Answered
    <2> QED BY <2>1, <2>2, <2>3, <2>4, <2>5, <2>6, <2>7, <2>8, <2>9
           DEF Quiet, Update
  <1>2. FromLogins' = FromLogins
    BY <1>1, FromLoginsStep
  <1>3. Surrendered' = Surrendered
    <2>1. {t \in Token : asked'[q].token = t /\ phase'[q] \in {"done", "tokens"}} = {}
      BY <1>1, TokenTypes
    <2>2. Surrendered' = Surrendered \cup
              {t \in Token : asked'[q].token = t /\ phase'[q] \in {"done", "tokens"}}
      BY <1>1, SurrenderedStep
    <2> QED BY <2>1, <2>2
  <1> QED BY <1>1, <1>2, <1>3

(* A login that signs a token adds it to those of the logins. *)
LEMMA SaveTokenStep ==
  ASSUME TypeOK, ListInv, NEW q \in Request, NEW t \in Token, SaveToken(q, t)
  PROVE  /\ FromLogins' = FromLogins \cup {t}
         /\ Surrendered' = Surrendered
  <1> USE DEF TypeOK, Goes, Is, SaveToken
  <1>1. FromLogins' = FromLogins \cup {t}
    <2>1. got'[q] = t /\ asked'[q].op = "login" /\ asked' = asked
          /\ \A r \in Request \ {q} : got'[r] = got[r]
      OBVIOUS
    <2>2. ASSUME NEW x \in FromLogins PROVE x \in FromLogins'
      <3>1. PICK r \in Request : asked[r].op = "login" /\ got[r] = x /\ x \in issued
        BY DEF FromLogins
      <3>2. CASE r # q
        BY <2>1, <3>1, <3>2 DEF FromLogins
      <3>3. CASE r = q
        <4>1. phase[q] = "reset" /\ got[q] # NoToken
          BY <3>1, <3>3, TokenTypes
        <4> QED BY <4>1 DEF ListInv
      <3> QED BY <3>2, <3>3
    <2> QED BY <2>1, <2>2 DEF FromLogins
  <1>2. Surrendered' = Surrendered
    <2>1. {x \in Token : asked'[q].token = x /\ phase'[q] \in {"done", "tokens"}} = {}
      OBVIOUS
    <2>2. Surrendered' = Surrendered \cup
              {x \in Token : asked'[q].token = x /\ phase'[q] \in {"done", "tokens"}}
      BY SurrenderedStep
    <2> QED BY <2>1, <2>2
  <1> QED BY <1>1, <1>2

(* A refresh signs a token that is not a login's, and surrenders its own.  *)
LEMMA RefreshIssueStep ==
  ASSUME TypeOK, ListInv, NEW q \in Request, NEW t \in Token, RefreshIssue(q, t)
  PROVE  /\ FromLogins' = FromLogins
         /\ Surrendered' = Surrendered \cup {asked[q].token}
  <1> USE DEF TypeOK, Goes, Is, RefreshIssue
  <1>1. FromLogins' = FromLogins
    <2>1. /\ asked[q].op = "refresh" /\ asked' = asked /\ t \notin issued
          /\ \A r \in Request \ {q} : got'[r] = got[r]
          /\ \A r \in Request : got[r] # NoToken => got[r] \in issued
      BY DEF ListInv
    <2>2. t # NoToken
      BY TokenTypes
    <2> QED BY <2>1, <2>2 DEF FromLogins
  <1>2. Surrendered' = Surrendered \cup {asked[q].token}
    <2>1. asked[q].token \in Token
      <3>1. asked[q].token # NoToken
        OBVIOUS
      <3> QED BY <3>1
    <2>2. {x \in Token : asked'[q].token = x /\ phase'[q] \in {"done", "tokens"}}
              = {asked[q].token}
      BY <2>1
    <2> QED BY <2>2, SurrenderedStep
  <1> QED BY <1>1, <1>2

LEMMA LogoutStep ==
  ASSUME TypeOK, ListInv, NEW q \in Request, NEW t \in Token, Logout(q, t)
  PROVE  /\ t \in issued
         /\ UNCHANGED <<issued, whitelist, got>>
         /\ FromLogins' = FromLogins
         /\ Surrendered' = Surrendered \cup {t}
  <1> USE DEF TypeOK, Goes, Is, Logout, Asking
  <1>1. t \in issued
    BY TokenTypes DEF Handed, ListInv
  <1>2. FromLogins' = FromLogins
    BY FromLoginsStep
  <1>3. Surrendered' = Surrendered \cup {t}
    <2>1. {x \in Token : asked'[q].token = x /\ phase'[q] \in {"done", "tokens"}}
              = {t}
      OBVIOUS
    <2> QED BY <2>1, SurrenderedStep
  <1> QED BY <1>1, <1>2, <1>3

(* A deletion that ends, one way or the other, changes no request. *)
LEMMA DeletionStep ==
  ASSUME NEW t \in Token, Revoked(t) \/ RevokeFails(t)
  PROVE  /\ FromLogins' = FromLogins /\ Surrendered' = Surrendered
         /\ UNCHANGED <<issued, request>>
  BY DEF Revoked, RevokeFails, FromLogins, Surrendered, RevocationAsked, request

(* Who is on the list, and what was presented, stays as ListInv says. *)
LEMMA StepListInv ==
  ASSUME TypeOK, ListInv, [Next]_vars
  PROVE  ListInv'
  <1> USE DEF TypeOK, Goes, Is, Asking, tokens
  <1> DEFINE P(q) ==
        /\ got[q] # NoToken =>
               got[q] \in issued /\ phase[q] \in {"saved", "tokens", "broken"}
        /\ asked[q].token # NoToken =>
               asked[q].token \in issued /\ asked[q].op \in {"refresh", "logout"}
        /\ Is(q, "refresh", "verified") =>
               /\ asked[q].token \in FromLogins
               /\ asked[q].user = UserOf[asked[q].token]
  <1>0. whitelist \subseteq FromLogins /\ \A q \in Request : P(q)
    BY DEF ListInv
  <1> SUFFICES whitelist' \subseteq FromLogins' /\ \A q \in Request : P(q)'
    BY DEF ListInv
  <1>1. CASE UNCHANGED vars
    BY <1>0, <1>1 DEF vars, request, FromLogins
  <1>2. ASSUME NEW q \in Request, Quiet(q)
        PROVE  whitelist' \subseteq FromLogins' /\ \A r \in Request : P(r)'
    <2>1. /\ UNCHANGED <<issued, whitelist, got>>
          /\ FromLogins' = FromLogins
      BY <1>2, QuietSteps
    <2>2. \A r \in Request \ {q} : asked'[r] = asked[r] /\ phase'[r] = phase[r]
      BY <1>2 DEF Quiet, LoginFind, WrongPassword, RightPassword, LoginAnswer,
                  RefreshVerify, RefreshBarred, Update, UpdateFind, UpdateWrite,
                  Breaks
    <2>3. P(q)'
      <3> HIDE DEF P
      <3>0. P(q)
        BY <1>0
      <3>1. ASSUME NEW u \in User, NEW p \in Password, LoginFind(q, u, p)
            PROVE  P(q)'
        BY <2>1, <3>0, <3>1 DEF LoginFind, P
      <3>2. CASE WrongPassword(q)
        BY <2>1, <3>0, <3>2 DEF WrongPassword, P
      <3>3. CASE RightPassword(q)
        BY <2>1, <3>0, <3>3 DEF RightPassword, P
      <3>4. CASE LoginAnswer(q)
        BY <2>1, <3>0, <3>4 DEF LoginAnswer, P
      <3>5. ASSUME NEW t \in Token, RefreshVerify(q, t) PROVE P(q)'
        <4>1. t \in issued
          BY <1>0, <3>5, TokenTypes DEF RefreshVerify, Handed, ListInv
        <4> QED BY <1>0, <2>1, <3>0, <3>5, <4>1 DEF RefreshVerify, P
      <3>6. CASE RefreshBarred(q)
        BY <2>1, <3>0, <3>6 DEF RefreshBarred, P
      <3>7. ASSUME NEW u \in User, NEW w \in Wishes, UpdateFind(q, u, w)
            PROVE  P(q)'
        BY <2>1, <3>0, <3>7 DEF UpdateFind, P
      <3>8. CASE UpdateWrite(q)
        BY <2>1, <3>0, <3>8 DEF UpdateWrite, P
      <3>9. CASE Breaks(q)
        BY <2>1, <3>0, <3>9 DEF Breaks, P
      <3> QED BY <1>2, <3>1, <3>2, <3>3, <3>4, <3>5, <3>6, <3>7, <3>8, <3>9
             DEF Quiet, Update
    <2> QED BY <1>0, <2>1, <2>2, <2>3
  <1>3. ASSUME NEW q \in Request, NEW t \in Token, SaveToken(q, t)
        PROVE  whitelist' \subseteq FromLogins' /\ \A r \in Request : P(r)'
    <2>1. FromLogins' = FromLogins \cup {t}
      BY <1>3, SaveTokenStep
    <2> QED BY <1>0, <1>3, <2>1 DEF SaveToken
  <1>4. ASSUME NEW q \in Request, NEW t \in Token, RefreshIssue(q, t)
        PROVE  whitelist' \subseteq FromLogins' /\ \A r \in Request : P(r)'
    <2>1. FromLogins' = FromLogins
      BY <1>4, RefreshIssueStep
    <2> QED BY <1>0, <1>4, <2>1 DEF RefreshIssue
  <1>5. ASSUME NEW q \in Request, NEW t \in Token, Logout(q, t)
        PROVE  whitelist' \subseteq FromLogins' /\ \A r \in Request : P(r)'
    <2>1. /\ t \in issued /\ FromLogins' = FromLogins
          /\ UNCHANGED <<issued, whitelist, got>>
      BY <1>5, LogoutStep
    <2> QED BY <1>0, <1>5, <2>1 DEF Logout
  <1>6. ASSUME NEW t \in Token, Revoked(t) \/ RevokeFails(t)
        PROVE  whitelist' \subseteq FromLogins' /\ \A r \in Request : P(r)'
    <2>1. FromLogins' = FromLogins /\ UNCHANGED <<issued, request>>
      BY <1>6, DeletionStep
    <2>2. whitelist' \subseteq whitelist
      BY <1>6 DEF Revoked, RevokeFails
    <2> QED BY <1>0, <2>1, <2>2 DEF request
  <1>7. ASSUME NEW u \in User, TimePasses(u)
        PROVE  whitelist' \subseteq FromLogins' /\ \A r \in Request : P(r)'
    BY <1>0, <1>7 DEF TimePasses, request, FromLogins
  <1> QED BY <1>1, <1>2, <1>3, <1>4, <1>5, <1>6, <1>7
         DEF Next, Login, Refresh, Quiet

(* The facts about tokens are inductive. *)
LEMMA StepIInv == IInv /\ [Next]_vars => IInv'
  <1> SUFFICES ASSUME IInv, [Next]_vars PROVE IInv'
    OBVIOUS
  <1>1. TypeOK /\ TypeOK'
    BY StepTypeOK DEF IInv
  <1>4. ListInv'
    BY <1>1, StepListInv DEF IInv
  <1>2. ASSUME NEW t \in revoking' PROVE RevocationAsked(t)'
    <2>1. CASE t \in revoking
      <3>1. t \in Token
        BY <1>1, <2>1 DEF TypeOK
      <3> QED BY <1>1, <2>1, <3>1, RevocationFinal DEF IInv, TokensInv
    <2> QED BY <1>1, <2>1, RevokingAsked
  <1>3. ASSUME NEW q \in Request, asked'[q].op = "login",
               phase'[q] \in {"saved", "tokens"}
        PROVE  /\ got'[q] \in issued'
               /\ got'[q] \in whitelist' \/ RevocationAsked(got[q])'
    <2>1. CASE got'[q] \in issued' /\ got'[q] \in whitelist'
      BY <2>1
    <2>2. CASE /\ asked[q].op = "login" /\ phase[q] \in {"saved", "tokens"}
               /\ got'[q] = got[q]
      <3>1. /\ got[q] \in issued
            /\ got[q] \in whitelist \/ RevocationAsked(got[q])
        BY <2>2 DEF IInv, TokensInv
      <3>2. got[q] \in Token
        BY <1>1, <3>1 DEF TypeOK
      <3>3. got'[q] \in issued'
        BY <1>1, <2>2, <3>1, WhitelistSteps
      <3>4. CASE RevocationAsked(got[q])
        <4>1. PICK t \in Token : t = got[q]
          BY <3>2
        <4>2. RevocationAsked(t)'
          BY <1>1, <3>4, <4>1, RevocationFinal
        <4>3. t = got'[q]
          BY <2>2, <4>1
        <4> QED BY <3>3, <4>2, <4>3 DEF RevocationAsked
      <3>5. CASE got[q] \in whitelist /\ ~RevocationAsked(got[q])
        <4>1. got[q] \notin revoking
          BY <3>5 DEF IInv, TokensInv
        <4> QED BY <1>1, <2>2, <3>3, <3>5, <4>1, WhitelistSteps
      <3> QED BY <3>1, <3>4, <3>5
    <2> QED BY <1>1, <1>3, <2>1, <2>2, LoginSigns
  <1> QED BY <1>1, <1>2, <1>3, <1>4 DEF IInv, TokensInv

(* The invariant about tokens holds in every reachable state. *)
THEOREM Invariance == Spec => []IInv
  <1>1. Init => IInv
    BY InitTypeOK DEF Init, IInv, TokensInv, ListInv, Is, Asking
  <1> QED BY <1>1, StepIInv, PTL DEF Spec

(* The refresh token a login returns is usable until its client gives it   *)
(* up.                                                                     *)
THEOREM LoginTokensListedHolds == Spec => []LoginTokensListed
  <1>1. IInv => LoginTokensListed
    BY DEF IInv, TokensInv, LoginTokensListed
  <1> QED BY <1>1, Invariance, PTL

(* A token that left the whitelist never returns. *)
THEOREM NeverRelistedHolds == Spec => NeverRelisted
  <1>1. TypeOK /\ [Next]_vars =>
            [\A t \in issued : t \notin whitelist => t \notin whitelist']_vars
    BY WhitelistSteps
  <1> QED BY <1>1, TypeCorrectness, PTL DEF Spec, NeverRelisted

(* Each step is a step of the list of tokens, or changes nothing of it.    *)
LEMMA ListStep ==
  ASSUME IInv, [Next]_vars
  PROVE  [List!Next]_<<Standing, Surrendered>>
  <1> USE DEF List!Next, List!Becomes
  <1>1. TypeOK /\ ListInv /\ TokensInv /\ whitelist \subseteq issued
        /\ issued \subseteq Token /\ FromLogins \subseteq issued
    BY DEF IInv, TypeOK, FromLogins
  <1>2. CASE UNCHANGED vars
    BY <1>2 DEF vars, tokens, request, Standing, FromLogins, Surrendered,
                RevocationAsked
  <1>3. ASSUME NEW q \in Request, Quiet(q) PROVE UNCHANGED <<Standing, Surrendered>>
    BY <1>1, <1>3, QuietSteps DEF Standing
  <1>4. ASSUME NEW q \in Request, NEW t \in Token, SaveToken(q, t)
        PROVE  List!List(t)
    <2>1. /\ t \notin issued /\ issued' = issued \cup {t}
          /\ whitelist' = whitelist \cup {t}
      BY <1>4 DEF SaveToken
    <2>2. FromLogins' = FromLogins \cup {t} /\ Surrendered' = Surrendered
      BY <1>1, <1>4, SaveTokenStep
    <2>3. Standing' = [Standing EXCEPT ![t] = "listed"]
      BY <1>1, <2>1, <2>2 DEF Standing
    <2> QED BY <2>1, <2>2, <2>3 DEF List!List, Standing
  <1>5. ASSUME NEW q \in Request, NEW t \in Token, RefreshIssue(q, t)
        PROVE  \E o \in Token : List!Exchange(o, t)
    <2>1. /\ t \notin issued /\ issued' = issued \cup {t}
          /\ whitelist' = whitelist /\ UserOf[t] = asked[q].user
          /\ asked[q].token \in FromLogins
          /\ asked[q].user = UserOf[asked[q].token]
      BY <1>1, <1>5 DEF RefreshIssue, ListInv
    <2>2. FromLogins' = FromLogins /\ Surrendered' = Surrendered \cup {asked[q].token}
      BY <1>1, <1>5, RefreshIssueStep
    <2>3. Standing' = [Standing EXCEPT ![t] = "spare"]
      BY <1>1, <2>1, <2>2 DEF Standing
    <2>4. asked[q].token \in Token /\ Standing[asked[q].token] \in {"listed", "struck"}
      BY <1>1, <2>1 DEF Standing
    <2>5. Standing[t] = "none"
      BY <2>1 DEF Standing
    <2> QED BY <2>1, <2>2, <2>3, <2>4, <2>5 DEF List!Exchange
  <1>6. ASSUME NEW q \in Request, NEW t \in Token, Logout(q, t)
        PROVE  List!Surrender(t)
    <2>1. /\ t \in issued /\ FromLogins' = FromLogins
          /\ UNCHANGED <<issued, whitelist, got>>
          /\ Surrendered' = Surrendered \cup {t}
      BY <1>1, <1>6, LogoutStep
    <2> QED BY <2>1 DEF List!Surrender, Standing
  <1>7. ASSUME NEW t \in Token, Revoked(t) \/ RevokeFails(t)
        PROVE  List!Strike(t) \/ UNCHANGED <<Standing, Surrendered>>
    <2>1. /\ FromLogins' = FromLogins /\ Surrendered' = Surrendered
          /\ issued' = issued
      BY <1>7, DeletionStep
    <2>2. t \in Surrendered
      BY <1>1, <1>7 DEF Revoked, RevokeFails, TokensInv, Surrendered
    <2>3. CASE whitelist' = whitelist
      BY <2>1, <2>3 DEF Standing
    <2>4. CASE whitelist' = whitelist \ {t} /\ t \in whitelist
      <3>1. Standing' = [Standing EXCEPT ![t] = "struck"]
        BY <1>1, <2>1, <2>4 DEF Standing, ListInv
      <3>2. Standing[t] = "listed"
        BY <1>1, <2>4 DEF Standing
      <3> QED BY <2>1, <2>2, <3>1, <3>2 DEF List!Strike
    <2> QED BY <1>7, <2>3, <2>4 DEF Revoked, RevokeFails
  <1>8. ASSUME NEW u \in User, TimePasses(u) PROVE UNCHANGED <<Standing, Surrendered>>
    BY <1>8 DEF TimePasses, tokens, request, Standing, FromLogins, Surrendered,
                RevocationAsked
  <1> QED BY <1>2, <1>3, <1>4, <1>5, <1>6, <1>7, <1>8
         DEF Next, Login, Refresh, Quiet

(* Logins, refreshes, logouts and deletions together implement the list of *)
(* tokens, whatever their order.                                           *)
THEOREM TokenListIsKept == Spec => TokenListSpec
  <1>1. Init => List!Init
    BY DEF Init, List!Init, Standing, Surrendered, RevocationAsked
  <1>2. IInv /\ [Next]_vars => [List!Next]_<<Standing, Surrendered>>
    BY ListStep
  <1> QED BY <1>1, <1>2, Invariance, PTL DEF Spec, TokenListSpec, List!Spec

(* What a step changes in the accounts: a login or the clock leaves        *)
(* passwords and locks alone, an update writes what it was asked to.       *)
LEMMA CredentialSteps ==
  ASSUME [Next]_vars, TypeOK, NEW u \in User
  PROVE  \/ /\ account'[u].password = account[u].password
            /\ account'[u].locked = account[u].locked
         \/ \E q \in Request :
                /\ Is(q, "update", "found") /\ phase'[q] = "done"
                /\ asked[q].user = u
                /\ account'[u].password \in
                       {account[u].password, asked[q].wish.password}
                /\ account'[u].locked \in
                       {account[u].locked, asked[q].wish.locked}
  <1> DEFINE Kept == /\ account'[u].password = account[u].password
                     /\ account'[u].locked = account[u].locked
  <1> USE DEF TypeOK, tokens, request
  <1>0. account \in [User -> Account] /\ account[u] \in Account
    OBVIOUS
  <1>1. CASE UNCHANGED vars
    BY <1>1 DEF vars
  <1>2. ASSUME NEW q \in Request, Login(q) PROVE Kept
    <2>1. CASE WrongPassword(q)
      BY <1>0, <2>1 DEF WrongPassword, Account
    <2>2. CASE RightPassword(q)
      <3> DEFINE v == asked[q].user
                 n == IF seen[q].attempts = 0 THEN account[v].attempts ELSE 0
      <3>1. PICK t \in {account[v].timed, "off"} : account' =
                 [account EXCEPT ![v] = [account[v] EXCEPT !.attempts = n, !.timed = t]]
        BY <2>2 DEF RightPassword
      <3> HIDE DEF n
      <3> QED BY <1>0, <3>1 DEF Account
    <2>3. CASE account' = account
      BY <2>3
    <2> QED BY <1>2, <2>1, <2>2, <2>3 DEF Login, LoginFind, SaveToken, LoginAnswer
  <1>3. ASSUME NEW q \in Request, Refresh(q) PROVE account' = account
    BY <1>3 DEF Refresh, RefreshVerify, RefreshIssue, RefreshBarred
  <1>4. ASSUME NEW q \in Request, NEW t \in Token, Logout(q, t)
        PROVE  account' = account
    BY <1>4 DEF Logout
  <1>5. ASSUME NEW q \in Request, NEW v \in User, NEW w \in Wishes,
               UpdateFind(q, v, w)
        PROVE  account' = account
    BY <1>5 DEF UpdateFind
  <1>6. ASSUME NEW q \in Request, UpdateWrite(q)
        PROVE  \/ Kept
               \/ /\ Is(q, "update", "found") /\ phase'[q] = "done"
                  /\ asked[q].user = u
                  /\ account'[u].password \in
                         {account[u].password, asked[q].wish.password}
                  /\ account'[u].locked \in
                         {account[u].locked, asked[q].wish.locked}
    <2> DEFINE w == asked[q].wish
               v == asked[q].user
               p == IF w.password = "keep" THEN account[v].password ELSE w.password
               l == IF w.locked \in {"keep", seen[q].locked}
                    THEN account[v].locked ELSE w.locked
    <2>1. Is(q, "update", "found") /\ phase'[q] = "done"
      BY <1>6 DEF UpdateWrite, Goes
    <2>2. PICK t \in TimedAfter(q) : account' = [account EXCEPT ![v] =
               [account[v] EXCEPT !.password = p, !.locked = l, !.timed = t]]
      BY <1>6 DEF UpdateWrite
    <2>3. p \in {account[v].password, w.password} /\ l \in {account[v].locked, w.locked}
      OBVIOUS
    <2> HIDE DEF p, l
    <2>4. CASE v = u
      <3>1. account'[u].password = p /\ account'[u].locked = l
        BY <1>0, <2>2, <2>4 DEF Account
      <3> QED BY <2>1, <2>3, <2>4, <3>1
    <2>5. CASE v # u
      <3>1. account'[u] = account[u]
        BY <1>0, <2>2, <2>5
      <3> QED BY <3>1
    <2> QED BY <2>4, <2>5
  <1>7. ASSUME NEW q \in Request, Breaks(q) PROVE account' = account
    BY <1>7 DEF Breaks
  <1>8. ASSUME NEW t \in Token, Revoked(t) \/ RevokeFails(t)
        PROVE  account' = account
    BY <1>8 DEF Revoked, RevokeFails
  <1>9. ASSUME NEW v \in User, TimePasses(v) PROVE Kept
    BY <1>0, <1>9 DEF TimePasses, Account
  <1> QED BY <1>1, <1>2, <1>3, <1>4, <1>5, <1>6, <1>7, <1>8, <1>9 DEF Next, Update

(* Passwords and locks change only when an update asks for it. *)
THEOREM OnlyUpdatesTouchCredentialsHolds == Spec => OnlyUpdatesTouchCredentials
  <1> DEFINE Step(u) ==
        \/ /\ account'[u].password = account[u].password
           /\ account'[u].locked = account[u].locked
        \/ \E q \in Request :
               /\ Is(q, "update", "found") /\ phase'[q] = "done"
               /\ asked[q].user = u
               /\ account'[u].password \in
                      {account[u].password, asked[q].wish.password}
               /\ account'[u].locked \in
                      {account[u].locked, asked[q].wish.locked}
  <1>1. TypeOK /\ [Next]_vars => [\A u \in User : Step(u)]_vars
    BY CredentialSteps
  <1> QED BY <1>1, TypeCorrectness, PTL DEF Spec, OnlyUpdatesTouchCredentials

(* No login that failed is forgotten, and one that fails is one more.      *)
LEMMA DeniedGrow ==
  ASSUME TypeOK, [Next]_vars, NEW u \in User
  PROVE  /\ Cardinality(Denied(u)) \in Nat /\ Cardinality(Denied(u)') \in Nat
         /\ Cardinality(Denied(u)) <= Cardinality(Denied(u)')
         /\ \A q \in Request :
                WrongPassword(q) /\ asked[q].user = u =>
                    Cardinality(Denied(u)) + 1 <= Cardinality(Denied(u)')
  <1> USE DEF TypeOK, Goes, Is, tokens, request
  <1>1. Denied(u) \subseteq Request /\ Denied(u)' \subseteq Request
    BY DEF Denied
  <1>2. IsFiniteSet(Denied(u)) /\ IsFiniteSet(Denied(u)')
    BY <1>1, FiniteRequests, FS_Subset
  <1>3. ASSUME NEW q \in Denied(u) PROVE q \in Denied(u)'
    <2>1. q \in Request /\ phase[q] = "denied" /\ asked[q].op = "login"
          /\ asked[q].user = u
      BY DEF Denied
    <2>2. phase'[q] = phase[q] /\ asked'[q] = asked[q]
      <3>1. CASE UNCHANGED vars
        BY <3>1 DEF vars
      <3>2. ASSUME NEW r \in Request, Login(r)
            PROVE  phase'[q] = phase[q] /\ asked'[q] = asked[q]
        BY <2>1, <3>2 DEF Login, LoginFind, WrongPassword, RightPassword,
                          SaveToken, LoginAnswer
      <3>3. ASSUME NEW r \in Request, Refresh(r)
            PROVE  phase'[q] = phase[q] /\ asked'[q] = asked[q]
        BY <2>1, <3>3 DEF Refresh, RefreshVerify, RefreshIssue, RefreshBarred
      <3>4. ASSUME NEW r \in Request, NEW t \in Token, Logout(r, t)
            PROVE  phase'[q] = phase[q] /\ asked'[q] = asked[q]
        BY <2>1, <3>4 DEF Logout
      <3>5. ASSUME NEW r \in Request, Update(r)
            PROVE  phase'[q] = phase[q] /\ asked'[q] = asked[q]
        BY <2>1, <3>5 DEF Update, UpdateFind, UpdateWrite
      <3>6. ASSUME NEW r \in Request, Breaks(r)
            PROVE  phase'[q] = phase[q] /\ asked'[q] = asked[q]
        BY <2>1, <3>6 DEF Breaks, Answered
      <3>7. ASSUME NEW t \in Token, Revoked(t) \/ RevokeFails(t)
            PROVE  phase'[q] = phase[q] /\ asked'[q] = asked[q]
        BY <3>7 DEF Revoked, RevokeFails
      <3>8. ASSUME NEW v \in User, TimePasses(v)
            PROVE  phase'[q] = phase[q] /\ asked'[q] = asked[q]
        BY <3>8 DEF TimePasses
      <3> QED BY <3>1, <3>2, <3>3, <3>4, <3>5, <3>6, <3>7, <3>8 DEF Next
    <2> QED BY <2>1, <2>2 DEF Denied
  <1>4. Denied(u) \subseteq Denied(u)'
    BY <1>3
  <1>5. /\ Cardinality(Denied(u)) \in Nat /\ Cardinality(Denied(u)') \in Nat
        /\ Cardinality(Denied(u)) <= Cardinality(Denied(u)')
    BY <1>2, <1>4, FS_CardinalityType, FS_Subset
  <1>6. ASSUME NEW q \in Request, WrongPassword(q), asked[q].user = u
        PROVE  Cardinality(Denied(u)) + 1 <= Cardinality(Denied(u)')
    <2>1. q \notin Denied(u)
      BY <1>6 DEF Denied, WrongPassword
    <2>2. q \in Denied(u)'
      BY <1>6 DEF Denied, WrongPassword
    <2>3. Denied(u) \cup {q} \subseteq Denied(u)'
      BY <1>4, <2>2
    <2>4. Cardinality(Denied(u) \cup {q}) = Cardinality(Denied(u)) + 1
          /\ Cardinality(Denied(u) \cup {q}) <= Cardinality(Denied(u)')
      BY <1>2, <2>1, <2>3, FS_AddElement, FS_Subset
    <2> QED BY <2>4
  <1> QED BY <1>5, <1>6

(* What is written to a counter, or copied from it, is bounded.            *)
LEMMA StepCountInv == TypeOK /\ CountInv /\ [Next]_vars => CountInv'
  <1> SUFFICES ASSUME TypeOK, CountInv, [Next]_vars PROVE CountInv'
    OBVIOUS
  <1> DEFINE C(u) == Cardinality(Denied(u))
  <1>1. \A u \in User : /\ C(u) \in Nat /\ C(u)' \in Nat /\ C(u) <= C(u)'
                        /\ account[u].attempts \in Nat /\ account[u].attempts <= C(u)
    BY DeniedGrow DEF TypeOK, Account, CountInv, AttemptsBounded
  <1>2. \A q \in Request : /\ asked[q].user \in User /\ seen[q].attempts \in Nat
                           /\ Is(q, "login", "found") =>
                                  seen[q].attempts <= C(asked[q].user)
    BY DEF TypeOK, Account, CountInv
  <1>3. \A u \in User : account'[u].attempts \in Nat /\ account'[u].attempts <= C(u)'
    <2> SUFFICES ASSUME NEW u \in User
                 PROVE  account'[u].attempts \in Nat /\ account'[u].attempts <= C(u)'
      OBVIOUS
    <2> HIDE DEF C
    <2>1. CASE account'[u].attempts \in {0, account[u].attempts}
      BY <1>1, <2>1
    <2>2. ASSUME NEW q \in Request, WrongPassword(q), asked[q].user = u
          PROVE  account'[u].attempts \in Nat /\ account'[u].attempts <= C(u)'
      <3>1. account'[u].attempts = seen[q].attempts + 1
        BY <1>2, <2>2 DEF WrongPassword, TypeOK, Account
      <3>2. C(u) + 1 <= C(u)'
        BY <2>2, DeniedGrow DEF C
      <3> QED BY <1>1, <1>2, <2>2, <3>1, <3>2 DEF WrongPassword
    <2>3. ASSUME NEW q \in Request, WrongPassword(q), asked[q].user # u
          PROVE  account'[u].attempts = account[u].attempts
      BY <1>2, <2>3 DEF WrongPassword, TypeOK
    <2>4. ASSUME NEW q \in Request, RightPassword(q)
          PROVE  account'[u].attempts \in {0, account[u].attempts}
      <3> DEFINE v == asked[q].user
                 n == IF seen[q].attempts = 0 THEN account[v].attempts ELSE 0
      <3>1. PICK t \in {account[v].timed, "off"} : account' =
                 [account EXCEPT ![v] = [account[v] EXCEPT !.attempts = n, !.timed = t]]
        BY <2>4 DEF RightPassword
      <3>2. n \in {0, account[v].attempts}
        OBVIOUS
      <3> HIDE DEF n
      <3>3. CASE v = u
        BY <1>1, <3>1, <3>2, <3>3 DEF TypeOK, Account
      <3>4. CASE v # u
        BY <1>2, <3>1, <3>4 DEF TypeOK
      <3> QED BY <3>3, <3>4
    <2>5. ASSUME NEW q \in Request, UpdateWrite(q)
          PROVE  account'[u].attempts = account[u].attempts
      BY <1>2, <2>5 DEF UpdateWrite, TypeOK, Account
    <2>6. ASSUME NEW v \in User, TimePasses(v)
          PROVE  account'[u].attempts = account[u].attempts
      BY <2>6 DEF TimePasses, TypeOK, Account
    <2>7. CASE account' = account
      BY <2>1, <2>7
    <2> QED BY <2>1, <2>2, <2>3, <2>4, <2>5, <2>6, <2>7
         DEF Next, Login, LoginFind, SaveToken, LoginAnswer, Refresh, RefreshVerify,
             RefreshIssue, RefreshBarred, Logout, Update, UpdateFind, Breaks,
             Revoked, RevokeFails, vars
  <1>4. ASSUME NEW q \in Request, asked'[q].op = "login", phase'[q] = "found",
               NEW u \in User, u = asked'[q].user
        PROVE  seen'[q].attempts <= C(u)'
    <2> USE DEF TypeOK, Goes, Is, tokens, request
    <2> DEFINE Found == \/ /\ Is(q, "login", "found")
                           /\ asked'[q] = asked[q] /\ seen'[q] = seen[q]
                        \/ seen'[q] = account[u]
    <2>1. ASSUME UNCHANGED vars PROVE Found
      BY <1>4, <2>1 DEF vars
    <2>2. ASSUME NEW r \in Request, Login(r) PROVE Found
      <3>1. ASSUME NEW v \in User, NEW w \in Password, LoginFind(r, v, w)
            PROVE  Found
        BY <1>4, <3>1 DEF LoginFind, Asking
      <3> QED BY <1>4, <2>2, <3>1
             DEF Login, WrongPassword, RightPassword, SaveToken, LoginAnswer
    <2>3. ASSUME NEW r \in Request, Refresh(r) PROVE Found
      BY <1>4, <2>3 DEF Refresh, RefreshVerify, RefreshIssue, RefreshBarred, Asking
    <2>4. ASSUME NEW r \in Request, NEW t \in Token, Logout(r, t) PROVE Found
      BY <1>4, <2>4 DEF Logout
    <2>5. ASSUME NEW r \in Request, Update(r) PROVE Found
      <3>1. ASSUME NEW v \in User, NEW w \in Wishes, UpdateFind(r, v, w)
            PROVE  Found
        BY <1>4, <3>1 DEF UpdateFind, Asking
      <3>2. ASSUME UpdateWrite(r) PROVE Found
        <4>1. phase'[r] = "done" /\ asked' = asked /\ seen' = seen
              /\ \A s \in Request \ {r} : phase'[s] = phase[s]
          BY <3>2 DEF UpdateWrite
        <4> QED BY <1>4, <4>1
      <3> QED BY <2>5, <3>1, <3>2 DEF Update
    <2>6. ASSUME NEW r \in Request, Breaks(r) PROVE Found
      BY <1>4, <2>6 DEF Breaks
    <2>7. ASSUME NEW t \in Token, Revoked(t) \/ RevokeFails(t) PROVE Found
      BY <1>4, <2>7 DEF Revoked, RevokeFails
    <2>8. ASSUME NEW v \in User, TimePasses(v) PROVE Found
      BY <1>4, <2>8 DEF TimePasses
    <2>9. Found
      BY <1>4, <2>1, <2>2, <2>3, <2>4, <2>5, <2>6, <2>7, <2>8 DEF Next, vars
    <2> HIDE DEF C
    <2> QED BY <1>1, <1>2, <1>4, <2>9
  <1>5. \A q \in Request : asked'[q].op = "login" /\ phase'[q] = "found" =>
            asked'[q].user \in User
    BY StepTypeOK DEF TypeOK
  <1>6. \A q \in Request : asked'[q].op = "login" /\ phase'[q] = "found" =>
            seen'[q].attempts <=
                Cardinality({r \in Request : /\ asked'[r].op = "login"
                                             /\ phase'[r] = "denied"
                                             /\ asked'[r].user = asked'[q].user})
    BY <1>4, <1>5 DEF Denied, Is
  <1> QED BY <1>3, <1>6 DEF CountInv, AttemptsBounded, Denied, Is

(* However many stale copies there are, no counter exceeds the failures.   *)
THEOREM AttemptsBoundedHolds == Spec => []AttemptsBounded
  <1>1. Init => CountInv
    <2> SUFFICES ASSUME Init PROVE CountInv
      OBVIOUS
    <2>1. TypeOK
      BY InitTypeOK
    <2>2. \A u \in User : account[u].attempts = 0 /\ Denied(u) = {}
      BY DEF Init, Denied, Is
    <2>3. Cardinality({}) = 0
      BY FS_EmptySet
    <2> QED BY <2>2, <2>3 DEF CountInv, AttemptsBounded, Is, Init
  <1>2. CountInv => AttemptsBounded
    BY DEF CountInv
  <1> QED BY <1>1, <1>2, TypeCorrectness, StepCountInv, PTL DEF Spec
=============================================================================
