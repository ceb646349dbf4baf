------------------------------ MODULE Accounts ------------------------------
(***************************************************************************)
(* Users and organisations: signing up, adding and removing members,       *)
(* changing e-mail addresses and roles, deleting users.                    *)
(*                                                                         *)
(* A Request is one mutation with an entity manager of its own.  It checks *)
(* the caller and the e-mail address in queries, and writes in one flush   *)
(* later on; between them other requests step.  Names and passwords are    *)
(* left out, and so is renaming an organisation.  Locks, timeouts and the  *)
(* life of tokens belong to AuthSessions; here a user only has tokens or   *)
(* has none.                                                               *)
(***************************************************************************)
EXTENDS Naturals

CONSTANTS
    User, Email, Organisation,  \* identifiers are drawn once and for all
    Request,                    \* mutations, each run once
    NoUser, NoRow, NoOrganisation, NoJob,
    Seed                        \* the table of users at the start

Role == {"CUSTOMER", "STAFF", "ADMIN"}

Row == [email : Email, organisation : Organisation, role : Role]

ASSUME NothingTypes ==
    /\ NoUser \notin User /\ NoRow \notin Row /\ NoOrganisation \notin Organisation
    /\ "keep" \notin Email

ASSUME SeedTypes ==
    /\ Seed \in [User -> Row \cup {NoRow}]
    /\ \A u, v \in User : Seed[u] # NoRow /\ Seed[v] # NoRow
                          /\ Seed[u].email = Seed[v].email => u = v

VARIABLES
    user,           \* the row of each user
    organisation,   \* the rows of the table of organisations
    drawn,          \* identifiers of users ever stored
    holding,        \* users that rows of the table of tokens refer to
    phase,          \* phase[q]: where the mutation stands, and its answer
    job,            \* job[q]: its operation, its caller and its arguments
    seen            \* seen[q]: the row it has loaded to update

tables == <<user, organisation, drawn, holding>>
vars == <<tables, phase, job, seen>>

-----------------------------------------------------------------------------
\* by: the role of the caller, as the guard loaded it
Job == [op : {"create", "add", "remove", "update", "delete"},
        by : Role, caller : User \cup {NoUser}, user : User \cup {NoUser},
        email : Email \cup {"keep"}, role : Role \cup {"keep"},
        organisation : Organisation \cup {NoOrganisation}]

Asked(op, by, a, u, e, r, o) ==
    [op |-> op, by |-> by, caller |-> a, user |-> u, email |-> e, role |-> r,
     organisation |-> o]

Exists(u) == user[u] # NoRow
EmailRegistered(e) == \E u \in User : Exists(u) /\ user[u].email = e

(* canUserSetRole *)
MaySet(by, r) ==
    /\ r = "STAFF" => by \in {"STAFF", "ADMIN"}
    /\ r = "ADMIN" => by = "ADMIN"

MayAdminister(by) == by \in {"STAFF", "ADMIN"}

UnderWay(q) == phase[q] \in {"asked", "checking", "writing", "written"}
Is(q, op, ph) == phase[q] = ph /\ job[q].op = op
Goes(q, ph) == phase' = [phase EXCEPT ![q] = ph]

\* A mutation is taken up, or refused at once.
Begins(q, j, ok) ==
    /\ phase[q] = "new"
    /\ job' = IF ok THEN [job EXCEPT ![q] = j] ELSE job
    /\ Goes(q, IF ok THEN "asked" ELSE "refused")
    /\ UNCHANGED <<tables, seen>>

\* A query decides whether the mutation goes on.
Decides(q, ok, next) ==
    /\ Goes(q, IF ok THEN next ELSE "refused")
    /\ UNCHANGED <<tables, job, seen>>

-----------------------------------------------------------------------------
(* The mutations, as their guards and first checks let them in *)

UserCreate(q, e) ==
    Begins(q, Asked("create", "CUSTOMER", NoUser, NoUser, e, "CUSTOMER", NoOrganisation), TRUE)

AdminUserCreate(q, a, e, r) ==
    /\ Exists(a)
    /\ LET by == user[a].role
       IN  Begins(q, Asked("create", by, a, NoUser, e, r, NoOrganisation),
                  MayAdminister(by) /\ MaySet(by, r))

OrganisationMemberAdd(q, a, o, e) ==
    /\ Exists(a)
    /\ Begins(q, Asked("add", user[a].role, a, NoUser, e, "CUSTOMER", o), TRUE)

OrganisationMemberRemove(q, a, u, o) ==
    /\ Exists(a)
    /\ Begins(q, Asked("remove", user[a].role, a, u, "keep", "keep", o), TRUE)

(* userUpdate, of oneself *)
UserUpdate(q, a, e) ==
    /\ Exists(a)
    /\ Begins(q, Asked("update", user[a].role, a, a, e, "keep", NoOrganisation), TRUE)

(* Mutant: the role to be set is not checked. *)
AdminUserUpdateUnchecked(q, a, u, e, r) ==
    /\ Exists(a)
    /\ LET by == user[a].role
       IN  Begins(q, Asked("update", by, a, u, e, r, NoOrganisation), MayAdminister(by))

AdminUserUpdate(q, a, u, e, r) ==
    /\ Exists(a)
    /\ LET by == user[a].role
       IN  Begins(q, Asked("update", by, a, u, e, r, NoOrganisation),
                  MayAdminister(by) /\ (r # "keep" => MaySet(by, r)))

(* canModifyUser: of oneself, or of anybody through the admin mutations.   *)
UserDelete(q, a, u) ==
    /\ Exists(a)
    /\ LET by == user[a].role
       IN  Begins(q, Asked("delete", by, a, u, "keep", "keep", NoOrganisation),
                  u = a \/ MayAdminister(by))

-----------------------------------------------------------------------------
(* Queries of the mutations under way *)

(* userCreate asks before it builds an organisation; UserService.create    *)
(* asks again, for it and for organisationMemberAdd.                       *)
FirstCheck(q) ==
    /\ Is(q, "create", "asked")
    /\ Decides(q, ~EmailRegistered(job[q].email), "checking")

LastCheck(q) ==
    /\ Is(q, "create", "checking") \/ Is(q, "add", "checking")
    /\ Decides(q, ~EmailRegistered(job[q].email), "writing")

(* isMember *)
CanAdd(q) ==
    /\ Is(q, "add", "asked")
    /\ LET a == job[q].caller
       IN  Decides(q, /\ job[q].organisation \in organisation
                      /\ Exists(a) /\ user[a].organisation = job[q].organisation,
                   "checking")

(* The user to remove, update or delete is loaded; an organisation a       *)
(* member is removed from need only exist.                                 *)
FindUser(q) ==
    /\ phase[q] = "asked" /\ job[q].op \in {"remove", "update", "delete"}
    /\ LET u == job[q].user
           ok == Exists(u) /\ (job[q].op = "remove" => job[q].organisation \in organisation)
       IN  /\ Goes(q, IF ~ok THEN "refused"
                      ELSE IF job[q].op = "update" THEN "checking" ELSE "writing")
           /\ seen' = IF ok /\ job[q].op = "update"
                      THEN [seen EXCEPT ![q] = user[u]] ELSE seen
    /\ UNCHANGED <<tables, job>>

(* A new e-mail address must not be registered. *)
CheckUpdate(q) ==
    /\ Is(q, "update", "checking")
    /\ Decides(q, job[q].email \in {"keep", seen[q].email} \/ ~EmailRegistered(job[q].email),
               "writing")
-----------------------------------------------------------------------------
(* Flushes *)

(* The unique index on e-mail addresses: a flush that violates it fails.   *)
EmailFree(e, u) == \A v \in User \ {u} : Exists(v) => user[v].email # e

(* A user is stored, in one transaction with the organisations it needs.   *)
Stores(q, u, o) ==
    /\ u \notin drawn
    /\ EmailFree(job[q].email, u)
    /\ user' = [user EXCEPT ![u] =
                  [email |-> job[q].email, organisation |-> o, role |-> job[q].role]]
    /\ organisation' = organisation \cup {o}
    /\ drawn' = drawn \cup {u}

(* Mutant: the organisation is flushed on its own, before the user. *)
RegisterInTwo(q, u, o) ==
    /\ Is(q, "create", "writing")
    /\ \/ /\ job[q].organisation = NoOrganisation /\ o \notin organisation
          /\ organisation' = organisation \cup {o}
          /\ job' = [job EXCEPT ![q].organisation = o]
          /\ UNCHANGED <<user, drawn, holding, phase, seen>>
       \/ /\ o = job[q].organisation
          /\ Stores(q, u, o)
          /\ job' = [job EXCEPT ![q].user = u]
          /\ Goes(q, "written")
          /\ UNCHANGED <<holding, seen>>

(* userCreate: a default organisation and the user in it. *)
Register(q, u, o) ==
    /\ Is(q, "create", "writing")
    /\ o \notin organisation
    /\ Stores(q, u, o)
    /\ job' = [job EXCEPT ![q].user = u]
    /\ Goes(q, "written")
    /\ UNCHANGED <<holding, seen>>

(* Then its refresh token is whitelisted, if the user is still there.      *)
SaveToken(q) ==
    /\ Is(q, "create", "written")
    /\ Exists(job[q].user)
    /\ holding' = holding \cup {job[q].user}
    /\ Goes(q, "done")
    /\ UNCHANGED <<user, organisation, drawn, job, seen>>

(* organisationMemberAdd; its second flush finds nothing to write.         *)
AddMember(q, u) ==
    /\ Is(q, "add", "writing")
    /\ Stores(q, u, job[q].organisation)
    /\ Goes(q, "done")
    /\ UNCHANGED <<holding, job, seen>>

(* The member moves to a new organisation.  An UPDATE that meets no row is *)
(* no error.                                                               *)
RemoveMember(q, o) ==
    /\ Is(q, "remove", "writing")
    /\ o \notin organisation
    /\ organisation' = organisation \cup {o}
    /\ LET u == job[q].user
       IN  user' = IF Exists(u) THEN [user EXCEPT ![u].organisation = o] ELSE user
    /\ Goes(q, "done")
    /\ UNCHANGED <<drawn, holding, job, seen>>

\* the value a column is set to: nothing when it is as it was loaded
Column(asked, loaded, stored) == IF asked \in {"keep", loaded} THEN stored ELSE asked

(* Mutant: the address is only checked by the query, the column not unique. *)
UpdateAnyway(q) ==
    /\ Is(q, "update", "writing")
    /\ LET u == job[q].user
           e == Column(job[q].email, seen[q].email, user[u].email)
           r == Column(job[q].role, seen[q].role, user[u].role)
       IN  IF Exists(u)
           THEN user' = [user EXCEPT ![u] =
                           [email |-> e, organisation |-> user[u].organisation, role |-> r]]
           ELSE UNCHANGED user
    /\ Goes(q, "done")
    /\ UNCHANGED <<organisation, drawn, holding, job, seen>>

(* Mutant: the whole row is written back, not the changed columns. *)
UpdateWholeRow(q) ==
    /\ Is(q, "update", "writing")
    /\ LET u == job[q].user
           e == Column(job[q].email, "keep", seen[q].email)
       IN  /\ EmailFree(e, u)
           /\ user' = IF Exists(u)
                      THEN [user EXCEPT ![u] =
                              [email |-> e, organisation |-> seen[q].organisation,
                               role |-> Column(job[q].role, "keep", seen[q].role)]]
                      ELSE user
    /\ Goes(q, "done")
    /\ UNCHANGED <<organisation, drawn, holding, job, seen>>

(* The columns that differ from the row as it was loaded are written.      *)
Update(q) ==
    /\ Is(q, "update", "writing")
    /\ LET u == job[q].user
           e == Column(job[q].email, seen[q].email, user[u].email)
           r == Column(job[q].role, seen[q].role, user[u].role)
       IN  IF Exists(u)
           THEN /\ EmailFree(e, u)
                /\ user' = [user EXCEPT ![u] =
                              [email |-> e, organisation |-> user[u].organisation, role |-> r]]
           ELSE UNCHANGED user
    /\ Goes(q, "done")
    /\ UNCHANGED <<organisation, drawn, holding, job, seen>>

(* Mutant: the table of tokens has no foreign key. *)
DeleteAnyway(q) ==
    /\ Is(q, "delete", "writing")
    /\ user' = [user EXCEPT ![job[q].user] = NoRow]
    /\ Goes(q, "done")
    /\ UNCHANGED <<organisation, drawn, holding, job, seen>>

(* Rows of tokens that refer to the user make the deletion fail.           *)
Delete(q) ==
    /\ Is(q, "delete", "writing")
    /\ job[q].user \notin holding
    /\ user' = [user EXCEPT ![job[q].user] = NoRow]
    /\ Goes(q, "done")
    /\ UNCHANGED <<organisation, drawn, holding, job, seen>>

(* A query or a flush fails: a constraint is violated, the database does   *)
(* not answer, the process stops.                                          *)
Breaks(q) ==
    /\ UnderWay(q)
    /\ Goes(q, "broken")
    /\ UNCHANGED <<tables, job, seen>>

(* Logins whitelist tokens of a user, logouts and refreshes remove them.   *)
LogsIn(u) ==
    /\ Exists(u)
    /\ holding' = holding \cup {u}
    /\ UNCHANGED <<user, organisation, drawn, phase, job, seen>>

LogsOut(u) ==
    /\ u \in holding
    /\ holding' = holding \ {u}
    /\ UNCHANGED <<user, organisation, drawn, phase, job, seen>>

-----------------------------------------------------------------------------
SeededOrganisations == {Seed[u].organisation : u \in {v \in User : Seed[v] # NoRow}}

Init ==
    /\ user = Seed
    /\ organisation = SeededOrganisations
    /\ drawn = {u \in User : Seed[u] # NoRow}
    /\ holding = {}
    /\ phase = [q \in Request |-> "new"]
    /\ job = [q \in Request |-> NoJob]
    /\ seen = [q \in Request |-> NoRow]

Begin(q) ==
    \/ \E e \in Email : UserCreate(q, e)
    \/ \E a \in User, e \in Email, r \in Role : AdminUserCreate(q, a, e, r)
    \/ \E a \in User, e \in Email, o \in organisation : OrganisationMemberAdd(q, a, o, e)
    \/ \E a, u \in User, o \in organisation : OrganisationMemberRemove(q, a, u, o)
    \/ \E a \in User, e \in Email : UserUpdate(q, a, e)
    \/ \E a, u \in User, e \in Email \cup {"keep"}, r \in Role \cup {"keep"} :
           AdminUserUpdate(q, a, u, e, r)
    \/ \E a, u \in User : UserDelete(q, a, u)

Queries(q) ==
    \/ FirstCheck(q) \/ LastCheck(q) \/ CanAdd(q) \/ FindUser(q) \/ CheckUpdate(q)

Flushes(q) ==
    \/ \E u \in User, o \in Organisation : Register(q, u, o)
    \/ SaveToken(q)
    \/ \E u \in User : AddMember(q, u)
    \/ \E o \in Organisation : RemoveMember(q, o)
    \/ Update(q) \/ Delete(q)

Next ==
    \/ \E q \in Request : Begin(q) \/ Queries(q) \/ Flushes(q) \/ Breaks(q)
    \/ \E u \in User : LogsIn(u) \/ LogsOut(u)

Spec == Init /\ [][Next]_vars

-----------------------------------------------------------------------------
(* Properties *)

(* Everything is of its type; a user always belongs to an organisation     *)
(* that exists, and rows of tokens refer to users that exist.              *)
TypeOK ==
    /\ user \in [User -> Row \cup {NoRow}]
    /\ organisation \subseteq Organisation
    /\ \A u \in User : Exists(u) => u \in drawn /\ user[u].organisation \in organisation
    /\ drawn \subseteq User
    /\ holding \subseteq {u \in User : Exists(u)}
    /\ phase \in [Request -> {"new", "asked", "checking", "writing", "written",
                              "done", "refused", "broken"}]
    /\ job \in [Request -> Job \cup {NoJob}]
    /\ \A q \in Request : UnderWay(q) => job[q] \in Job
    /\ seen \in [Request -> Row \cup {NoRow}]

(* No two users have one e-mail address, although sign-ups, additions of   *)
(* members and changes of addresses check it long before they write.       *)
OneAccountPerEmail ==
    \A u, v \in User :
        Exists(u) /\ Exists(v) /\ user[u].email = user[v].email => u = v

(* No organisation is stored without a member: a sign-up that loses the    *)
(* race for its e-mail address leaves nothing behind.  The one exception   *)
(* is the removal of a member who is deleted while it is under way.        *)
OrganisationsBornOwned == [][
    \A o \in organisation' \ organisation :
        \/ \E u \in User : user'[u] # NoRow /\ user'[u].organisation = o
        \/ \E q \in Request : Is(q, "remove", "writing") /\ ~Exists(job[q].user)]_vars

(* Who leaves an organisation never returns to it, or to any other that    *)
(* exists: updates that loaded the user earlier do not write it back.      *)
MovedOnlyToNew == [][
    \A u \in User :
        Exists(u) /\ user'[u] # NoRow /\ user'[u].organisation # user[u].organisation
            => user'[u].organisation \notin organisation]_vars

Rank(r) == IF r = "ADMIN" THEN 2 ELSE IF r = "STAFF" THEN 1 ELSE 0

\* somebody of this rank has an account or a mutation under way
Reached(k) ==
    \/ \E u \in User : Exists(u) /\ Rank(user[u].role) >= k
    \/ \E q \in Request : UnderWay(q) /\ Rank(job[q].by) >= k

(* When nobody above a rank is left, nobody rises above it again: roles    *)
(* are only given by those who hold them, also when accounts are created,  *)
(* changed and demoted by overlapping mutations.                           *)
NoPromotionFromBelow == [][\A k \in 1..2 : Reached(k)' => Reached(k)]_vars

\* everybody may become a customer
Givable == {r \in Role : Rank(r) = 0 \/ Reached(Rank(r))}

(* Mutations that overlap keep the promises of the directory: nobody is    *)
(* stored twice or comes back, no update that read its user before changes *)
(* the organisation a user has been moved to, and no step of any mutation  *)
(* widens the roles that may be given.                                     *)
People == INSTANCE Directory WITH Nobody <- NoRow, givable <- Givable

DirectorySpec == People!Spec

-----------------------------------------------------------------------------
(* The inductive invariant behind them *)

\* A user to be stored has an address and a role; others are asked for.
Complete(j) ==
    IF j.op \in {"create", "add"} THEN j.email \in Email /\ j.role \in Role
    ELSE j.user \in User

(* What the checks at the start of a mutation established stays true of    *)
(* it while it is under way.                                               *)
JobsInv ==
    \A q \in Request :
        /\ UnderWay(q) /\ job[q].role # "keep"
               => Rank(job[q].role) <= Rank(job[q].by)
        /\ Is(q, "add", "checking") \/ Is(q, "add", "writing")
               => job[q].organisation \in organisation
        /\ UnderWay(q) => Complete(job[q])
        /\ phase[q] = "written" => job[q].user \in User

IInv == TypeOK /\ OneAccountPerEmail /\ JobsInv
=============================================================================
