--------------------------- MODULE AccountsProofs ---------------------------
(* Users and organisations, for every table of seeded users and any number *)
(* of identifiers, e-mail addresses and mutations.                         *)
EXTENDS Accounts, TLAPS

(* At the start nobody has asked for anything.                             *)
LEMMA InitInv == Init => IInv
<1> SUFFICES ASSUME Init PROVE IInv  OBVIOUS
<1>1. \A u \in User : Seed[u] # NoRow => Seed[u] \in Row /\ Seed[u].organisation \in Organisation
  BY SeedTypes DEF Row
<1>2. TypeOK
  BY <1>1, SeedTypes DEF Init, TypeOK, Exists, UnderWay, SeededOrganisations
<1>3. OneAccountPerEmail
  BY SeedTypes DEF Init, OneAccountPerEmail, Exists
<1>4. JobsInv
  BY DEF Init, JobsInv, UnderWay, Is
<1> QED  BY <1>2, <1>3, <1>4 DEF IInv

(* What a mutation that is taken up asks for is typed, and asks for no     *)
(* role its caller may not set.                                            *)
LEMMA BeginsJob ==
    ASSUME TypeOK, NEW q \in Request, Begin(q)
    PROVE  \E j, ok :
             /\ j \in Job /\ ok \in BOOLEAN /\ Begins(q, j, ok)
             /\ ok => (j.role # "keep" => Rank(j.role) <= Rank(j.by))
             /\ Complete(j)
             /\ ok => \/ j.by = "CUSTOMER"
                      \/ \E a \in User : Exists(a) /\ j.by = user[a].role
<1> DEFINE Good(j, ok) ==
             /\ j \in Job /\ ok \in BOOLEAN /\ Begins(q, j, ok)
             /\ ok => (j.role # "keep" => Rank(j.role) <= Rank(j.by))
             /\ Complete(j)
             /\ ok => \/ j.by = "CUSTOMER"
                      \/ \E a \in User : Exists(a) /\ j.by = user[a].role
<1> SUFFICES \E j, ok : Good(j, ok)
  OBVIOUS
<1>0. \A a \in User : Exists(a) => user[a].role \in Role
  BY DEF TypeOK, Exists, Row
<1>1. \A by, r \in Role : MaySet(by, r) => Rank(r) <= Rank(by)
  BY DEF MaySet, Rank, Role
<1>2. Rank("CUSTOMER") = 0 /\ \A r \in Role : Rank(r) \in 0..2
  BY DEF Rank, Role
<1>3. ASSUME NEW e \in Email, UserCreate(q, e) PROVE \E j, ok : Good(j, ok)
  <2> DEFINE j == Asked("create", "CUSTOMER", NoUser, NoUser, e, "CUSTOMER", NoOrganisation)
  <2>1. j \in Job  BY DEF Asked, Job, Role
  <2>2. j.role = "CUSTOMER" /\ j.by = "CUSTOMER" /\ j.op = "create" /\ j.email = e  BY DEF Asked
  <2>3. Begins(q, j, TRUE)  BY <1>3 DEF UserCreate
  <2>4. Rank(j.role) <= Rank(j.by)  BY <1>2, <2>2
  <2>5. Good(j, TRUE)  BY <2>1, <2>2, <2>3, <2>4 DEF Complete, Role
  <2> QED  BY <2>5
<1>4. ASSUME NEW a \in User, NEW e \in Email, NEW r \in Role, AdminUserCreate(q, a, e, r)
      PROVE  \E j, ok : Good(j, ok)
  <2> DEFINE by == user[a].role
             j == Asked("create", by, a, NoUser, e, r, NoOrganisation)
             ok == MayAdminister(by) /\ MaySet(by, r)
  <2>0. Exists(a) /\ Begins(q, j, ok)  BY <1>4 DEF AdminUserCreate
  <2>1. by \in Role  BY <1>0, <2>0
  <2>2. j \in Job  BY <2>1 DEF Asked, Job
  <2>3. j.role = r /\ j.by = by /\ j.op = "create" /\ j.email = e  BY DEF Asked
  <2>4. ok \in BOOLEAN  BY DEF MayAdminister, MaySet
  <2>5. ok => Rank(r) <= Rank(by)  BY <1>1, <2>1
  <2>6. Good(j, ok)  BY <2>0, <2>2, <2>3, <2>4, <2>5 DEF Complete, Role
  <2> QED  BY <2>6
<1>5. ASSUME NEW a \in User, NEW e \in Email, NEW o \in organisation,
             OrganisationMemberAdd(q, a, o, e)
      PROVE  \E j, ok : Good(j, ok)
  <2> DEFINE by == user[a].role
             j == Asked("add", by, a, NoUser, e, "CUSTOMER", o)
  <2>0. Exists(a) /\ Begins(q, j, TRUE)  BY <1>5 DEF OrganisationMemberAdd
  <2>1. by \in Role /\ o \in Organisation  BY <1>0, <2>0 DEF TypeOK
  <2>2. j \in Job  BY <2>1 DEF Asked, Job, Role
  <2>3. j.role = "CUSTOMER" /\ j.by = by /\ j.op = "add" /\ j.email = e  BY DEF Asked
  <2>4. Rank("CUSTOMER") <= Rank(by)  BY <1>2, <2>1
  <2>5. Good(j, TRUE)  BY <2>0, <2>2, <2>3, <2>4 DEF Complete, Role
  <2> QED  BY <2>5
<1>6. ASSUME NEW a \in User, NEW u \in User, NEW o \in organisation,
             OrganisationMemberRemove(q, a, u, o)
      PROVE  \E j, ok : Good(j, ok)
  <2> DEFINE by == user[a].role
             j == Asked("remove", by, a, u, "keep", "keep", o)
  <2>0. Exists(a) /\ Begins(q, j, TRUE)  BY <1>6 DEF OrganisationMemberRemove
  <2>1. by \in Role /\ o \in Organisation  BY <1>0, <2>0 DEF TypeOK
  <2>2. j \in Job  BY <2>1 DEF Asked, Job
  <2>3. j.role = "keep" /\ j.by = by /\ j.op = "remove" /\ j.user = u  BY DEF Asked
  <2>4. Good(j, TRUE)  BY <2>0, <2>2, <2>3 DEF Complete, Role
  <2> QED  BY <2>4
<1>7. ASSUME NEW a \in User, NEW e \in Email, UserUpdate(q, a, e)
      PROVE  \E j, ok : Good(j, ok)
  <2> DEFINE by == user[a].role
             j == Asked("update", by, a, a, e, "keep", NoOrganisation)
  <2>0. Exists(a) /\ Begins(q, j, TRUE)  BY <1>7 DEF UserUpdate
  <2>1. by \in Role  BY <1>0, <2>0
  <2>2. j \in Job  BY <2>1 DEF Asked, Job
  <2>3. j.role = "keep" /\ j.by = by /\ j.op = "update" /\ j.user = a  BY DEF Asked
  <2>4. Good(j, TRUE)  BY <2>0, <2>2, <2>3 DEF Complete, Role
  <2> QED  BY <2>4
<1>8. ASSUME NEW a \in User, NEW u \in User, NEW e \in Email \cup {"keep"},
             NEW r \in Role \cup {"keep"}, AdminUserUpdate(q, a, u, e, r)
      PROVE  \E j, ok : Good(j, ok)
  <2> DEFINE by == user[a].role
             j == Asked("update", by, a, u, e, r, NoOrganisation)
             ok == MayAdminister(by) /\ (r # "keep" => MaySet(by, r))
  <2>0. Exists(a) /\ Begins(q, j, ok)  BY <1>8 DEF AdminUserUpdate
  <2>1. by \in Role  BY <1>0, <2>0
  <2>2. j \in Job  BY <2>1 DEF Asked, Job
  <2>3. j.role = r /\ j.by = by /\ j.op = "update" /\ j.user = u  BY DEF Asked
  <2>4. ok \in BOOLEAN  BY DEF MayAdminister, MaySet
  <2>5. ok => (r # "keep" => Rank(r) <= Rank(by))  BY <1>1, <2>1
  <2>6. Good(j, ok)  BY <2>0, <2>2, <2>3, <2>4, <2>5 DEF Complete, Role
  <2> QED  BY <2>6
<1>9. ASSUME NEW a \in User, NEW u \in User, UserDelete(q, a, u)
      PROVE  \E j, ok : Good(j, ok)
  <2> DEFINE by == user[a].role
             j == Asked("delete", by, a, u, "keep", "keep", NoOrganisation)
             ok == u = a \/ MayAdminister(by)
  <2>0. Exists(a) /\ Begins(q, j, ok)  BY <1>9 DEF UserDelete
  <2>1. by \in Role  BY <1>0, <2>0
  <2>2. j \in Job  BY <2>1 DEF Asked, Job
  <2>3. j.role = "keep" /\ j.by = by /\ j.op = "delete" /\ j.user = u  BY DEF Asked
  <2>4. ok \in BOOLEAN  BY DEF MayAdminister
  <2>5. Good(j, ok)  BY <2>0, <2>2, <2>3, <2>4 DEF Complete, Role
  <2> QED  BY <2>5
<1> HIDE DEF Good
<1> QED  BY <1>3, <1>4, <1>5, <1>6, <1>7, <1>8, <1>9 DEF Begin

-----------------------------------------------------------------------------
(* Taking up a mutation preserves the invariant.                           *)
LEMMA BeginStep ==
    ASSUME IInv, NEW q \in Request, Begin(q)
    PROVE  IInv'
<1>0. TypeOK /\ OneAccountPerEmail /\ JobsInv  BY DEF IInv
<1>1. PICK j, ok :
        /\ j \in Job /\ ok \in BOOLEAN /\ Begins(q, j, ok)
        /\ ok => (j.role # "keep" => Rank(j.role) <= Rank(j.by))
        /\ Complete(j)
  BY <1>0, BeginsJob
<1>2. UNCHANGED <<user, organisation, drawn, holding, seen>>
  BY <1>1 DEF Begins, tables
<1>3. CASE ok
  <2>1. job' = [job EXCEPT ![q] = j] /\ phase' = [phase EXCEPT ![q] = "asked"]
    BY <1>1, <1>3 DEF Begins, Goes
  <2>2. job'[q] = j /\ phase'[q] = "asked"
    BY <1>0, <2>1 DEF TypeOK
  <2>3. \A p \in Request \ {q} : job'[p] = job[p] /\ phase'[p] = phase[p]
    BY <1>0, <2>1 DEF TypeOK
  <2>4. job' \in [Request -> Job \cup {NoJob}]
    BY <1>0, <1>1, <2>1 DEF TypeOK
  <2>5. phase' \in [Request -> {"new", "asked", "checking", "writing", "written",
                              "done", "refused", "broken"}]
    BY <1>0, <2>1 DEF TypeOK
  <2>6. TypeOK'
    BY <1>0, <1>1, <1>2, <2>2, <2>3, <2>4, <2>5 DEF TypeOK, UnderWay, Exists
  <2>7. JobsInv'
    BY <1>0, <1>1, <1>2, <1>3, <2>2, <2>3 DEF JobsInv, UnderWay, Is
  <2> QED  BY <1>0, <1>2, <2>6, <2>7 DEF IInv, OneAccountPerEmail, Exists
<1>4. CASE ~ok
  <2>1. job' = job /\ phase' = [phase EXCEPT ![q] = "refused"]
    BY <1>1, <1>4 DEF Begins, Goes
  <2>2. TypeOK'
    BY <1>0, <1>2, <2>1 DEF TypeOK, UnderWay, Exists
  <2>3. JobsInv'
    BY <1>0, <1>2, <2>1 DEF TypeOK, JobsInv, UnderWay, Is
  <2> QED  BY <1>0, <1>2, <2>2, <2>3 DEF IInv, OneAccountPerEmail, Exists
<1> QED  BY <1>3, <1>4

(* So does a mutation under way that only moves on, ends or loads a row.   *)
LEMMA MovesOn ==
    ASSUME IInv, NEW q \in Request, UnderWay(q), UNCHANGED <<tables, job>>,
           NEW ph \in {"checking", "writing", "done", "refused", "broken"}, Goes(q, ph),
           seen' \in [Request -> Row \cup {NoRow}],
           job[q].op = "add" /\ ph \in {"checking", "writing"} =>
               job[q].organisation \in organisation
    PROVE  IInv'
<1>0. TypeOK /\ OneAccountPerEmail /\ JobsInv  BY DEF IInv
<1>1. phase' = [phase EXCEPT ![q] = ph] /\ UNCHANGED <<user, organisation, drawn, holding, job>>
  BY DEF Goes, tables
<1>2. phase'[q] = ph /\ \A p \in Request \ {q} : phase'[p] = phase[p]
  BY <1>0, <1>1 DEF TypeOK
<1>3. TypeOK'
  BY <1>0, <1>1, <1>2 DEF TypeOK, UnderWay, Exists
<1>4. JobsInv'
  BY <1>0, <1>1, <1>2 DEF JobsInv, UnderWay, Is
<1> QED  BY <1>0, <1>1, <1>3, <1>4 DEF IInv, OneAccountPerEmail, Exists

(* The queries and the failures of mutations preserve the invariant.       *)
LEMMA QueryStep ==
    ASSUME IInv, NEW q \in Request, Queries(q) \/ Breaks(q)
    PROVE  IInv'
<1>0. TypeOK /\ JobsInv /\ seen \in [Request -> Row \cup {NoRow}]
  BY DEF IInv, TypeOK
<1>1. CASE FirstCheck(q)
  <2>1. UnderWay(q) /\ job[q].op = "create"  BY <1>1 DEF FirstCheck, Is, UnderWay
  <2>2. Goes(q, IF ~EmailRegistered(job[q].email) THEN "checking" ELSE "refused")
        /\ UNCHANGED <<tables, job>> /\ seen' = seen
    BY <1>1 DEF FirstCheck, Decides
  <2> QED  BY <1>0, <2>1, <2>2, MovesOn
<1>2. CASE LastCheck(q)
  <2>1. UnderWay(q) /\ (job[q].op = "add" => job[q].organisation \in organisation)
    BY <1>0, <1>2 DEF LastCheck, Is, UnderWay, JobsInv
  <2>2. Goes(q, IF ~EmailRegistered(job[q].email) THEN "writing" ELSE "refused")
        /\ UNCHANGED <<tables, job>> /\ seen' = seen
    BY <1>2 DEF LastCheck, Decides
  <2> QED  BY <1>0, <2>1, <2>2, MovesOn
<1>3. CASE CanAdd(q)
  <2> DEFINE a == job[q].caller
             ok == /\ job[q].organisation \in organisation
                   /\ Exists(a) /\ user[a].organisation = job[q].organisation
  <2>1. UnderWay(q)  BY <1>3 DEF CanAdd, Is, UnderWay
  <2>2. Goes(q, IF ok THEN "checking" ELSE "refused")
        /\ UNCHANGED <<tables, job>> /\ seen' = seen
    BY <1>3 DEF CanAdd, Decides
  <2>3. ok => job[q].organisation \in organisation  OBVIOUS
  <2> HIDE DEF ok
  <2>4. CASE ok  BY <1>0, <2>1, <2>2, <2>3, <2>4, MovesOn
  <2>5. CASE ~ok  BY <1>0, <2>1, <2>2, <2>5, MovesOn
  <2> QED  BY <2>4, <2>5
<1>4. CASE FindUser(q)
  <2> DEFINE u == job[q].user
             ok == Exists(u) /\ (job[q].op = "remove" => job[q].organisation \in organisation)
             ph == IF ~ok THEN "refused" ELSE IF job[q].op = "update" THEN "checking" ELSE "writing"
  <2>1. UnderWay(q) /\ job[q].op # "add"  BY <1>4 DEF FindUser, UnderWay
  <2>2. Goes(q, ph) /\ UNCHANGED <<tables, job>>
    BY <1>4 DEF FindUser
  <2>3. ok => u \in User /\ user[u] \in Row
    <3>1. u \in User  BY <1>0, <1>4, <2>1 DEF JobsInv, FindUser, Complete
    <3> QED  BY <1>0, <3>1 DEF TypeOK, Exists
  <2>4. seen' = IF ok /\ job[q].op = "update" THEN [seen EXCEPT ![q] = user[u]] ELSE seen
    BY <1>4 DEF FindUser
  <2>5. seen' \in [Request -> Row \cup {NoRow}]
    BY <1>0, <2>3, <2>4
  <2>6. ph \in {"checking", "writing", "refused"}  OBVIOUS
  <2> HIDE DEF ph
  <2> QED  BY <2>1, <2>2, <2>5, <2>6, MovesOn
<1>5. CASE CheckUpdate(q)
  <2> DEFINE ok == job[q].email \in {"keep", seen[q].email} \/ ~EmailRegistered(job[q].email)
  <2>1. UnderWay(q) /\ job[q].op = "update"  BY <1>5 DEF CheckUpdate, Is, UnderWay
  <2>2. Goes(q, IF ok THEN "writing" ELSE "refused")
        /\ UNCHANGED <<tables, job>> /\ seen' = seen
    BY <1>5 DEF CheckUpdate, Decides
  <2> HIDE DEF ok
  <2> QED  BY <1>0, <2>1, <2>2, MovesOn
<1>6. CASE Breaks(q)
  <2>1. UnderWay(q) /\ Goes(q, "broken") /\ UNCHANGED <<tables, job>> /\ seen' = seen
    BY <1>6 DEF Breaks
  <2> QED  BY <1>0, <2>1, MovesOn
<1> QED  BY <1>1, <1>2, <1>3, <1>4, <1>5, <1>6 DEF Queries

-----------------------------------------------------------------------------
(* A row that is written over the others keeps the tables well-formed and  *)
(* the addresses apart, if its address is free.                            *)
LEMMA RowWritten ==
    ASSUME IInv, NEW u \in User, NEW row \in Row,
           EmailFree(row.email, u), user' = [user EXCEPT ![u] = row],
           row.organisation \in organisation',
           organisation \subseteq organisation', organisation' \subseteq Organisation,
           drawn' = drawn \cup {u}, holding' \subseteq holding \cup {u}
    PROVE  /\ user' \in [User -> Row \cup {NoRow}]
           /\ \A v \in User : Exists(v)' => v \in drawn' /\ user'[v].organisation \in organisation'
           /\ drawn' \subseteq User
           /\ holding' \subseteq {v \in User : Exists(v)'}
           /\ OneAccountPerEmail'
<1>0. TypeOK /\ OneAccountPerEmail  BY DEF IInv
<1>1. user'[u] = row /\ \A v \in User \ {u} : user'[v] = user[v]
  BY <1>0 DEF TypeOK
<1>2. row # NoRow  BY NothingTypes
<1>3. user' \in [User -> Row \cup {NoRow}]
  BY <1>0 DEF TypeOK
<1>4. Exists(u)' /\ \A v \in User \ {u} : Exists(v)' <=> Exists(v)
  BY <1>1, <1>2 DEF Exists
<1>5. \A v \in User : Exists(v)' => v \in drawn' /\ user'[v].organisation \in organisation'
  BY <1>0, <1>1, <1>4 DEF TypeOK
<1>6. drawn' \subseteq User /\ holding' \subseteq {v \in User : Exists(v)'}
  BY <1>0, <1>4 DEF TypeOK
<1>7. \A v \in User \ {u} : Exists(v) => user[v].email # row.email
  BY DEF EmailFree
<1>8. OneAccountPerEmail'
  BY <1>0, <1>1, <1>4, <1>7 DEF OneAccountPerEmail
<1> QED  BY <1>3, <1>5, <1>6, <1>8

(* A mutation that answers leaves what is known of the others.             *)
LEMMA Answers ==
    ASSUME IInv, NEW q \in Request, UnderWay(q), UNCHANGED seen,
           NEW ph \in {"written", "done"}, Goes(q, ph),
           organisation \subseteq organisation',
           \/ UNCHANGED job /\ ph = "done"
           \/ \E u \in User : job' = [job EXCEPT ![q].user = u] /\ job[q].op = "create"
    PROVE  /\ phase' \in [Request -> {"new", "asked", "checking", "writing", "written",
                                      "done", "refused", "broken"}]
           /\ job' \in [Request -> Job \cup {NoJob}]
           /\ \A p \in Request : UnderWay(p)' => job'[p] \in Job
           /\ seen' \in [Request -> Row \cup {NoRow}]
           /\ JobsInv'
<1>0. TypeOK /\ JobsInv /\ job[q] \in Job  BY DEF IInv, TypeOK
<1>1. phase' = [phase EXCEPT ![q] = ph]  BY DEF Goes
<1>2. phase'[q] = ph /\ \A p \in Request \ {q} : phase'[p] = phase[p]
  BY <1>0, <1>1 DEF TypeOK
<1>3. phase' \in [Request -> {"new", "asked", "checking", "writing", "written",
                              "done", "refused", "broken"}]
  BY <1>0, <1>1 DEF TypeOK
<1>4. \A p \in Request \ {q} : job'[p] = job[p]
  BY <1>0 DEF TypeOK
<1>5. PICK j \in Job :
        /\ job' = [job EXCEPT ![q] = j]
        /\ j.by = job[q].by /\ j.role = job[q].role
        /\ j.op # "add" \/ ph = "done"
        /\ ph = "written" => j.user \in User /\ Complete(j)
  <2>1. CASE UNCHANGED job /\ ph = "done"
    <3>1. job' = [job EXCEPT ![q] = job[q]]  BY <1>0, <2>1 DEF TypeOK
    <3> QED  BY <1>0, <2>1, <3>1
  <2>2. ASSUME NEW u \in User, job' = [job EXCEPT ![q].user = u], job[q].op = "create"
        PROVE  \E j \in Job :
                 /\ job' = [job EXCEPT ![q] = j]
                 /\ j.by = job[q].by /\ j.role = job[q].role
                 /\ j.op # "add" \/ ph = "done"
                 /\ ph = "written" => j.user \in User /\ Complete(j)
    <3> DEFINE j == [job[q] EXCEPT !.user = u]
    <3>1. j \in Job /\ j.user = u /\ j.op = "create" /\ j.by = job[q].by
          /\ j.role = job[q].role /\ j.email = job[q].email
      BY <1>0, <2>2 DEF Job
    <3>2. Complete(job[q])  BY <1>0 DEF JobsInv
    <3>3. Complete(j)  BY <3>1, <3>2, <2>2 DEF Complete
    <3>4. job' = [job EXCEPT ![q] = j]  BY <2>2
    <3> HIDE DEF j
    <3> QED  BY <3>1, <3>3, <3>4
  <2> QED  BY <2>1, <2>2
<1>6. job'[q] = j  BY <1>0, <1>5 DEF TypeOK
<1>7. job' \in [Request -> Job \cup {NoJob}]
  BY <1>0, <1>5 DEF TypeOK
<1>8. \A p \in Request : UnderWay(p)' => job'[p] \in Job
  BY <1>0, <1>2, <1>4, <1>6 DEF TypeOK, UnderWay
<1>9. JobsInv'
  <2> SUFFICES ASSUME NEW p \in Request
               PROVE  /\ UnderWay(p)' /\ job'[p].role # "keep"
                            => Rank(job'[p].role) <= Rank(job'[p].by)
                      /\ Is(p, "add", "checking")' \/ Is(p, "add", "writing")'
                            => job'[p].organisation \in organisation'
                      /\ UnderWay(p)' => Complete(job'[p])
                      /\ phase'[p] = "written" => job'[p].user \in User
    BY DEF JobsInv
  <2>1. CASE p = q
    BY <1>0, <1>2, <1>5, <1>6, <2>1 DEF JobsInv, UnderWay, Is
  <2>2. CASE p # q
    BY <1>0, <1>2, <1>4, <2>2 DEF JobsInv, UnderWay, Is
  <2> QED  BY <2>1, <2>2
<1> QED  BY <1>0, <1>3, <1>7, <1>8, <1>9 DEF TypeOK

(* Every flush preserves the invariant.                                    *)
LEMMA FlushStep ==
    ASSUME IInv, NEW q \in Request, Flushes(q)
    PROVE  IInv'
<1>0. TypeOK /\ OneAccountPerEmail /\ JobsInv  BY DEF IInv
<1> SUFFICES TypeOK' /\ OneAccountPerEmail' /\ JobsInv'
  BY DEF IInv
<1>1. UnderWay(q)
  BY DEF Flushes, Register, SaveToken, AddMember, RemoveMember, Update, Delete, Is, UnderWay
<1>2. job[q] \in Job /\ Complete(job[q])
  BY <1>0, <1>1 DEF TypeOK, JobsInv
<1>3. ASSUME NEW u \in User, NEW o \in Organisation, Stores(q, u, o), UNCHANGED holding,
             job[q].op \in {"create", "add"}, NEW ph \in {"written", "done"}, Goes(q, ph),
             UNCHANGED seen,
             \/ UNCHANGED job /\ ph = "done"
             \/ job' = [job EXCEPT ![q].user = u] /\ job[q].op = "create"
      PROVE  TypeOK' /\ OneAccountPerEmail' /\ JobsInv'
  <2> DEFINE row == [email |-> job[q].email, organisation |-> o, role |-> job[q].role]
  <2>1. row \in Row /\ row.email = job[q].email /\ row.organisation = o
    BY <1>2, <1>3 DEF Row, Complete
  <2>2. EmailFree(row.email, u) /\ user' = [user EXCEPT ![u] = row]
        /\ organisation' = organisation \cup {o} /\ drawn' = drawn \cup {u}
    BY <1>3, <2>1 DEF Stores
  <2>3. organisation' \subseteq Organisation
    BY <1>0, <2>2 DEF TypeOK
  <2> HIDE DEF row
  <2>4. /\ user' \in [User -> Row \cup {NoRow}]
        /\ \A v \in User : Exists(v)' => v \in drawn' /\ user'[v].organisation \in organisation'
        /\ drawn' \subseteq User
        /\ holding' \subseteq {v \in User : Exists(v)'}
        /\ OneAccountPerEmail'
    BY <1>3, <2>1, <2>2, <2>3, RowWritten
  <2>5. /\ phase' \in [Request -> {"new", "asked", "checking", "writing", "written",
                                      "done", "refused", "broken"}]
        /\ job' \in [Request -> Job \cup {NoJob}]
        /\ \A p \in Request : UnderWay(p)' => job'[p] \in Job
        /\ seen' \in [Request -> Row \cup {NoRow}]
        /\ JobsInv'
    BY <1>1, <1>3, <2>2, Answers
  <2> QED  BY <2>3, <2>4, <2>5 DEF TypeOK
<1>4. ASSUME NEW u \in User, NEW o \in Organisation, Register(q, u, o)
      PROVE  TypeOK' /\ OneAccountPerEmail' /\ JobsInv'
  BY <1>3, <1>4 DEF Register, Is
<1>5. ASSUME NEW u \in User, AddMember(q, u)
      PROVE  TypeOK' /\ OneAccountPerEmail' /\ JobsInv'
  <2>1. job[q].organisation \in Organisation
    BY <1>0, <1>5 DEF AddMember, JobsInv, TypeOK, Is
  <2> QED  BY <1>3, <1>5, <2>1 DEF AddMember, Is
<1>6. ASSUME UNCHANGED job, UNCHANGED seen, Goes(q, "done"), organisation \subseteq organisation'
      PROVE  /\ phase' \in [Request -> {"new", "asked", "checking", "writing", "written",
                                      "done", "refused", "broken"}]
             /\ job' \in [Request -> Job \cup {NoJob}]
             /\ \A p \in Request : UnderWay(p)' => job'[p] \in Job
             /\ seen' \in [Request -> Row \cup {NoRow}]
             /\ JobsInv'
  BY <1>1, <1>6, Answers
<1>7. CASE SaveToken(q)
  <2>1. UNCHANGED <<user, organisation, drawn, job, seen>> /\ Goes(q, "done")
        /\ holding' = holding \cup {job[q].user} /\ Exists(job[q].user)
    BY <1>7 DEF SaveToken
  <2>2. job[q].user \in User
    BY <1>0, <1>7 DEF SaveToken, Is, JobsInv
  <2>3. holding' \subseteq {v \in User : Exists(v)'}
    BY <1>0, <2>1, <2>2 DEF TypeOK, Exists
  <2>4. OneAccountPerEmail'
    BY <1>0, <2>1 DEF OneAccountPerEmail, Exists
  <2> QED  BY <1>0, <1>6, <2>1, <2>3, <2>4 DEF TypeOK, Exists
<1>8. ASSUME NEW o \in Organisation, RemoveMember(q, o)
      PROVE  TypeOK' /\ OneAccountPerEmail' /\ JobsInv'
  <2> DEFINE u == job[q].user
             row == [user[u] EXCEPT !.organisation = o]
  <2>1. u \in User
    BY <1>2, <1>8 DEF RemoveMember, Is, Complete
  <2>2. /\ organisation' = organisation \cup {o}
        /\ user' = IF Exists(u) THEN [user EXCEPT ![u].organisation = o] ELSE user
        /\ UNCHANGED <<drawn, holding, job, seen>> /\ Goes(q, "done")
    BY <1>8 DEF RemoveMember
  <2>3. organisation' \subseteq Organisation
    BY <1>0, <2>2 DEF TypeOK
  <2>4. CASE Exists(u)
    <3>1. user[u] \in Row /\ u \in drawn
      BY <1>0, <2>1, <2>4 DEF TypeOK, Exists
    <3>2. row \in Row /\ row.email = user[u].email /\ row.organisation = o
      BY <3>1 DEF Row
    <3>3. user' = [user EXCEPT ![u] = row]
      BY <2>2, <2>4
    <3>4. EmailFree(row.email, u)
      BY <1>0, <2>1, <2>4, <3>2 DEF EmailFree, OneAccountPerEmail
    <3> HIDE DEF u, row
    <3>5. /\ user' \in [User -> Row \cup {NoRow}]
          /\ \A v \in User : Exists(v)' => v \in drawn' /\ user'[v].organisation \in organisation'
          /\ drawn' \subseteq User
          /\ holding' \subseteq {v \in User : Exists(v)'}
          /\ OneAccountPerEmail'
      BY <2>1, <2>2, <2>3, <3>1, <3>2, <3>3, <3>4, RowWritten
    <3> QED  BY <1>6, <2>2, <2>3, <3>5 DEF TypeOK
  <2>5. CASE ~Exists(u)
    <3>1. user' = user  BY <2>2, <2>5
    <3>2. OneAccountPerEmail'
      BY <1>0, <3>1 DEF OneAccountPerEmail, Exists
    <3> QED  BY <1>0, <1>6, <2>2, <2>3, <3>1, <3>2 DEF TypeOK, Exists
  <2> QED  BY <2>4, <2>5
<1>9. CASE Update(q)
  <2> DEFINE u == job[q].user
             e == Column(job[q].email, seen[q].email, user[u].email)
             r == Column(job[q].role, seen[q].role, user[u].role)
             row == [email |-> e, organisation |-> user[u].organisation, role |-> r]
  <2>1. u \in User
    BY <1>2, <1>9 DEF Update, Is, Complete
  <2>2. /\ IF Exists(u) THEN EmailFree(e, u) /\ user' = [user EXCEPT ![u] = row]
                        ELSE UNCHANGED user
        /\ UNCHANGED <<organisation, drawn, holding, job, seen>> /\ Goes(q, "done")
    BY <1>9 DEF Update
  <2>3. organisation' \subseteq Organisation
    BY <1>0, <2>2 DEF TypeOK
  <2>4. CASE Exists(u)
    <3>1. user[u] \in Row /\ u \in drawn /\ user[u].organisation \in organisation
      BY <1>0, <2>1, <2>4 DEF TypeOK, Exists
    <3>2. e \in Email /\ r \in Role
      BY <1>2, <3>1 DEF Column, Job, Row
    <3>3. row \in Row /\ row.email = e /\ row.organisation = user[u].organisation
      BY <3>1, <3>2 DEF Row
    <3>4. EmailFree(row.email, u) /\ user' = [user EXCEPT ![u] = row]
      BY <2>2, <2>4, <3>3
    <3> HIDE DEF u, row
    <3>5. /\ user' \in [User -> Row \cup {NoRow}]
          /\ \A v \in User : Exists(v)' => v \in drawn' /\ user'[v].organisation \in organisation'
          /\ drawn' \subseteq User
          /\ holding' \subseteq {v \in User : Exists(v)'}
          /\ OneAccountPerEmail'
      BY <2>1, <2>2, <2>3, <3>1, <3>3, <3>4, RowWritten
    <3> QED  BY <1>6, <2>2, <2>3, <3>5 DEF TypeOK
  <2>5. CASE ~Exists(u)
    <3>1. user' = user  BY <2>2, <2>5
    <3>2. OneAccountPerEmail'
      BY <1>0, <3>1 DEF OneAccountPerEmail, Exists
    <3> QED  BY <1>0, <1>6, <2>2, <2>3, <3>1, <3>2 DEF TypeOK, Exists
  <2> QED  BY <2>4, <2>5
<1>10. CASE Delete(q)
  <2>1. /\ job[q].user \notin holding
        /\ user' = [user EXCEPT ![job[q].user] = NoRow]
        /\ UNCHANGED <<organisation, drawn, holding, job, seen>> /\ Goes(q, "done")
    BY <1>10 DEF Delete
  <2>2. user' \in [User -> Row \cup {NoRow}]
    BY <1>0, <2>1 DEF TypeOK
  <2>3. \A v \in User : /\ Exists(v)' => Exists(v) /\ user'[v] = user[v]
                        /\ v # job[q].user => user'[v] = user[v]
    BY <1>0, <2>1 DEF TypeOK, Exists
  <2>4. OneAccountPerEmail'
    BY <1>0, <2>3 DEF OneAccountPerEmail
  <2>5. holding' \subseteq {v \in User : Exists(v)'}
    BY <1>0, <2>1, <2>3 DEF TypeOK, Exists
  <2> QED  BY <1>0, <1>6, <2>1, <2>2, <2>3, <2>4, <2>5 DEF TypeOK
<1> QED  BY <1>4, <1>5, <1>7, <1>8, <1>9, <1>10 DEF Flushes

(* So do logins and logouts.                                               *)
LEMMA TokenStep ==
    ASSUME IInv, NEW u \in User, LogsIn(u) \/ LogsOut(u)
    PROVE  IInv'
<1>1. UNCHANGED <<user, organisation, drawn, phase, job, seen>>
      /\ holding' \subseteq {v \in User : Exists(v)}
  BY DEF LogsIn, LogsOut, IInv, TypeOK
<1> QED
  BY <1>1 DEF IInv, TypeOK, OneAccountPerEmail, JobsInv, Exists, UnderWay, Is

(* Every step does.                                                        *)
LEMMA StepInv == IInv /\ [Next]_vars => IInv'
<1>1. ASSUME IInv, Next PROVE IInv'
  BY <1>1, BeginStep, QueryStep, FlushStep, TokenStep DEF Next
<1>2. ASSUME IInv, UNCHANGED vars PROVE IInv'
  BY <1>2 DEF vars, tables, IInv, TypeOK, OneAccountPerEmail, JobsInv, Exists, UnderWay, Is
<1> QED  BY <1>1, <1>2

-----------------------------------------------------------------------------
(* How a step changes the rows of users and organisations, at most: a user *)
(* is stored, moved, updated or deleted by a mutation that has passed its  *)
(* checks.                                                                 *)
LEMMA RowsChange ==
    ASSUME IInv, [Next]_vars
    PROVE  \/ UNCHANGED <<user, organisation, drawn>>
           \/ \E q \in Request, u \in User, o \in Organisation :
                /\ UnderWay(q) /\ job[q].op \in {"create", "add"}
                /\ job[q].op = "add" => o \in organisation
                /\ Stores(q, u, o)
           \/ \E q \in Request, o \in Organisation :
                RemoveMember(q, o) /\ job[q].user \in User
           \/ \E q \in Request :
                /\ Update(q) \/ Delete(q)
                /\ job[q].user \in User /\ organisation' = organisation
<1>1. ASSUME UNCHANGED vars PROVE UNCHANGED <<user, organisation, drawn>>
  BY <1>1 DEF vars, tables
<1>2. ASSUME NEW q \in Request, Begin(q) \/ Queries(q) \/ Breaks(q) \/ SaveToken(q)
      PROVE  UNCHANGED <<user, organisation, drawn>>
  <2>1. CASE Begin(q)
    BY <2>1, BeginsJob DEF IInv, Begins, tables
  <2>2. CASE Queries(q)
    BY <2>2 DEF Queries, FirstCheck, LastCheck, CanAdd, FindUser, CheckUpdate, Decides, tables
  <2>3. CASE Breaks(q) \/ SaveToken(q)
    BY <2>3 DEF Breaks, SaveToken, tables
  <2> QED  BY <1>2, <2>1, <2>2, <2>3
<1>3. ASSUME NEW q \in Request, NEW u \in User, NEW o \in Organisation, Register(q, u, o)
      PROVE  UnderWay(q) /\ job[q].op = "create" /\ Stores(q, u, o)
  BY <1>3 DEF Register, Is, UnderWay
<1>4. ASSUME NEW q \in Request, NEW u \in User, AddMember(q, u)
      PROVE  /\ UnderWay(q) /\ job[q].op = "add"
             /\ job[q].organisation \in Organisation /\ job[q].organisation \in organisation
             /\ Stores(q, u, job[q].organisation)
  BY <1>4 DEF AddMember, Is, UnderWay, IInv, TypeOK, JobsInv
<1>5. ASSUME NEW q \in Request, NEW o \in Organisation, RemoveMember(q, o)
      PROVE  job[q].user \in User
  BY <1>5 DEF RemoveMember, Is, UnderWay, IInv, JobsInv, Complete
<1>6. ASSUME NEW q \in Request, Update(q) \/ Delete(q)
      PROVE  job[q].user \in User /\ organisation' = organisation
  BY <1>6 DEF Update, Delete, Is, UnderWay, IInv, JobsInv, Complete
<1>7. ASSUME NEW u \in User, LogsIn(u) \/ LogsOut(u)
      PROVE  UNCHANGED <<user, organisation, drawn>>
  BY <1>7 DEF LogsIn, LogsOut
<1> QED  BY <1>1, <1>2, <1>3, <1>4, <1>5, <1>6, <1>7 DEF Next, Flushes

(* A row that is stored is new, so it moves nobody.                        *)
LEMMA StoresNew ==
    ASSUME IInv, NEW q, NEW u \in User, NEW o, Stores(q, u, o)
    PROVE  /\ ~Exists(u)
           /\ user'[u] = [email |-> job[q].email, organisation |-> o, role |-> job[q].role]
           /\ \A v \in User \ {u} : user'[v] = user[v]
           /\ organisation' = organisation \cup {o}
  BY DEF IInv, TypeOK, Stores, Exists

(* Who moves, moves to an organisation that is new.                        *)
LEMMA MovesStep ==
    ASSUME IInv, [Next]_vars, NEW v \in User,
           Exists(v), user'[v] # NoRow, user'[v].organisation # user[v].organisation
    PROVE  user'[v].organisation \notin organisation
<1>1. ASSUME NEW q \in Request, NEW u \in User, NEW o \in Organisation, Stores(q, u, o)
      PROVE  FALSE
  BY <1>1, StoresNew
<1>2. ASSUME NEW q \in Request, NEW o \in Organisation, RemoveMember(q, o), job[q].user \in User
      PROVE  user'[v].organisation \notin organisation
  <2> DEFINE u == job[q].user
  <2>1. o \notin organisation
        /\ user' = IF Exists(u) THEN [user EXCEPT ![u].organisation = o] ELSE user
    BY <1>2 DEF RemoveMember
  <2>2. user \in [User -> Row \cup {NoRow}] /\ user[v] \in Row
    BY DEF IInv, TypeOK, Exists
  <2>3. v = u
    BY <2>1, <2>2
  <2>4. user'[v].organisation = o
    BY <2>1, <2>2, <2>3 DEF Row
  <2> QED  BY <2>1, <2>4
<1>3. ASSUME NEW q \in Request, Update(q), job[q].user \in User
      PROVE  FALSE
  <2> DEFINE u == job[q].user
  <2>1. user \in [User -> Row \cup {NoRow}]
    BY DEF IInv, TypeOK
  <2>2. user' = user \/ \E e, r : user' = [user EXCEPT ![u] =
                           [email |-> e, organisation |-> user[u].organisation, role |-> r]]
    BY <1>3 DEF Update
  <2>3. ASSUME NEW e, NEW r, user' = [user EXCEPT ![u] =
                           [email |-> e, organisation |-> user[u].organisation, role |-> r]]
        PROVE  FALSE
    <3>1. user'[u].organisation = user[u].organisation
      BY <1>3, <2>1, <2>3
    <3>2. v # u => user'[v] = user[v]
      BY <2>1, <2>3
    <3> QED  BY <3>1, <3>2
  <2> QED  BY <2>2, <2>3
<1>4. ASSUME NEW q \in Request, Delete(q), job[q].user \in User
      PROVE  FALSE
  BY <1>4 DEF Delete, IInv, TypeOK
<1> QED  BY <1>1, <1>2, <1>3, <1>4, RowsChange

(* An organisation that is stored has a member, or has lost the one it was *)
(* made for.                                                               *)
LEMMA OwnedStep ==
    ASSUME IInv, [Next]_vars, NEW o \in organisation' \ organisation
    PROVE  \/ \E u \in User : user'[u] # NoRow /\ user'[u].organisation = o
           \/ \E q \in Request : Is(q, "remove", "writing") /\ ~Exists(job[q].user)
<1>1. ASSUME NEW q \in Request, NEW u \in User, NEW n \in Organisation, Stores(q, u, n),
             UnderWay(q), job[q].op \in {"create", "add"}
      PROVE  user'[u] # NoRow /\ user'[u].organisation = o
  <2> DEFINE row == [email |-> job[q].email, organisation |-> n, role |-> job[q].role]
  <2>1. user'[u] = row /\ o = n
    BY <1>1, StoresNew
  <2>2. row \in Row
    BY <1>1 DEF IInv, JobsInv, Complete, Row
  <2> QED  BY <2>1, <2>2, NothingTypes
<1>2. ASSUME NEW q \in Request, NEW n \in Organisation, RemoveMember(q, n), job[q].user \in User
      PROVE  \/ \E u \in User : user'[u] # NoRow /\ user'[u].organisation = o
             \/ Is(q, "remove", "writing") /\ ~Exists(job[q].user)
  <2> DEFINE u == job[q].user
             row == [user[u] EXCEPT !.organisation = n]
  <2>1. o = n /\ Is(q, "remove", "writing")
        /\ user' = IF Exists(u) THEN [user EXCEPT ![u].organisation = n] ELSE user
    BY <1>2 DEF RemoveMember
  <2>2. CASE Exists(u)
    <3>1. user \in [User -> Row \cup {NoRow}] /\ user[u] \in Row
      BY <1>2, <2>2 DEF IInv, TypeOK, Exists
    <3>2. row \in Row /\ row.organisation = n
      BY <3>1 DEF Row
    <3>3. user'[u] = row
      BY <1>2, <2>1, <2>2, <3>1
    <3> QED  BY <1>2, <2>1, <3>2, <3>3, NothingTypes
  <2> QED  BY <2>1, <2>2
<1> QED  BY <1>1, <1>2, RowsChange

(* Whoever has a rank after a step had it before, or was given it by       *)
(* somebody whose mutation is under way; and a mutation is taken up for    *)
(* somebody who is there, or with the rank that everybody has.             *)
LEMMA RankStep ==
    ASSUME IInv, [Next]_vars, NEW k \in 1..2, Reached(k)'
    PROVE  Reached(k)
<1>0. TypeOK /\ JobsInv  BY DEF IInv
<1>1. \A r \in Role : Rank(r) \in 0..2
  BY DEF Rank, Role
<1>2. ASSUME NEW u \in User, Exists(u)', Rank(user'[u].role) >= k
      PROVE  Reached(k)
  <2>1. ASSUME Exists(u), user'[u].role = user[u].role PROVE Reached(k)
    BY <1>2, <2>1 DEF Reached
  <2>2. ASSUME NEW q \in Request, UnderWay(q), job[q].role # "keep",
               user'[u].role = job[q].role
        PROVE  Reached(k)
    <3>1. Rank(job[q].role) <= Rank(job[q].by)  BY <1>0, <2>2 DEF JobsInv
    <3>2. job[q] \in Job  BY <1>0, <2>2 DEF TypeOK
    <3>3. job[q].role \in Role /\ job[q].by \in Role  BY <2>2, <3>2 DEF Job
    <3>4. Rank(job[q].by) >= k  BY <1>1, <1>2, <2>2, <3>1, <3>3
    <3> QED  BY <2>2, <3>4 DEF Reached
  <2>3. ASSUME UNCHANGED user PROVE Reached(k)
    BY <1>2, <2>1, <2>3 DEF Exists
  <2>4. ASSUME NEW q \in Request, NEW w \in User, NEW o \in Organisation,
               UnderWay(q), job[q].op \in {"create", "add"}, Stores(q, w, o)
        PROVE  Reached(k)
    <3>1. /\ user'[w].role = job[q].role
          /\ \A v \in User \ {w} : user'[v] = user[v]
      <4> DEFINE row == [email |-> job[q].email, organisation |-> o, role |-> job[q].role]
      <4>1. user'[w] = row /\ \A v \in User \ {w} : user'[v] = user[v]
        BY <2>4, StoresNew
      <4>2. row.role = job[q].role
        OBVIOUS
      <4> HIDE DEF row
      <4> QED  BY <4>1, <4>2
    <3>2. job[q].role \in Role
      BY <1>0, <2>4 DEF JobsInv, Complete
    <3>3. job[q].role # "keep"
      BY <3>2 DEF Role
    <3>4. CASE u = w  BY <2>2, <2>4, <3>1, <3>3, <3>4
    <3>5. CASE u # w  BY <1>2, <2>1, <3>1, <3>5 DEF Exists
    <3> QED  BY <3>4, <3>5
  <2>5. ASSUME NEW q \in Request, NEW o \in Organisation, RemoveMember(q, o), job[q].user \in User
        PROVE  Reached(k)
    <3> DEFINE w == job[q].user
               row == [user[w] EXCEPT !.organisation = o]
    <3>1. user' = IF Exists(w) THEN [user EXCEPT ![w].organisation = o] ELSE user
      BY <2>5 DEF RemoveMember
    <3>2. CASE Exists(w)
      <4>1. user \in [User -> Row \cup {NoRow}] /\ user[w] \in Row
        BY <1>0, <2>5, <3>2 DEF TypeOK, Exists
      <4>2. row.role = user[w].role
        BY <4>1 DEF Row
      <4>3. user' = [user EXCEPT ![w] = row]
        BY <3>1, <3>2
      <4> HIDE DEF row
      <4>4. user'[w] = row /\ \A v \in User \ {w} : user'[v] = user[v]
        BY <2>5, <4>1, <4>3
      <4> QED  BY <1>2, <2>1, <3>2, <4>2, <4>4 DEF Exists
    <3>3. CASE ~Exists(w)  BY <2>3, <3>1, <3>3
    <3> QED  BY <3>2, <3>3
  <2>6. ASSUME NEW q \in Request, Update(q), job[q].user \in User
        PROVE  Reached(k)
    <3> DEFINE w == job[q].user
               e == Column(job[q].email, seen[q].email, user[w].email)
               r == Column(job[q].role, seen[q].role, user[w].role)
               row == [email |-> e, organisation |-> user[w].organisation, role |-> r]
    <3>1. IF Exists(w) THEN user' = [user EXCEPT ![w] = row] ELSE UNCHANGED user
      BY <2>6 DEF Update
    <3>2. CASE Exists(w)
      <4>1. user' = [user EXCEPT ![w] = row] /\ user \in [User -> Row \cup {NoRow}]
        BY <1>0, <3>1, <3>2 DEF TypeOK
      <4>2. UnderWay(q)
        BY <2>6 DEF Update, Is, UnderWay
      <4>3. row.role = r
        OBVIOUS
      <4>4. r = user[w].role \/ (r = job[q].role /\ job[q].role # "keep")
        BY DEF Column
      <4> HIDE DEF row, r
      <4>5. user'[w] = row /\ \A v \in User \ {w} : user'[v] = user[v]
        BY <2>6, <4>1
      <4>6. CASE u = w  BY <2>1, <2>2, <3>2, <4>2, <4>3, <4>4, <4>5, <4>6
      <4>7. CASE u # w  BY <1>2, <2>1, <4>5, <4>7 DEF Exists
      <4> QED  BY <4>6, <4>7
    <3>3. CASE ~Exists(w)  BY <2>3, <3>1, <3>3
    <3> QED  BY <3>2, <3>3
  <2>7. ASSUME NEW q \in Request, Delete(q), job[q].user \in User
        PROVE  Reached(k)
    <3>1. user' = [user EXCEPT ![job[q].user] = NoRow] /\ user \in [User -> Row \cup {NoRow}]
      BY <1>0, <2>7 DEF Delete, TypeOK
    <3>2. user'[u] = user[u]
      BY <1>2, <3>1 DEF Exists
    <3> QED  BY <1>2, <2>1, <3>2 DEF Exists
  <2> QED  BY <2>3, <2>4, <2>5, <2>6, <2>7, RowsChange
<1>3. ASSUME NEW q \in Request, UnderWay(q)', Rank(job'[q].by) >= k
      PROVE  Reached(k)
  <2>1. ASSUME UnderWay(q), job'[q].by = job[q].by PROVE Reached(k)
    BY <1>3, <2>1 DEF Reached
  <2>2. ASSUME NEW p \in Request, Begin(p) PROVE Reached(k)
    <3>1. PICK j, ok :
            /\ j \in Job /\ ok \in BOOLEAN /\ Begins(p, j, ok)
            /\ ok => \/ j.by = "CUSTOMER"
                     \/ \E a \in User : Exists(a) /\ j.by = user[a].role
      BY <1>0, <2>2, BeginsJob
    <3>2. CASE ok /\ p = q
      <4>1. job'[q] = j
        BY <1>0, <3>1, <3>2 DEF Begins, TypeOK
      <4>2. Rank("CUSTOMER") = 0
        BY DEF Rank
      <4>3. CASE j.by = "CUSTOMER"  BY <1>3, <4>1, <4>2, <4>3
      <4>4. CASE \E a \in User : Exists(a) /\ j.by = user[a].role
        BY <1>3, <4>1, <4>4 DEF Reached
      <4> QED  BY <3>1, <3>2, <4>3, <4>4
    <3>3. CASE ~ok \/ p # q
      <4>1. job'[q] = job[q]
        BY <1>0, <3>1, <3>3 DEF Begins, TypeOK
      <4>2. phase' = [phase EXCEPT ![p] = IF ok THEN "asked" ELSE "refused"]
        BY <3>1 DEF Begins, Goes
      <4>3. UnderWay(q)
        BY <1>0, <1>3, <3>3, <4>2 DEF TypeOK, UnderWay
      <4> QED  BY <2>1, <4>1, <4>3
    <3> QED  BY <3>2, <3>3
  <2>3. ASSUME NEW p \in Request, NEW ph, UnderWay(p), Goes(p, ph), UNCHANGED job
        PROVE  Reached(k)
    <3>1. UnderWay(q)
      BY <1>0, <1>3, <2>3 DEF Goes, UnderWay, TypeOK
    <3> QED  BY <2>1, <2>3, <3>1
  <2>4. ASSUME NEW p \in Request, Queries(p) \/ Breaks(p) PROVE Reached(k)
    <3>1. UnderWay(p)
      BY <2>4 DEF Queries, FirstCheck, LastCheck, CanAdd, FindUser, CheckUpdate, Breaks, Is,
                  UnderWay
    <3>2. \E ph : Goes(p, ph) /\ UNCHANGED job
      BY <2>4 DEF Queries, FirstCheck, LastCheck, CanAdd, FindUser, CheckUpdate, Breaks, Decides
    <3> QED  BY <2>3, <3>1, <3>2
  <2>5. ASSUME NEW p \in Request, NEW u \in User, NEW o \in Organisation, Register(p, u, o)
        PROVE  Reached(k)
    <3>1. UnderWay(p) /\ job' = [job EXCEPT ![p].user = u] /\ Goes(p, "written")
      BY <2>5 DEF Register, Is, UnderWay
    <3>2. job[p] \in Job /\ job \in [Request -> Job \cup {NoJob}]
      BY <1>0, <3>1 DEF TypeOK
    <3>3. UnderWay(q)
      BY <1>0, <1>3, <3>1 DEF Goes, UnderWay, TypeOK
    <3>4. CASE p = q
      <4>1. job'[q].by = job[q].by
        BY <3>1, <3>2, <3>4 DEF Job
      <4> QED  BY <2>1, <3>3, <4>1
    <3>5. CASE p # q
      <4>1. job'[q] = job[q]
        BY <3>1, <3>2, <3>5
      <4> QED  BY <2>1, <3>3, <4>1
    <3> QED  BY <3>4, <3>5
  <2>6. ASSUME NEW p \in Request,
               \/ SaveToken(p) \/ Update(p) \/ Delete(p)
               \/ \E u \in User : AddMember(p, u)
               \/ \E o \in Organisation : RemoveMember(p, o)
        PROVE  Reached(k)
    <3>1. UnderWay(p) /\ Goes(p, "done") /\ UNCHANGED job
      BY <2>6 DEF SaveToken, Update, Delete, AddMember, RemoveMember, Is, UnderWay
    <3> QED  BY <2>3, <3>1
  <2>7. ASSUME UNCHANGED <<phase, job>> PROVE Reached(k)
    BY <1>3, <2>1, <2>7 DEF UnderWay
  <2>8. ASSUME UNCHANGED vars \/ \E u \in User : LogsIn(u) \/ LogsOut(u) PROVE Reached(k)
    BY <2>7, <2>8 DEF vars, LogsIn, LogsOut
  <2> QED  BY <2>2, <2>4, <2>5, <2>6, <2>8 DEF Next, Flushes
<1> QED  BY <1>2, <1>3 DEF Reached

-----------------------------------------------------------------------------
(* The role that a mutation under way may set is one that may be given.    *)
LEMMA RoleGivable ==
    ASSUME IInv, NEW q \in Request, UnderWay(q), job[q].role \in Role
    PROVE  job[q].role \in Givable
<1>1. Rank(job[q].role) <= Rank(job[q].by) /\ job[q].by \in Role
  BY DEF IInv, JobsInv, TypeOK, Job, Role
<1>2. Rank(job[q].role) \in 0..2 /\ Rank(job[q].by) \in 0..2
  BY <1>1 DEF Rank, Role
<1> QED  BY <1>1, <1>2 DEF Givable, Reached

(* So are the roles of all users. *)
LEMMA RolesHeld ==
    ASSUME user \in [User -> Row \cup {NoRow}], NEW u \in User, Exists(u)
    PROVE  user[u].role \in Givable
<1>1. user[u].role \in Role /\ Rank(user[u].role) \in 0..2
  BY DEF Exists, Row, Role, Rank
<1> QED  BY <1>1 DEF Givable, Reached

(* Each step is a step of the directory, or changes nothing of it.         *)
LEMMA DirectoryStep ==
    ASSUME IInv, [Next]_vars
    PROVE  People!Next
<1>0. TypeOK /\ JobsInv /\ user \in [User -> Row \cup {NoRow}]
  BY DEF IInv, TypeOK
<1>1. Givable' \subseteq Givable
  <2>1. \A r \in Role : Rank(r) \in 0..2  BY DEF Rank, Role
  <2>2. \A k \in 1..2 : Reached(k)' => Reached(k)  BY RankStep
  <2> QED  BY <2>1, <2>2 DEF Givable
<1> SUFFICES \/ UNCHANGED <<user, organisation, drawn>>
             \/ \E o \in Organisation : People!Found(o)
             \/ \E u \in User :
                    \/ People!Leave(u)
                    \/ \E o \in Organisation : People!Move(u, o)
                    \/ \E e \in Email, r \in Role :
                           \/ People!Edit(u, e, r)
                           \/ \E o \in Organisation : People!Join(u, e, o, r)
  BY <1>1 DEF People!Next
<1>2. \A e, u : EmailFree(e, u) => People!Free(e, u)
  BY DEF EmailFree, Exists, People!Free, People!Members
<1>3. ASSUME NEW q \in Request, NEW u \in User, NEW o \in Organisation,
             UnderWay(q), job[q].op \in {"create", "add"}, Stores(q, u, o)
      PROVE  /\ job[q].email \in Email /\ job[q].role \in Role
             /\ People!Join(u, job[q].email, o, job[q].role)
  <2>1. job[q].email \in Email /\ job[q].role \in Role
    BY <1>0, <1>3 DEF JobsInv, Complete
  <2>2. job[q].role \in Givable
    BY <1>3, <2>1, RoleGivable
  <2> QED  BY <1>2, <1>3, <2>1, <2>2 DEF Stores, People!Join, People!Writes
<1>4. ASSUME NEW q \in Request, NEW o \in Organisation, RemoveMember(q, o),
             job[q].user \in User
      PROVE  People!Found(o) \/ People!Move(job[q].user, o)
  <2> DEFINE u == job[q].user
  <2>1. /\ o \notin organisation /\ organisation' = organisation \cup {o}
        /\ user' = IF Exists(u) THEN [user EXCEPT ![u].organisation = o] ELSE user
        /\ drawn' = drawn
    BY <1>4 DEF RemoveMember
  <2>2. CASE ~Exists(u)
    BY <2>1, <2>2 DEF People!Found
  <2>3. CASE Exists(u)
    <3>1. user[u] \in Row  BY <1>0, <1>4, <2>3 DEF Exists
    <3>2. [user[u] EXCEPT !.organisation = o]
              = [email |-> user[u].email, organisation |-> o, role |-> user[u].role]
      BY <3>1 DEF Row
    <3>3. user' = [user EXCEPT ![u] = [user[u] EXCEPT !.organisation = o]]
      BY <2>1, <2>3
    <3> QED
      BY <1>4, <2>1, <2>3, <3>2, <3>3
      DEF People!Move, People!Writes, People!Members, Exists
  <2> QED  BY <2>2, <2>3
<1>5. ASSUME NEW q \in Request, Update(q), job[q].user \in User,
             Exists(job[q].user)
      PROVE  \E e \in Email, r \in Role : People!Edit(job[q].user, e, r)
  <2> DEFINE u == job[q].user
             e == Column(job[q].email, seen[q].email, user[u].email)
             r == Column(job[q].role, seen[q].role, user[u].role)
  <2>1. UnderWay(q) /\ job[q] \in Job
    BY <1>0, <1>5 DEF Update, Is, UnderWay, TypeOK
  <2>2. user[u].email \in Email /\ user[u].role \in Role /\ user[u].role \in Givable
    BY <1>0, <1>5, RolesHeld DEF Exists, Row
  <2>3. e \in Email
    BY <2>1, <2>2 DEF Column, Job
  <2>4. r \in Role /\ r \in Givable
    BY <2>1, <2>2, RoleGivable DEF Column, Job
  <2>5. /\ EmailFree(e, u)
        /\ user' = [user EXCEPT ![u] =
               [email |-> e, organisation |-> user[u].organisation, role |-> r]]
        /\ UNCHANGED <<organisation, drawn>>
    BY <1>5 DEF Update
  <2> HIDE DEF e, r
  <2>6. People!Edit(u, e, r)
    BY <1>2, <1>5, <2>4, <2>5 DEF People!Edit, People!Writes, People!Members, Exists
  <2> QED  BY <2>3, <2>4, <2>6
<1>6. ASSUME NEW q \in Request, Update(q), ~Exists(job[q].user)
      PROVE  UNCHANGED <<user, organisation, drawn>>
  BY <1>6 DEF Update
<1>7. ASSUME NEW q \in Request, Delete(q)
      PROVE  People!Leave(job[q].user)
  BY <1>7 DEF Delete, People!Leave
<1> QED  BY <1>3, <1>4, <1>5, <1>6, <1>7, RowsChange

-----------------------------------------------------------------------------
(* The inductive invariant holds of every behaviour.                       *)
THEOREM Invariance == Spec => []IInv
<1> QED  BY InitInv, StepInv, PTL DEF Spec

(* The types hold: a user always belongs to an organisation that exists,   *)
(* and rows of tokens refer to users that exist, whatever mutations of     *)
(* users overlap.                                                          *)
THEOREM TypeCorrectness == Spec => []TypeOK
<1>1. IInv => TypeOK  BY DEF IInv
<1> QED  BY <1>1, Invariance, PTL

(* No two users ever have one e-mail address.                              *)
THEOREM OneAccountPerEmailHolds == Spec => []OneAccountPerEmail
<1>1. IInv => OneAccountPerEmail  BY DEF IInv
<1> QED  BY <1>1, Invariance, PTL

(* The mutations implement the directory of users and organisations,       *)
(* however they overlap.                                                   *)
THEOREM DirectoryIsKept == Spec => DirectorySpec
<1>1. Init => People!Init
  <2> SUFFICES ASSUME Init PROVE People!Init  OBVIOUS
  <2>1. user \in [User -> Row \cup {NoRow}] /\ OneAccountPerEmail
    BY InitInv DEF IInv, TypeOK
  <2>2. \A u \in User : Exists(u) => user[u].role \in Givable
    BY <2>1, RolesHeld
  <2> QED
    BY <2>1, <2>2
    DEF Init, SeededOrganisations, OneAccountPerEmail, Exists,
        People!Init, People!Members, People!Free
<1>2. IInv /\ [Next]_vars => [People!Next]_<<user, organisation, drawn, Givable>>
  BY DirectoryStep
<1> QED  BY <1>1, <1>2, Invariance, PTL DEF Spec, DirectorySpec, People!Spec

(* Whoever leaves an organisation only joins one that is new: no update    *)
(* that loaded the user earlier takes a removal back.                      *)
THEOREM MovedOnlyToNewHolds == Spec => MovedOnlyToNew
<1> DEFINE A == \A u \in User :
        Exists(u) /\ user'[u] # NoRow /\ user'[u].organisation # user[u].organisation
            => user'[u].organisation \notin organisation
<1>1. IInv /\ [Next]_vars => A
  BY MovesStep
<1>2. IInv /\ [Next]_vars => [A]_vars
  BY <1>1
<1> HIDE DEF A
<1>3. Spec => [][A]_vars
  BY <1>2, Invariance, PTL DEF Spec
<1> QED  BY <1>3 DEF MovedOnlyToNew, A

(* No organisation is stored without a member, but for one that is made    *)
(* for a member who is deleted meanwhile.                                  *)
THEOREM OrganisationsBornOwnedHolds == Spec => OrganisationsBornOwned
<1> DEFINE A == \A o \in organisation' \ organisation :
        \/ \E u \in User : user'[u] # NoRow /\ user'[u].organisation = o
        \/ \E q \in Request : Is(q, "remove", "writing") /\ ~Exists(job[q].user)
<1>1. IInv /\ [Next]_vars => A
  BY OwnedStep
<1>2. IInv /\ [Next]_vars => [A]_vars
  BY <1>1
<1> HIDE DEF A
<1>3. Spec => [][A]_vars
  BY <1>2, Invariance, PTL DEF Spec
<1> QED  BY <1>3 DEF OrganisationsBornOwned, A

(* A rank that nobody has, and that nobody under way had, is never given.  *)
THEOREM NoPromotionFromBelowHolds == Spec => NoPromotionFromBelow
<1> DEFINE A == \A k \in 1..2 : Reached(k)' => Reached(k)
<1>1. IInv /\ [Next]_vars => A
  BY RankStep
<1>2. IInv /\ [Next]_vars => [A]_vars
  BY <1>1
<1> HIDE DEF A
<1>3. Spec => [][A]_vars
  BY <1>2, Invariance, PTL DEF Spec
<1> QED  BY <1>3 DEF NoPromotionFromBelow, A
=============================================================================
