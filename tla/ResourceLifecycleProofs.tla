----------------------- MODULE ResourceLifecycleProofs -----------------------
(***************************************************************************)
(* Proofs about ResourceLifecycle for every tree of systems, deployments   *)
(* and resources, every number of mutations and every grouping of them     *)
(* into documents.                                                         *)
(***************************************************************************)
EXTENDS ResourceLifecycle, TLAPS

(* Each variable keeps its type through every operation. *)
LEMMA InitTypeOK == Init => TypeOK
  BY Disjoint, ForeignKeyTypes, DocumentTypes
  DEF Init, TypeOK, Entity, Untasked, NoJob

(* Taking up a mutation field keeps every type. *)
LEMMA TakesTypeOK ==
  ASSUME TypeOK, minted' \subseteq Entity, NEW m \in Mutation,
         NEW o \in {"create", "update", "delete"}, NEW e \in Entity,
         NEW ph \in {"opening", "run"}, NEW ds \in SUBSET Deployment,
         NEW rs \in SUBSET Resource, Takes(m, o, e, ph, ds, rs)
  PROVE  TypeOK'
  BY DEF TypeOK, Takes, outside

(* So does every step, whoever takes it. *)
LEMMA StepTypeOK == TypeOK /\ [Next]_vars => TypeOK'
  <1> SUFFICES ASSUME TypeOK, [Next]_vars PROVE TypeOK'
    OBVIOUS
  <1> USE Disjoint, ForeignKeyTypes, DocumentTypes
  <1>1. CASE UNCHANGED vars
    BY <1>1 DEF TypeOK, vars, stored, outside, running
  <1>2. ASSUME NEW m \in Mutation, NEW e \in Entity,
               \/ BeginCreate(m, e)
               \/ BeginUpdate(m, e)
               \/ BeginDelete(m, e)
        PROVE TypeOK'
    <2>1. CASE BeginCreate(m, e)
      <3>1. minted' \subseteq Entity
        BY <2>1 DEF TypeOK, BeginCreate
      <3>2. Takes(m, "create", e, "run", {}, {e} \cap Resource)
        BY <2>1 DEF BeginCreate
      <3> QED BY <3>1, <3>2, TakesTypeOK
    <2>2. CASE BeginUpdate(m, e)
      <3>1. minted' \subseteq Entity
        BY <2>2 DEF TypeOK, BeginUpdate
      <3>2. PICK rs \in SUBSET ({e} \cap Resource) :
                   Takes(m, "update", e, "run", {}, rs)
        BY <2>2 DEF BeginUpdate
      <3> QED BY <3>1, <3>2, TakesTypeOK
    <2>3. CASE BeginDelete(m, e)
      <3>1. minted' \subseteq Entity
        BY <2>3 DEF TypeOK, BeginDelete
      <3> DEFINE ph == IF e \in System THEN "opening" ELSE "run"
      <3>2. Takes(m, "delete", e, ph, {e} \cap Deployment, {e} \cap Resource)
        BY <2>3 DEF BeginDelete
      <3>3. ph \in {"opening", "run"}
        OBVIOUS
      <3> HIDE DEF ph
      <3> QED BY <3>1, <3>2, <3>3, TakesTypeOK
    <2> QED BY <1>2, <2>1, <2>2, <2>3
  <1>3. ASSUME NEW m \in Mutation, BeginRefused(m) PROVE TypeOK'
    BY <1>3 DEF TypeOK, BeginRefused, stored, outside
  <1>4. ASSUME NEW m \in Mutation, ServerStep(m) PROVE TypeOK'
    <2>1. CASE OpenSystem(m)
      BY <2>1 DEF TypeOK, OpenSystem, stored, outside
    <2>2. ASSUME NEW d \in Deployment, ListResources(m, d) PROVE TypeOK'
      BY <2>2 DEF TypeOK, ListResources, stored, outside
    <2>3. ASSUME NEW d \in Deployment, CloseDeployment(m, d) PROVE TypeOK'
      BY <2>3 DEF TypeOK, CloseDeployment, stored, outside, Entity
    <2>4. ASSUME NEW r \in Resource, Connect(m, r) PROVE TypeOK'
      BY <2>4 DEF TypeOK, Connect, stored, outside
    <2>5. ASSUME NEW r \in Resource, ConnectFails(m, r) PROVE TypeOK'
      BY <2>5 DEF TypeOK, ConnectFails, Rejects, stored, outside
    <2>6. CASE Commit(m)
      BY <2>6 DEF TypeOK, Commit, Flushed, stored, outside
    <2>7. CASE Rollback(m)
      BY <2>7 DEF TypeOK, Rollback, stored, outside
    <2> QED BY <1>4, <2>1, <2>2, <2>3, <2>4, <2>5, <2>6, <2>7 DEF ServerStep
  <1>5. ASSUME NEW m \in Mutation, NEW r \in Resource, CallEnds(m, r)
        PROVE TypeOK'
    <2>1. CASE CreateAccepted(m, r)
      BY <2>1 DEF TypeOK, CreateAccepted, CallSucceeds, stored
    <2>2. CASE CreateDeclined(m, r)
      BY <2>2 DEF TypeOK, CreateDeclined, CallRejects, Rejects, stored
    <2>3. CASE UpdateAnswered(m, r)
      BY <2>3 DEF TypeOK, UpdateAnswered, CallSucceeds, stored
    <2>4. CASE DeleteAccepted(m, r)
      BY <2>4 DEF TypeOK, DeleteAccepted, DeletionSettles, stored, Entity
    <2>5. CASE DeleteDeclined(m, r)
      BY <2>5 DEF TypeOK, DeleteDeclined, DeletionSettles, stored, Entity
    <2>6. CASE CallFails(m, r)
      <3>1. stray' \subseteq ({"create", "update", "delete"} \X Resource)
        BY <2>6 DEF TypeOK, CallFails, MayStray
      <3> QED BY <2>6, <3>1 DEF TypeOK, CallFails, CallRejects, Rejects, stored
    <2>7. CASE DeleteFails(m, r)
      <3>1. stray' \subseteq ({"create", "update", "delete"} \X Resource)
        BY <2>7 DEF TypeOK, DeleteFails, MayStray
      <3> QED BY <2>7, <3>1 DEF TypeOK, DeleteFails, DeletionSettles, stored, Entity
    <2> QED BY <1>5, <2>1, <2>2, <2>3, <2>4, <2>5, <2>6, <2>7 DEF CallEnds
  <1>6. ASSUME NEW o \in Issued, NEW r \in Resource, StrayCall(o, r)
        PROVE TypeOK'
    BY <1>6 DEF TypeOK, StrayCall, stored, running
  <1>7. ASSUME NEW x \in Context, EndRequest(x) \/ Crash(x) PROVE TypeOK'
    <2>1. OutstandingCalls(x) \subseteq {"create", "update", "delete"} \X Resource
      BY DEF OutstandingCalls
    <2>2. stray' \subseteq ({"create", "update", "delete"} \X Resource)
      BY <1>7, <2>1 DEF TypeOK, EndRequest, Crash
    <2>3. Forgets(x)
      BY <1>7 DEF EndRequest, Crash
    <2> QED BY <2>2, <2>3 DEF TypeOK, Forgets, Untasked, NoJob, stored
  <1> QED BY <1>1, <1>2, <1>3, <1>4, <1>5, <1>6, <1>7 DEF Next, Begins

-----------------------------------------------------------------------------
(* Only a commit changes the tables, and identifiers are never taken back. *)
LEMMA TablesFrame ==
  ASSUME [Next]_vars
  PROVE  /\ row' = row \/ \E m \in Mutation : Commit(m)
         /\ minted \subseteq minted'
  <1>1. CASE UNCHANGED vars
    BY <1>1 DEF vars, stored
  <1>2. ASSUME NEW m \in Mutation, Begins(m)
        PROVE row' = row /\ minted \subseteq minted'
    BY <1>2 DEF Begins, BeginCreate, BeginUpdate, BeginDelete, BeginRefused,
                Takes, stored
  <1>3. ASSUME NEW m \in Mutation, ServerStep(m)
        PROVE (row' = row \/ Commit(m)) /\ minted' = minted
    BY <1>3 DEF ServerStep, OpenSystem, ListResources, CloseDeployment, Connect,
                ConnectFails, Commit, Rollback, stored
  <1>4. ASSUME NEW m \in Mutation, NEW r \in Resource, CallEnds(m, r)
        PROVE row' = row /\ minted' = minted
    BY <1>4 DEF CallEnds, CreateAccepted, CreateDeclined, UpdateAnswered,
                DeleteAccepted, DeleteDeclined, CallFails, DeleteFails, stored
  <1>5. ASSUME NEW o \in Issued, NEW r \in Resource, StrayCall(o, r)
        PROVE row' = row /\ minted' = minted
    BY <1>5 DEF StrayCall, stored
  <1>6. ASSUME NEW x \in Context, EndRequest(x) \/ Crash(x)
        PROVE row' = row /\ minted' = minted
    BY <1>6 DEF EndRequest, Crash, Forgets, stored
  <1> QED BY <1>1, <1>2, <1>3, <1>4, <1>5, <1>6 DEF Next

(* The foreign keys hold because the database checks them at every commit, *)
(* and what is stored was drawn because a commit stores a job's entity.    *)
LEMMA StepRowsInv ==
  TypeOK /\ RowsInv /\ JobsInv /\ [Next]_vars => RowsInv'
  <1> SUFFICES ASSUME TypeOK, RowsInv, JobsInv, [Next]_vars PROVE RowsInv'
    OBVIOUS
  <1>1. minted \subseteq minted'
    BY TablesFrame
  <1>2. CASE row' = row
    BY <1>1, <1>2 DEF RowsInv, ForeignKeysHold
  <1>3. ASSUME NEW m \in Mutation, Commit(m) PROVE RowsInv'
    <2>1. ForeignKeysHold(row')
      BY <1>3 DEF Commit
    <2>2. ASSUME NEW e \in Entity, row'[e] # "none" PROVE e \in minted
      BY <1>3, <2>2 DEF Commit, Flushed, Stored, RowsInv, JobsInv, TypeOK
    <2> QED BY <1>1, <2>1, <2>2 DEF RowsInv
  <1> QED BY <1>2, <1>3, TablesFrame

(* What a commit does to one row. *)
LEMMA CommittedRow ==
  ASSUME TypeOK, NEW m \in Mutation, Commit(m), NEW e \in Entity
  PROVE  /\ row'[e] = IF e \in Removed(m) /\ row[e] = "present" THEN "deleted"
                      ELSE IF job[m].op = "create" /\ job[m].on = e THEN "present"
                      ELSE row[e]
         /\ row[e] # "none" => row'[e] # "none"
         /\ row[e] = "deleted" /\ ~(job[m].op = "create" /\ job[m].on = e)
                => row'[e] = "deleted"
  BY DEF Commit, Flushed, Stored, TypeOK

(* Jobs: an entity to delete or update has been stored, and stays so; one  *)
(* to create is new, and no two mutations create the same.                 *)
LEMMA StepJobsInv ==
  TypeOK /\ RowsInv /\ JobsInv /\ [Next]_vars => JobsInv'
  <1> SUFFICES ASSUME TypeOK, RowsInv, JobsInv, [Next]_vars PROVE JobsInv'
    OBVIOUS
  <1>1. CASE UNCHANGED vars
    BY <1>1 DEF JobsInv, vars, stored, running
  <1>2. ASSUME NEW m \in Mutation, NEW e \in Entity, BeginCreate(m, e)
        PROVE JobsInv'
    BY <1>2 DEF TypeOK, RowsInv, JobsInv, BeginCreate, Takes
  <1>3. ASSUME NEW m \in Mutation, NEW e \in Entity,
               BeginUpdate(m, e) \/ BeginDelete(m, e)
        PROVE JobsInv'
    <2>1. /\ row' = row /\ minted' = minted
          /\ row[e] = "present" /\ e \in minted
      BY <1>3 DEF BeginUpdate, BeginDelete, Takes, Stored, RowsInv
    <2>2. CASE BeginUpdate(m, e)
      <3>1. /\ job' = [job EXCEPT ![m] = [op |-> "update", on |-> e]]
            /\ phase' = [phase EXCEPT ![m] = "run"]
        BY <2>2 DEF BeginUpdate, Takes
      <3> QED BY <2>1, <3>1 DEF TypeOK, JobsInv
    <2>3. CASE BeginDelete(m, e)
      <3>1. /\ job' = [job EXCEPT ![m] = [op |-> "delete", on |-> e]]
            /\ \/ e \in System /\ phase' = [phase EXCEPT ![m] = "opening"]
               \/ phase' = [phase EXCEPT ![m] = "run"]
        BY <2>3 DEF BeginDelete, Takes
      <3> QED BY <2>1, <3>1 DEF TypeOK, JobsInv
    <2> QED BY <1>3, <2>2, <2>3
  <1>4. ASSUME NEW m \in Mutation, BeginRefused(m) PROVE JobsInv'
    BY <1>4 DEF TypeOK, JobsInv, BeginRefused, stored
  <1>5. ASSUME NEW m \in Mutation, ServerStep(m) PROVE JobsInv'
    <2>1. CASE OpenSystem(m)
      BY <2>1 DEF TypeOK, JobsInv, OpenSystem, stored
    <2>2. ASSUME NEW d \in Deployment, ListResources(m, d) \/ CloseDeployment(m, d)
          PROVE JobsInv'
      BY <2>2 DEF JobsInv, ListResources, CloseDeployment, stored
    <2>3. ASSUME NEW r \in Resource, Connect(m, r) \/ ConnectFails(m, r)
          PROVE JobsInv'
      BY <2>3 DEF TypeOK, JobsInv, Connect, ConnectFails, Rejects, stored
    <2>4. CASE Commit(m)
      <3> USE <2>4 DEF JobsInv
      <3>1. /\ minted' = minted /\ job' = job
            /\ phase[m] = "run" /\ phase' = [phase EXCEPT ![m] = "ok"]
        BY DEF Commit, Resolved
      <3>2. ASSUME NEW n \in Mutation, job[n].op \in {"update", "delete"}
            PROVE row'[job[n].on] # "none"
        BY <3>2, CommittedRow DEF TypeOK
      <3>3. ASSUME NEW n \in Mutation, job[n].op = "create", phase'[n] = "run"
            PROVE row'[job[n].on] = "none"
        <4>1. n # m /\ phase[n] = "run" /\ job[n].on \in Entity
          BY <3>1, <3>3 DEF TypeOK
        <4>2. row[job[n].on] = "none" /\ ~(job[m].op = "create" /\ job[m].on = job[n].on)
          BY <4>1, <3>3
        <4> QED BY <4>1, <4>2, CommittedRow
      <3>4. ASSUME NEW n \in Mutation, job[n].op = "delete", phase'[n] = "ok"
            PROVE row'[job[n].on] = "deleted"
        <4>1. job[n].on \in Entity /\ row[job[n].on] # "none"
          BY <3>4 DEF TypeOK
        <4>2. CASE n = m
          <5>1. job[m].on \in Removed(m) /\ job[m].op # "create"
            BY <3>4, <4>2 DEF Removed
          <5> QED BY <5>1, <4>1, <4>2, CommittedRow DEF TypeOK
        <4>3. CASE n # m
          <5>1. row[job[n].on] = "deleted"
            BY <3>1, <3>4, <4>3 DEF TypeOK
          <5>2. ~(job[m].op = "create" /\ job[m].on = job[n].on)
            BY <3>1, <5>1
          <5> QED BY <5>1, <5>2, <4>1, CommittedRow
        <4> QED BY <4>2, <4>3
      <3> QED BY <3>1, <3>2, <3>3, <3>4 DEF TypeOK
    <2>5. CASE Rollback(m)
      BY <2>5 DEF TypeOK, JobsInv, Rollback, Resolved, stored
    <2> QED BY <1>5, <2>1, <2>2, <2>3, <2>4, <2>5 DEF ServerStep
  <1>6. ASSUME NEW m \in Mutation, NEW r \in Resource, CallEnds(m, r)
        PROVE JobsInv'
    <2>1. /\ row' = row /\ minted' = minted /\ job' = job
          /\ phase' = phase \/ Rejects(m)
      BY <1>6 DEF CallEnds, CreateAccepted, CreateDeclined, UpdateAnswered,
           DeleteAccepted, DeleteDeclined, CallFails, DeleteFails, CallSucceeds,
           CallRejects, DeletionSettles, stored
    <2> QED BY <2>1 DEF TypeOK, JobsInv, Rejects
  <1>7. ASSUME NEW o \in Issued, NEW r \in Resource, StrayCall(o, r)
        PROVE JobsInv'
    BY <1>7 DEF JobsInv, StrayCall, stored, running
  <1>8. ASSUME NEW x \in Context, EndRequest(x) \/ Crash(x) PROVE JobsInv'
    <2>1. Forgets(x)
      BY <1>8 DEF EndRequest, Crash
    <2> QED BY <2>1 DEF TypeOK, JobsInv, Forgets, NoJob, stored
  <1> QED BY <1>1, <1>2, <1>3, <1>4, <1>5, <1>6, <1>7, <1>8 DEF Next, Begins

-----------------------------------------------------------------------------
(* The resources of a deployment in the scope of a mutation are in it too. *)
LEMMA ScopeClosed ==
  ASSUME TypeOK, JobsInv, NEW m \in Mutation, NEW d \in Deployment, d \in Scope(m),
         NEW r \in ResourcesIn(d)
  PROVE  r \in Scope(m)
  <1>1. job[m].op = "delete" /\ d \in {job[m].on} \cup Owned[job[m].on]
    BY DEF Scope
  <1>2. job[m].on \in Entity /\ r \in Resource /\ DeploymentOf[r] = d
    BY <1>1 DEF JobsInv, TypeOK, ResourcesIn
  <1>3. r \in Owned[job[m].on]
    BY <1>1, <1>2, Disjoint, ForeignKeyTypes DEF Owned, Entity
  <1> QED BY <1>1, <1>3 DEF Scope

(* Work and marks stay within the scope of the mutation. *)
LEMMA TakesScopeInv ==
  ASSUME TypeOK, JobsInv, ScopeInv, NEW m \in Mutation, NEW o \in {"create", "update", "delete"},
         NEW e \in Entity, NEW ph, NEW ds \in SUBSET Deployment,
         NEW rs \in SUBSET Resource, Takes(m, o, e, ph, ds, rs),
         ds \cup rs \subseteq {e}, ds # {} => o = "delete" /\ ph = "run"
  PROVE  ScopeInv'
  <1>1. /\ phase[m] = "free" /\ job[m].op = "none" /\ Scope(m) = {}
        /\ job' = [job EXCEPT ![m] = [op |-> o, on |-> e]]
        /\ begun' = [begun EXCEPT ![m] = ds]
        /\ task' = [task EXCEPT ![m] = [r \in Resource |->
                      IF r \in rs THEN "connect" ELSE "none"]]
        /\ phase' = [phase EXCEPT ![m] = ph]
        /\ listed' = listed /\ closed' = closed /\ marked' = marked
    BY DEF Takes, JobsInv, Scope
  <1>2. ASSUME NEW n \in Mutation, n # m PROVE Scope(n)' = Scope(n)
    BY <1>1, <1>2 DEF Scope, TypeOK
  <1>3. Scope(m)' = IF o = "delete" THEN {e} \cup Owned[e] ELSE {}
    BY <1>1 DEF Scope, TypeOK
  <1>4. listed[m] = {} /\ closed[m] = {}
    BY <1>1 DEF ScopeInv
  <1>5. ASSUME NEW n \in Mutation
        PROVE /\ begun'[n] \subseteq Scope(n)'
              /\ phase'[n] = "opening" => begun'[n] = {}
              /\ listed'[n] \subseteq begun'[n]
              /\ closed'[n] \subseteq listed'[n]
    <2>1. CASE n = m
      BY <2>1, <1>1, <1>3, <1>4 DEF TypeOK
    <2>2. CASE n # m
      BY <2>2, <1>1, <1>2 DEF ScopeInv, TypeOK
    <2> QED BY <2>1, <2>2
  <1>6. ASSUME NEW n \in Mutation, NEW r \in Resource, task'[n][r] # "none"
        PROVE \/ job'[n].op = "delete" /\ r \in Scope(n)'
              \/ job'[n].op \in {"create", "update"} /\ r = job'[n].on
    <2>1. CASE n = m
      <3>1. r \in rs
        BY <2>1, <1>1, <1>6 DEF TypeOK
      <3> QED BY <2>1, <3>1, <1>1, <1>3 DEF TypeOK
    <2>2. CASE n # m
      BY <2>2, <1>1, <1>2, <1>6 DEF ScopeInv, TypeOK
    <2> QED BY <2>1, <2>2
  <1>7. ASSUME NEW x \in Context, NEW f \in marked'[x]
        PROVE \E n \in MutationsOf(x) : f \in Scope(n)'
    <2>1. PICK n \in MutationsOf(x) : f \in Scope(n)
      BY <1>1, <1>7 DEF ScopeInv
    <2>2. n \in Mutation /\ n # m
      BY <1>1, <2>1 DEF MutationsOf
    <2> QED BY <2>1, <2>2, <1>2
  <1> QED BY <1>5, <1>6, <1>7 DEF ScopeInv, MutationsOf

(* The part of ScopeInv that concerns a step of one mutation at work.      *)
LEMMA WorkScopeInv ==
  ASSUME TypeOK, ScopeInv, NEW m \in Mutation, job' = job,
         \A x \in Context : \A f \in marked'[x] :
            f \in marked[x] \/ (x = ContextOf[m] /\ f \in Scope(m)),
         \A n \in Mutation : begun'[n] \subseteq Scope(n),
         \A n \in Mutation : phase'[n] = "opening" => begun'[n] = {},
         \A n \in Mutation : listed'[n] \subseteq begun'[n],
         \A n \in Mutation : closed'[n] \subseteq listed'[n],
         \A n \in Mutation, r \in Resource : task'[n][r] # "none" =>
            \/ task[n][r] # "none"
            \/ job[n].op = "delete" /\ r \in Scope(n)
  PROVE  ScopeInv'
  <1>1. \A n \in Mutation : Scope(n)' = Scope(n)
    BY DEF Scope
  <1>2. ASSUME NEW x \in Context, NEW f \in marked'[x]
        PROVE \E n \in MutationsOf(x) : f \in Scope(n)
    <2>1. CASE f \in marked[x]
      BY <2>1 DEF ScopeInv
    <2>2. CASE f \notin marked[x]
      <3>1. x = ContextOf[m] /\ f \in Scope(m)
        BY <2>2, <1>2
      <3> QED BY <3>1 DEF MutationsOf
    <2> QED BY <2>1, <2>2
  <1> QED BY <1>1, <1>2 DEF ScopeInv, MutationsOf

(* No step takes work or marks out of scope. *)
LEMMA StepScopeInv ==
  TypeOK /\ RowsInv /\ JobsInv /\ ScopeInv /\ [Next]_vars => ScopeInv'
  <1> SUFFICES ASSUME TypeOK, RowsInv, JobsInv, ScopeInv, [Next]_vars
               PROVE  ScopeInv'
    OBVIOUS
  <1> USE DocumentTypes
  <1>a. marked \in [Context -> SUBSET Entity]
    BY DEF TypeOK
  <1>b. /\ phase \in [Mutation -> {"free", "opening", "run", "ok", "error"}]
        /\ begun \in [Mutation -> SUBSET Deployment]
        /\ listed \in [Mutation -> SUBSET Deployment]
        /\ closed \in [Mutation -> SUBSET Deployment]
    BY DEF TypeOK
  <1>c. task \in [Mutation -> [Resource -> {"none", "connect", "call", "done", "failed"}]]
    BY DEF TypeOK
  <1>d. \A n \in Mutation : /\ begun[n] \subseteq Scope(n)
                            /\ phase[n] = "opening" => begun[n] = {}
                            /\ listed[n] \subseteq begun[n]
                            /\ closed[n] \subseteq listed[n]
    BY DEF ScopeInv
  <1>1. CASE UNCHANGED vars
    BY <1>1 DEF ScopeInv, Scope, vars, stored, running, MutationsOf
  <1>2. ASSUME NEW m \in Mutation, NEW e \in Entity, BeginCreate(m, e)
        PROVE ScopeInv'
    BY <1>2, TakesScopeInv DEF BeginCreate
  <1>3. ASSUME NEW m \in Mutation, NEW e \in Entity, BeginUpdate(m, e)
        PROVE ScopeInv'
    <2>1. PICK rs \in SUBSET ({e} \cap Resource) :
                 Takes(m, "update", e, "run", {}, rs)
      BY <1>3 DEF BeginUpdate
    <2> QED BY <2>1, TakesScopeInv
  <1>4. ASSUME NEW m \in Mutation, NEW e \in Entity, BeginDelete(m, e)
        PROVE ScopeInv'
    <2> DEFINE ph == IF e \in System THEN "opening" ELSE "run"
    <2>1. Takes(m, "delete", e, ph, {e} \cap Deployment, {e} \cap Resource)
      BY <1>4 DEF BeginDelete
    <2>2. {e} \cap Deployment # {} => ph = "run"
      BY Disjoint
    <2> HIDE DEF ph
    <2> QED BY <2>1, <2>2, TakesScopeInv
  <1>5. ASSUME NEW m \in Mutation, BeginRefused(m) PROVE ScopeInv'
    BY <1>5 DEF ScopeInv, Scope, BeginRefused, MutationsOf
  <1>6. ASSUME NEW m \in Mutation, ServerStep(m) PROVE ScopeInv'
    <2>1. CASE OpenSystem(m)
      <3>1. ASSUME NEW d \in Deployment, SystemOf[d] = job[m].on
            PROVE d \in Scope(m)
        BY <2>1, <3>1, ForeignKeyTypes
        DEF OpenSystem, JobsInv, Scope, Owned, Entity
      <3>2. begun'[m] \subseteq Scope(m)
        BY <2>1, <3>1 DEF OpenSystem, TypeOK
      <3>3. listed[m] = {} /\ closed[m] = {}
        BY <2>1 DEF OpenSystem, ScopeInv
      <3>4. /\ job' = job /\ marked' = marked /\ listed' = listed
            /\ closed' = closed /\ task' = task
            /\ phase' = [phase EXCEPT ![m] = "run"]
            /\ \A n \in Mutation : n # m => begun'[n] = begun[n]
        BY <2>1, <1>b DEF OpenSystem
      <3>5. \A n \in Mutation : phase'[n] = "opening" => begun'[n] = {}
        BY <3>4, <1>b, <1>d
      <3>6. \A n \in Mutation : begun'[n] \subseteq Scope(n)
        BY <3>4, <3>2, <1>d
      <3>7. \A n \in Mutation : listed'[n] \subseteq begun'[n]
        BY <3>4, <3>3, <1>d
      <3> QED BY <3>4, <3>5, <3>6, <3>7, <1>d, WorkScopeInv
    <2>2. ASSUME NEW d \in Deployment, ListResources(m, d) PROVE ScopeInv'
      <3>1. d \in Scope(m) /\ job[m].op = "delete"
        BY <2>2 DEF ListResources, ScopeInv, Scope
      <3>2. \A r \in ResourcesIn(d) : r \in Scope(m)
        BY <3>1, ScopeClosed
      <3>3. /\ job' = job /\ marked' = marked /\ begun' = begun
            /\ closed' = closed /\ phase' = phase
            /\ d \in begun[m] /\ listed' = [listed EXCEPT ![m] = @ \cup {d}]
        BY <2>2 DEF ListResources
      <3>4. \A n \in Mutation : /\ listed'[n] \subseteq begun[n]
                                /\ listed[n] \subseteq listed'[n]
        BY <3>3, <1>b, <1>d
      <3>5. \A n \in Mutation, r \in Resource : task'[n][r] # "none" =>
               task[n][r] # "none" \/ (n = m /\ r \in ResourcesIn(d))
        BY <2>2, <1>c DEF ListResources
      <3>6. \A n \in Mutation : closed'[n] \subseteq listed'[n]
        BY <3>3, <3>4, <1>d
      <3>7. \A n \in Mutation, r \in Resource : task'[n][r] # "none" =>
               task[n][r] # "none" \/ (job[n].op = "delete" /\ r \in Scope(n))
        BY <3>1, <3>2, <3>5
      <3> QED BY <3>3, <3>4, <3>6, <3>7, <1>d, WorkScopeInv
    <2>3. ASSUME NEW d \in Deployment, CloseDeployment(m, d) PROVE ScopeInv'
      <3>1. d \in Scope(m)
        BY <2>3 DEF CloseDeployment, ScopeInv
      <3>2. \A x \in Context : \A f \in marked'[x] :
               f \in marked[x] \/ (x = ContextOf[m] /\ f = d)
        BY <2>3, <1>a DEF CloseDeployment
      <3>3. /\ job' = job /\ begun' = begun /\ listed' = listed
            /\ phase' = phase /\ task' = task
            /\ d \in listed[m] /\ closed' = [closed EXCEPT ![m] = @ \cup {d}]
        BY <2>3 DEF CloseDeployment
      <3>4. \A n \in Mutation : closed'[n] \subseteq listed[n]
        BY <3>3, <1>b, <1>d
      <3>5. \A x \in Context : \A f \in marked'[x] :
               f \in marked[x] \/ (x = ContextOf[m] /\ f \in Scope(m))
        BY <3>1, <3>2
      <3> QED BY <3>3, <3>4, <3>5, <1>d, WorkScopeInv
    <2>4. ASSUME NEW r \in Resource, Connect(m, r) \/ ConnectFails(m, r)
          PROVE ScopeInv'
      <3>1. /\ job' = job /\ begun' = begun /\ listed' = listed
            /\ closed' = closed /\ marked' = marked /\ task[m][r] = "connect"
            /\ \/ task' = [task EXCEPT ![m][r] = "call"]
               \/ task' = [task EXCEPT ![m][r] = "failed"]
            /\ phase' = phase \/ Rejects(m)
        BY <2>4 DEF Connect, ConnectFails
      <3>2. \A n \in Mutation, q \in Resource :
               task'[n][q] # "none" => task[n][q] # "none"
        BY <3>1, <1>c
      <3>3. \A n \in Mutation : phase'[n] = "opening" => phase[n] = "opening"
        BY <3>1, <1>b DEF Rejects
      <3> QED BY <3>1, <3>2, <3>3, <1>d, WorkScopeInv
    <2>5. CASE Commit(m) \/ Rollback(m)
      <3>1. /\ job' = job /\ begun' = begun /\ listed' = listed
            /\ closed' = closed /\ task' = task
            /\ marked' = [marked EXCEPT ![ContextOf[m]] = {}]
            /\ \A n \in Mutation : phase'[n] = "opening" => phase[n] = "opening"
        BY <2>5, <1>b DEF Commit, Rollback
      <3>2. \A x \in Context : marked'[x] \subseteq marked[x]
        BY <3>1, <1>a
      <3> QED BY <3>1, <3>2, <1>d, WorkScopeInv
    <2> QED BY <1>6, <2>1, <2>2, <2>3, <2>4, <2>5 DEF ServerStep
  <1>7. ASSUME NEW m \in Mutation, NEW r \in Resource, CallEnds(m, r)
        PROVE ScopeInv'
    <2>1. /\ job' = job /\ begun' = begun /\ listed' = listed /\ closed' = closed
          /\ task[m][r] = "call"
          /\ \/ task' = [task EXCEPT ![m][r] = "done"]
             \/ task' = [task EXCEPT ![m][r] = "failed"]
          /\ phase' = phase \/ Rejects(m)
          /\ \/ marked' = marked
             \/ /\ job[m].op = "delete"
                /\ marked' = [marked EXCEPT ![ContextOf[m]] = @ \cup {r}]
      BY <1>7 DEF CallEnds, CreateAccepted, CreateDeclined, UpdateAnswered,
           DeleteAccepted, DeleteDeclined, CallFails, DeleteFails, CallSucceeds,
           CallRejects, DeletionSettles
    <2>2. \A n \in Mutation, q \in Resource :
             task'[n][q] # "none" => task[n][q] # "none"
      <3>1. task[m][r] # "none"
        BY <2>1
      <3>2. CASE task' = [task EXCEPT ![m][r] = "done"]
        BY <3>1, <3>2, <1>c
      <3>3. CASE task' = [task EXCEPT ![m][r] = "failed"]
        BY <3>1, <3>3, <1>c
      <3> QED BY <2>1, <3>2, <3>3
    <2>3. \A n \in Mutation : phase'[n] = "opening" => phase[n] = "opening"
      BY <2>1, <1>b DEF Rejects
    <2>4. \A x \in Context : \A f \in marked'[x] :
             \/ f \in marked[x]
             \/ x = ContextOf[m] /\ f = r /\ job[m].op = "delete"
      <3>1. CASE marked' = marked
        BY <3>1
      <3>2. CASE /\ job[m].op = "delete"
                 /\ marked' = [marked EXCEPT ![ContextOf[m]] = @ \cup {r}]
        BY <3>2, <1>a
      <3> QED BY <2>1, <3>1, <3>2
    <2>5. job[m].op = "delete" => r \in Scope(m)
      BY <2>1 DEF ScopeInv
    <2>6. \A x \in Context : \A f \in marked'[x] :
             f \in marked[x] \/ (x = ContextOf[m] /\ f \in Scope(m))
      BY <2>4, <2>5
    <2> QED BY <2>1, <2>2, <2>3, <2>6, <1>d, WorkScopeInv
  <1>8. ASSUME NEW o \in Issued, NEW r \in Resource, StrayCall(o, r)
        PROVE ScopeInv'
    BY <1>8 DEF ScopeInv, Scope, StrayCall, running, MutationsOf
  <1>9. ASSUME NEW x \in Context, EndRequest(x) \/ Crash(x) PROVE ScopeInv'
    <2>1. Forgets(x)
      BY <1>9 DEF EndRequest, Crash
    <2>2. ASSUME NEW n \in Mutation, ContextOf[n] # x
          PROVE /\ Scope(n)' = Scope(n) /\ begun'[n] = begun[n]
                /\ listed'[n] = listed[n] /\ closed'[n] = closed[n]
                /\ phase'[n] = phase[n] /\ task'[n] = task[n] /\ job'[n] = job[n]
      BY <2>1, <2>2 DEF Forgets, Scope
    <2>3. ASSUME NEW n \in Mutation, ContextOf[n] = x
          PROVE /\ begun'[n] = {} /\ listed'[n] = {} /\ closed'[n] = {}
                /\ task'[n] = Untasked
      BY <2>1, <2>3 DEF Forgets
    <2>4. ASSUME NEW y \in Context, NEW f \in marked'[y]
          PROVE \E n \in MutationsOf(y) : f \in Scope(n)'
      <3>1. y # x /\ f \in marked[y]
        BY <2>1, <2>4 DEF Forgets, TypeOK
      <3>2. PICK n \in MutationsOf(y) : f \in Scope(n)
        BY <3>1 DEF ScopeInv
      <3> QED BY <3>1, <3>2, <2>2 DEF MutationsOf
    <2> QED BY <2>2, <2>3, <2>4 DEF ScopeInv, Untasked, MutationsOf
  <1> QED BY <1>1, <1>2, <1>3, <1>4, <1>5, <1>6, <1>7, <1>8, <1>9
          DEF Next, Begins

-----------------------------------------------------------------------------
(* The fate of a resource at its service.                                  *)
LEMMA StepFateInv ==
  TypeOK /\ RowsInv /\ JobsInv /\ ScopeInv /\ FateInv /\ [Next]_vars => FateInv'
  <1> SUFFICES ASSUME TypeOK, RowsInv, JobsInv, ScopeInv, FateInv, [Next]_vars
               PROVE  FateInv'
    OBVIOUS
  <1> USE DocumentTypes
  <1>a. /\ row \in [Entity -> {"none", "present", "deleted"}]
        /\ remote \in [Resource -> {"absent", "live"}]
        /\ fate \in [Resource -> {"untouched", "asked", "cleaned"}]
        /\ marked \in [Context -> SUBSET Entity]
    BY DEF TypeOK
  <1>b. /\ job \in [Mutation -> [op : {"none", "create", "update", "delete"},
                                 on : Entity \cup {"nothing"}]]
        /\ phase \in [Mutation -> {"free", "opening", "run", "ok", "error"}]
        /\ task \in [Mutation -> [Resource ->
                        {"none", "connect", "call", "done", "failed"}]]
    BY DEF TypeOK
  <1>c. Resource \subseteq Entity
    BY DEF Entity
  <1>d. /\ \A r \in Resource : ResourceInv(r)
        /\ \A m \in Mutation, r \in Resource : WorkInv(m, r)
    BY DEF FateInv
  <1>e. \A m \in Mutation, r \in Resource :
           job[m].op = "create" /\ task[m][r] # "none" => r = job[m].on
    BY DEF ScopeInv
  <1>1. CASE UNCHANGED vars
    BY <1>1 DEF FateInv, ResourceInv, WorkInv, vars, stored, outside, running
  <1>2. ASSUME NEW m \in Mutation, NEW e \in Entity, BeginCreate(m, e)
        PROVE FateInv'
    <2>1. /\ e \notin minted /\ row[e] = "none" /\ minted' = minted \cup {e}
          /\ job' = [job EXCEPT ![m] = [op |-> "create", on |-> e]]
          /\ phase' = [phase EXCEPT ![m] = "run"]
          /\ task' = [task EXCEPT ![m] = [r \in Resource |->
                        IF r = e THEN "connect" ELSE "none"]]
          /\ row' = row /\ remote' = remote /\ stray' = stray /\ fate' = fate
          /\ marked' = marked
      BY <1>2 DEF BeginCreate, Takes, RowsInv, outside
    <2>2. ASSUME NEW r \in Resource PROVE ResourceInv(r)'
      BY <2>1, <1>d DEF ResourceInv
    <2>3. ASSUME NEW n \in Mutation, NEW r \in Resource PROVE WorkInv(n, r)'
      <3>1. CASE n = m
        <4>1. r = e => remote[r] = "absent" /\ <<"create", r>> \notin stray
          BY <2>1, <1>d DEF ResourceInv
        <4>2. /\ job'[n].op = "create" /\ job'[n].on = e /\ phase'[n] = "run"
              /\ task'[n][r] = IF r = e THEN "connect" ELSE "none"
          BY <2>1, <3>1, <1>b
        <4> QED BY <4>1, <4>2, <2>1 DEF WorkInv
      <3>2. CASE n # m
        BY <2>1, <3>2, <1>b, <1>d DEF WorkInv
      <3> QED BY <3>1, <3>2
    <2> QED BY <2>2, <2>3 DEF FateInv
  <1>3. ASSUME NEW m \in Mutation, NEW e \in Entity, BeginUpdate(m, e)
        PROVE FateInv'
    <2>1. PICK rs \in SUBSET ({e} \cap Resource) :
                 Takes(m, "update", e, "run", {}, rs)
      BY <1>3 DEF BeginUpdate
    <2>2. /\ job' = [job EXCEPT ![m] = [op |-> "update", on |-> e]]
          /\ phase' = [phase EXCEPT ![m] = "run"]
          /\ task' = [task EXCEPT ![m] = [r \in Resource |->
                        IF r \in rs THEN "connect" ELSE "none"]]
          /\ row' = row /\ remote' = remote /\ stray' = stray /\ fate' = fate
          /\ marked' = marked /\ minted' = minted
      BY <1>3, <2>1 DEF BeginUpdate, Takes, outside
    <2>3. ASSUME NEW r \in Resource PROVE ResourceInv(r)'
      BY <2>2, <1>d DEF ResourceInv
    <2>4. ASSUME NEW n \in Mutation, NEW r \in Resource PROVE WorkInv(n, r)'
      BY <2>2, <1>b, <1>d DEF WorkInv
    <2> QED BY <2>3, <2>4 DEF FateInv
  <1>4. ASSUME NEW m \in Mutation, NEW e \in Entity, BeginDelete(m, e)
        PROVE FateInv'
    <2>1. /\ row[e] = "present"
          /\ job' = [job EXCEPT ![m] = [op |-> "delete", on |-> e]]
          /\ task' = [task EXCEPT ![m] = [r \in Resource |->
                        IF r = e THEN "connect" ELSE "none"]]
          /\ \A n \in Mutation : n # m => phase'[n] = phase[n]
          /\ row' = row /\ remote' = remote /\ stray' = stray /\ fate' = fate
          /\ marked' = marked /\ minted' = minted
      BY <1>4, <1>b DEF BeginDelete, Takes, Stored, outside
    <2>2. ASSUME NEW r \in Resource PROVE ResourceInv(r)'
      BY <2>1, <1>d DEF ResourceInv
    <2>3. ASSUME NEW n \in Mutation, NEW r \in Resource PROVE WorkInv(n, r)'
      BY <2>1, <1>a, <1>b, <1>c, <1>d DEF WorkInv
    <2> QED BY <2>2, <2>3 DEF FateInv
  <1>5. ASSUME NEW m \in Mutation, BeginRefused(m) PROVE FateInv'
    <2>1. /\ job[m].op = "none" /\ phase' = [phase EXCEPT ![m] = "error"]
          /\ job' = job /\ task' = task /\ marked' = marked /\ minted' = minted
          /\ row' = row /\ remote' = remote /\ stray' = stray /\ fate' = fate
      BY <1>5 DEF BeginRefused, JobsInv, stored, outside
    <2>2. ASSUME NEW r \in Resource PROVE ResourceInv(r)'
      BY <2>1, <1>d DEF ResourceInv
    <2>3. ASSUME NEW n \in Mutation, NEW r \in Resource PROVE WorkInv(n, r)'
      BY <2>1, <1>b, <1>d DEF WorkInv
    <2> QED BY <2>2, <2>3 DEF FateInv
  <1>6. ASSUME NEW m \in Mutation, ServerStep(m) PROVE FateInv'
    <2>1. CASE OpenSystem(m)
      <3>1. /\ job[m].op = "delete" /\ job[m].on \in System
            /\ phase' = [phase EXCEPT ![m] = "run"]
            /\ job' = job /\ task' = task /\ marked' = marked /\ minted' = minted
            /\ row' = row /\ remote' = remote /\ stray' = stray /\ fate' = fate
        BY <2>1 DEF OpenSystem, JobsInv, stored, outside
      <3>2. ASSUME NEW r \in Resource PROVE ResourceInv(r)'
        BY <3>1, <1>d DEF ResourceInv
      <3>3. ASSUME NEW n \in Mutation, NEW r \in Resource PROVE WorkInv(n, r)'
        BY <3>1, <1>b, <1>d, Disjoint DEF WorkInv
      <3> QED BY <3>2, <3>3 DEF FateInv
    <2>2. ASSUME NEW d \in Deployment, ListResources(m, d) PROVE FateInv'
      <3>1. d \in begun[m]
        BY <2>2 DEF ListResources
      <3>2. job[m].op = "delete"
        BY <3>1 DEF ScopeInv, Scope
      <3>3. /\ job' = job /\ phase' = phase /\ marked' = marked /\ minted' = minted
            /\ row' = row /\ remote' = remote /\ stray' = stray /\ fate' = fate
            /\ \A n \in Mutation, r \in Resource :
                  \/ task'[n][r] = task[n][r]
                  \/ n = m /\ row[r] = "present" /\ task'[n][r] = "connect"
        BY <2>2, <1>b DEF ListResources, Stored, stored, outside
      <3>4. ASSUME NEW r \in Resource PROVE ResourceInv(r)'
        BY <3>3, <1>d DEF ResourceInv
      <3>5. ASSUME NEW n \in Mutation, NEW r \in Resource PROVE WorkInv(n, r)'
        BY <3>2, <3>3, <1>d DEF WorkInv
      <3> QED BY <3>4, <3>5 DEF FateInv
    <2>3. ASSUME NEW d \in Deployment, CloseDeployment(m, d) PROVE FateInv'
      <3>1. /\ job' = job /\ phase' = phase /\ task' = task /\ minted' = minted
            /\ row' = row /\ remote' = remote /\ stray' = stray /\ fate' = fate
            /\ \A x \in Context, r \in Resource :
                  r \in marked'[x] => r \in marked[x]
        BY <2>3, <1>a, Disjoint DEF CloseDeployment, stored, outside
      <3>2. ASSUME NEW r \in Resource PROVE ResourceInv(r)'
        BY <3>1, <1>d DEF ResourceInv
      <3>3. ASSUME NEW n \in Mutation, NEW r \in Resource PROVE WorkInv(n, r)'
        BY <3>1, <1>d DEF WorkInv
      <3> QED BY <3>2, <3>3 DEF FateInv
    <2>4. ASSUME NEW r \in Resource, Connect(m, r) PROVE FateInv'
      <3>1. /\ task[m][r] = "connect" /\ task' = [task EXCEPT ![m][r] = "call"]
            /\ job' = job /\ phase' = phase /\ marked' = marked /\ minted' = minted
            /\ row' = row /\ remote' = remote /\ stray' = stray /\ fate' = fate
        BY <2>4 DEF Connect, stored, outside
      <3>2. ASSUME NEW q \in Resource PROVE ResourceInv(q)'
        BY <3>1, <1>d DEF ResourceInv
      <3>3. ASSUME NEW n \in Mutation, NEW q \in Resource PROVE WorkInv(n, q)'
        BY <3>1, <1>b, <1>d DEF WorkInv
      <3> QED BY <3>2, <3>3 DEF FateInv
    <2>5. ASSUME NEW r \in Resource, ConnectFails(m, r) PROVE FateInv'
      <3>1. /\ task[m][r] = "connect" /\ task' = [task EXCEPT ![m][r] = "failed"]
            /\ Rejects(m)
            /\ job' = job /\ marked' = marked /\ minted' = minted
            /\ row' = row /\ remote' = remote /\ stray' = stray /\ fate' = fate
        BY <2>5 DEF ConnectFails, stored, outside
      <3>2. ASSUME NEW q \in Resource PROVE ResourceInv(q)'
        BY <3>1, <1>d DEF ResourceInv
      <3>3. ASSUME NEW n \in Mutation, NEW q \in Resource PROVE WorkInv(n, q)'
        BY <3>1, <1>b, <1>d, <1>e DEF WorkInv, Rejects
      <3> QED BY <3>2, <3>3 DEF FateInv
    <2>6. CASE Commit(m)
      <3> USE <2>6
      <3>1. /\ phase[m] = "run" /\ phase' = [phase EXCEPT ![m] = "ok"]
            /\ \A r \in Resource : task[m][r] \in {"none", "done"}
            /\ job' = job /\ task' = task /\ minted' = minted
            /\ remote' = remote /\ stray' = stray /\ fate' = fate
            /\ \A x \in Context : marked'[x] \subseteq marked[x]
        BY <1>a DEF Commit, Resolved, outside
      <3>2. ASSUME NEW r \in Resource, job[m].op = "create", job[m].on = r
            PROVE /\ row[r] = "none" /\ remote[r] = "live" /\ fate[r] = "untouched"
                  /\ <<"create", r>> \notin stray
        BY <3>1, <3>2, <1>d DEF JobsInv, WorkInv, ResourceInv
      <3>3. ASSUME NEW r \in Resource, r \in Removed(m) PROVE fate[r] # "untouched"
        <4>1. CASE r \in marked[ContextOf[m]]
          BY <4>1, <1>d DEF ResourceInv
        <4>2. CASE job[m].op = "delete" /\ job[m].on = r
          BY <4>2, <3>1, <1>d DEF WorkInv
        <4> QED BY <3>3, <4>1, <4>2 DEF Removed
      <3>4. ASSUME NEW r \in Resource
            PROVE \/ row'[r] = row[r]
                  \/ row[r] = "present" /\ row'[r] = "deleted" /\ r \in Removed(m)
                  \/ /\ job[m].op = "create" /\ job[m].on = r
                     /\ row'[r] = "present"
        BY CommittedRow, <1>c
      <3>5. ASSUME NEW r \in Resource PROVE ResourceInv(r)'
        <4>1. CASE row'[r] = row[r]
          BY <4>1, <3>1, <1>d DEF ResourceInv
        <4>2. CASE row[r] = "present" /\ row'[r] = "deleted" /\ r \in Removed(m)
          BY <4>2, <3>1, <3>3, <1>d DEF ResourceInv
        <4>3. CASE job[m].op = "create" /\ job[m].on = r /\ row'[r] = "present"
          BY <4>3, <3>1, <3>2, <1>d DEF ResourceInv, JobsInv
        <4> QED BY <3>4, <4>1, <4>2, <4>3
      <3>6. ASSUME NEW n \in Mutation, NEW r \in Resource PROVE WorkInv(n, r)'
        <4>1. row[r] # "none" => row'[r] # "none"
          BY CommittedRow, <1>c
        <4> QED BY <4>1, <3>1, <1>b, <1>d DEF WorkInv
      <3> QED BY <3>5, <3>6 DEF FateInv
    <2>7. CASE Rollback(m)
      <3>1. /\ phase' = [phase EXCEPT ![m] = "error"]
            /\ \A r \in Resource : task[m][r] \in {"none", "done"}
            /\ job' = job /\ task' = task /\ minted' = minted
            /\ row' = row /\ remote' = remote /\ stray' = stray /\ fate' = fate
            /\ \A x \in Context : marked'[x] \subseteq marked[x]
        BY <2>7, <1>a DEF Rollback, Resolved, stored, outside
      <3>2. ASSUME NEW r \in Resource PROVE ResourceInv(r)'
        BY <3>1, <1>d DEF ResourceInv
      <3>3. ASSUME NEW n \in Mutation, NEW r \in Resource PROVE WorkInv(n, r)'
        BY <3>1, <1>b, <1>d DEF WorkInv
      <3> QED BY <3>2, <3>3 DEF FateInv
    <2> QED BY <1>6, <2>1, <2>2, <2>3, <2>4, <2>5, <2>6, <2>7 DEF ServerStep
  <1>7. ASSUME NEW m \in Mutation, NEW r \in Resource, CallEnds(m, r)
        PROVE FateInv'
    <2>1. /\ task[m][r] = "call" /\ row' = row /\ minted' = minted /\ job' = job
      BY <1>7 DEF CallEnds, CreateAccepted, CreateDeclined, UpdateAnswered,
           DeleteAccepted, DeleteDeclined, CallFails, DeleteFails, stored
    <2>2. job[m].op = "create" =>
             /\ phase[m] = "run" /\ job[m].on = r /\ row[r] = "none"
             /\ r \in minted /\ fate[r] = "untouched"
             /\ <<"create", r>> \notin stray
      <3>1. WorkInv(m, r) /\ ResourceInv(r)
        BY <1>d
      <3>2. job[m].op = "create" => phase[m] = "run" /\ job[m].on = r
        BY <2>1, <3>1, <1>e DEF WorkInv
      <3>3. job[m].op = "create" => row[r] = "none" /\ r \in minted
        BY <3>2 DEF JobsInv
      <3> QED BY <3>1, <3>2, <3>3 DEF WorkInv, ResourceInv
    <2>3. job[m].op = "delete" => row[r] # "none"
      BY <2>1, <1>d DEF WorkInv
    <2>4. \A n \in Mutation :
             job[m].op = "create" /\ job[n].op = "create" /\ job[n].on = r => n = m
      BY <2>2 DEF JobsInv
    <2>5. CASE CreateAccepted(m, r)
      <3>1. /\ job[m].op = "create" /\ task' = [task EXCEPT ![m][r] = "done"]
            /\ remote' = [remote EXCEPT ![r] = "live"]
            /\ phase' = phase /\ marked' = marked /\ stray' = stray /\ fate' = fate
        BY <2>5 DEF CreateAccepted, CallSucceeds
      <3>2. ASSUME NEW q \in Resource PROVE ResourceInv(q)'
        BY <3>1, <2>1, <2>2, <1>a, <1>d DEF ResourceInv
      <3>3. ASSUME NEW n \in Mutation, NEW q \in Resource PROVE WorkInv(n, q)'
        BY <3>1, <2>1, <2>2, <2>4, <1>a, <1>b, <1>d DEF WorkInv
      <3> QED BY <3>2, <3>3 DEF FateInv
    <2>6. CASE CreateDeclined(m, r)
      <3>1. /\ job[m].op = "create" /\ task' = [task EXCEPT ![m][r] = "failed"]
            /\ Rejects(m) /\ remote' = remote /\ marked' = marked
            /\ stray' = stray /\ fate' = fate
        BY <2>6 DEF CreateDeclined, CallRejects
      <3>2. ASSUME NEW q \in Resource PROVE ResourceInv(q)'
        BY <3>1, <2>1, <1>d DEF ResourceInv
      <3>3. ASSUME NEW n \in Mutation, NEW q \in Resource PROVE WorkInv(n, q)'
        BY <3>1, <2>1, <2>2, <1>b, <1>d, <1>e DEF WorkInv, Rejects
      <3> QED BY <3>2, <3>3 DEF FateInv
    <2>7. CASE UpdateAnswered(m, r)
      <3>1. /\ job[m].op = "update" /\ task' = [task EXCEPT ![m][r] = "done"]
            /\ phase' = phase /\ remote' = remote /\ marked' = marked
            /\ stray' = stray /\ fate' = fate
        BY <2>7 DEF UpdateAnswered, CallSucceeds
      <3>2. ASSUME NEW q \in Resource PROVE ResourceInv(q)'
        BY <3>1, <2>1, <1>d DEF ResourceInv
      <3>3. ASSUME NEW n \in Mutation, NEW q \in Resource PROVE WorkInv(n, q)'
        BY <3>1, <2>1, <1>b, <1>d DEF WorkInv
      <3> QED BY <3>2, <3>3 DEF FateInv
    <2>8. CASE DeleteAccepted(m, r)
      <3>1. /\ job[m].op = "delete" /\ task' = [task EXCEPT ![m][r] = "done"]
            /\ fate' = [fate EXCEPT ![r] = "cleaned"]
            /\ remote' = [remote EXCEPT ![r] = "absent"]
            /\ phase' = phase /\ stray' = stray
            /\ \A x \in Context, q \in Resource :
                  q \in marked'[x] => q \in marked[x] \/ q = r
        BY <2>8, <1>a DEF DeleteAccepted, DeletionSettles
      <3>2. ASSUME NEW q \in Resource PROVE ResourceInv(q)'
        BY <3>1, <2>1, <2>3, <1>a, <1>d DEF ResourceInv
      <3>3. ASSUME NEW n \in Mutation, NEW q \in Resource PROVE WorkInv(n, q)'
        <4>1. ~(job[n].op = "create" /\ job[n].on = r /\ phase[n] = "run")
          BY <2>3, <3>1 DEF JobsInv
        <4> QED BY <4>1, <3>1, <2>1, <2>3, <1>a, <1>b, <1>d DEF WorkInv
      <3> QED BY <3>2, <3>3 DEF FateInv
    <2>9. CASE DeleteDeclined(m, r) \/ DeleteFails(m, r)
      <3>1. /\ job[m].op = "delete" /\ task' = [task EXCEPT ![m][r] = "done"]
            /\ fate' = [fate EXCEPT ![r] = IF @ = "cleaned" THEN @ ELSE "asked"]
            /\ phase' = phase /\ remote' = remote
            /\ \A c \in stray' : c \in stray \/ c = <<"delete", r>>
            /\ \A x \in Context, q \in Resource :
                  q \in marked'[x] => q \in marked[x] \/ q = r
        <4>1. CASE DeleteDeclined(m, r)
          BY <4>1, <1>a DEF DeleteDeclined, DeletionSettles
        <4>2. CASE DeleteFails(m, r)
          BY <4>2, <1>a DEF DeleteFails, DeletionSettles, MayStray
        <4> QED BY <2>9, <4>1, <4>2
      <3>2. ASSUME NEW q \in Resource PROVE ResourceInv(q)'
        BY <3>1, <2>1, <2>3, <1>a, <1>d DEF ResourceInv
      <3>3. ASSUME NEW n \in Mutation, NEW q \in Resource PROVE WorkInv(n, q)'
        BY <3>1, <2>1, <2>3, <1>a, <1>b, <1>d DEF WorkInv
      <3> QED BY <3>2, <3>3 DEF FateInv
    <2>10. CASE CallFails(m, r)
      <3>1. /\ job[m].op \in {"create", "update"}
            /\ task' = [task EXCEPT ![m][r] = "failed"]
            /\ Rejects(m) /\ fate' = fate /\ remote' = remote /\ marked' = marked
            /\ \A c \in stray' : c \in stray \/ c = <<job[m].op, r>>
        BY <2>10 DEF CallFails, CallRejects, MayStray
      <3>2. ASSUME NEW q \in Resource PROVE ResourceInv(q)'
        BY <3>1, <2>1, <2>2, <1>d DEF ResourceInv
      <3>3. ASSUME NEW n \in Mutation, NEW q \in Resource PROVE WorkInv(n, q)'
        BY <3>1, <2>1, <2>2, <2>4, <1>b, <1>d, <1>e DEF WorkInv, Rejects
      <3> QED BY <3>2, <3>3 DEF FateInv
    <2> QED BY <1>7, <2>5, <2>6, <2>7, <2>8, <2>9, <2>10 DEF CallEnds
  <1>8. ASSUME NEW o \in Issued, NEW r \in Resource, StrayCall(o, r)
        PROVE FateInv'
    <2>1. /\ <<o, r>> \in stray /\ stray' \subseteq stray
          /\ <<o, r>> \notin stray'
          /\ remote' = [remote EXCEPT ![r] = IF o = "create" THEN "live"
                                 ELSE IF o = "delete" THEN "absent" ELSE @]
          /\ fate' = [fate EXCEPT ![r] = IF o = "delete" THEN "cleaned" ELSE @]
          /\ row' = row /\ minted' = minted /\ job' = job /\ phase' = phase
          /\ task' = task /\ marked' = marked
      BY <1>8 DEF StrayCall, stored, running
    <2>2. ASSUME NEW q \in Resource PROVE ResourceInv(q)'
      BY <2>1, <1>a, <1>d DEF ResourceInv
    <2>3. ASSUME NEW n \in Mutation, NEW q \in Resource PROVE WorkInv(n, q)'
      <3>1. o = "delete" =>
               ~(job[n].op = "create" /\ job[n].on = r /\ phase[n] = "run")
        BY <2>1, <1>d DEF ResourceInv, JobsInv
      <3>2. o = "create" =>
               ~(job[n].op = "create" /\ job[n].on = r /\ phase[n] = "run")
        BY <2>1, <1>d DEF WorkInv
      <3> QED BY <3>1, <3>2, <2>1, <1>a, <1>d DEF WorkInv
    <2> QED BY <2>2, <2>3 DEF FateInv
  <1>9. ASSUME NEW x \in Context, EndRequest(x) \/ Crash(x) PROVE FateInv'
    <2>1. Forgets(x)
      BY <1>9 DEF EndRequest, Crash
    <2>2. /\ row' = row /\ minted' = minted /\ remote' = remote /\ fate' = fate
          /\ \A y \in Context : marked'[y] \subseteq marked[y]
      BY <2>1, <1>a DEF Forgets, stored
    <2>3. \A n \in Mutation :
             \/ ContextOf[n] = x /\ job'[n].op = "none"
             \/ /\ ContextOf[n] # x /\ job'[n] = job[n] /\ phase'[n] = phase[n]
                /\ task'[n] = task[n]
      BY <2>1 DEF Forgets, NoJob
    <2>4. ASSUME NEW o, NEW r \in Resource, <<o, r>> \in stray'
          PROVE \/ <<o, r>> \in stray
                \/ \E m \in Mutation : /\ ContextOf[m] = x
                                       /\ job[m].op = o /\ task[m][r] = "call"
      <3>1. CASE EndRequest(x)
        BY <3>1, <2>4 DEF EndRequest
      <3>2. CASE Crash(x)
        <4>1. PICK late \in SUBSET OutstandingCalls(x) : stray' = stray \cup late
          BY <3>2 DEF Crash
        <4> QED BY <4>1, <2>4 DEF OutstandingCalls, MutationsOf
      <3> QED BY <1>9, <3>1, <3>2
    <2>5. ASSUME NEW r \in Resource, <<"create", r>> \in stray',
                 <<"create", r>> \notin stray
          PROVE /\ row[r] = "none" /\ r \in minted
                /\ \A n \in Mutation :
                      job[n].op = "create" /\ job[n].on = r => ContextOf[n] = x
      <3>1. PICK m \in Mutation : /\ ContextOf[m] = x
                                  /\ job[m].op = "create" /\ task[m][r] = "call"
        BY <2>4, <2>5
      <3>2. job[m].on = r /\ phase[m] = "run"
        <4>1. WorkInv(m, r)
          BY <1>d
        <4> QED BY <3>1, <4>1, <1>e DEF WorkInv
      <3> QED BY <3>1, <3>2 DEF JobsInv
    <2>6. ASSUME NEW r \in Resource, <<"delete", r>> \in stray'
          PROVE row[r] # "none"
      <3>1. CASE <<"delete", r>> \in stray
        BY <3>1, <1>d DEF ResourceInv
      <3>2. ASSUME NEW m \in Mutation, job[m].op = "delete", task[m][r] = "call"
            PROVE row[r] # "none"
        <4>1. WorkInv(m, r)
          BY <1>d
        <4> QED BY <3>2, <4>1 DEF WorkInv
      <3> QED BY <2>4, <2>6, <3>1, <3>2
    <2>7. ASSUME NEW r \in Resource PROVE ResourceInv(r)'
      BY <2>2, <2>5, <2>6, <1>d DEF ResourceInv
    <2>8. ASSUME NEW n \in Mutation, NEW r \in Resource PROVE WorkInv(n, r)'
      BY <2>2, <2>3, <2>5, <1>d DEF WorkInv
    <2> QED BY <2>7, <2>8 DEF FateInv
  <1> QED BY <1>1, <1>2, <1>3, <1>4, <1>5, <1>6, <1>7, <1>8, <1>9
          DEF Next, Begins

-----------------------------------------------------------------------------
(* It holds of the empty tables. *)
LEMMA InitIInv == Init => IInv
  <1> SUFFICES ASSUME Init PROVE IInv
    OBVIOUS
  <1>1. TypeOK
    BY InitTypeOK
  <1>2. RowsInv
    BY Disjoint DEF Init, RowsInv, ForeignKeysHold, References, Entity
  <1>3. JobsInv
    BY DEF Init, JobsInv, NoJob
  <1>4. ScopeInv
    BY DEF Init, ScopeInv, Untasked
  <1>5. FateInv
    BY Disjoint DEF Init, FateInv, ResourceInv, WorkInv, Untasked, NoJob, Entity
  <1> QED BY <1>1, <1>2, <1>3, <1>4, <1>5 DEF IInv

(* The parts of the invariant are inductive together. *)
LEMMA StepIInv == IInv /\ [Next]_vars => IInv'
  BY StepTypeOK, StepRowsInv, StepJobsInv, StepScopeInv, StepFateInv DEF IInv

(* The inductive invariant holds in every reachable state of the tables,   *)
(* the services and the mutations at work.                                 *)
THEOREM Invariance == Spec => []IInv
  BY InitIInv, StepIInv, PTL DEF Spec

(* Every variable always has its type. *)
THEOREM TypeCorrectness == Spec => []TypeOK
  <1>1. IInv => TypeOK
    BY DEF IInv
  <1> QED BY <1>1, Invariance, PTL

(* No resource row leaves the tables behind its service's back. *)
THEOREM NoSilentRemovalHolds == Spec => []NoSilentRemoval
  <1>1. IInv => NoSilentRemoval
    BY DEF IInv, FateInv, ResourceInv, NoSilentRemoval
  <1> QED BY <1>1, Invariance, PTL

(* A resource users see exists, or was deleted by its service on request. *)
THEOREM RowMatchesServiceHolds == Spec => []RowMatchesService
  <1>1. IInv => RowMatchesService
    BY DEF IInv, FateInv, ResourceInv, RowMatchesService
  <1> QED BY <1>1, Invariance, PTL

(* A resource its service deleted on request never comes back. *)
THEOREM CleanedStaysGoneHolds == Spec => []CleanedStaysGone
  <1>1. IInv => CleanedStaysGone
    <2> SUFFICES ASSUME IInv, NEW r \in Resource, fate[r] = "cleaned"
                 PROVE  remote[r] = "absent"
      BY DEF CleanedStaysGone
    <2>1. ResourceInv(r)
      BY DEF IInv, FateInv
    <2>2. row[r] # "none"
      BY <2>1 DEF ResourceInv
    <2> QED BY <2>1, <2>2 DEF ResourceInv, IInv, TypeOK
  <1> QED BY <1>1, Invariance, PTL

(* A delete mutation answered without an error left nothing of its subtree: *)
(* its own row is gone for good, and the foreign keys do the rest.          *)
THEOREM OkDeleteIsCompleteHolds == Spec => []OkDeleteIsComplete
  <1>1. IInv => OkDeleteIsComplete
    <2> SUFFICES ASSUME IInv, NEW m \in Mutation, phase[m] = "ok",
                        job[m].op = "delete",
                        NEW e \in {job[m].on} \cup Owned[job[m].on]
                 PROVE  ~Stored(e)
      BY DEF OkDeleteIsComplete
    <2>1. job[m].on \in Entity /\ row[job[m].on] = "deleted"
      BY DEF IInv, JobsInv, TypeOK
    <2>2. CASE e = job[m].on
      BY <2>1, <2>2 DEF Stored
    <2>3. CASE e \in Owned[job[m].on]
      <3>1. ForeignKeysHold(row)
        BY DEF IInv, RowsInv
      <3>2. ASSUME NEW d \in Deployment, SystemOf[d] = job[m].on PROVE ~Stored(d)
        BY <2>1, <3>1, <3>2, Disjoint DEF ForeignKeysHold, References, Stored, Entity
      <3>3. ASSUME NEW r \in Resource, Stored(r)
            PROVE Stored(DeploymentOf[r])
        BY <3>1, <3>3, Disjoint DEF ForeignKeysHold, References, Stored, Entity
      <3>4. CASE job[m].on \in System
        BY <2>1, <2>3, <3>2, <3>3, <3>4, ForeignKeyTypes DEF Owned
      <3>5. CASE job[m].on \notin System
        BY <2>1, <2>3, <3>3, <3>5 DEF Owned, Stored
      <3> QED BY <3>4, <3>5
    <2> QED BY <2>2, <2>3
  <1> QED BY <1>1, Invariance, PTL

(* A transaction removes only what its own document asked to delete. *)
THEOREM RemovesWhatWasAskedHolds == Spec => RemovesWhatWasAsked
  <1> DEFINE Asked == \A e \in Entity : row[e] = "present" /\ row'[e] = "deleted" =>
                 \E m \in Mutation : /\ phase[m] = "run" /\ phase'[m] = "ok"
                                     /\ \E n \in Siblings(m) : e \in Scope(n)
  <1>1. IInv /\ [Next]_vars => [Asked]_vars
    <2> SUFFICES ASSUME IInv, [Next]_vars, NEW e \in Entity,
                        row[e] = "present", row'[e] = "deleted"
                 PROVE  \E m \in Mutation : /\ phase[m] = "run" /\ phase'[m] = "ok"
                                            /\ \E n \in Siblings(m) : e \in Scope(n)
      OBVIOUS
    <2>1. PICK m \in Mutation : Commit(m)
      BY TablesFrame
    <2>2. phase[m] = "run" /\ phase'[m] = "ok"
      BY <2>1 DEF Commit, Resolved, IInv, TypeOK
    <2>3. e \in Removed(m)
      BY <2>1, CommittedRow DEF IInv
    <2>4. CASE e \in marked[ContextOf[m]]
      BY <2>2, <2>4, DocumentTypes DEF IInv, ScopeInv, MutationsOf, Siblings
    <2>5. CASE job[m].op = "delete" /\ e = job[m].on
      BY <2>2, <2>5 DEF Scope, Siblings
    <2> QED BY <2>3, <2>4, <2>5 DEF Removed
  <1> HIDE DEF Asked
  <1>2. Spec => [][Asked]_vars
    BY <1>1, Invariance, PTL DEF Spec
  <1> USE DEF Asked
  <1> QED BY <1>2, PTL DEF RemovesWhatWasAsked

-----------------------------------------------------------------------------
(* The catalogue: when no two mutations share an entity manager, a commit  *)
(* adds the row to create, or retires exactly the subtree to delete, or,   *)
(* for an update and a deletion that came too late, changes nothing.       *)
LEMMA CommitRefines ==
  ASSUME OnePerContext, IInv, NEW m \in Mutation, Commit(m)
  PROVE  row' = row \/ Catalog!Next
  <1> DEFINE on == job[m].on
             going == {on} \cup Owned[on]
  <1>1. /\ phase[m] = "run" /\ on \in Entity
        /\ row \in [Entity -> {"none", "present", "deleted"}]
        /\ row' \in [Entity -> {"none", "present", "deleted"}]
        /\ TypeOK
        /\ job[m].op \in {"create", "update", "delete"}
    <2>1. TypeOK /\ JobsInv /\ phase[m] = "run"
      BY DEF Commit, Resolved, IInv
    <2>2. row' \in [Entity -> {"none", "present", "deleted"}]
      BY <2>1 DEF Commit, Flushed, TypeOK
    <2> QED BY <2>1, <2>2 DEF JobsInv, TypeOK
  <1>2. Removed(m) \subseteq Scope(m)
    <2>1. ASSUME NEW e \in marked[ContextOf[m]] PROVE e \in Scope(m)
      <3>1. PICK n \in MutationsOf(ContextOf[m]) : e \in Scope(n)
        BY DocumentTypes DEF IInv, ScopeInv
      <3>2. n = m
        BY DEF MutationsOf, OnePerContext
      <3> QED BY <3>1, <3>2
    <2> QED BY <2>1 DEF Removed, Scope
  <1>3. ForeignKeysHold(row')
    BY DEF Commit
  <1>4. \A e \in Entity : row'[e] =
           IF e \in Removed(m) /\ row[e] = "present" THEN "deleted"
           ELSE IF job[m].op = "create" /\ on = e THEN "present" ELSE row[e]
    BY <1>1, CommittedRow
  <1>5. CASE job[m].op = "update"
    <2>1. Removed(m) = {}
      BY <1>2, <1>5 DEF Scope
    <2>2. \A e \in Entity : row'[e] = row[e]
      BY <1>4, <1>5, <2>1
    <2> QED BY <1>1, <2>2
  <1>6. CASE job[m].op = "create"
    <2>1. Removed(m) = {} /\ row[on] = "none"
      BY <1>1, <1>2, <1>6 DEF Scope, IInv, JobsInv
    <2>2. \A e \in Entity : row'[e] = IF e = on THEN "present" ELSE row[e]
      BY <1>4, <1>6, <2>1
    <2>3. row' = [row EXCEPT ![on] = "present"]
      BY <1>1, <2>2
    <2>4. \A p \in References[on] : p \in Entity /\ p # on /\ row'[p] = "present"
      <3>1. row'[on] = "present"
        BY <1>1, <2>2
      <3>2. \A p \in References[on] : row'[p] = "present"
        BY <1>1, <1>3, <3>1 DEF ForeignKeysHold
      <3>3. CASE on \in Deployment
        <4>1. References[on] = {SystemOf[on]}
          BY <3>3, <1>1 DEF References
        <4>2. SystemOf[on] \in System /\ on \notin System
          BY <3>3, Disjoint, ForeignKeyTypes
        <4> QED BY <3>2, <4>1, <4>2 DEF Entity
      <3>4. CASE on \in Resource
        <4>1. References[on] = {DeploymentOf[on], ServiceOf[on]}
          BY <3>4, <1>1, Disjoint DEF References
        <4>2. /\ DeploymentOf[on] \in Deployment /\ ServiceOf[on] \in Service
              /\ on \notin Deployment \cup Service
          BY <3>4, Disjoint, ForeignKeyTypes
        <4> QED BY <3>2, <4>1, <4>2 DEF Entity
      <3>5. CASE on \notin Deployment \cup Resource
        BY <3>5, <1>1 DEF References
      <3> QED BY <3>3, <3>4, <3>5
    <2>5. \A p \in References[on] : row[p] = "present"
      BY <2>2, <2>4
    <2>6. Catalog!Add(on)
      BY <2>1, <2>3, <2>5 DEF Catalog!Add, Catalog!Stored
    <2> QED BY <1>1, <2>6 DEF Catalog!Next
  <1>7. CASE job[m].op = "delete"
    <2>1. on \in Removed(m) /\ Removed(m) \subseteq going
      BY <1>2, <1>7 DEF Removed, Scope
    <2>2. row'[on] # "present"
      BY <1>1, <1>4, <1>7, <2>1
    <2>3. ASSUME NEW d \in Deployment, SystemOf[d] = on PROVE row'[d] # "present"
      BY <1>1, <1>3, <2>2, <2>3, Disjoint DEF ForeignKeysHold, References, Entity
    <2>4. ASSUME NEW r \in Resource, row'[r] = "present"
          PROVE row'[DeploymentOf[r]] = "present"
      BY <1>1, <1>3, <2>4, Disjoint DEF ForeignKeysHold, References, Entity
    <2>5. ASSUME NEW e \in Owned[on] PROVE e \in Entity /\ row'[e] # "present"
      <3>1. CASE on \in System
        BY <1>1, <2>3, <2>4, <2>5, <3>1, ForeignKeyTypes DEF Owned, Entity
      <3>2. CASE on \notin System
        BY <1>1, <2>2, <2>4, <2>5, <3>2 DEF Owned, Entity
      <3> QED BY <3>1, <3>2
    <2>6. \A e \in Entity : row'[e] =
             IF e \in going /\ row[e] = "present" THEN "deleted" ELSE row[e]
      <3> SUFFICES ASSUME NEW e \in Entity
                   PROVE row'[e] = IF e \in going /\ row[e] = "present"
                                   THEN "deleted" ELSE row[e]
        OBVIOUS
      <3>1. e \in going => row'[e] # "present"
        BY <2>2, <2>5
      <3>2. row'[e] = IF e \in Removed(m) /\ row[e] = "present" THEN "deleted"
                      ELSE row[e]
        BY <1>4, <1>7
      <3> QED BY <2>1, <3>1, <3>2
    <2>7. row' = [e \in Entity |->
                    IF e \in going /\ row[e] = "present" THEN "deleted" ELSE row[e]]
      BY <1>1, <2>6
    <2>8. CASE row[on] = "present"
      <3>1. ASSUME NEW x \in Entity \ going, row[x] = "present"
            PROVE going \cap References[x] = {}
        <4>1. \A p \in References[x] : row'[p] = "present"
          BY <1>3, <2>6, <3>1 DEF ForeignKeysHold
        <4> QED BY <4>1, <2>2, <2>5
      <3>2. Catalog!Retire(on)
        BY <2>7, <2>8, <3>1 DEF Catalog!Retire, Catalog!Stored
      <3> QED BY <1>1, <3>2 DEF Catalog!Next
    <2>9. CASE row[on] # "present"
      <3>1. ForeignKeysHold(row)
        BY DEF IInv, RowsInv
      <3>2. ASSUME NEW d \in Deployment, SystemOf[d] = on PROVE row[d] # "present"
        BY <1>1, <2>9, <3>1, <3>2, Disjoint DEF ForeignKeysHold, References, Entity
      <3>3. ASSUME NEW r \in Resource, row[r] = "present"
            PROVE row[DeploymentOf[r]] = "present"
        BY <1>1, <3>1, <3>3, Disjoint DEF ForeignKeysHold, References, Entity
      <3>4. ASSUME NEW e \in Owned[on] PROVE row[e] # "present"
        <4>1. CASE on \in System
          BY <1>1, <3>2, <3>3, <3>4, <4>1, ForeignKeyTypes DEF Owned, Entity
        <4>2. CASE on \notin System
          BY <1>1, <2>9, <3>3, <3>4, <4>2 DEF Owned, Entity
        <4> QED BY <4>1, <4>2
      <3>5. \A e \in Entity : row'[e] = row[e]
        BY <2>6, <2>9, <3>4
      <3> QED BY <1>1, <3>5
    <2> QED BY <2>8, <2>9
  <1> QED BY <1>1, <1>5, <1>6, <1>7

(* With one mutation per entity manager every flush adds one row or takes  *)
(* one whole subtree out of the tables, as the abstract catalogue says.    *)
THEOREM RefinesCatalog == OnePerContext /\ Spec => CatalogSpec
  <1>1. Init => Catalog!Init
    BY DEF Init, Catalog!Init
  <1>2. OnePerContext /\ IInv /\ [Next]_vars => [Catalog!Next]_row
    BY CommitRefines, TablesFrame
  <1>3. OnePerContext => []OnePerContext
    <2>1. OnePerContext => OnePerContext'
      BY DEF OnePerContext
    <2> QED BY <2>1, PTL
  <1> QED BY <1>1, <1>2, <1>3, Invariance, PTL DEF Spec, CatalogSpec, Catalog!Spec
=============================================================================
