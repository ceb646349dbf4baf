-------------------------- MODULE ResourceLifecycle --------------------------
(***************************************************************************)
(* Systems, deployments and resources: the rows the server keeps in MySQL, *)
(* and the remote resources that services create and delete over gRPC on   *)
(* its behalf.                                                             *)
(*                                                                         *)
(* A Mutation is a slot for one GraphQL mutation field.  The fields of one *)
(* document run one after the other and share the entity manager of their  *)
(* HTTP request, a Context: rows are marked for removal in the entity      *)
(* manager and leave the tables at its next flush, one database            *)
(* transaction.  Every await of the code is a point where other mutations  *)
(* step.  Promise.all rejects at the first failure while the other         *)
(* promises carry on, so a mutation that was answered with an error may    *)
(* still have tasks at work.                                               *)
(*                                                                         *)
(* Users, organisations and credentials are left out: a mutation that      *)
(* fails to load its entity or is refused access changes nothing.          *)
(***************************************************************************)
CONSTANTS
    System, Deployment, Resource, Service,  \* row identifiers
    SystemOf,       \* the system of a deployment
    DeploymentOf,   \* the deployment of a resource
    ServiceOf,      \* the service of a resource
    Mutation,       \* slots for mutation fields
    Context,        \* HTTP requests, each with its entity manager
    ContextOf,      \* the HTTP request a mutation field belongs to
    Issued          \* operations the clients issue

Entity == System \cup Deployment \cup Resource \cup Service

ASSUME Disjoint ==
    /\ System \cap Deployment = {}
    /\ System \cap Resource = {}
    /\ System \cap Service = {}
    /\ Deployment \cap Resource = {}
    /\ Deployment \cap Service = {}
    /\ Resource \cap Service = {}

ASSUME ForeignKeyTypes ==
    /\ SystemOf \in [Deployment -> System]
    /\ DeploymentOf \in [Resource -> Deployment]
    /\ ServiceOf \in [Resource -> Service]

ASSUME DocumentTypes ==
    /\ ContextOf \in [Mutation -> Context]
    /\ Issued \subseteq {"create", "update", "delete"}

VARIABLES
    row,     \* row[e]: "none", "present" or "deleted"
    minted,  \* identifiers drawn so far; they are uuids, never drawn twice
    remote,  \* remote[r]: is r "absent" or "live" at its service?
    stray,   \* calls whose caller gave up and a service may still carry out
    fate,    \* fate[r]: "untouched", deletion "asked", or "cleaned" by the service
    marked,  \* marked[x]: rows the entity manager of x removes at its next flush
    job,     \* job[m]: what the mutation does to which entity
    phase,   \* phase[m]: where it stands, "ok" and "error" being its answers
    begun,   \* begun[m]: deployments it began to delete
    listed,  \* listed[m]: those whose resources it has read
    closed,  \* closed[m]: those it is done with
    task     \* task[m][r]: the progress of its work on the remote resource r

stored == <<row, minted>>
outside == <<remote, stray, fate>>
running == <<job, phase, begun, listed, closed, task>>
vars == <<stored, outside, marked, running>>

-----------------------------------------------------------------------------
(* The tables *)

References == [e \in Entity |->
    IF e \in Deployment THEN {SystemOf[e]}
    ELSE IF e \in Resource THEN {DeploymentOf[e], ServiceOf[e]}
    ELSE {}]

(* What system.delete and deployment.delete take with them. *)
Owned == [e \in Entity |->
    IF e \in System
    THEN {d \in Deployment : SystemOf[d] = e} \cup
         {r \in Resource : SystemOf[DeploymentOf[r]] = e}
    ELSE {r \in Resource : DeploymentOf[r] = e}]

Stored(e) == row[e] = "present"

(* Mutant: no foreign key binds a resource to its parents. *)
ForeignKeysHoldUnbound(rs) ==
    \A e \in Entity \ Resource : rs[e] = "present" =>
        \A p \in References[e] : rs[p] = "present"

(* What the database demands when a transaction commits the rows rs. *)
ForeignKeysHold(rs) ==
    \A e \in Entity : rs[e] = "present" =>
        \A p \in References[e] : rs[p] = "present"

-----------------------------------------------------------------------------
(* The mutations *)

NoJob == [op |-> "none", on |-> "nothing"]

Untasked == [r \in Resource |-> "none"]

ResourcesIn(d) == {r \in Resource : DeploymentOf[r] = d}

Siblings(m) == {n \in Mutation : ContextOf[n] = ContextOf[m]}

InProgress(m) == phase[m] \in {"opening", "run"}

(* Work of the mutation goes on, be it answered or not. *)
AtWork(m) ==
    \/ listed[m] # begun[m]
    \/ \E r \in Resource : task[m][r] \in {"connect", "call"}

(* Every promise of the mutation resolved: it is about to flush. *)
Resolved(m) ==
    /\ phase[m] = "run"
    /\ closed[m] = begun[m]
    /\ \A r \in Resource : task[m][r] \in {"none", "done"}

(* Mutant: a rejection is swallowed and the promise above never settles. *)
RejectsUnheard(m) == phase' = phase

(* The first rejection answers the mutation; later ones go unnoticed. *)
Rejects(m) ==
    phase' = [phase EXCEPT ![m] = IF @ = "run" THEN "error" ELSE @]

Takes(m, o, e, ph, ds, rs) ==
    /\ phase[m] = "free"
    /\ \A n \in Siblings(m) : ~InProgress(n)
    /\ o \in Issued
    /\ job' = [job EXCEPT ![m] = [op |-> o, on |-> e]]
    /\ phase' = [phase EXCEPT ![m] = ph]
    /\ begun' = [begun EXCEPT ![m] = ds]
    /\ task' = [task EXCEPT ![m] =
                  [r \in Resource |-> IF r \in rs THEN "connect" ELSE "none"]]
    /\ UNCHANGED <<row, outside, marked, listed, closed>>

(* systemCreate, deploymentCreate, resourceCreate: the parents are loaded, *)
(* the new row gets a fresh uuid, and a resource goes to its service first.*)
BeginCreate(m, e) ==
    /\ e \in Entity \ (Service \cup minted)
    /\ \A p \in References[e] : Stored(p)
    /\ minted' = minted \cup {e}
    /\ Takes(m, "create", e, "run", {}, {e} \cap Resource)

(* systemUpdate, deploymentUpdate, serviceUpdate and resourceUpdate; only  *)
(* the latter, and only when it carries input, calls a service.            *)
BeginUpdate(m, e) ==
    /\ Stored(e)
    /\ \E rs \in SUBSET ({e} \cap Resource) : Takes(m, "update", e, "run", {}, rs)
    /\ UNCHANGED minted

(* systemDelete, deploymentDelete, resourceDelete and serviceDelete.       *)
BeginDelete(m, e) ==
    /\ Stored(e)
    /\ Takes(m, "delete", e, IF e \in System THEN "opening" ELSE "run",
             {e} \cap Deployment, {e} \cap Resource)
    /\ UNCHANGED minted

(* The entity is not found, or its organisation is not the user's. *)
BeginRefused(m) ==
    /\ phase[m] = "free"
    /\ \A n \in Siblings(m) : ~InProgress(n)
    /\ phase' = [phase EXCEPT ![m] = "error"]
    /\ UNCHANGED <<stored, outside, marked, job, begun, listed, closed, task>>

(* system.deployments.init(), then one deletion per deployment found. *)
OpenSystem(m) ==
    /\ phase[m] = "opening"
    /\ phase' = [phase EXCEPT ![m] = "run"]
    /\ begun' = [begun EXCEPT ![m] =
                   {d \in Deployment : Stored(d) /\ SystemOf[d] = job[m].on}]
    /\ UNCHANGED <<stored, outside, marked, job, listed, closed, task>>

(* deployment.resources.init(), then one deletion per resource found. *)
ListResources(m, d) ==
    /\ d \in begun[m] \ listed[m]
    /\ listed' = [listed EXCEPT ![m] = @ \cup {d}]
    /\ task' = [task EXCEPT ![m] = [r \in Resource |->
                  IF r \in ResourcesIn(d) /\ Stored(r) THEN "connect" ELSE @[r]]]
    /\ UNCHANGED <<stored, outside, marked, job, phase, begun, closed>>

(* The promise of deploymentService.delete resolves: all its resources     *)
(* are dealt with and the deployment is marked as well.                    *)
CloseDeployment(m, d) ==
    /\ d \in listed[m] \ closed[m]
    /\ \A r \in ResourcesIn(d) : task[m][r] \in {"none", "done"}
    /\ closed' = [closed EXCEPT ![m] = @ \cup {d}]
    /\ marked' = [marked EXCEPT ![ContextOf[m]] = @ \cup {d}]
    /\ UNCHANGED <<stored, outside, job, phase, begun, listed, task>>

(* Load what the call needs, fetch the service's protocol, open a client.  *)
(* A deletion or an update loads the service row now, a creation holds it. *)
Connect(m, r) ==
    /\ task[m][r] = "connect"
    /\ job[m].op = "create" \/ Stored(ServiceOf[r])
    /\ task' = [task EXCEPT ![m][r] = "call"]
    /\ UNCHANGED <<stored, outside, marked, job, phase, begun, listed, closed>>

ConnectFails(m, r) ==
    /\ task[m][r] = "connect"
    /\ task' = [task EXCEPT ![m][r] = "failed"]
    /\ Rejects(m)
    /\ UNCHANGED <<stored, outside, marked, job, begun, listed, closed>>

-----------------------------------------------------------------------------
(* The calls.  A deletion marks the row however the call ended; a creation *)
(* and an update go on only after the answer their code accepts.           *)

DeletionSettles(m, r, f) ==
    /\ task' = [task EXCEPT ![m][r] = "done"]
    /\ marked' = [marked EXCEPT ![ContextOf[m]] = @ \cup {r}]
    /\ fate' = [fate EXCEPT ![r] = IF @ = "cleaned" THEN @ ELSE f]
    /\ UNCHANGED phase

CallSucceeds(m, r) ==
    /\ task' = [task EXCEPT ![m][r] = "done"]
    /\ UNCHANGED <<phase, marked, fate>>

CallRejects(m, r) ==
    /\ task' = [task EXCEPT ![m][r] = "failed"]
    /\ Rejects(m)
    /\ UNCHANGED <<marked, fate>>

(* Mutant: the row is stored whatever status the service answers. *)
CreateDeclinedUnchecked(m, r) ==
    /\ task[m][r] = "call" /\ job[m].op = "create"
    /\ CallSucceeds(m, r)
    /\ UNCHANGED <<stored, remote, stray, job, begun, listed, closed>>

(* connection.create answered: only status true lets the row be stored. *)
CreateAccepted(m, r) ==
    /\ task[m][r] = "call" /\ job[m].op = "create"
    /\ CallSucceeds(m, r)
    /\ remote' = [remote EXCEPT ![r] = "live"]
    /\ UNCHANGED <<stored, stray, job, begun, listed, closed>>

CreateDeclined(m, r) ==
    /\ task[m][r] = "call" /\ job[m].op = "create"
    /\ CallRejects(m, r)
    /\ UNCHANGED <<stored, remote, stray, job, begun, listed, closed>>

(* connection.update answered: whatever its status, the code goes on. *)
UpdateAnswered(m, r) ==
    /\ task[m][r] = "call" /\ job[m].op = "update"
    /\ CallSucceeds(m, r)
    /\ UNCHANGED <<stored, remote, stray, job, begun, listed, closed>>

(* connection.delete answered; the code does not look at its status. *)
DeleteAccepted(m, r) ==
    /\ task[m][r] = "call" /\ job[m].op = "delete"
    /\ DeletionSettles(m, r, "cleaned")
    /\ remote' = [remote EXCEPT ![r] = "absent"]
    /\ UNCHANGED <<stored, stray, job, begun, listed, closed>>

DeleteDeclined(m, r) ==
    /\ task[m][r] = "call" /\ job[m].op = "delete"
    /\ DeletionSettles(m, r, "asked")
    /\ UNCHANGED <<stored, remote, stray, job, begun, listed, closed>>

(* A gRPC error ended the call: the service never saw it, has carried it   *)
(* out or still will.                                                      *)
MayStray(m, r) == stray' \in {stray, stray \cup {<<job[m].op, r>>}}

(* Mutant: errors of creations are logged and ignored as those of          *)
(* deletions are.                                                          *)
CallFailsIgnored(m, r) ==
    /\ task[m][r] = "call" /\ job[m].op \in {"create", "update"}
    /\ CallSucceeds(m, r)
    /\ MayStray(m, r)
    /\ UNCHANGED <<stored, remote, job, begun, listed, closed>>

CallFails(m, r) ==
    /\ task[m][r] = "call" /\ job[m].op \in {"create", "update"}
    /\ CallRejects(m, r)
    /\ MayStray(m, r)
    /\ UNCHANGED <<stored, remote, job, begun, listed, closed>>

(* resource.delete logs a warning and goes on. *)
DeleteFails(m, r) ==
    /\ task[m][r] = "call" /\ job[m].op = "delete"
    /\ DeletionSettles(m, r, "asked")
    /\ MayStray(m, r)
    /\ UNCHANGED <<stored, remote, job, begun, listed, closed>>

(* A service carries out a call nobody waits for any more. *)
StrayCall(o, r) ==
    /\ <<o, r>> \in stray
    /\ stray' = stray \ {<<o, r>>}
    /\ remote' = [remote EXCEPT ![r] = CASE o = "create" -> "live"
                                         [] o = "delete" -> "absent"
                                         [] OTHER -> @]
    /\ fate' = [fate EXCEPT ![r] = IF o = "delete" THEN "cleaned" ELSE @]
    /\ UNCHANGED <<stored, marked, running>>

-----------------------------------------------------------------------------
(* The flush *)

(* Mutant: removal cascades in the tables instead of through the services. *)
RemovedCascading(m) == marked[ContextOf[m]] \cup
    (IF job[m].op = "delete" THEN {job[m].on} \cup Owned[job[m].on] ELSE {})

(* The rows that leave the tables at the flush of m: those the entity      *)
(* manager has marked, the mutation's own row among them by now.           *)
Removed(m) == marked[ContextOf[m]] \cup
              (IF job[m].op = "delete" THEN {job[m].on} ELSE {})

(* Mutant: rows are removed softly, by a third status. *)
FlushedSoftly(m) == [e \in Entity |->
    IF e \in Removed(m) /\ Stored(e) THEN "removed softly"
    ELSE IF job[m].op = "create" /\ job[m].on = e THEN "present"
    ELSE row[e]]

(* Mutant: an update stores its row again when it has gone meanwhile. *)
FlushedUpserting(m) == [e \in Entity |->
    IF e \in Removed(m) /\ Stored(e) THEN "deleted"
    ELSE IF job[m].op \in {"create", "update"} /\ job[m].on = e THEN "present"
    ELSE row[e]]

Flushed(m) == [e \in Entity |->
    IF e \in Removed(m) /\ Stored(e) THEN "deleted"
    ELSE IF job[m].op = "create" /\ job[m].on = e THEN "present"
    ELSE row[e]]

Commit(m) ==
    /\ Resolved(m)
    /\ ForeignKeysHold(Flushed(m))
    /\ row' = Flushed(m)
    /\ marked' = [marked EXCEPT ![ContextOf[m]] = {}]
    /\ phase' = [phase EXCEPT ![m] = "ok"]
    /\ UNCHANGED <<minted, outside, job, begun, listed, closed, task>>

(* A foreign key stands in the way, or the database fails. *)
Rollback(m) ==
    /\ Resolved(m)
    /\ marked' = [marked EXCEPT ![ContextOf[m]] = {}]
    /\ phase' = [phase EXCEPT ![m] = "error"]
    /\ UNCHANGED <<stored, outside, job, begun, listed, closed, task>>

-----------------------------------------------------------------------------
(* The end of an HTTP request, by completion or by a crash of the process  *)

MutationsOf(x) == {m \in Mutation : ContextOf[m] = x}

(* Mutant: all requests share one entity manager, whose marks outlive them. *)
ForgetsNoMarks(x) ==
    /\ \E m \in MutationsOf(x) : phase[m] # "free"
    /\ phase' = [m \in Mutation |-> IF ContextOf[m] = x THEN "free" ELSE phase[m]]
    /\ job' = [m \in Mutation |-> IF ContextOf[m] = x THEN NoJob ELSE job[m]]
    /\ begun' = [m \in Mutation |-> IF ContextOf[m] = x THEN {} ELSE begun[m]]
    /\ listed' = [m \in Mutation |-> IF ContextOf[m] = x THEN {} ELSE listed[m]]
    /\ closed' = [m \in Mutation |-> IF ContextOf[m] = x THEN {} ELSE closed[m]]
    /\ task' = [m \in Mutation |->
                  IF ContextOf[m] = x THEN Untasked ELSE task[m]]
    /\ UNCHANGED <<stored, remote, fate, marked>>

Forgets(x) ==
    /\ \E m \in MutationsOf(x) : phase[m] # "free"
    /\ phase' = [m \in Mutation |-> IF ContextOf[m] = x THEN "free" ELSE phase[m]]
    /\ job' = [m \in Mutation |-> IF ContextOf[m] = x THEN NoJob ELSE job[m]]
    /\ begun' = [m \in Mutation |-> IF ContextOf[m] = x THEN {} ELSE begun[m]]
    /\ listed' = [m \in Mutation |-> IF ContextOf[m] = x THEN {} ELSE listed[m]]
    /\ closed' = [m \in Mutation |-> IF ContextOf[m] = x THEN {} ELSE closed[m]]
    /\ task' = [m \in Mutation |->
                  IF ContextOf[m] = x THEN Untasked ELSE task[m]]
    /\ marked' = [marked EXCEPT ![x] = {}]
    /\ UNCHANGED <<stored, remote, fate>>

EndRequest(x) ==
    /\ \A m \in MutationsOf(x) : ~InProgress(m) /\ ~AtWork(m)
    /\ Forgets(x)
    /\ UNCHANGED stray

OutstandingCalls(x) ==
    {c \in Issued \X Resource :
        \E m \in MutationsOf(x) : job[m].op = c[1] /\ task[m][c[2]] = "call"}

Crash(x) ==
    /\ \E late \in SUBSET OutstandingCalls(x) : stray' = stray \cup late
    /\ Forgets(x)

-----------------------------------------------------------------------------
Init ==
    /\ row = [e \in Entity |-> IF e \in Service THEN "present" ELSE "none"]
    /\ minted = Service
    /\ remote = [r \in Resource |-> "absent"]
    /\ stray = {}
    /\ fate = [r \in Resource |-> "untouched"]
    /\ marked = [x \in Context |-> {}]
    /\ job = [m \in Mutation |-> NoJob]
    /\ phase = [m \in Mutation |-> "free"]
    /\ begun = [m \in Mutation |-> {}]
    /\ listed = [m \in Mutation |-> {}]
    /\ closed = [m \in Mutation |-> {}]
    /\ task = [m \in Mutation |-> Untasked]

Begins(m) ==
    \/ \E e \in Entity :
           \/ BeginCreate(m, e)
           \/ BeginUpdate(m, e)
           \/ BeginDelete(m, e)
    \/ BeginRefused(m)

ServerStep(m) ==
    \/ OpenSystem(m)
    \/ \E d \in Deployment : ListResources(m, d) \/ CloseDeployment(m, d)
    \/ \E r \in Resource : Connect(m, r) \/ ConnectFails(m, r)
    \/ Commit(m)
    \/ Rollback(m)

CallEnds(m, r) ==
    \/ CreateAccepted(m, r)
    \/ CreateDeclined(m, r)
    \/ UpdateAnswered(m, r)
    \/ DeleteAccepted(m, r)
    \/ DeleteDeclined(m, r)
    \/ CallFails(m, r)
    \/ DeleteFails(m, r)

Next ==
    \/ \E m \in Mutation :
           Begins(m) \/ ServerStep(m) \/ \E r \in Resource : CallEnds(m, r)
    \/ \E o \in Issued, r \in Resource : StrayCall(o, r)
    \/ \E x \in Context : EndRequest(x) \/ Crash(x)

Spec == Init /\ [][Next]_vars

(* The event loop runs every promise that can go on, and every service     *)
(* ends every call it was sent: the clients are given no deadline.         *)
FairSpec ==
    /\ Spec
    /\ \A m \in Mutation :
           /\ WF_vars(ServerStep(m))
           /\ WF_vars(\E r \in Resource : CallEnds(m, r))

-----------------------------------------------------------------------------
(* Properties *)

TypeOK ==
    /\ row \in [Entity -> {"none", "present", "deleted"}]
    /\ minted \subseteq Entity
    /\ remote \in [Resource -> {"absent", "live"}]
    /\ stray \subseteq ({"create", "update", "delete"} \X Resource)
    /\ fate \in [Resource -> {"untouched", "asked", "cleaned"}]
    /\ marked \in [Context -> SUBSET Entity]
    /\ job \in [Mutation -> [op : {"none", "create", "update", "delete"},
                             on : Entity \cup {"nothing"}]]
    /\ phase \in [Mutation -> {"free", "opening", "run", "ok", "error"}]
    /\ begun \in [Mutation -> SUBSET Deployment]
    /\ listed \in [Mutation -> SUBSET Deployment]
    /\ closed \in [Mutation -> SUBSET Deployment]
    /\ task \in [Mutation ->
                   [Resource -> {"none", "connect", "call", "done", "failed"}]]

(* A resource row leaves the tables only after its service was asked to    *)
(* delete the resource, or the asking failed: no delete mutation, cascade, *)
(* flush of a document's leftovers or concurrent creation drops a row with *)
(* no attempt to tell the service.                                         *)
NoSilentRemoval ==
    \A r \in Resource : row[r] = "deleted" => fate[r] # "untouched"

(* A resource that users see exists at its service, unless the service     *)
(* carried out a deletion the server sent it.                              *)
RowMatchesService ==
    \A r \in Resource :
        row[r] = "present" => remote[r] = "live" \/ fate[r] = "cleaned"

(* Once its service deleted a resource no late call brings it back.        *)
CleanedStaysGone ==
    \A r \in Resource : fate[r] = "cleaned" => remote[r] = "absent"

(* A delete mutation answered without an error has left nothing of its     *)
(* subtree in the tables, whatever other requests created there while it   *)
(* read the rows to delete and waited for the services.                    *)
OkDeleteIsComplete ==
    \A m \in Mutation : phase[m] = "ok" /\ job[m].op = "delete" =>
        \A e \in {job[m].on} \cup Owned[job[m].on] : ~Stored(e)

(* What the deletions of a document are about. *)
Scope(m) == IF job[m].op = "delete" THEN {job[m].on} \cup Owned[job[m].on] ELSE {}

(* A transaction removes only rows that the delete mutations of its own    *)
(* document are about: leftovers of a failed one may go with a later flush *)
(* of the same document, never with another request's.                     *)
RemovesWhatWasAsked == [][
    \A e \in Entity : row[e] = "present" /\ row'[e] = "deleted" =>
        \E m \in Mutation : /\ phase[m] = "run" /\ phase'[m] = "ok"
                            /\ \E n \in Siblings(m) : e \in Scope(n)]_vars

(* Every mutation is answered: no promise waits for ever for another one   *)
(* while the services end their calls.                                     *)
Answered == \A m \in Mutation : InProgress(m) ~> ~InProgress(m)

Catalog == INSTANCE ResourceCatalog
               WITH Entity <- Entity, References <- References, Owned <- Owned,
                    row <- row

(* With one mutation per entity manager every flush is one step of the     *)
(* catalogue: a row is added, or exactly one whole subtree is removed.     *)
CatalogSpec == Catalog!Spec

OnePerContext == \A m, n \in Mutation : ContextOf[m] = ContextOf[n] => m = n

-----------------------------------------------------------------------------
(* The inductive invariant behind them *)

(* Rows stand below stored parents, and only drawn identifiers are used. *)
RowsInv ==
    /\ ForeignKeysHold(row)
    /\ Service \subseteq minted
    /\ \A e \in Entity : row[e] # "none" => e \in minted

(* A mutation works on its entity and on what that entity owns; an entity  *)
(* to delete or update has been stored, one to create has not.             *)
JobsInv ==
    /\ \A m \in Mutation :
           /\ phase[m] = "free" => job[m].op = "none"
           /\ phase[m] \in {"opening", "run", "ok"} => job[m].op # "none"
           /\ phase[m] = "opening" => job[m].op = "delete" /\ job[m].on \in System
           /\ job[m].op # "none" => job[m].on \in minted
           /\ job[m].op \in {"update", "delete"} => row[job[m].on] # "none"
           /\ job[m].op = "create" /\ phase[m] = "run" => row[job[m].on] = "none"
           /\ job[m].op = "delete" /\ phase[m] = "ok" => row[job[m].on] = "deleted"
    /\ \A m, n \in Mutation :
           job[m].op = "create" /\ job[n].op = "create" /\ job[m].on = job[n].on
               => m = n

(* Deployments are deleted, and resources worked on, within the scope of   *)
(* the mutation; so are the rows an entity manager has marked.             *)
ScopeInv ==
    /\ \A m \in Mutation :
           /\ begun[m] \subseteq Scope(m)
           /\ phase[m] = "opening" => begun[m] = {}
           /\ listed[m] \subseteq begun[m]
           /\ closed[m] \subseteq listed[m]
           /\ \A r \in Resource : task[m][r] # "none" =>
                  \/ job[m].op = "delete" /\ r \in Scope(m)
                  \/ job[m].op \in {"create", "update"} /\ r = job[m].on
    /\ \A x \in Context : \A e \in marked[x] :
           \E n \in MutationsOf(x) : e \in Scope(n)

(* What is known of a resource at its service while it is being created,   *)
(* stored and deleted.                                                     *)
ResourceInv(r) ==
    /\ row[r] = "none" => fate[r] = "untouched"
    /\ row[r] # "none" => (remote[r] = "live" <=> fate[r] # "cleaned")
    /\ row[r] # "none" => <<"create", r>> \notin stray
    /\ <<"delete", r>> \in stray => row[r] # "none"
    /\ r \notin minted => remote[r] = "absent" /\ <<"create", r>> \notin stray
    /\ row[r] = "deleted" => fate[r] # "untouched"
    /\ \A x \in Context : r \in marked[x] => fate[r] # "untouched"

WorkInv(m, r) ==
    /\ job[m].op = "create" /\ task[m][r] \in {"connect", "call"} =>
           phase[m] = "run"
    /\ job[m].op = "create" /\ job[m].on = r /\ phase[m] = "run" =>
           /\ <<"create", r>> \notin stray
           /\ task[m][r] \in {"connect", "call", "done"}
           /\ remote[r] = "live" <=> task[m][r] = "done"
    /\ job[m].op = "delete" /\ job[m].on = r /\ phase[m] = "run" =>
           task[m][r] # "none"
    /\ job[m].op = "delete" /\ task[m][r] = "done" => fate[r] # "untouched"
    /\ job[m].op = "delete" /\ task[m][r] # "none" => row[r] # "none"

FateInv ==
    /\ \A r \in Resource : ResourceInv(r)
    /\ \A m \in Mutation, r \in Resource : WorkInv(m, r)

IInv == TypeOK /\ RowsInv /\ JobsInv /\ ScopeInv /\ FateInv
=============================================================================
