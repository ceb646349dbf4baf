------------------------------ MODULE Overviews ------------------------------
(***************************************************************************)
(* What the server tells about the state of a system: the overview of the  *)
(* system or of one of its deployments, and the status, usage and details  *)
(* of one resource.  For each resource concerned its service is asked, all *)
(* at the same time and without a deadline, while other requests go on     *)
(* creating and deleting deployments and resources and changing the        *)
(* members of the organisation.                                            *)
(*                                                                         *)
(* One system, one request at a time.  A deletion takes a deployment with  *)
(* its resources: how it does is ResourceLifecycle's matter.               *)
(***************************************************************************)
EXTENDS Naturals, FiniteSets

CONSTANTS
    Deployment,
    Resource,
    Of,      \* Of[r]: the deployment of a resource
    Silent   \* resources whose services may leave a call unended for ever

ASSUME Placed ==
    IsFiniteSet(Resource) /\ Of \in [Resource -> Deployment] /\ Silent \subseteq Resource

(* What a service says.  Nothing stands for everything that ends a call    *)
(* without an answer: the service row, the credentials, the protocol, the  *)
(* connection or the call fails.  Unfit is what GraphQL has no form for: a *)
(* number outside the enumeration, a quantity that is not finite.          *)
Statuses == {"healthy", "degraded", "down", "unrecognized", "unfit", "nothing"}
Usages == {"limited", "unlimited", "unfit", "nothing"}
Details == {"properties", "unnamed", "empty", "unfit", "nothing"}

Says(k) == CASE k = "usage" -> Usages
             [] k = "details" -> Details
             [] OTHER -> Statuses

Said == Statuses \cup Usages \cup Details

(* HEALTHY and LIMITED are 0, and a property may have an empty name: proto3 *)
(* leaves them out of the message unless the encoder writes them all the   *)
(* same, and never writes a list without members.  What is not there stays *)
(* undefined, as the definition is loaded without defaults.                *)
Arrives(s) ==
    CASE s \in {"healthy", "limited", "unnamed"} -> {s, "undefined"}
      [] s = "empty" -> {"undefined"}
      [] s = "nothing" -> {"rejected"}
      [] OTHER -> {s}

Came == UNION {Arrives(s) : s \in Said}

Kind == {"system", "deployment", "status", "usage", "details"}

NotYet == [healthy |-> 0, unhealthy |-> 0, done |-> FALSE]

VARIABLES
    deployments, \* by identifier: none, there, or gone
    resources,   \* by identifier: none, there, or gone
    member,      \* the user is a member of the organisation of the system
    view,        \* the request: what it is about, and how far it is
    opened,      \* the deployments an overview is made of
    listing,     \* those whose resources have yet to be listed
    listed,      \* the resources whose services are asked
    came,        \* what has come of the calls, by resource
    counted,     \* the overviews of single deployments
    steady,      \* history: resources concerned that have been there all along
    said,        \* history: what the services have said, by resource
    lost         \* history: the database has failed a query of the request

rows == <<deployments, resources, member>>
calls == <<opened, listing, listed, came, counted>>
history == <<steady, said, lost>>
vars == <<rows, view, calls, history>>

-----------------------------------------------------------------------------
(* The request *)

There(d) == deployments[d] = "there"
Known(r) == resources[r] = "there"

NoView == [kind |-> "none", step |-> "none"]

Overview == view.kind \in {"system", "deployment"}

Underway == view.step \in {"asked", "found", "open", "counting"}

Moves(step) == view' = [view EXCEPT !.step = step]

Clear ==
    /\ opened' = {} /\ listing' = {} /\ listed' = {}
    /\ came' = [r \in Resource |-> "none"]
    /\ said' = [r \in Resource |-> "none"]
    /\ counted' = [d \in Deployment |-> NotYet]
    /\ lost' = FALSE

Asks(k, x, concerned) ==
    /\ view = NoView
    /\ view' = [kind |-> k, on |-> x, step |-> "asked"]
    /\ steady' = {r \in concerned : Known(r)}
    /\ Clear
    /\ UNCHANGED rows

AskSystem == Asks("system", "system", Resource)
AskDeployment(d) == Asks("deployment", d, {r \in Resource : Of[r] = d})
AskResource(k, r) == Asks(k, r, {r})

(* findByIDOrFail *)
Find ==
    /\ view.step = "asked"
    /\ LET exists == CASE view.kind = "system" -> TRUE
                       [] view.kind = "deployment" -> There(view.on)
                       [] OTHER -> Known(view.on)
       IN  Moves(IF exists THEN "found" ELSE "notFound")
    /\ UNCHANGED <<rows, calls, history>>

(* hasAccess goes up to the organisation, and loads its members.           *)
Access ==
    /\ view.step = "found"
    /\ Moves(IF member THEN "open" ELSE "unauthorised")
    /\ UNCHANGED <<rows, calls, history>>

(* Mutant: deployments without resources are left out of what is opened.   *)
OpenNonEmpty ==
    /\ view.step = "open"
    /\ Moves("counting")
    /\ listing' = CASE view.kind = "system" -> {d \in Deployment : There(d)}
                    [] view.kind = "deployment" -> {view.on}
                    [] OTHER -> {}
    /\ opened' = {d \in listing' : \E r \in Resource : Known(r) /\ Of[r] = d}
    /\ listed' = IF Overview THEN {} ELSE {view.on}
    /\ UNCHANGED <<rows, came, counted, history>>

(* deployments.init(), for the overview of a system *)
Open ==
    /\ view.step = "open"
    /\ Moves("counting")
    /\ opened' = CASE view.kind = "system" -> {d \in Deployment : There(d)}
                   [] view.kind = "deployment" -> {view.on}
                   [] OTHER -> {}
    /\ listing' = opened'
    /\ listed' = IF Overview THEN {} ELSE {view.on}
    /\ UNCHANGED <<rows, came, counted, history>>

(* Mutant: resources are listed as the field resources lists them, up to a *)
(* limit.                                                                  *)
ListResourcesLimited(d) ==
    /\ view.step = "counting" /\ d \in listing
    /\ listing' = listing \ {d}
    /\ \E some \in SUBSET {r \in Resource : Known(r) /\ Of[r] = d} :
           /\ Cardinality(some) <= 1
           /\ listed' = listed \cup some
    /\ UNCHANGED <<rows, view, opened, came, counted, history>>

(* resources.init(), which finds none when the deployment is gone.         *)
ListResources(d) ==
    /\ view.step = "counting" /\ d \in listing
    /\ listing' = listing \ {d}
    /\ listed' = listed \cup {r \in Resource : Known(r) /\ Of[r] = d}
    /\ UNCHANGED <<rows, view, opened, came, counted, history>>

(* A query of the request itself fails: the answer is an error, and what   *)
(* is still under way is not waited for.                                   *)
DatabaseFails ==
    /\ Underway
    /\ view.step = "counting" => listing # {}
    /\ Moves("failed")
    /\ lost' = TRUE
    /\ UNCHANGED <<rows, calls, steady, said>>

-----------------------------------------------------------------------------
(* The calls *)

Pending(r) == view.step = "counting" /\ r \in listed /\ came[r] = "none"

(* Mutant: a rejected call is not caught. *)
CallEndsUncaught(r) ==
    /\ Pending(r)
    /\ \E s \in Says(view.kind) : \E c \in Arrives(s) :
           /\ said' = [said EXCEPT ![r] = s]
           /\ came' = [came EXCEPT ![r] = c]
           /\ IF c = "rejected" THEN Moves("failed") ELSE UNCHANGED view
    /\ UNCHANGED <<rows, opened, listing, listed, counted, steady, lost>>

(* Asking for the status, usage or details of one resource ends in one way *)
(* or the other; by then the resource need not be there any more.          *)
CallEnds(r) ==
    /\ Pending(r)
    /\ \E s \in Says(view.kind) : \E c \in Arrives(s) :
           /\ said' = [said EXCEPT ![r] = s]
           /\ came' = [came EXCEPT ![r] = c]
    /\ UNCHANGED <<rows, view, opened, listing, listed, counted, steady, lost>>

Number(rs, cs) == Cardinality({r \in rs : came[r] \in cs})

(* Mutant: what is rejected is counted nowhere. *)
CountOfAnswers(rs) ==
    [healthy |-> Number(rs, {"healthy"}),
     unhealthy |-> Number(rs, {"degraded", "down"}), done |-> TRUE]

(* What is rejected counts as DOWN; what is undefined, unrecognized or     *)
(* another number is neither healthy nor unhealthy.                        *)
CountOf(rs) ==
    [healthy |-> Number(rs, {"healthy"}),
     unhealthy |-> Number(rs, {"degraded", "down", "rejected"}), done |-> TRUE]

Mine(d) == {r \in listed : Of[r] = d}

(* Mutant: without resources there is nothing to begin the count with. *)
CountDeploymentIfAny(d) ==
    /\ view.step = "counting"
    /\ d \in opened \ listing /\ ~counted[d].done
    /\ Mine(d) # {} /\ \A r \in Mine(d) : ~Pending(r)
    /\ counted' = [counted EXCEPT ![d] = CountOf(Mine(d))]
    /\ UNCHANGED <<rows, view, opened, listing, listed, came, history>>

(* DeploymentService.getStatus returns. *)
CountDeployment(d) ==
    /\ view.step = "counting"
    /\ d \in opened \ listing /\ ~counted[d].done
    /\ \A r \in Mine(d) : ~Pending(r)
    /\ counted' = [counted EXCEPT ![d] = CountOf(Mine(d))]
    /\ UNCHANGED <<rows, view, opened, listing, listed, came, history>>

(* The overview that is answered: reduce adds up those of the deployments, *)
(* a sum that is written here as the size of a disjoint union.             *)
Total(n) == Cardinality(UNION {{d} \X (1..n[d]) : d \in opened})

Healthy == Total([d \in opened |-> counted[d].healthy])
Unhealthy == Total([d \in opened |-> counted[d].unhealthy])

AnswerOverview ==
    /\ view.step = "counting" /\ Overview
    /\ \A d \in opened : counted[d].done
    /\ Moves("answered")
    /\ UNCHANGED <<rows, calls, history>>

(* A status, the type of a usage, the properties of the details and their  *)
(* names may not be null, and what is unfit cannot be serialised.  A       *)
(* status that is rejected is given as DOWN.  The usage and the details of *)
(* a rejected call are errors: the promise of the usage is returned before *)
(* it can be caught, and that of the details is not caught at all.         *)
AnswerResource ==
    /\ view.step = "counting" /\ ~Overview /\ ~Pending(view.on)
    /\ Moves(IF \/ came[view.on] \in {"undefined", "unfit"}
                \/ view.kind # "status" /\ came[view.on] = "rejected"
             THEN "failed" ELSE "answered")
    /\ UNCHANGED <<rows, calls, history>>

Leaves ==
    /\ view # NoView /\ ~Underway
    /\ view' = NoView
    /\ steady' = {}
    /\ Clear
    /\ UNCHANGED rows

-----------------------------------------------------------------------------
(* The other requests *)

AddDeployment(d) ==
    /\ deployments[d] = "none"
    /\ deployments' = [deployments EXCEPT ![d] = "there"]
    /\ UNCHANGED <<resources, member, view, calls, history>>

AddResource(r) ==
    /\ resources[r] = "none" /\ There(Of[r])
    /\ resources' = [resources EXCEPT ![r] = "there"]
    /\ UNCHANGED <<deployments, member, view, calls, history>>

RemoveResource(r) ==
    /\ Known(r)
    /\ resources' = [resources EXCEPT ![r] = "gone"]
    /\ steady' = steady \ {r}
    /\ UNCHANGED <<deployments, member, view, calls, said, lost>>

RemoveDeployment(d) ==
    /\ There(d)
    /\ deployments' = [deployments EXCEPT ![d] = "gone"]
    /\ resources' = [r \in Resource |->
                       IF Of[r] = d /\ Known(r) THEN "gone" ELSE resources[r]]
    /\ steady' = {r \in steady : Of[r] # d}
    /\ UNCHANGED <<member, view, calls, said, lost>>

ChangeMember ==
    /\ member' = ~member
    /\ UNCHANGED <<deployments, resources, view, calls, history>>

Init ==
    /\ deployments = [d \in Deployment |-> "none"]
    /\ resources = [r \in Resource |-> "none"]
    /\ member \in BOOLEAN
    /\ view = NoView
    /\ opened = {} /\ listing = {} /\ listed = {}
    /\ came = [r \in Resource |-> "none"]
    /\ counted = [d \in Deployment |-> NotYet]
    /\ steady = {} /\ said = [r \in Resource |-> "none"] /\ lost = FALSE

Next ==
    \/ AskSystem
    \/ \E d \in Deployment :
           \/ AskDeployment(d) \/ ListResources(d) \/ CountDeployment(d)
           \/ AddDeployment(d) \/ RemoveDeployment(d)
    \/ \E r \in Resource :
           \/ \E k \in Kind \ {"system", "deployment"} : AskResource(k, r)
           \/ CallEnds(r) \/ AddResource(r) \/ RemoveResource(r)
    \/ Find \/ Access \/ Open \/ DatabaseFails
    \/ AnswerOverview \/ AnswerResource \/ Leaves
    \/ ChangeMember

Spec == Init /\ [][Next]_vars

(* Queries end, and the calls of services do that are not silent.          *)
FairSpec ==
    /\ Spec
    /\ WF_vars(Find) /\ WF_vars(Access) /\ WF_vars(Open)
    /\ \A d \in Deployment :
           WF_vars(ListResources(d)) /\ WF_vars(CountDeployment(d))
    /\ \A r \in Resource \ Silent : WF_vars(CallEnds(r))
    /\ WF_vars(AnswerOverview) /\ WF_vars(AnswerResource)

-----------------------------------------------------------------------------
(* Properties *)

Step == {"asked", "found", "open", "counting", "answered", "failed", "notFound",
         "unauthorised"}

View ==
    [kind : {"system"}, on : {"system"}, step : Step]
    \cup [kind : {"deployment"}, on : Deployment, step : Step]
    \cup [kind : {"status", "usage", "details"}, on : Resource, step : Step]

TypeOK ==
    /\ deployments \in [Deployment -> {"none", "there", "gone"}]
    /\ resources \in [Resource -> {"none", "there", "gone"}]
    /\ member \in BOOLEAN
    /\ view \in {NoView} \cup View
    /\ opened \subseteq Deployment /\ listing \subseteq opened
    /\ listed \subseteq Resource /\ steady \subseteq Resource
    /\ came \in [Resource -> Came \cup {"none"}]
    /\ said \in [Resource -> Said \cup {"none"}]
    /\ counted \in [Deployment ->
           [healthy : Nat, unhealthy : Nat, done : BOOLEAN]]
    /\ lost \in BOOLEAN

Saying(words) == {r \in listed : said[r] \in words}

(* An overview never shows more healthy resources than services have said  *)
(* to be, and shows every resource as unhealthy whose service has said so  *)
(* or has not answered, and no other; whatever is deleted meanwhile.       *)
OverviewIsTrue ==
    view.step = "answered" /\ Overview =>
        /\ Healthy <= Cardinality(Saying({"healthy"}))
        /\ Unhealthy = Cardinality(Saying({"degraded", "down", "nothing"}))

(* The services of all resources are asked that were there from the        *)
(* request to its answer, whatever came and went beside them.              *)
SteadyAreAsked == view.step = "answered" => steady \subseteq listed

(* What a service can say that makes a field of its resource fail.         *)
Ungivable(k) ==
    CASE k = "status" -> {"healthy", "unfit"}
      [] k = "usage" -> {"limited", "unfit", "nothing"}
      [] k = "details" -> {"unnamed", "empty", "unfit", "nothing"}

(* Whatever its services say or leave unsaid, an overview fails only where *)
(* the database does.  A field of one resource fails besides for what its  *)
(* service says, when that may be left out of the message or has no form   *)
(* in GraphQL; and the status, other than the usage and the details, never *)
(* for a service that says nothing.                                        *)
FailsForCause ==
    view.step = "failed" =>
        lost \/ (~Overview /\ said[view.on] \in Ungivable(view.kind))

(* Only a service that does not end its call holds a request up.           *)
HeldBySilenceOnly == Underway ~> (~Underway \/ \E r \in Silent : Pending(r))

-----------------------------------------------------------------------------
(* The inductive invariant behind the first three *)

(* Rows of resources are those of deployments that are there.              *)
RowInv == \A r \in Resource : Known(r) => There(Of[r])

(* A steady resource is there; its deployment is one of those opened, and  *)
(* the resource is listed as soon as the deployment is.  Nothing is        *)
(* counted before all of this.                                             *)
SteadyInv ==
    /\ \A r \in steady : Known(r)
    /\ view.kind = "deployment" => \A r \in steady : Of[r] = view.on
    /\ view.kind \in {"status", "usage", "details"} => steady \subseteq {view.on}
    /\ view.step = "counting" =>
           /\ Overview => \A r \in steady : r \in listed \/ Of[r] \in listing
           /\ ~Overview => view.on \in listed
           /\ \A d \in opened : counted[d].done => d \notin listing
    /\ view.step \in {"none", "asked", "found", "open"} =>
           \A d \in Deployment : ~counted[d].done

(* Every call comes to what its service may make of it, or has not ended.  *)
CallInv ==
    \A r \in Resource :
        /\ came[r] \in (IF said[r] = "none" THEN {"none"} ELSE Arrives(said[r]))
        /\ said[r] \in Says(view.kind) \cup {"none"}

(* What an overview is made of: a resource is listed with its deployment   *)
(* alone, and a deployment is counted when the calls of all of its have    *)
(* ended, which then stay as they were counted.                            *)
CountedInv ==
    Overview /\ view.step \in {"counting", "answered"} =>
        /\ \A r \in listed : Of[r] \in opened \ listing
        /\ \A d \in opened : counted[d].done =>
               /\ d \notin listing
               /\ counted[d] = CountOf(Mine(d))
               /\ \A r \in Mine(d) : came[r] # "none"
        /\ view.step = "answered" => \A d \in opened : counted[d].done

IInv ==
    /\ TypeOK /\ RowInv /\ SteadyInv /\ CallInv /\ CountedInv
    /\ SteadyAreAsked /\ FailsForCause /\ OverviewIsTrue
=============================================================================
