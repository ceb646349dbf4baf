--------------------------- MODULE OverviewsProofs ---------------------------
(* Overviews, for any number of deployments and resources.                 *)
EXTENDS Overviews, FiniteSetTheorems, FunctionTheorems, TLAPS

-----------------------------------------------------------------------------
(* Counting resources gives numbers.                                       *)
LEMMA Counts ==
    ASSUME NEW rs \in SUBSET Resource
    PROVE  CountOf(rs) \in [healthy : Nat, unhealthy : Nat, done : BOOLEAN]
<1>1. \A cs : Number(rs, cs) \in Nat
  <2> SUFFICES ASSUME NEW cs PROVE Number(rs, cs) \in Nat  OBVIOUS
  <2>1. {r \in rs : came[r] \in cs} \in SUBSET Resource  OBVIOUS
  <2> QED  BY <2>1, Placed, FS_Subset, FS_CardinalityType DEF Number
<1> QED  BY <1>1 DEF CountOf

(* The size of a set is the sum of the sizes of its parts.                 *)
LEMMA DisjointUnion ==
    ASSUME NEW R, IsFiniteSet(R), NEW D, NEW of \in [R -> D],
           NEW n \in [D -> Nat],
           \A d \in D : n[d] = Cardinality({r \in R : of[r] = d})
    PROVE  Cardinality(UNION {{d} \X (1..n[d]) : d \in D}) = Cardinality(R)
<1> DEFINE Part(d) == {r \in R : of[r] = d}
           U == UNION {{d} \X (1..n[d]) : d \in D}
           b == [d \in D |-> CHOOSE f : f \in Bijection(1..n[d], Part(d))]
           h == [p \in U |-> b[p[1]][p[2]]]
<1>1. \A d \in D : b[d] \in Bijection(1..n[d], Part(d))
  <2> SUFFICES ASSUME NEW d \in D PROVE b[d] \in Bijection(1..n[d], Part(d))
    OBVIOUS
  <2>1. Part(d) \in SUBSET R  OBVIOUS
  <2>2. IsFiniteSet(Part(d))  BY <2>1, FS_Subset
  <2>3. ExistsBijection(1..Cardinality(Part(d)), Part(d))
    BY <2>2, FS_CardinalityType
  <2>4. \E f : f \in Bijection(1..n[d], Part(d))
    BY <2>3, Fun_ExistsBij
  <2> HIDE DEF Part
  <2> QED  BY <2>4
<1>2. \A d \in D : /\ b[d] \in [1..n[d] -> Part(d)]
                   /\ \A i, j \in 1..n[d] : b[d][i] = b[d][j] => i = j
                   /\ \A r \in Part(d) : \E i \in 1..n[d] : b[d][i] = r
  <2> SUFFICES ASSUME NEW d \in D
      PROVE  /\ b[d] \in [1..n[d] -> Part(d)]
             /\ \A i, j \in 1..n[d] : b[d][i] = b[d][j] => i = j
             /\ \A r \in Part(d) : \E i \in 1..n[d] : b[d][i] = r
    OBVIOUS
  <2> DEFINE N == 1..n[d]
             P == Part(d)
             f == b[d]
  <2>1. f \in Bijection(N, P)  BY <1>1
  <2> HIDE DEF f, N, P
  <2>2. f \in [N -> P]  BY <2>1, Fun_BijectionProperties
  <2>3. \A i, j \in N : f[i] = f[j] => i = j
    BY <2>1, Fun_BijectionProperties
  <2>4. \A r \in P : \E i \in N : f[i] = r
    BY <2>1, Fun_BijectionProperties
  <2> USE DEF f, N, P
  <2> HIDE DEF b, Part
  <2> QED  BY <2>2, <2>3, <2>4
<1>3. \A p \in U : /\ p[1] \in D /\ p[2] \in 1..n[p[1]] /\ p = <<p[1], p[2]>>
  OBVIOUS
<1>4. \A d \in D : \A i \in 1..n[d] : <<d, i>> \in U  OBVIOUS
<1> HIDE DEF U, b
<1>5. h \in [U -> R]
  BY <1>2, <1>3
<1>6. ASSUME NEW p \in U, NEW q \in U, h[p] = h[q] PROVE p = q
  <2>1. p[1] = q[1]
    <3>1. of[h[p]] = p[1] /\ of[h[q]] = q[1]  BY <1>2, <1>3
    <3> QED  BY <3>1, <1>6
  <2>2. p[2] = q[2]  BY <1>2, <1>3, <1>6, <2>1
  <2> QED  BY <1>3, <2>1, <2>2
<1>7. ASSUME NEW r \in R PROVE \E p \in U : h[p] = r
  <2>1. of[r] \in D /\ r \in Part(of[r])  OBVIOUS
  <2>2. PICK i \in 1..n[of[r]] : b[of[r]][i] = r  BY <1>2, <2>1
  <2>3. <<of[r], i>> \in U  BY <1>4, <2>1
  <2>4. h[<<of[r], i>>] = r  BY <2>2, <2>3
  <2> QED  BY <2>3, <2>4
<1> HIDE DEF h
<1>8. h \in Bijection(U, R)  BY <1>5, <1>6, <1>7, Fun_IsBij
<1>9. ExistsBijection(R, U)
  BY <1>8, Fun_ExistsBij, Fun_ExistsBijSymmetric
<1> QED  BY <1>9, FS_Bijection DEF U

(* What an answer of a service may be, and come as.                        *)
LEMMA Words == \A k : Says(k) \subseteq Said /\ "none" \notin Says(k)
BY DEF Says, Said, Statuses, Usages, Details

LEMMA Arriving == \A s \in Said : Arrives(s) \subseteq Came
BY DEF Came

(* What comes of the words that make a field fail, and of no others.       *)
LEMMA Failing ==
    ASSUME NEW k \in {"status", "usage", "details"}, NEW s \in Says(k),
           NEW c \in Arrives(s),
           c \in {"undefined", "unfit"} \/ (k # "status" /\ c = "rejected")
    PROVE  s \in Ungivable(k)
<1>1. CASE k = "status"
  BY <1>1 DEF Says, Statuses, Arrives, Ungivable
<1>2. CASE k = "usage"
  BY <1>2 DEF Says, Usages, Arrives, Ungivable
<1>3. CASE k = "details"
  BY <1>3 DEF Says, Details, Arrives, Ungivable
<1> QED  BY <1>1, <1>2, <1>3

(* A request that moves on stays what it is about.                         *)
LEMMA Moving ==
    ASSUME TypeOK, view # NoView, NEW step \in Step, Moves(step)
    PROVE  /\ view' \in View /\ view'.step = step
           /\ view'.kind = view.kind /\ view'.on = view.on
<1>1. view \in View  BY DEF TypeOK
<1> QED  BY <1>1 DEF Moves, View, Step

LEMMA Shapes ==
    ASSUME TypeOK
    PROVE  /\ view = NoView => view.step = "none" /\ view.kind = "none"
           /\ view # NoView => /\ view.step \in Step /\ view.kind \in Kind
                               /\ view.kind = "deployment" => view.on \in Deployment
                               /\ ~Overview => view.on \in Resource
           /\ view.step # "none" => view # NoView
<1>1. CASE view = NoView  BY <1>1 DEF NoView
<1>2. CASE view \in View  BY <1>2 DEF View, Step, Kind, Overview, NoView
<1> QED  BY <1>1, <1>2 DEF TypeOK

LEMMA InitInv == Init => IInv
<1> SUFFICES ASSUME Init PROVE IInv  OBVIOUS
<1>1. TypeOK  BY DEF Init, TypeOK, NotYet
<1>2. view.step = "none" /\ view.kind = "none"  BY DEF Init, NoView
<1>3. RowInv  BY DEF Init, RowInv, Known
<1>4. SteadyInv  BY <1>2 DEF Init, SteadyInv, NotYet
<1>5. CallInv  BY DEF Init, CallInv
<1>6. SteadyAreAsked /\ FailsForCause  BY <1>2 DEF SteadyAreAsked, FailsForCause
<1>7. CountedInv /\ OverviewIsTrue  BY <1>2 DEF CountedInv, OverviewIsTrue
<1> QED  BY <1>1, <1>3, <1>4, <1>5, <1>6, <1>7 DEF IInv

-----------------------------------------------------------------------------
(* The steps by what they leave alone.                                     *)
Request ==
    \/ Find \/ Access \/ Open \/ DatabaseFails \/ AnswerOverview \/ AnswerResource
    \/ \E d \in Deployment : ListResources(d) \/ CountDeployment(d)
    \/ \E r \in Resource : CallEnds(r)

Others ==
    \/ \E d \in Deployment : AddDeployment(d) \/ RemoveDeployment(d)
    \/ \E r \in Resource : AddResource(r) \/ RemoveResource(r)
    \/ ChangeMember

Borders ==
    \/ \E k, x : \E concerned \in SUBSET Resource :
           /\ Asks(k, x, concerned)
           /\ [kind |-> k, on |-> x, step |-> "asked"] \in View
           /\ k = "deployment" => \A r \in concerned : Of[r] = x
           /\ k \in {"status", "usage", "details"} => concerned = {x}
    \/ Leaves

LEMMA StepsOf == Next => Request \/ Others \/ Borders
<1> SUFFICES ASSUME Next PROVE Request \/ Others \/ Borders  OBVIOUS
<1>1. CASE AskSystem
  <2>1. [kind |-> "system", on |-> "system", step |-> "asked"] \in View
    BY DEF View, Step
  <2> QED  BY <1>1, <2>1 DEF AskSystem, Borders
<1>2. ASSUME NEW d \in Deployment, AskDeployment(d) PROVE Borders
  <2>1. [kind |-> "deployment", on |-> d, step |-> "asked"] \in View
    BY DEF View, Step
  <2>2. {r \in Resource : Of[r] = d} \in SUBSET Resource  OBVIOUS
  <2> QED  BY <1>2, <2>1, <2>2 DEF AskDeployment, Borders
<1>3. ASSUME NEW r \in Resource, NEW k \in Kind \ {"system", "deployment"},
             AskResource(k, r)
      PROVE  Borders
  <2>1. k \in {"status", "usage", "details"}  BY DEF Kind
  <2>2. [kind |-> k, on |-> r, step |-> "asked"] \in View
    BY <2>1 DEF View, Step
  <2>3. {r} \in SUBSET Resource  OBVIOUS
  <2> QED  BY <1>3, <2>1, <2>2, <2>3 DEF AskResource, Borders
<1> QED  BY <1>1, <1>2, <1>3 DEF Next, Request, Others, Borders

-----------------------------------------------------------------------------
LEMMA TypeStep == TypeOK /\ [Next]_vars => TypeOK'
<1> SUFFICES ASSUME TypeOK, [Next]_vars PROVE TypeOK'  OBVIOUS
<1>1. CASE UNCHANGED vars
  BY <1>1 DEF TypeOK, vars, rows, calls, history
<1>2. CASE Others
  <2>1. ASSUME NEW d \in Deployment, AddDeployment(d) PROVE TypeOK'
    BY <2>1 DEF AddDeployment, TypeOK, calls, history
  <2>2. ASSUME NEW d \in Deployment, RemoveDeployment(d) PROVE TypeOK'
    BY <2>2 DEF RemoveDeployment, TypeOK, calls
  <2>3. ASSUME NEW r \in Resource, AddResource(r) PROVE TypeOK'
    BY <2>3 DEF AddResource, TypeOK, calls, history
  <2>4. ASSUME NEW r \in Resource, RemoveResource(r) PROVE TypeOK'
    BY <2>4 DEF RemoveResource, TypeOK, calls
  <2>5. CASE ChangeMember
    BY <2>5 DEF ChangeMember, TypeOK, calls, history
  <2> QED  BY <1>2, <2>1, <2>2, <2>3, <2>4, <2>5 DEF Others
<1>3. CASE Borders
  <2>1. /\ view' \in {NoView} \cup View /\ steady' \subseteq Resource
        /\ Clear /\ UNCHANGED rows
    BY <1>3 DEF Borders, Asks, Leaves
  <2>2. NotYet \in [healthy : Nat, unhealthy : Nat, done : BOOLEAN]
    BY DEF NotYet
  <2> QED  BY <2>1, <2>2 DEF Clear, TypeOK, rows
<1>4. CASE Find
  <2>1. view' \in View
    <3>1. view # NoView  BY <1>4, Shapes DEF Find
    <3>2. \A w \in {"found", "notFound"} : w \in Step  BY DEF Step
    <3> QED  BY <1>4, <3>1, <3>2, Moving DEF Find
  <2> QED  BY <1>4, <2>1 DEF Find, TypeOK, rows, calls, history
<1>5. CASE Access
  <2>1. view' \in View
    <3>1. view # NoView  BY <1>5, Shapes DEF Access
    <3>2. \A w \in {"open", "unauthorised"} : w \in Step  BY DEF Step
    <3> QED  BY <1>5, <3>1, <3>2, Moving DEF Access
  <2> QED  BY <1>5, <2>1 DEF Access, TypeOK, rows, calls, history
<1>6. CASE Open
  <2>1. view # NoView /\ "counting" \in Step  BY <1>6, Shapes DEF Open, Step
  <2>2. view' \in View  BY <1>6, <2>1, Moving DEF Open
  <2>3. view.kind = "deployment" => view.on \in Deployment  BY <2>1, Shapes
  <2>4. ~Overview => view.on \in Resource  BY <2>1, Shapes
  <2>5. opened' \subseteq Deployment /\ listing' = opened'
    BY <1>6, <2>3 DEF Open
  <2>6. listed' \subseteq Resource  BY <1>6, <2>4 DEF Open
  <2> QED  BY <1>6, <2>2, <2>5, <2>6 DEF Open, TypeOK, rows, history
<1>7. CASE DatabaseFails
  <2>1. view # NoView /\ "failed" \in Step
    BY <1>7, Shapes DEF DatabaseFails, Underway, Step
  <2>2. view' \in View  BY <1>7, <2>1, Moving DEF DatabaseFails
  <2> QED  BY <1>7, <2>2 DEF DatabaseFails, TypeOK, rows, calls
<1>8. CASE AnswerOverview
  <2>1. view # NoView /\ "answered" \in Step
    BY <1>8, Shapes DEF AnswerOverview, Step
  <2>2. view' \in View  BY <1>8, <2>1, Moving DEF AnswerOverview
  <2> QED  BY <1>8, <2>2 DEF AnswerOverview, TypeOK, rows, calls, history
<1>9. CASE AnswerResource
  <2>1. view # NoView  BY <1>9, Shapes DEF AnswerResource
  <2>2. \A w \in {"failed", "answered"} : w \in Step  BY DEF Step
  <2>3. view' \in View  BY <1>9, <2>1, <2>2, Moving DEF AnswerResource
  <2> QED  BY <1>9, <2>3 DEF AnswerResource, TypeOK, rows, calls, history
<1>10. ASSUME NEW d \in Deployment, ListResources(d) PROVE TypeOK'
  BY <1>10 DEF ListResources, TypeOK, rows, history
<1>11. ASSUME NEW d \in Deployment, CountDeployment(d) PROVE TypeOK'
  <2>1. Mine(d) \in SUBSET Resource  BY DEF Mine, TypeOK
  <2>2. CountOf(Mine(d)) \in [healthy : Nat, unhealthy : Nat, done : BOOLEAN]
    BY <2>1, Counts
  <2> QED  BY <1>11, <2>2 DEF CountDeployment, TypeOK, rows, history
<1>12. ASSUME NEW r \in Resource, CallEnds(r) PROVE TypeOK'
  BY <1>12, Arriving, Words DEF CallEnds, TypeOK, rows
<1> QED
  BY <1>1, <1>2, <1>3, <1>4, <1>5, <1>6, <1>7, <1>8, <1>9, <1>10, <1>11, <1>12,
     StepsOf
  DEF Request

-----------------------------------------------------------------------------
(* Deletions take the resources with the deployment.                       *)
LEMMA RowStep == TypeOK /\ RowInv /\ [Next]_vars => RowInv'
<1> SUFFICES ASSUME TypeOK, RowInv, [Next]_vars PROVE RowInv'  OBVIOUS
<1> USE Placed DEF There, Known
<1>1. CASE UNCHANGED rows  BY <1>1 DEF rows, RowInv
<1>2. CASE Others
  BY <1>2 DEF Others, AddDeployment, RemoveDeployment, AddResource,
              RemoveResource, ChangeMember, TypeOK, RowInv
<1>3. CASE Request \/ Borders
  BY <1>1, <1>3 DEF Request, Borders, Find, Access, Open, DatabaseFails,
     AnswerOverview, AnswerResource, ListResources, CountDeployment, CallEnds,
     Asks, Leaves
<1> QED  BY <1>1, <1>2, <1>3, StepsOf DEF vars
-----------------------------------------------------------------------------
(* What is still to be listed is all that a steady resource can be missing *)
(* from, because the deployments are opened with one query.                *)
LEMMA SteadyStep ==
    TypeOK /\ RowInv /\ SteadyInv /\ [Next]_vars => SteadyInv'
<1> SUFFICES ASSUME TypeOK, RowInv, SteadyInv, [Next]_vars PROVE SteadyInv'
  OBVIOUS
<1>1. CASE UNCHANGED vars
  BY <1>1 DEF SteadyInv, vars, rows, calls, history, Known, Overview
<1>2. CASE Others
  <2> USE DEF SteadyInv, Known, Overview, calls, history
  <2>1. ASSUME NEW d \in Deployment, AddDeployment(d) PROVE SteadyInv'
    BY <2>1 DEF AddDeployment
  <2>2. ASSUME NEW d \in Deployment, RemoveDeployment(d) PROVE SteadyInv'
    BY <2>2 DEF RemoveDeployment, TypeOK
  <2>3. ASSUME NEW r \in Resource, AddResource(r) PROVE SteadyInv'
    BY <2>3 DEF AddResource, TypeOK
  <2>4. ASSUME NEW r \in Resource, RemoveResource(r) PROVE SteadyInv'
    BY <2>4 DEF RemoveResource, TypeOK
  <2>5. CASE ChangeMember
    BY <2>5 DEF ChangeMember
  <2> QED  BY <1>2, <2>1, <2>2, <2>3, <2>4, <2>5 DEF Others
<1>3. CASE Borders
  <2>0. \A d \in Deployment : ~counted'[d].done
    <3>1. counted' = [d \in Deployment |-> NotYet]
      BY <1>3 DEF Borders, Asks, Leaves, Clear
    <3> QED  BY <3>1 DEF NotYet
  <2>1. view'.step # "counting"
    <3>1. CASE Leaves  BY <3>1 DEF Leaves, NoView
    <3>2. ASSUME NEW k, NEW x, NEW concerned, Asks(k, x, concerned)
          PROVE  view'.step # "counting"
      BY <3>2 DEF Asks
    <3> QED  BY <1>3, <3>1, <3>2 DEF Borders
  <2>2. \A r \in steady' : Known(r)'
    BY <1>3 DEF Borders, Asks, Leaves, rows, Known
  <2>3. CASE Leaves
    <3>1. steady' = {}  BY <2>3 DEF Leaves
    <3> QED  BY <2>0, <2>1, <3>1 DEF SteadyInv
  <2>4. ASSUME NEW k, NEW x, NEW concerned \in SUBSET Resource,
               Asks(k, x, concerned),
               k = "deployment" => \A r \in concerned : Of[r] = x,
               k \in {"status", "usage", "details"} => concerned = {x}
        PROVE  SteadyInv'
    <3>1. steady' \subseteq concerned /\ view'.kind = k /\ view'.on = x
      BY <2>4 DEF Asks
    <3> QED  BY <2>0, <2>1, <2>2, <2>4, <3>1 DEF SteadyInv
  <2> QED  BY <1>3, <2>3, <2>4 DEF Borders
<1>4. CASE Request
  <2> USE DEF SteadyInv, Known, Overview
  <2>1. CASE Find \/ Access \/ DatabaseFails \/ AnswerOverview \/ AnswerResource
    <3>1. view # NoView
      BY <2>1, Shapes DEF Find, Access, DatabaseFails, AnswerOverview,
                          AnswerResource, Underway
    <3>2. /\ view'.step # "counting" /\ view'.kind = view.kind
          /\ view'.on = view.on
      <4>1. \E w \in Step \ {"counting"} : Moves(w)
        BY <2>1 DEF Find, Access, DatabaseFails, AnswerOverview,
                    AnswerResource, Step
      <4> QED  BY <3>1, <4>1, Moving
    <3>3. UNCHANGED <<rows, steady, counted>>
      BY <2>1 DEF Find, Access, DatabaseFails, AnswerOverview,
                  AnswerResource, history, calls
    <3>4. view'.step \in {"none", "asked", "found", "open"} =>
              view.step \in {"none", "asked", "found", "open"}
      BY <2>1, <3>1, Moving, Shapes
      DEF Find, Access, DatabaseFails, AnswerOverview, AnswerResource, Step
    <3> QED  BY <3>2, <3>3, <3>4 DEF rows
  <2>2. CASE Open
    <3>1. view # NoView /\ Moves("counting")  BY <2>2, Shapes DEF Open
    <3>2. view'.kind = view.kind /\ view'.on = view.on
      BY <3>1, Moving DEF Step
    <3>3. steady' = steady /\ resources' = resources /\ counted' = counted
      BY <2>2 DEF Open, history, rows
    <3>4. listing' = opened'  BY <2>2 DEF Open
    <3>5. Overview => \A r \in steady : Of[r] \in opened'
      <4>1. CASE view.kind = "system"
        <5>1. opened' = {d \in Deployment : There(d)}  BY <2>2, <4>1 DEF Open
        <5>2. \A r \in steady : Of[r] \in Deployment /\ There(Of[r])
          BY Placed DEF RowInv, TypeOK
        <5> QED  BY <5>1, <5>2
      <4>2. CASE view.kind = "deployment"
        <5>1. opened' = {view.on}  BY <2>2, <4>2 DEF Open
        <5> QED  BY <5>1, <4>2
      <4> QED  BY <4>1, <4>2
    <3>6. ~Overview => view.on \in listed'  BY <2>2 DEF Open
    <3>7. \A d \in Deployment : ~counted[d].done
      BY <2>2 DEF Open
    <3>8. view'.step = "counting" /\ view'.kind = view.kind
      BY <3>1, Moving DEF Step
    <3>9. opened' \subseteq Deployment  BY TypeStep DEF TypeOK
    <3> QED  BY <3>2, <3>3, <3>4, <3>5, <3>6, <3>7, <3>8, <3>9
  <2>3. ASSUME NEW d \in Deployment, ListResources(d) PROVE SteadyInv'
    BY <2>3 DEF ListResources, TypeOK, rows, history
  <2>4. ASSUME NEW d \in Deployment, CountDeployment(d) PROVE SteadyInv'
    <3>1. \A e \in Deployment \ {d} : counted'[e] = counted[e]
      BY <2>4 DEF CountDeployment, TypeOK
    <3>2. UNCHANGED <<rows, view, opened, listing, listed, steady>>
      BY <2>4 DEF CountDeployment, history
    <3>3. d \notin listing /\ view.step = "counting"
      BY <2>4 DEF CountDeployment
    <3> QED  BY <3>1, <3>2, <3>3 DEF rows, TypeOK
  <2>5. ASSUME NEW r \in Resource, CallEnds(r) PROVE SteadyInv'
    BY <2>5 DEF CallEnds, rows
  <2> QED  BY <1>4, <2>1, <2>2, <2>3, <2>4, <2>5 DEF Request
<1> QED  BY <1>1, <1>2, <1>3, <1>4, StepsOf
-----------------------------------------------------------------------------
(* A call ends once, and only a service that is not heard rejects it.      *)
LEMMA CallStep == TypeOK /\ CallInv /\ [Next]_vars => CallInv'
<1> SUFFICES ASSUME TypeOK, CallInv, [Next]_vars PROVE CallInv'  OBVIOUS
<1>1. CASE UNCHANGED <<came, said, view.kind>>  BY <1>1 DEF CallInv
<1>2. CASE UNCHANGED vars  BY <1>1, <1>2 DEF vars, calls, history
<1>3. CASE Others
  BY <1>1, <1>3 DEF Others, AddDeployment, RemoveDeployment, AddResource,
     RemoveResource, ChangeMember, calls, history
<1>4. CASE Borders
  BY <1>4 DEF Borders, Asks, Leaves, Clear, CallInv
<1>5. CASE Request
  <2>1. ASSUME NEW r \in Resource, CallEnds(r) PROVE CallInv'
    <3>0. PICK s \in Says(view.kind) : \E c \in Arrives(s) :
              /\ said' = [said EXCEPT ![r] = s]
              /\ came' = [came EXCEPT ![r] = c]
      BY <2>1 DEF CallEnds
    <3>1. PICK c \in Arrives(s) :
              /\ said' = [said EXCEPT ![r] = s]
              /\ came' = [came EXCEPT ![r] = c]
      BY <3>0
    <3>2. s # "none" /\ view' = view  BY <2>1, Words DEF CallEnds
    <3> QED  BY <3>1, <3>2 DEF CallInv, TypeOK
  <2>2. CASE \/ Find \/ Access \/ Open \/ DatabaseFails
             \/ AnswerOverview \/ AnswerResource
    <3>1. view # NoView
      BY <2>2, Shapes DEF Find, Access, Open, DatabaseFails, AnswerOverview,
                          AnswerResource, Underway
    <3>2. \E w \in Step : Moves(w)
      BY <2>2 DEF Find, Access, Open, DatabaseFails, AnswerOverview,
                  AnswerResource, Step
    <3>3. view'.kind = view.kind  BY <3>1, <3>2, Moving
    <3> QED
      BY <1>1, <2>2, <3>3 DEF Find, Access, Open, DatabaseFails, AnswerOverview,
                              AnswerResource, calls, history
  <2>3. CASE \E d \in Deployment : ListResources(d) \/ CountDeployment(d)
    BY <1>1, <2>3 DEF ListResources, CountDeployment, history
  <2> QED  BY <1>5, <2>1, <2>2, <2>3 DEF Request
<1> QED  BY <1>2, <1>3, <1>4, <1>5, StepsOf

(* Deployments are counted when nothing of them can change any more.       *)
LEMMA CountedStep ==
    TypeOK /\ SteadyInv /\ CountedInv /\ [Next]_vars => CountedInv'
<1> SUFFICES ASSUME TypeOK, SteadyInv, CountedInv, [Next]_vars
             PROVE  CountedInv'
  OBVIOUS
<1> USE DEF CountedInv, Overview
<1>1. CASE UNCHANGED <<view, calls>>
  BY <1>1 DEF calls, CountOf, Number, Mine
<1>2. CASE UNCHANGED vars  BY <1>1, <1>2 DEF vars
<1>3. CASE Others
  BY <1>1, <1>3 DEF Others, AddDeployment, RemoveDeployment, AddResource,
     RemoveResource, ChangeMember
<1>4. CASE view'.step \notin {"counting", "answered"}  BY <1>4
<1>5. CASE Borders
  <2>1. CASE Leaves  BY <1>4, <2>1 DEF Leaves, NoView
  <2>2. ASSUME NEW k, NEW x, NEW concerned, Asks(k, x, concerned)
        PROVE  view'.step \notin {"counting", "answered"}
    BY <2>2 DEF Asks
  <2> QED  BY <1>4, <1>5, <2>1, <2>2 DEF Borders
<1>6. CASE Request
  <2>1. CASE Find \/ Access \/ DatabaseFails
    <3>1. view # NoView
      BY <2>1, Shapes DEF Find, Access, DatabaseFails, Underway
    <3>2. \E w \in Step \ {"counting", "answered"} : Moves(w)
      BY <2>1 DEF Find, Access, DatabaseFails, Step
    <3> QED  BY <1>4, <3>1, <3>2, Moving
  <2>2. CASE Open
    <3>1. view # NoView /\ Moves("counting")  BY <2>2, Shapes DEF Open
    <3>2. view'.step = "counting" /\ view'.kind = view.kind
      BY <3>1, Moving DEF Step
    <3>3. Overview => listed' = {}  BY <2>2 DEF Open
    <3>4. \A d \in opened' : ~counted'[d].done
      BY <2>2, TypeStep DEF Open, SteadyInv, TypeOK
    <3> QED  BY <3>2, <3>3, <3>4
  <2>3. CASE AnswerOverview
    <3>1. view # NoView /\ Moves("answered")
      BY <2>3, Shapes DEF AnswerOverview
    <3>2. view'.step = "answered" /\ view'.kind = view.kind
      BY <3>1, Moving DEF Step
    <3> QED
      BY <2>3, <3>2 DEF AnswerOverview, calls, CountOf, Number, Mine
  <2>4. CASE AnswerResource
    <3>1. view # NoView /\ \E w \in Step : Moves(w)
      BY <2>4, Shapes DEF AnswerResource, Step
    <3>2. view'.kind = view.kind  BY <3>1, Moving
    <3> QED  BY <2>4, <3>2 DEF AnswerResource
  <2>5. ASSUME NEW d \in Deployment, ListResources(d) PROVE CountedInv'
    <3>1. /\ view' = view /\ view.step = "counting" /\ d \in listing
          /\ UNCHANGED <<opened, came, counted>>
          /\ listing' = listing \ {d}
          /\ \A r \in listed' : r \in listed \/ Of[r] = d
          /\ listed \subseteq listed'
      BY <2>5 DEF ListResources
    <3>2. \A r \in listed' : Overview => Of[r] \in opened \ listing'
      <4>1. d \in opened  BY <3>1 DEF TypeOK
      <4> QED  BY <3>1, <4>1
    <3>3. ASSUME Overview, NEW e \in opened, counted[e].done
          PROVE  /\ e \notin listing'
                 /\ counted[e] = CountOf(Mine(e))'
                 /\ \A r \in Mine(e)' : came[r] # "none"
      <4>1. e # d /\ e \notin listing  BY <3>1, <3>3
      <4>2. Mine(e)' = Mine(e)  BY <3>1, <4>1 DEF Mine
      <4>3. CountOf(Mine(e))' = CountOf(Mine(e))
        BY <3>1, <4>2 DEF CountOf, Number
      <4> QED  BY <3>1, <3>3, <4>1, <4>2, <4>3
    <3> QED  BY <3>1, <3>2, <3>3
  <2>6. ASSUME NEW d \in Deployment, CountDeployment(d) PROVE CountedInv'
    <3>1. /\ UNCHANGED <<view, opened, listing, listed, came>>
          /\ view.step = "counting" /\ d \in opened \ listing
          /\ \A r \in Mine(d) : came[r] # "none"
      BY <2>6 DEF CountDeployment, Pending, Mine
    <3>2. /\ counted'[d] = CountOf(Mine(d))
          /\ \A e \in Deployment \ {d} : counted'[e] = counted[e]
      BY <2>6 DEF CountDeployment, TypeOK
    <3>3. opened \subseteq Deployment  BY DEF TypeOK
    <3>4. \A e : Mine(e)' = Mine(e)  BY <3>1 DEF Mine
    <3>5. \A e : CountOf(Mine(e))' = CountOf(Mine(e))
      BY <3>1, <3>4 DEF CountOf, Number
    <3> QED  BY <3>1, <3>2, <3>3, <3>4, <3>5
  <2>7. ASSUME NEW r \in Resource, CallEnds(r) PROVE CountedInv'
    <3>1. /\ UNCHANGED <<view, opened, listing, listed, counted>>
          /\ view.step = "counting" /\ came[r] = "none"
          /\ \A q \in Resource \ {r} : came'[q] = came[q]
      BY <2>7 DEF CallEnds, Pending, TypeOK
    <3>2. listed \subseteq Resource  BY DEF TypeOK
    <3>3. CASE ~Overview  BY <3>1, <3>3
    <3>4. ASSUME Overview, NEW d \in opened, counted[d].done
          PROVE  /\ d \notin listing
                 /\ counted[d] = CountOf(Mine(d))'
                 /\ \A q \in Mine(d)' : came'[q] # "none"
      <4>1. \A q \in Mine(d) : came'[q] = came[q] /\ came[q] # "none"
        BY <3>1, <3>2, <3>4 DEF Mine
      <4>2. Mine(d)' = Mine(d)  BY <3>1 DEF Mine
      <4>3. ASSUME NEW cs PROVE Number(Mine(d), cs)' = Number(Mine(d), cs)
        <5>1. {q \in Mine(d) : came'[q] \in cs} = {q \in Mine(d) : came[q] \in cs}
          BY <4>1
        <5> QED  BY <4>2, <5>1 DEF Number
      <4>4. CountOf(Mine(d))' = CountOf(Mine(d))  BY <4>3 DEF CountOf
      <4> QED  BY <3>1, <3>4, <4>1, <4>2, <4>4
    <3>5. \A q \in listed' : Overview => Of[q] \in opened' \ listing'
      BY <3>1
    <3> QED  BY <3>1, <3>4, <3>5
  <2> QED  BY <1>6, <2>1, <2>2, <2>3, <2>4, <2>5, <2>6, <2>7 DEF Request
<1> QED  BY <1>2, <1>3, <1>5, <1>6, StepsOf

(* What the deployments count together is what has come from the services  *)
(* of all the resources listed.                                            *)
LEMMA Together ==
    ASSUME TypeOK, CountedInv, Overview, view.step = "answered", NEW cs,
           NEW n \in [opened -> Nat],
           \A d \in opened : n[d] = Number(Mine(d), cs)
    PROVE  Total(n) = Cardinality({r \in listed : came[r] \in cs})
<1> DEFINE R == {r \in listed : came[r] \in cs}
           of == [r \in R |-> Of[r]]
<1>1. R \in SUBSET Resource  BY DEF TypeOK
<1>2. IsFiniteSet(R)  BY <1>1, Placed, FS_Subset
<1>3. of \in [R -> opened]  BY DEF CountedInv
<1>4. \A d \in opened : n[d] = Cardinality({r \in R : of[r] = d})
  <2> SUFFICES ASSUME NEW d \in opened
               PROVE  n[d] = Cardinality({r \in R : of[r] = d})
    OBVIOUS
  <2>1. {r \in R : of[r] = d} = {r \in Mine(d) : came[r] \in cs}
    BY DEF Mine
  <2> QED  BY <2>1 DEF Number
<1> HIDE DEF R, of
<1>5. Cardinality(UNION {{d} \X (1..n[d]) : d \in opened}) = Cardinality(R)
  BY <1>2, <1>3, <1>4, DisjointUnion
<1> QED  BY <1>5 DEF Total, R

LEMMA Truth == TypeOK /\ CallInv /\ CountedInv => OverviewIsTrue
<1> SUFFICES ASSUME TypeOK, CallInv, CountedInv,
                    view.step = "answered", Overview
             PROVE  /\ Healthy <= Cardinality(Saying({"healthy"}))
                    /\ Unhealthy = Cardinality(Saying({"degraded", "down", "nothing"}))
  BY DEF OverviewIsTrue
<1>1. \A d \in opened :
          /\ counted[d].healthy = Number(Mine(d), {"healthy"})
          /\ counted[d].unhealthy = Number(Mine(d), {"degraded", "down", "rejected"})
          /\ counted[d].healthy \in Nat /\ counted[d].unhealthy \in Nat
  <2> SUFFICES ASSUME NEW d \in opened
      PROVE  /\ counted[d].healthy = Number(Mine(d), {"healthy"})
             /\ counted[d].unhealthy = Number(Mine(d), {"degraded", "down", "rejected"})
             /\ counted[d].healthy \in Nat /\ counted[d].unhealthy \in Nat
    OBVIOUS
  <2>1. counted[d] = CountOf(Mine(d))  BY DEF CountedInv
  <2>2. counted[d].healthy \in Nat /\ counted[d].unhealthy \in Nat
    BY DEF TypeOK
  <2> QED  BY <2>1, <2>2 DEF CountOf
<1>2. \A r \in listed : /\ r \in Resource
                        /\ came[r] # "none" /\ said[r] \in Said
                        /\ came[r] \in Arrives(said[r])
  <2> SUFFICES ASSUME NEW r \in listed
               PROVE  /\ r \in Resource
                      /\ came[r] # "none" /\ said[r] \in Said
                      /\ came[r] \in Arrives(said[r])
    OBVIOUS
  <2>1. r \in Resource  BY DEF TypeOK
  <2>2. came[r] # "none"  BY DEF CountedInv, Mine
  <2> QED  BY <2>1, <2>2 DEF CallInv, TypeOK
<1>3. Healthy = Cardinality({r \in listed : came[r] \in {"healthy"}})
  <2> DEFINE n == [d \in opened |-> counted[d].healthy]
  <2>1. n \in [opened -> Nat] /\ \A d \in opened : n[d] = Number(Mine(d), {"healthy"})
    BY <1>1
  <2> HIDE DEF n
  <2>2. Total(n) = Cardinality({r \in listed : came[r] \in {"healthy"}})
    BY <2>1, Together
  <2> QED  BY <2>2 DEF Healthy, n
<1>4. Unhealthy =
          Cardinality({r \in listed : came[r] \in {"degraded", "down", "rejected"}})
  <2> DEFINE n == [d \in opened |-> counted[d].unhealthy]
             cs == {"degraded", "down", "rejected"}
  <2>1. n \in [opened -> Nat] /\ \A d \in opened : n[d] = Number(Mine(d), cs)
    BY <1>1
  <2> HIDE DEF n, cs
  <2>2. Total(n) = Cardinality({r \in listed : came[r] \in cs})
    BY <2>1, Together
  <2> QED  BY <2>2 DEF Unhealthy, n, cs
<1>5. {r \in listed : came[r] \in {"healthy"}} \subseteq Saying({"healthy"})
  <2>1. \A s \in Said : "healthy" \in Arrives(s) => s = "healthy"
    BY DEF Arrives, Said, Statuses, Usages, Details
  <2> QED  BY <1>2, <2>1 DEF Saying
<1>6. {r \in listed : came[r] \in {"degraded", "down", "rejected"}}
        = Saying({"degraded", "down", "nothing"})
  <2>1. \A s \in Said : \A c \in Arrives(s) :
            c \in {"degraded", "down", "rejected"}
              <=> s \in {"degraded", "down", "nothing"}
    BY DEF Arrives, Said, Statuses, Usages, Details
  <2> QED  BY <1>2, <2>1 DEF Saying
<1>7. IsFiniteSet(Saying({"healthy"}))
  <2>1. Saying({"healthy"}) \in SUBSET Resource  BY DEF Saying, TypeOK
  <2> QED  BY <2>1, Placed, FS_Subset
<1>8. Cardinality({r \in listed : came[r] \in {"healthy"}})
        <= Cardinality(Saying({"healthy"}))
  BY <1>5, <1>7, FS_Subset
<1> QED  BY <1>3, <1>4, <1>6, <1>8

(* A request is answered when nothing is left to list, and fails only      *)
(* where DatabaseFails and AnswerResource make it.                         *)
LEMMA EndStep ==
    IInv /\ [Next]_vars => SteadyAreAsked' /\ FailsForCause'
<1> SUFFICES ASSUME IInv, [Next]_vars
             PROVE  SteadyAreAsked' /\ FailsForCause'
  OBVIOUS
<1> USE DEF SteadyAreAsked, FailsForCause, Overview, Ungivable
<1>0. TypeOK /\ SteadyInv /\ CallInv /\ SteadyAreAsked /\ FailsForCause
  BY DEF IInv
<1>1. CASE /\ steady' \subseteq steady
           /\ UNCHANGED <<view, listed, came, said, lost>>
  BY <1>0, <1>1
<1>2. CASE UNCHANGED vars  BY <1>1, <1>2 DEF vars, calls, history
<1>3. CASE Others
  BY <1>1, <1>3 DEF Others, AddDeployment, RemoveDeployment, AddResource,
     RemoveResource, ChangeMember, calls, history
<1>4. CASE view'.step \notin {"answered", "failed"}  BY <1>4
<1>5. CASE Borders
  <2>1. CASE Leaves  BY <1>4, <2>1 DEF Leaves, NoView
  <2>2. ASSUME NEW k, NEW x, NEW concerned, Asks(k, x, concerned)
        PROVE  view'.step \notin {"answered", "failed"}
    BY <2>2 DEF Asks
  <2> QED  BY <1>4, <1>5, <2>1, <2>2 DEF Borders
<1>6. CASE Request
  <2>1. CASE Find \/ Access \/ Open
    <3>1. view # NoView  BY <1>0, <2>1, Shapes DEF Find, Access, Open
    <3>2. \E w \in Step \ {"answered", "failed"} : Moves(w)
      BY <2>1 DEF Find, Access, Open, Step
    <3> QED  BY <1>0, <1>4, <3>1, <3>2, Moving
  <2>2. CASE DatabaseFails
    <3>1. view # NoView /\ Moves("failed")
      BY <1>0, <2>2, Shapes DEF DatabaseFails, Underway
    <3>2. view'.step = "failed"  BY <1>0, <3>1, Moving DEF Step
    <3> QED  BY <2>2, <3>2 DEF DatabaseFails
  <2>3. CASE AnswerOverview
    <3>1. view # NoView /\ Moves("answered")
      BY <1>0, <2>3, Shapes DEF AnswerOverview
    <3>2. view'.step = "answered"  BY <1>0, <3>1, Moving DEF Step
    <3>3. listing = {}  BY <1>0, <2>3 DEF AnswerOverview, SteadyInv, TypeOK
    <3>4. steady \subseteq listed
      BY <1>0, <2>3, <3>3 DEF AnswerOverview, SteadyInv
    <3> QED  BY <2>3, <3>2, <3>4 DEF AnswerOverview, calls, history
  <2>4. CASE AnswerResource
    <3>1. /\ view # NoView /\ view.step = "counting" /\ ~Overview
          /\ view.on \in Resource /\ view.kind \in Kind
      BY <1>0, <2>4, Shapes DEF AnswerResource
    <3>2. view.kind \in {"status", "usage", "details"}
      BY <3>1 DEF Kind, Overview
    <3>3. steady \subseteq listed  BY <1>0, <3>1, <3>2 DEF SteadyInv
    <3>4. UNCHANGED <<steady, listed, came, said, lost>>
      BY <2>4 DEF AnswerResource, calls, history
    <3>5. PICK w \in {"answered", "failed"} :
              /\ Moves(w)
              /\ w = "failed" =>
                    \/ came[view.on] \in {"undefined", "unfit"}
                    \/ view.kind # "status" /\ came[view.on] = "rejected"
      BY <2>4 DEF AnswerResource
    <3>6. /\ view'.step = w /\ view'.kind = view.kind /\ view'.on = view.on
      BY <1>0, <3>1, <3>5, Moving DEF Step
    <3>7. w = "failed" => said[view.on] \in Ungivable(view.kind)
      <4>1. /\ said[view.on] # "none" => came[view.on] \in Arrives(said[view.on])
            /\ said[view.on] = "none" => came[view.on] = "none"
            /\ said[view.on] \in Says(view.kind) \cup {"none"}
        BY <1>0, <3>1 DEF CallInv
      <4> QED  BY <3>2, <3>5, <4>1, Failing
    <3> QED  BY <1>0, <3>1, <3>2, <3>3, <3>4, <3>5, <3>6, <3>7
  <2>5. ASSUME \/ \E d \in Deployment : ListResources(d) \/ CountDeployment(d)
               \/ \E r \in Resource : CallEnds(r)
        PROVE  view'.step \notin {"answered", "failed"}
    BY <2>5 DEF ListResources, CountDeployment, CallEnds, Pending
  <2> QED  BY <1>4, <1>6, <2>1, <2>2, <2>3, <2>4, <2>5 DEF Request
<1> QED  BY <1>2, <1>3, <1>5, <1>6, StepsOf

-----------------------------------------------------------------------------
(* The inductive invariant: types, rows, steady resources, calls and        *)
(* counts.                                                                  *)
THEOREM Inductive == Spec => []IInv
<1>1. IInv /\ [Next]_vars => IInv'
  <2>1. IInv /\ [Next]_vars =>
            /\ TypeOK' /\ RowInv' /\ SteadyInv' /\ CallInv' /\ CountedInv'
            /\ SteadyAreAsked' /\ FailsForCause'
    BY TypeStep, RowStep, SteadyStep, CallStep, CountedStep, EndStep DEF IInv
  <2>2. TypeOK' /\ CallInv' /\ CountedInv' => OverviewIsTrue'
    BY Truth, PTL
  <2> QED  BY <2>1, <2>2 DEF IInv
<1> QED  BY <1>1, InitInv, PTL DEF Spec

(* Whatever is created and deleted beside a request, its state is of its   *)
(* types.                                                                  *)
THEOREM TypesHold == Spec => []TypeOK
<1>1. IInv => TypeOK  BY DEF IInv
<1> QED  BY <1>1, Inductive, PTL

(* getStatus asks the services of all the resources that were there from   *)
(* the request to its answer, of any number of deployments.                *)
THEOREM NoneForgotten == Spec => []SteadyAreAsked
<1>1. IInv => SteadyAreAsked  BY DEF IInv
<1> QED  BY <1>1, Inductive, PTL

(* What getStatus adds up over any number of deployments is what the       *)
(* services of the resources have said: none more is healthy than has said *)
(* so, and exactly those are unhealthy that have said so or not answered.  *)
THEOREM OverviewsTellTheTruth == Spec => []OverviewIsTrue
<1>1. IInv => OverviewIsTrue  BY DEF IInv
<1> QED  BY <1>1, Inductive, PTL

(* getStatus catches what the services throw: whatever they say or leave   *)
(* unsaid, they never fail an overview; and a field of a resource fails    *)
(* only for the answers that its type cannot take, the usage and the       *)
(* details besides for none.                                               *)
THEOREM ServicesDoNotFail == Spec => []FailsForCause
<1>1. IInv => FailsForCause  BY DEF IInv
<1> QED  BY <1>1, Inductive, PTL
=============================================================================
