------------------------ MODULE ServiceRegistryProofs ------------------------
(* The registry of services, for every set of services, addresses and      *)
(* answers, every number of requests and of overlapping runs of the job.   *)
EXTENDS ServiceRegistry, TLAPS

(* What the fields of a request are when it does this or that.             *)
LEMMA Fields ==
    ASSUME TypeOK, NEW q \in Request
    PROVE  /\ req[q].op \in {"idle", "create", "update", "delete", "connect"}
           /\ req[q].op = "idle" <=> req[q] = Idle
           /\ req[q] # Idle => req[q].on \in Service /\ req[q].address \in Address
           /\ req[q].op = "create" /\ req[q].step = "store" => req[q].answer \in Answer
           /\ req[q].op \in {"update", "delete", "connect"} => req[q].read \in Row
<1>1. req[q] \in Doing  BY DEF TypeOK
<1> QED  BY <1>1 DEF Doing, Idle

LEMMA IdleOp == Idle.op = "idle"
BY DEF Idle

(* A valid protocol has a namespace; rows None and Gone are not stored.    *)
LEMMA Shapes ==
    /\ \A w \in Answer : Valid(w) => NamespaceOf(w) \in Namespace
    /\ None # Gone /\ None.state # "stored" /\ Gone.state # "stored"
    /\ \A r \in Row : r # None /\ r # Gone /\ r.state = "stored"
<1>1. \A w \in Answer : Valid(w) => NamespaceOf(w) \in Namespace
  BY DEF Answer, Failing, Empty, Protocol, Valid, NamespaceOf
<1> QED  BY <1>1 DEF None, Gone, Row

-----------------------------------------------------------------------------
LEMMA InitInv == Init => IInv
<1> SUFFICES ASSUME Init PROVE IInv  OBVIOUS
<1>1. TypeOK
  BY AnswerTypes DEF Init, TypeOK, Doing
<1>2. OriginInv
  BY Shapes DEF Init, OriginInv, Stored
<1>3. RequestInv
  BY IdleOp DEF Init, RequestInv
<1>4. JobInv /\ BlockedForCause
  BY Shapes DEF Init, JobInv, BlockedForCause, Stored
<1> QED  BY <1>1, <1>2, <1>3, <1>4 DEF IInv

-----------------------------------------------------------------------------
(* Types are preserved.                                                    *)
LEMMA TypeStep ==
    ASSUME TypeOK, RequestInv, [Next]_vars
    PROVE  TypeOK'
<1> USE DEF Steps, Ends
<1>1. CASE UNCHANGED vars
  BY <1>1 DEF TypeOK, vars, job, history
<1>2. ASSUME NEW q \in Request, NEW s \in Service, NEW a \in Address,
             BeginCreate(q, s, a)
      PROVE  TypeOK'
  <2>1. [op |-> "create", step |-> "fetch", on |-> s, address |-> a] \in Doing
    BY DEF Doing
  <2> QED  BY <2>1, <1>2 DEF TypeOK, BeginCreate, job, history
<1>3. ASSUME NEW q \in Request, NEW s \in Service, NEW a \in Address,
             NEW o \in {"update", "delete", "connect"}, Reads(q, s, o, a)
      PROVE  TypeOK'
  <2>1. row[s] \in Row  BY <1>3, Shapes DEF TypeOK, Reads, Stored
  <2>2. [op |-> o, step |-> "read", on |-> s, read |-> row[s], address |-> a] \in Doing
    BY <2>1 DEF Doing
  <2> QED  BY <2>2, <1>3 DEF TypeOK, Reads, job, history
<1>4. ASSUME NEW q \in Request, FetchForCreate(q)
      PROVE  TypeOK'
  <2>1. /\ req[q].on \in Service /\ req[q].address \in Address
        /\ web[req[q].address] \in Answer
    BY <1>4, Fields, IdleOp, AnswerTypes DEF FetchForCreate, TypeOK
  <2>2. [op |-> "create", step |-> "store", on |-> req[q].on,
         address |-> req[q].address, answer |-> web[req[q].address]] \in Doing
    BY <2>1 DEF Doing
  <2>3. Idle \in Doing  BY DEF Doing
  <2>4. req' \in [Request -> Doing]  BY <2>2, <2>3, <1>4 DEF TypeOK, FetchForCreate
  <2> QED  BY <2>4, <1>4 DEF TypeOK, FetchForCreate, job, history
<1>5. ASSUME NEW q \in Request, StoreCreated(q)
      PROVE  TypeOK'
  <2>1. /\ req[q].on \in Service /\ req[q].address \in Address
        /\ req[q].answer \in Answer
    BY <1>5, Fields, IdleOp DEF StoreCreated
  <2>2. Valid(req[q].answer)
    BY <1>5 DEF StoreCreated, RequestInv
  <2>3. NamespaceOf(req[q].answer) \in Namespace  BY <2>1, <2>2, Shapes
  <2>4. [state |-> "stored", address |-> req[q].address,
         namespace |-> NamespaceOf(req[q].answer), blocked |-> FALSE] \in Row
    BY <2>1, <2>3 DEF Row
  <2>5. [address |-> req[q].address, answer |-> req[q].answer]
            \in [address : Address, answer : Answer]
    BY <2>1
  <2>6. Idle \in Doing  BY DEF Doing
  <2>7. row' \in [Service -> Row \cup {None, Gone}]
    BY <2>1, <2>4, <1>5 DEF TypeOK, StoreCreated
  <2>8. origin' \in [Service -> {None} \cup [address : Address, answer : Answer]]
    BY <2>1, <2>5, <1>5 DEF TypeOK, StoreCreated
  <2> QED  BY <2>1, <2>6, <2>7, <2>8, <1>5 DEF TypeOK, StoreCreated, job
<1>6. ASSUME NEW q \in Request, FlushUpdate(q)
      PROVE  TypeOK'
  <2> DEFINE s == req[q].on
  <2>1. s \in Service /\ req[q].address \in Address
    BY <1>6, Fields, IdleOp DEF FlushUpdate
  <2>2. Idle \in Doing  BY DEF Doing
  <2>3. CASE Stored(s)
    <3>1. row[s] \in Row  BY <2>1, <2>3, Shapes DEF TypeOK, Stored
    <3>2. Written(q) \in Row  BY <2>1, <3>1 DEF Written, Row
    <3>3. Written(q).address \in Address  BY <3>2 DEF Row
    <3> QED  BY <2>1, <2>2, <2>3, <3>2, <3>3, <1>6 DEF TypeOK, FlushUpdate, job
  <2>4. CASE ~Stored(s)
    BY <2>2, <2>4, <1>6 DEF TypeOK, FlushUpdate, job
  <2> QED  BY <2>3, <2>4
<1>7. ASSUME NEW q \in Request, FlushDelete(q)
      PROVE  TypeOK'
  <2>1. Idle \in Doing  BY DEF Doing
  <2> QED  BY <2>1, <1>7 DEF TypeOK, FlushDelete, job, history
<1>8. ASSUME NEW q \in Request, Connect(q)
      PROVE  TypeOK'
  <2>1. req[q] \in [op : {"connect"}, on : Service, read : Row, address : Address,
                    step : {"read", "connected", "unreachable", "throws"}]
    BY <1>8 DEF TypeOK, Connect, Doing, Idle
  <2>2. \A w \in {"connected", "unreachable", "throws"} :
            [req[q] EXCEPT !.step = w] \in Doing
    BY <2>1 DEF Doing
  <2>3. req' \in [Request -> Doing]
    BY <2>2, <1>8 DEF TypeOK, Connect
  <2> QED  BY <2>3, <1>8 DEF TypeOK, Connect, job, history
<1>9. ASSUME NEW q \in Request, ConnectEnds(q) \/ Breaks(q)
      PROVE  TypeOK'
  BY <1>9 DEF TypeOK, ConnectEnds, Breaks, Doing, job, history
<1>10. CASE JobLoads
  <2> DEFINE unblocked == {s \in Service : Stored(s) /\ ~row[s].blocked}
  <2>1. PICK addresses \in [unblocked -> Address] :
            /\ loaded' = [s \in Service |->
                  IF s \in unblocked THEN {addresses[s]} ELSE loaded[s]]
            /\ fetches' = fetches \cup {<<s, addresses[s]>> : s \in unblocked}
    BY <1>10 DEF JobLoads
  <2>2. loaded' \in [Service -> SUBSET Address]  BY <2>1 DEF TypeOK
  <2>3. fetches' \subseteq Service \X Address  BY <2>1 DEF TypeOK
  <2> QED  BY <2>2, <2>3, <1>10 DEF TypeOK, JobLoads, history
<1>11. ASSUME NEW s \in Service, NEW a \in Address, JobFetches(s, a)
       PROVE  TypeOK'
  BY <1>11 DEF TypeOK, JobFetches, history
<1>12. ASSUME NEW s \in Service, JobFlushes(s) \/ JobFlushFails(s)
       PROVE  TypeOK'
  <2>1. \A t \in Service : Stored(t) => [row[t] EXCEPT !.blocked = TRUE] \in Row
    <3> SUFFICES ASSUME NEW t \in Service, Stored(t)
                 PROVE  [row[t] EXCEPT !.blocked = TRUE] \in Row
      OBVIOUS
    <3>1. row[t] \in Row  BY Shapes DEF TypeOK, Stored
    <3> QED  BY <3>1 DEF Row
  <2>2. row' \in [Service -> Row \cup {None, Gone}]
    BY <2>1, <1>12 DEF TypeOK, JobFlushes, JobFlushFails
  <2>3. dirty' \subseteq Service /\ due' \subseteq Service
    BY <1>12 DEF TypeOK, JobFlushes, JobFlushFails
  <2> QED  BY <2>2, <2>3, <1>12 DEF TypeOK, JobFlushes, JobFlushFails, history
<1>13. ASSUME NEW a \in Address, NEW w \in Answers, Publish(a, w)
       PROVE  TypeOK'
  BY <1>13 DEF TypeOK, Publish, job
<1>14. CASE Crash
  BY <1>14 DEF TypeOK, Crash, Doing, history
<1>15. ASSUME NEW q \in Request, NEW s \in Service, BeginDelete(q, s) \/ BeginConnect(q, s)
       PROVE  TypeOK'
  <2>1. row[s].address \in Address
    BY <1>15, Shapes DEF BeginDelete, BeginConnect, Reads, TypeOK, Stored, Row
  <2> QED  BY <2>1, <1>3, <1>15 DEF BeginDelete, BeginConnect
<1> QED
  BY <1>1, <1>2, <1>3, <1>4, <1>5, <1>6, <1>7, <1>8, <1>9, <1>10, <1>11,
     <1>12, <1>13, <1>14, <1>15
  DEF Next, BeginUpdate

-----------------------------------------------------------------------------
(* The steps by what they do to the table.                                 *)
LEMMA StepsOfTable ==
    ASSUME TypeOK, [Next]_vars
    PROVE  \/ (\E q \in Request : StoreCreated(q) \/ FlushUpdate(q) \/ FlushDelete(q))
           \/ \E s \in Service : JobFlushes(s)
           \/ UNCHANGED <<row, origin, had>>
<1> DEFINE Aside == UNCHANGED <<row, origin, had>>
<1>1. CASE UNCHANGED vars
  BY <1>1 DEF vars, history
<1>2. ASSUME NEW q \in Request, NEW s \in Service, NEW a \in Address,
             \/ BeginCreate(q, s, a) \/ BeginUpdate(q, s, a)
             \/ BeginDelete(q, s) \/ BeginConnect(q, s)
      PROVE  Aside
  BY <1>2 DEF BeginCreate, BeginUpdate, BeginDelete, BeginConnect, Reads, history
<1>3. ASSUME NEW q \in Request,
             FetchForCreate(q) \/ Connect(q) \/ ConnectEnds(q) \/ Breaks(q)
      PROVE  Aside
  BY <1>3 DEF FetchForCreate, Connect, ConnectEnds, Breaks, history
<1>4. CASE JobLoads \/ Crash
  BY <1>4 DEF JobLoads, Crash, history
<1>5. ASSUME NEW s \in Service, NEW a \in Address,
             JobFetches(s, a) \/ JobFlushFails(s)
      PROVE  Aside
  BY <1>5 DEF JobFetches, JobFlushFails, history
<1>6. ASSUME NEW a \in Address, NEW w \in Answers, Publish(a, w)
      PROVE  Aside
  BY <1>6 DEF Publish
<1>7. \/ UNCHANGED vars \/ JobLoads \/ Crash
      \/ \E q \in Request, s \in Service :
             \/ \E a \in Address : BeginCreate(q, s, a) \/ BeginUpdate(q, s, a)
             \/ BeginDelete(q, s) \/ BeginConnect(q, s)
      \/ \E q \in Request :
             FetchForCreate(q) \/ Connect(q) \/ ConnectEnds(q) \/ Breaks(q)
      \/ \E q \in Request : StoreCreated(q) \/ FlushUpdate(q) \/ FlushDelete(q)
      \/ \E s \in Service : \/ JobFlushes(s) \/ JobFlushFails(s)
                            \/ \E a \in Address : JobFetches(s, a)
      \/ \E a \in Address, w \in Answers : Publish(a, w)
  BY DEF Next
<1>8. ASSUME NEW q \in Request, NEW s \in Service,
             BeginDelete(q, s) \/ BeginConnect(q, s)
      PROVE  Aside
  BY <1>8 DEF BeginDelete, BeginConnect, Reads, history
<1>9. ASSUME NEW s \in Service, JobFlushFails(s)
       PROVE  Aside
  BY <1>9 DEF JobFlushFails, history
<1> QED  BY <1>1, <1>2, <1>3, <1>4, <1>5, <1>6, <1>7, <1>8, <1>9

(* What no step undoes: a registration and its protocol, the addresses a   *)
(* service has had, and that an address has answered an unsound protocol.  *)
LEMMA HistoryGrows ==
    ASSUME TypeOK, OriginInv, RequestInv, [Next]_vars
    PROVE  /\ \A s \in Service :
                  /\ had[s] \subseteq had'[s]
                  /\ origin[s] # None => origin'[s] = origin[s]
                  /\ row[s] # None => row'[s] # None
           /\ faulty \subseteq faulty'
<1>1. faulty \subseteq faulty'
  <2>1. CASE UNCHANGED vars  BY <2>1 DEF vars, history
  <2> QED
    BY <2>1
    DEF Next, BeginCreate, BeginUpdate, BeginDelete, BeginConnect, Reads,
        FetchForCreate, StoreCreated, FlushUpdate, FlushDelete, Connect,
        ConnectEnds, Breaks, JobLoads, JobFetches, JobFlushes, JobFlushFails,
        Publish, Crash, history
<1>2. ASSUME NEW q \in Request, StoreCreated(q), NEW s \in Service
      PROVE  /\ had[s] \subseteq had'[s]
             /\ origin[s] # None => origin'[s] = origin[s]
             /\ row[s] # None => row'[s] # None
  <2>1. req[q].on \in Service /\ row[req[q].on] = None /\ origin[req[q].on] = None
    BY <1>2, Fields, IdleOp DEF StoreCreated, RequestInv, OriginInv
  <2> QED  BY <2>1, <1>2 DEF StoreCreated, TypeOK
<1>3. ASSUME NEW q \in Request, FlushUpdate(q) \/ FlushDelete(q), NEW s \in Service
      PROVE  /\ had[s] \subseteq had'[s]
             /\ origin[s] # None => origin'[s] = origin[s]
             /\ row[s] # None => row'[s] # None
  <2>1. row[s] # None => row'[s] # None
    BY <1>3 DEF FlushUpdate, FlushDelete, TypeOK, Written, None, Gone, Row, Stored
  <2> QED  BY <2>1, <1>3 DEF FlushUpdate, FlushDelete, TypeOK, history
<1>4. ASSUME NEW t \in Service, JobFlushes(t), NEW s \in Service
      PROVE  /\ had[s] \subseteq had'[s]
             /\ origin[s] # None => origin'[s] = origin[s]
             /\ row[s] # None => row'[s] # None
  BY <1>4 DEF JobFlushes, TypeOK, None, Gone, Row, Stored, history
<1> QED  BY <1>1, <1>2, <1>3, <1>4, StepsOfTable
-----------------------------------------------------------------------------
(* A service keeps the namespace and the address set of its registration.  *)
LEMMA OriginStep ==
    ASSUME TypeOK, OriginInv, RequestInv, TypeOK', [Next]_vars
    PROVE  OriginInv'
<1> DEFINE Rows == \A s \in Service :
           /\ row[s] = None <=> origin[s] = None
           /\ row[s] = None => had[s] = {}
           /\ origin[s] # None => Valid(origin[s].answer)
           /\ Stored(s) => /\ row[s].namespace = NamespaceOf(origin[s].answer)
                           /\ row[s].address \in had[s]
<1>1. ASSUME NEW q \in Request, StoreCreated(q)
      PROVE  Rows'
  <2> DEFINE t == req[q].on
             n == [state |-> "stored", address |-> req[q].address,
                   namespace |-> NamespaceOf(req[q].answer), blocked |-> FALSE]
             o == [address |-> req[q].address, answer |-> req[q].answer]
  <2>1. /\ t \in Service /\ row[t] = None /\ Valid(req[q].answer)
    BY <1>1, Fields, IdleOp DEF StoreCreated, RequestInv
  <2>2. /\ row' = [row EXCEPT ![t] = n] /\ origin' = [origin EXCEPT ![t] = o]
        /\ had' = [had EXCEPT ![t] = @ \cup {req[q].address}]
    BY <1>1 DEF StoreCreated
  <2>3. n # None /\ o # None
    BY DEF None
  <2>4. /\ row'[t] = n /\ origin'[t] = o /\ req[q].address \in had'[t]
    BY <2>1, <2>2 DEF TypeOK
  <2>5. \A s \in Service : s # t =>
            row'[s] = row[s] /\ origin'[s] = origin[s] /\ had'[s] = had[s]
    BY <2>1, <2>2 DEF TypeOK
  <2>6. ASSUME NEW s \in Service, s = t
        PROVE  /\ row'[s] = None <=> origin'[s] = None
               /\ row'[s] # None
               /\ origin'[s] # None => Valid(origin'[s].answer)
               /\ row'[s].namespace = NamespaceOf(origin'[s].answer)
               /\ row'[s].address \in had'[s]
    BY <2>1, <2>3, <2>4, <2>6
  <2> QED  BY <2>5, <2>6 DEF OriginInv, Stored
<1>2. ASSUME NEW q \in Request, FlushUpdate(q)
      PROVE  Rows'
  <2> DEFINE t == req[q].on
  <2>1. t \in Service /\ req[q].address \in Address
    BY <1>2, Fields, IdleOp DEF FlushUpdate
  <2>2. CASE Stored(t)
    <3>1. row[t] \in Row  BY <2>1, <2>2, Shapes DEF TypeOK, Stored
    <3>2. /\ Written(q) \in Row
          /\ Written(q).namespace = row[t].namespace
      BY <2>1, <3>1 DEF Written, Row
    <3>3. /\ row' = [row EXCEPT ![t] = Written(q)] /\ origin' = origin
          /\ had' = [had EXCEPT ![t] = @ \cup {Written(q).address}]
      BY <1>2, <2>2 DEF FlushUpdate
    <3>4. /\ row'[t] = Written(q) /\ Written(q).address \in had'[t]
      BY <2>1, <3>3 DEF TypeOK
    <3>5. \A s \in Service : s # t => row'[s] = row[s] /\ had'[s] = had[s]
      BY <2>1, <3>3 DEF TypeOK
    <3>6. row[t] # None /\ Written(q) # None
      BY <3>1, <3>2, Shapes
    <3> QED  BY <2>1, <2>2, <3>2, <3>3, <3>4, <3>5, <3>6 DEF OriginInv, Stored
  <2>3. CASE ~Stored(t)
    BY <2>3, <1>2 DEF FlushUpdate, OriginInv, Stored
  <2> QED  BY <2>2, <2>3
<1>3. ASSUME NEW q \in Request, FlushDelete(q)
      PROVE  Rows'
  <2>1. req[q].on \in Service /\ origin[req[q].on] # None
    BY <1>3, Fields, IdleOp DEF FlushDelete, RequestInv
  <2> QED  BY <2>1, <1>3, Shapes DEF FlushDelete, OriginInv, Stored, history, TypeOK
<1>4. ASSUME NEW t \in Service, JobFlushes(t)
      PROVE  Rows'
  <2>1. \A s \in Service :
            \/ row'[s] = row[s]
            \/ Stored(s) /\ row'[s] = [row[s] EXCEPT !.blocked = TRUE]
    BY <1>4 DEF JobFlushes, TypeOK
  <2>2. \A s \in Service : Stored(s) =>
            /\ row[s] \in Row
            /\ [row[s] EXCEPT !.blocked = TRUE] \in Row
            /\ [row[s] EXCEPT !.blocked = TRUE].namespace = row[s].namespace
            /\ [row[s] EXCEPT !.blocked = TRUE].address = row[s].address
    <3> SUFFICES ASSUME NEW s \in Service, Stored(s)
                 PROVE  /\ row[s] \in Row
                        /\ [row[s] EXCEPT !.blocked = TRUE] \in Row
                        /\ [row[s] EXCEPT !.blocked = TRUE].namespace = row[s].namespace
                        /\ [row[s] EXCEPT !.blocked = TRUE].address = row[s].address
      OBVIOUS
    <3>1. row[s] \in Row  BY Shapes DEF TypeOK, Stored
    <3> QED  BY <3>1 DEF Row
  <2>3. origin' = origin /\ had' = had  BY <1>4 DEF JobFlushes, history
  <2> QED  BY <2>1, <2>2, <2>3, Shapes DEF OriginInv, Stored
<1>5. ASSUME UNCHANGED <<row, origin, had>>
      PROVE  Rows'
  <2>1. row' = row /\ origin' = origin /\ had' = had  BY <1>5
  <2>2. Rows  BY DEF OriginInv
  <2> QED  BY <2>1, <2>2 DEF Stored
<1> HIDE DEF Rows
<1>6. Rows'  BY <1>1, <1>2, <1>3, <1>4, <1>5, StepsOfTable
<1>7. \A a \in Address : Unsound(web'[a]) => a \in faulty'
  <2>1. CASE UNCHANGED vars  BY <2>1 DEF vars, history, OriginInv
  <2>2. ASSUME NEW b \in Address, NEW w \in Answers, Publish(b, w)
        PROVE  \A a \in Address : Unsound(web'[a]) => a \in faulty'
    BY <2>2 DEF Publish, OriginInv, TypeOK
  <2>3. CASE UNCHANGED <<web, faulty>>  BY <2>3 DEF OriginInv
  <2> QED
    BY <2>1, <2>2, <2>3
    DEF Next, BeginCreate, BeginUpdate, BeginDelete, BeginConnect, Reads,
        FetchForCreate, StoreCreated, FlushUpdate, FlushDelete, Connect,
        ConnectEnds, Breaks, JobLoads, JobFetches, JobFlushes, JobFlushFails,
        Crash, history
<1> QED  BY <1>6, <1>7 DEF OriginInv, Rows

-----------------------------------------------------------------------------
(* What RequestInv says of one request, and of two registrations.          *)
Sane(q) ==
    /\ req[q].op = "create" =>
           /\ row[req[q].on] = None
           /\ req[q].step = "store" => Valid(req[q].answer)
    /\ req[q].op \in {"update", "delete", "connect"} =>
           /\ origin[req[q].on] # None
           /\ req[q].read.namespace = NamespaceOf(origin[req[q].on].answer)

Alone(p, q) ==
    req[p].op = "create" /\ req[q].op = "create" /\ req[p].on = req[q].on => p = q

(* A request that is left alone stays sane, unless its own identifier is   *)
(* stored.                                                                 *)
LEMMA StaysSane ==
    ASSUME TypeOK, OriginInv, RequestInv, TypeOK', [Next]_vars,
           NEW q \in Request, req'[q] = req[q],
           req[q].op = "create" => row'[req[q].on] = None
    PROVE  Sane(q)'
<1>1. req[q] # Idle => req[q].on \in Service  BY Fields
<1>2. req[q].op \in {"update", "delete", "connect"} =>
          origin'[req[q].on] = origin[req[q].on]
  BY <1>1, IdleOp, HistoryGrows DEF RequestInv
<1> QED  BY <1>2 DEF Sane, RequestInv

(* A step that stores nothing leaves unstored identifiers as they are.     *)
LEMMA StaysUnstored ==
    ASSUME TypeOK, OriginInv, RequestInv, [Next]_vars, NEW s \in Service,
           row[s] = None,
           \A q \in Request : StoreCreated(q) => req[q].on # s
    PROVE  row'[s] = None
<1>1. ASSUME NEW q \in Request, StoreCreated(q) PROVE row'[s] = row[s]
  BY <1>1 DEF StoreCreated, TypeOK
<1>2. ASSUME NEW q \in Request, FlushUpdate(q) PROVE row'[s] = row[s]
  BY <1>2, Shapes DEF FlushUpdate, TypeOK, Stored
<1>3. ASSUME NEW q \in Request, FlushDelete(q) PROVE row'[s] = row[s]
  <2>1. req[q].on \in Service /\ origin[req[q].on] # None
    BY <1>3, Fields, IdleOp DEF FlushDelete, RequestInv
  <2> QED  BY <2>1, <1>3 DEF FlushDelete, OriginInv, TypeOK
<1>4. ASSUME NEW t \in Service, JobFlushes(t) PROVE row'[s] = row[s]
  BY <1>4, Shapes DEF JobFlushes, TypeOK, Stored
<1> QED  BY <1>1, <1>2, <1>3, <1>4, StepsOfTable

(* A registration that is stored is over.                                  *)
LEMMA StoringEnds ==
    ASSUME TypeOK, NEW q \in Request, StoreCreated(q)
    PROVE  req[q].op = "create" /\ req'[q] # req[q]
BY IdleOp DEF StoreCreated, Ends, Steps, TypeOK

(* When one request at most has moved on, and a registration it may have   *)
(* begun is alone with its identifier, all stay sane and alone.            *)
LEMMA OneMoves ==
    ASSUME TypeOK, OriginInv, RequestInv, TypeOK', [Next]_vars,
           NEW q \in Request,
           \A p \in Request : p # q => req'[p] = req[p],
           Sane(q)',
           req'[q].op = "create" =>
               \/ req[q].op = "create" /\ req'[q].on = req[q].on
               \/ \A p \in Request : req[p].op = "create" => req[p].on # req'[q].on
    PROVE  RequestInv'
<1>1. ASSUME NEW p \in Request, p # q PROVE Sane(p)'
  <2>1. req[p].op = "create" => row'[req[p].on] = None
    <3> SUFFICES ASSUME req[p].op = "create" PROVE row'[req[p].on] = None
      OBVIOUS
    <3>1. req[p].on \in Service /\ row[req[p].on] = None
      BY Fields, IdleOp DEF RequestInv
    <3>2. \A o \in Request : StoreCreated(o) => req[o].on # req[p].on
      <4> SUFFICES ASSUME NEW o \in Request, StoreCreated(o)
                   PROVE  req[o].on # req[p].on
        OBVIOUS
      <4>1. o = q /\ req[o].op = "create"  BY StoringEnds
      <4> QED  BY <4>1, <1>1 DEF RequestInv
    <3> QED  BY <3>1, <3>2, StaysUnstored
  <2> QED  BY <2>1, <1>1, StaysSane
<1>2. \A p, r \in Request : Alone(p, r)'
  <2>1. \A p, r \in Request : Alone(p, r)  BY DEF RequestInv, Alone
  <2> QED  BY <2>1 DEF Alone
<1>3. \A p \in Request : Sane(p)'  BY <1>1
<1> QED  BY <1>2, <1>3 DEF RequestInv, Sane, Alone

(* Registrations stay alone and unstored, and what the requests have read  *)
(* stays read from registered services.                                    *)
LEMMA RequestStep ==
    ASSUME TypeOK, OriginInv, RequestInv, TypeOK', [Next]_vars
    PROVE  RequestInv'
<1> USE DEF Steps, Ends
<1>1. ASSUME NEW q \in Request, req' = [req EXCEPT ![q] = Idle]
      PROVE  RequestInv'
  <2>1. req'[q] = Idle /\ \A p \in Request : p # q => req'[p] = req[p]
    BY <1>1 DEF TypeOK
  <2>2. Sane(q)' /\ req'[q].op # "create"  BY <2>1, IdleOp DEF Sane
  <2> QED  BY <2>1, <2>2, OneMoves
<1>2. ASSUME NEW q \in Request, NEW s \in Service, NEW a \in Address,
             BeginCreate(q, s, a)
      PROVE  RequestInv'
  <2> DEFINE r == [op |-> "create", step |-> "fetch", on |-> s, address |-> a]
  <2>1. req'[q] = r /\ \A p \in Request : p # q => req'[p] = req[p]
    BY <1>2 DEF BeginCreate, TypeOK
  <2>2. row'[s] = None  BY <1>2 DEF BeginCreate
  <2>3. Sane(q)'  BY <2>1, <2>2 DEF Sane
  <2>4. \A p \in Request : req[p].op = "create" => req[p].on # s
    BY <1>2, IdleOp DEF BeginCreate, Concerns
  <2> QED  BY <2>1, <2>3, <2>4, OneMoves
<1>3. ASSUME NEW q \in Request, NEW s \in Service, NEW a,
             NEW o \in {"update", "delete", "connect"}, Reads(q, s, o, a)
      PROVE  RequestInv'
  <2> DEFINE r == [op |-> o, step |-> "read", on |-> s, read |-> row[s],
                   address |-> a]
  <2>1. req'[q] = r /\ \A p \in Request : p # q => req'[p] = req[p]
    BY <1>3 DEF Reads, TypeOK
  <2>2. origin'[s] = origin[s] /\ origin[s] # None
        /\ row[s].namespace = NamespaceOf(origin[s].answer)
    BY <1>3, Shapes DEF Reads, OriginInv, Stored, history
  <2>3. Sane(q)' /\ req'[q].op # "create"  BY <2>1, <2>2 DEF Sane
  <2> QED  BY <2>1, <2>3, OneMoves
<1>4. ASSUME NEW q \in Request, NEW s \in Service,
             BeginDelete(q, s) \/ BeginConnect(q, s)
      PROVE  RequestInv'
  BY <1>3, <1>4 DEF BeginDelete, BeginConnect
<1>5. ASSUME NEW q \in Request, FetchForCreate(q)
      PROVE  RequestInv'
  <2> DEFINE w == web[req[q].address]
             r == [op |-> "create", step |-> "store", on |-> req[q].on,
                   address |-> req[q].address, answer |-> w]
  <2>1. CASE Valid(w)
    <3>1. req'[q] = r /\ (\A p \in Request : p # q => req'[p] = req[p])
          /\ row' = row /\ req[q].op = "create"
      BY <1>5, <2>1 DEF FetchForCreate, TypeOK
    <3>2. row[req[q].on] = None  BY <3>1 DEF RequestInv
    <3>3. Sane(q)'  BY <2>1, <3>1, <3>2 DEF Sane
    <3>4. req'[q].on = req[q].on  BY <3>1
    <3> QED  BY <3>1, <3>3, <3>4, OneMoves
  <2>2. CASE ~Valid(w)
    BY <1>1, <1>5, <2>2 DEF FetchForCreate
  <2> QED  BY <2>1, <2>2
<1>6. ASSUME NEW q \in Request, Connect(q)
      PROVE  RequestInv'
  <2>1. req[q] \in [op : {"connect"}, on : Service, read : Row, address : Address,
                    step : {"read", "connected", "unreachable", "throws"}]
    BY <1>6 DEF TypeOK, Connect, Doing, Idle
  <2> DEFINE n == IF ~Loads(web[req[q].read.address]) THEN "unreachable"
                  ELSE IF Found(web[req[q].read.address], req[q].read.namespace)
                       THEN "connected" ELSE "throws"
  <2>2. req' = [req EXCEPT ![q] = [req[q] EXCEPT !.step = n]]
    BY <1>6 DEF Connect
  <2> HIDE DEF n
  <2>3. /\ req'[q].op = "connect" /\ req'[q].on = req[q].on
        /\ req'[q].read = req[q].read
        /\ \A p \in Request : p # q => req'[p] = req[p]
    BY <2>1, <2>2 DEF TypeOK
  <2>4. origin' = origin  BY <1>6 DEF Connect, history
  <2>5. Sane(q)'  BY <2>1, <2>3, <2>4 DEF Sane, RequestInv
  <2> QED  BY <2>3, <2>5, OneMoves
<1>7. ASSUME req' = req
      PROVE  RequestInv'
  <2>1. \A q \in Request : ~StoreCreated(q)  BY <1>7, StoringEnds
  <2>2. ASSUME NEW q \in Request PROVE Sane(q)'
    <3>1. req[q].op = "create" => req[q].on \in Service /\ row[req[q].on] = None
      BY Fields, IdleOp DEF RequestInv
    <3>2. req[q].op = "create" => row'[req[q].on] = None
      BY <2>1, <3>1, StaysUnstored
    <3> QED  BY <1>7, <3>2, StaysSane
  <2> QED  BY <1>7, <2>2 DEF RequestInv, Sane
<1>8. CASE Crash
  <2>1. \A q \in Request : req'[q] = Idle  BY <1>8 DEF Crash
  <2> QED  BY <2>1, IdleOp DEF RequestInv
<1> QED
  BY <1>1, <1>2, <1>3, <1>4, <1>5, <1>6, <1>7, <1>8
  DEF Next, BeginUpdate, StoreCreated, FlushUpdate, FlushDelete, ConnectEnds,
      Breaks, JobLoads, JobFetches, JobFlushes, JobFlushFails, Publish, vars

-----------------------------------------------------------------------------
(* The job works with addresses that services have or had.                 *)
LEMMA JobStep ==
    ASSUME TypeOK, OriginInv, RequestInv, JobInv, [Next]_vars
    PROVE  JobInv'
<1>1. /\ \A s \in Service : had[s] \subseteq had'[s]
      /\ faulty \subseteq faulty'
  BY HistoryGrows
<1>2. CASE UNCHANGED <<loaded, fetches, dirty>>
  BY <1>1, <1>2 DEF JobInv, TypeOK
<1>3. CASE JobLoads
  <2> DEFINE unblocked == {s \in Service : Stored(s) /\ ~row[s].blocked}
  <2>1. PICK addresses \in [unblocked -> Address] :
            /\ \A s \in unblocked :
                   addresses[s] = row[s].address \/ loaded[s] = {addresses[s]}
            /\ loaded' = [s \in Service |->
                  IF s \in unblocked THEN {addresses[s]} ELSE loaded[s]]
            /\ fetches' = fetches \cup {<<s, addresses[s]>> : s \in unblocked}
    BY <1>3 DEF JobLoads
  <2>2. had' = had /\ faulty' = faulty /\ dirty' = dirty
    BY <1>3 DEF JobLoads, history
  <2>3. \A s \in unblocked : addresses[s] \in had[s]
    BY <2>1 DEF JobInv, OriginInv
  <2>4. \A s \in Service : loaded'[s] \subseteq had[s]
    BY <2>1, <2>3 DEF JobInv
  <2>5. \A f \in fetches' : f[2] \in had[f[1]]
    BY <2>1, <2>3 DEF JobInv
  <2> QED  BY <2>2, <2>4, <2>5 DEF JobInv
<1>4. ASSUME NEW s \in Service, NEW a \in Address, JobFetches(s, a)
      PROVE  JobInv'
  <2>1. had' = had /\ faulty' = faulty /\ loaded' = loaded
    BY <1>4 DEF JobFetches, history
  <2>2. fetches' \subseteq fetches  BY <1>4 DEF JobFetches
  <2>3. a \in had[s]  BY <1>4 DEF JobFetches, JobInv
  <2>4. Unsound(web[a]) => a \in faulty  BY DEF OriginInv
  <2>5. \A t \in dirty' : had[t] \cap faulty # {}
    BY <1>4, <2>3, <2>4 DEF JobFetches, JobInv
  <2> QED  BY <2>1, <2>2, <2>5 DEF JobInv
<1>5. ASSUME NEW s \in Service, JobFlushes(s)
      PROVE  JobInv'
  BY <1>5 DEF JobFlushes, JobInv, history
<1>6. CASE Crash
  BY <1>6 DEF Crash, JobInv
<1> QED
  BY <1>2, <1>3, <1>4, <1>5, <1>6
  DEF Next, BeginCreate, BeginUpdate, BeginDelete, BeginConnect, Reads,
      FetchForCreate, StoreCreated, FlushUpdate, FlushDelete, Connect,
      ConnectEnds, Breaks, JobFlushFails, Publish, vars, job

(* Only the flush of the job blocks, and it blocks what is marked.         *)
LEMMA BlockedStep ==
    ASSUME TypeOK, OriginInv, RequestInv, JobInv, BlockedForCause, [Next]_vars
    PROVE  BlockedForCause'
<1>1. /\ \A s \in Service : had[s] \subseteq had'[s]
      /\ faulty \subseteq faulty'
  BY HistoryGrows
<1> SUFFICES ASSUME NEW s \in Service, Stored(s)', row'[s].blocked
             PROVE  had'[s] \cap faulty' # {}
  BY DEF BlockedForCause
<1>2. ASSUME Stored(s), row[s].blocked PROVE had'[s] \cap faulty' # {}
  BY <1>1, <1>2 DEF BlockedForCause
<1>3. ASSUME NEW q \in Request, StoreCreated(q) PROVE had'[s] \cap faulty' # {}
  BY <1>2, <1>3 DEF StoreCreated, TypeOK, Stored
<1>4. ASSUME NEW q \in Request, FlushUpdate(q) PROVE had'[s] \cap faulty' # {}
  <2>1. Stored(req[q].on) => row[req[q].on] \in Row
    BY <1>4, Fields, IdleOp, Shapes DEF FlushUpdate, TypeOK, Stored
  <2>2. Stored(req[q].on) => Written(q).blocked = row[req[q].on].blocked
    BY <2>1 DEF Written, Row
  <2> QED  BY <1>2, <1>4, <2>2 DEF FlushUpdate, TypeOK, Stored
<1>5. ASSUME NEW q \in Request, FlushDelete(q) PROVE had'[s] \cap faulty' # {}
  BY <1>2, <1>5 DEF FlushDelete, TypeOK, Stored, Gone
<1>6. ASSUME NEW t \in Service, JobFlushes(t) PROVE had'[s] \cap faulty' # {}
  <2>1. CASE s \in dirty  BY <1>1, <2>1 DEF JobInv
  <2>2. CASE s \notin dirty  BY <1>2, <1>6, <2>2 DEF JobFlushes, Stored
  <2> QED  BY <2>1, <2>2
<1>7. ASSUME UNCHANGED <<row, origin, had>> PROVE had'[s] \cap faulty' # {}
  BY <1>2, <1>7 DEF Stored
<1> QED  BY <1>3, <1>4, <1>5, <1>6, <1>7, StepsOfTable

-----------------------------------------------------------------------------
(* The invariant holds in every reachable state.                           *)
THEOREM Inductive == Spec => []IInv
<1>1. Init => IInv  BY InitInv
<1>2. IInv /\ [Next]_vars => IInv'
  <2> SUFFICES ASSUME IInv, [Next]_vars PROVE IInv'  OBVIOUS
  <2>1. TypeOK'  BY TypeStep DEF IInv
  <2>2. OriginInv'  BY <2>1, OriginStep DEF IInv
  <2>3. RequestInv'  BY <2>1, RequestStep DEF IInv
  <2>4. JobInv'  BY JobStep DEF IInv
  <2>5. BlockedForCause'  BY BlockedStep DEF IInv
  <2> QED  BY <2>1, <2>2, <2>3, <2>4, <2>5 DEF IInv
<1> QED  BY <1>1, <1>2, PTL DEF Spec

(* Rows, requests and the marks of the job are of their types.             *)
THEOREM TypesHold == Spec => []TypeOK
<1>1. IInv => TypeOK  BY DEF IInv
<1> QED  BY <1>1, Inductive, PTL

(* No service is blocked without an unsound protocol at one of its own     *)
(* addresses, whichever fetches fail and whoever shares a flush.           *)
THEOREM BlockingHasACause == Spec => []BlockedForCause
<1>1. IInv => BlockedForCause  BY DEF IInv
<1> QED  BY <1>1, Inductive, PTL

(* No update takes the block back, however old the row it has read.        *)
THEOREM BlockingIsFinal == Spec => BlockedStays
<1> DEFINE Final == \A s \in Service :
        Stored(s) /\ row[s].blocked /\ row'[s] # Gone => row'[s].blocked
<1>1. ASSUME IInv, [Next]_vars PROVE Final
  <2>1. TypeOK /\ OriginInv /\ RequestInv  BY <1>1 DEF IInv
  <2> SUFFICES ASSUME NEW s \in Service, Stored(s), row[s].blocked, row'[s] # Gone
               PROVE  row'[s].blocked
    OBVIOUS
  <2>2. ASSUME NEW q \in Request, StoreCreated(q) PROVE row'[s].blocked
    <3>1. req[q].on # s
      BY <2>1, <2>2, Shapes DEF StoreCreated, RequestInv, Stored
    <3> QED  BY <2>1, <2>2, <3>1 DEF StoreCreated, TypeOK
  <2>3. ASSUME NEW q \in Request, FlushUpdate(q) PROVE row'[s].blocked
    <3>1. Stored(req[q].on) => row[req[q].on] \in Row
      BY <2>1, <2>3, Fields, IdleOp, Shapes DEF FlushUpdate, TypeOK, Stored
    <3>2. Stored(req[q].on) => Written(q).blocked = row[req[q].on].blocked
      BY <3>1 DEF Written, Row
    <3> QED  BY <2>1, <2>3, <3>2 DEF FlushUpdate, TypeOK, Stored
  <2>4. ASSUME NEW q \in Request, FlushDelete(q) PROVE row'[s].blocked
    BY <2>1, <2>4 DEF FlushDelete, TypeOK
  <2>5. ASSUME NEW t \in Service, JobFlushes(t) PROVE row'[s].blocked
    <3>1. row[s] \in Row  BY <2>1, Shapes DEF TypeOK, Stored
    <3>2. [row[s] EXCEPT !.blocked = TRUE].blocked = TRUE  BY <3>1 DEF Row
    <3> QED  BY <2>5, <3>2 DEF JobFlushes
  <2>6. ASSUME UNCHANGED <<row, origin, had>> PROVE row'[s].blocked
    BY <2>6
  <2> QED  BY <1>1, <2>1, <2>2, <2>3, <2>4, <2>5, <2>6, StepsOfTable
<1>2. IInv /\ [Next]_vars => [Final]_vars  BY <1>1
<1> QED  BY <1>2, Inductive, PTL DEF Spec, BlockedStays

(* Each step enters, moves, blocks or removes as the board allows, or      *)
(* changes nothing of it.                                                  *)
LEMMA BoardStep ==
    ASSUME IInv, [Next]_vars
    PROVE  [Board!Next]_<<row, had, faulty>>
<1>1. TypeOK /\ OriginInv /\ RequestInv /\ JobInv  BY DEF IInv
<1>2. ASSUME NEW q \in Request, StoreCreated(q) PROVE Board!Next
  <2> DEFINE s == req[q].on
             a == req[q].address
             n == NamespaceOf(req[q].answer)
  <2>1. /\ s \in Service /\ a \in Address /\ req[q].answer \in Answer
        /\ row[s] = None /\ Valid(req[q].answer)
    BY <1>1, <1>2, Fields, IdleOp DEF StoreCreated, RequestInv
  <2>2. n \in Namespace  BY <2>1, Shapes
  <2>3. row' = [row EXCEPT ![s] = [state |-> "stored", address |-> a,
                                   namespace |-> n, blocked |-> FALSE]]
    BY <1>2 DEF StoreCreated
  <2>4. had[s] = {}
    BY <1>1, <2>1 DEF OriginInv
  <2>5. had' = [had EXCEPT ![s] = {a}] /\ faulty' = faulty
    BY <1>2, <2>4 DEF StoreCreated
  <2>6. Board!Enter(s, a, n)
    BY <2>1, <2>3, <2>5 DEF Board!Enter
  <2> QED  BY <2>1, <2>2, <2>6 DEF Board!Next
<1>3. ASSUME NEW q \in Request, FlushUpdate(q), Stored(req[q].on) PROVE Board!Next
  <2> DEFINE s == req[q].on
             a == Written(q).address
  <2>1. s \in Service /\ req[q].address \in Address
    BY <1>1, <1>3, Fields, IdleOp DEF FlushUpdate
  <2>2. row[s] \in Row /\ Board!Entered(s)
    BY <1>1, <1>3, <2>1, Shapes DEF TypeOK, Stored, Board!Entered
  <2>3. a \in Address /\ Written(q) = [row[s] EXCEPT !.address = a]
    BY <2>1, <2>2 DEF Written, Row
  <2>4. row' = [row EXCEPT ![s] = Written(q)] /\ faulty' = faulty
        /\ had' = [had EXCEPT ![s] = @ \cup {a}]
    BY <1>3 DEF FlushUpdate
  <2>5. row' = [row EXCEPT ![s].address = a]
    BY <2>3, <2>4
  <2>6. Board!Move(s, a)
    BY <2>2, <2>4, <2>5 DEF Board!Move
  <2> QED  BY <2>1, <2>3, <2>6 DEF Board!Next
<1>4. ASSUME NEW q \in Request, FlushUpdate(q), ~Stored(req[q].on)
      PROVE  UNCHANGED <<row, had, faulty>>
  BY <1>4 DEF FlushUpdate
<1>5. ASSUME NEW q \in Request, FlushDelete(q) PROVE Board!Next
  <2> DEFINE s == req[q].on
  <2>1. s \in Service /\ row[s] # None
    BY <1>1, <1>5, Fields, IdleOp DEF FlushDelete, RequestInv, OriginInv
  <2>2. Board!Remove(s)
    BY <1>5, <2>1 DEF FlushDelete, Board!Remove, history
  <2> QED  BY <2>1, <2>2 DEF Board!Next
<1>6. ASSUME NEW t \in Service, JobFlushes(t) PROVE Board!Next
  <2> DEFINE some == {s \in dirty : Stored(s)}
  <2>1. some \in SUBSET Service  BY <1>1 DEF TypeOK
  <2>2. \A s \in some : Board!Entered(s) /\ had[s] \cap faulty # {}
    BY <1>1, Shapes DEF JobInv, Stored, Board!Entered
  <2>3. row' = [s \in Service |->
                  IF s \in some THEN [row[s] EXCEPT !.blocked = TRUE] ELSE row[s]]
    BY <1>6 DEF JobFlushes
  <2>4. Board!Block(some)
    BY <1>6, <2>2, <2>3 DEF Board!Block, JobFlushes, history
  <2> QED  BY <2>1, <2>4 DEF Board!Next
<1>7. ASSUME NEW a \in Address, NEW w \in Answers, Publish(a, w)
      PROVE  Board!Next \/ UNCHANGED <<row, had, faulty>>
  BY <1>7 DEF Publish, Board!Fault, Board!Next
<1>8. CASE UNCHANGED vars
  BY <1>8 DEF vars, history
<1> QED
  BY <1>2, <1>3, <1>4, <1>5, <1>6, <1>7, <1>8
  DEF Next, BeginCreate, BeginUpdate, BeginDelete, BeginConnect, Reads,
      FetchForCreate, Connect, ConnectEnds, Breaks, JobLoads, JobFetches,
      JobFlushFails, Crash, history

(* Registrations, updates, deletions and the job implement the board of    *)
(* services, however they overlap.                                         *)
THEOREM BoardIsKept == Spec => BoardSpec
<1>1. Init => Board!Init
  BY DEF Init, Board!Init
<1>2. IInv /\ [Next]_vars => [Board!Next]_<<row, had, faulty>>
  BY BoardStep
<1> QED  BY <1>1, <1>2, Inductive, PTL DEF Spec, BoardSpec, Board!Spec

(* A registered protocol is what every later connection to its address     *)
(* needs, as long as the address goes on answering with it.                *)
THEOREM SoundnessIsEnough == Spec => SteadyServiceConnects
<1> DEFINE Steady(q) ==
        /\ req[q].op = "connect" /\ req[q].step = "read"
        /\ req'[q] # req[q] /\ req'[q] # Idle
        /\ origin[req[q].on] = [address |-> req[q].read.address,
                                answer |-> web[req[q].read.address]]
        /\ Loads(web[req[q].read.address])
        => req'[q].step = "connected"
<1>1. ASSUME IInv, [Next]_vars, NEW q \in Request PROVE Steady(q)
  <2> DEFINE w == web[req[q].read.address]
             o == origin[req[q].on]
  <2>1. TypeOK /\ OriginInv /\ RequestInv  BY <1>1 DEF IInv
  <2> SUFFICES ASSUME req[q].op = "connect", req[q].step = "read",
                      req'[q] # req[q], req'[q] # Idle,
                      o = [address |-> req[q].read.address, answer |-> w],
                      Loads(w)
               PROVE  req'[q].step = "connected"
    OBVIOUS
  <2>2. req[q].on \in Service /\ req[q].read.namespace = NamespaceOf(o.answer)
        /\ o # None
    BY <2>1, Fields, IdleOp DEF RequestInv
  <2>3. Valid(w)  BY <2>1, <2>2 DEF OriginInv
  <2>4. Found(w, req[q].read.namespace)
    BY <2>2, <2>3 DEF Valid, Found, NamespaceOf
  <2>5. Connect(q)
    <3> USE <2>1 DEF Steps, Ends, TypeOK
    <3>1. ASSUME NEW p \in Request, NEW s \in Service, NEW a \in Address,
                 BeginCreate(p, s, a) \/ BeginUpdate(p, s, a)
          PROVE  FALSE
      BY <3>1, IdleOp DEF BeginCreate, BeginUpdate, Reads
    <3>2. ASSUME NEW p \in Request, NEW s \in Service,
                 BeginDelete(p, s) \/ BeginConnect(p, s)
          PROVE  FALSE
      BY <3>2, IdleOp DEF BeginDelete, BeginConnect, Reads
    <3>3. ASSUME NEW p \in Request,
                 FetchForCreate(p) \/ StoreCreated(p) \/ FlushUpdate(p)
                 \/ FlushDelete(p) \/ ConnectEnds(p) \/ Breaks(p)
          PROVE  FALSE
      BY <3>3 DEF FetchForCreate, StoreCreated, FlushUpdate, FlushDelete,
                  ConnectEnds, Breaks
    <3>4. ASSUME NEW p \in Request, Connect(p), p # q PROVE FALSE
      BY <3>4 DEF Connect
    <3>5. ~Crash /\ req' # req  BY DEF Crash
    <3> QED
      BY <1>1, <3>1, <3>2, <3>3, <3>4, <3>5
      DEF Next, JobLoads, JobFetches, JobFlushes, JobFlushFails, Publish, vars
  <2>6. req[q] \in [op : {"connect"}, on : Service, read : Row, address : Address,
                    step : {"read", "connected", "unreachable", "throws"}]
    BY <2>1 DEF TypeOK, Doing, Idle
  <2> QED  BY <2>1, <2>4, <2>5, <2>6 DEF Connect, Steps, TypeOK
<1>2. IInv /\ [Next]_vars => [\A q \in Request : Steady(q)]_vars  BY <1>1
<1> QED  BY <1>2, Inductive, PTL DEF Spec, SteadyServiceConnects
=============================================================================
