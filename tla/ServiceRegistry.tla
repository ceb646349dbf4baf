--------------------------- MODULE ServiceRegistry ---------------------------
(***************************************************************************)
(* The registry of services: their registration, the update and deletion  *)
(* of their rows, the hourly job that validates the protocols of all       *)
(* services and blocks those that are not sound, and the connections that  *)
(* the rest of the server opens to them.                                   *)
(*                                                                         *)
(* The protocol of a service is a file at an address its author chose.  It *)
(* is fetched anew every time, and whatever the address answers then is    *)
(* used together with a row read earlier.  A Request is a serviceCreate, a *)
(* serviceUpdate, a serviceDelete, or any operation that connects; every   *)
(* one has an entity manager of its own.  The job works on the global      *)
(* entity manager, which lives as long as the process and is shared by     *)
(* runs of the job that overlap.                                           *)
(***************************************************************************)
EXTENDS FiniteSets

CONSTANTS
    Service,    \* identifiers of services, uuids never drawn twice
    Address,    \* introspection URLs
    Namespace,  \* packages of protocol files
    Answers,    \* what an introspection URL may answer with
    Request,
    NoNamespace

(* The methods that validate asks for. *)
Method == {"Reflect", "Get", "Status", "Usage", "Create", "Update", "Delete"}

(* A failed fetch or a text that is no protocol, a file without anything   *)
(* named at its top, or the first name of its top with what MainService is *)
(* there, the methods that have the types validate compares them with, and *)
(* whether the files it imports are found when it is loaded for a client.  *)
Failing == [kind |-> "failing"]
Empty == [kind |-> "empty"]
Protocol == [kind : {"protocol"}, namespace : Namespace,
             main : {"absent", "message", "service"},
             methods : SUBSET Method, loads : BOOLEAN]

Answer == {Failing, Empty} \cup Protocol

ASSUME AnswerTypes == Answers \subseteq Answer /\ NoNamespace \notin Namespace

VARIABLES
    row,     \* row[s]: the stored columns, None yet, or Gone again
    web,     \* web[a]: what the address answers at the moment
    req,     \* req[q]: what the request does, and what it has read
    loaded,  \* addresses of services in the global entity manager, or none
    dirty,   \* services marked as blocked there and not yet written
    fetches, \* fetches of the job under way: a service and its address
    due,     \* flushes of the job under way, by service
    origin,  \* history: address and answer a service was registered with
    had,     \* history: every address a service has been stored with
    faulty   \* history: addresses that have answered an unsound protocol

job == <<loaded, dirty, fetches, due>>
history == <<origin, had, faulty>>
vars == <<row, web, req, job, history>>

-----------------------------------------------------------------------------
(* getNamespace and validate *)

NamespaceOf(w) == IF w.kind = "protocol" THEN w.namespace ELSE NoNamespace

(* MainService.methods of a message is undefined: reading it throws. *)
Throws(w) ==
    \/ w.kind = "failing"
    \/ w.kind = "protocol" /\ w.main = "message"

Valid(w) == w.kind = "protocol" /\ w.main = "service" /\ w.methods = Method

Unsound(w) == ~Throws(w) /\ ~Valid(w)

(* The file and its imports are there, and the namespace stored with the   *)
(* service has a MainService to build the client from.                     *)
Loads(w) == w.kind = "empty" \/ (w.kind = "protocol" /\ w.loads)
Found(w, n) == w.kind = "protocol" /\ w.namespace = n /\ w.main = "service"

-----------------------------------------------------------------------------
(* The table *)

Row == [state : {"stored"}, address : Address, namespace : Namespace,
        blocked : BOOLEAN]

None == [state |-> "none"]
Gone == [state |-> "gone"]

Stored(s) == row[s].state = "stored"

Idle == [op |-> "idle"]

Steps(q, r) == req' = [req EXCEPT ![q] = r]

Ends(q) == Steps(q, Idle)

Concerns(q, s) == req[q] # Idle /\ req[q].on = s

-----------------------------------------------------------------------------
(* serviceCreate *)

BeginCreate(q, s, a) ==
    /\ req[q] = Idle
    /\ row[s] = None
    /\ \A p \in Request : ~ Concerns(p, s)
    /\ Steps(q, [op |-> "create", step |-> "fetch", on |-> s, address |-> a])
    /\ UNCHANGED <<row, web, job, history>>

(* Mutant: what has no namespace or is not sound is registered all the     *)
(* same, to be blocked by the job.                                         *)
FetchForCreateUnchecked(q) ==
    /\ req[q].op = "create" /\ req[q].step = "fetch"
    /\ LET w == web[req[q].address]
       IN  IF ~Throws(w) /\ NamespaceOf(w) # NoNamespace
           THEN Steps(q, [op |-> "create", step |-> "store", on |-> req[q].on,
                          address |-> req[q].address, answer |-> w])
           ELSE Ends(q)
    /\ UNCHANGED <<row, web, job, history>>

(* The protocol must have a namespace and be sound; then the organisation  *)
(* of the author is awaited.                                               *)
FetchForCreate(q) ==
    /\ req[q].op = "create" /\ req[q].step = "fetch"
    /\ LET w == web[req[q].address]
       IN  IF Valid(w)
           THEN Steps(q, [op |-> "create", step |-> "store", on |-> req[q].on,
                          address |-> req[q].address, answer |-> w])
           ELSE Ends(q)
    /\ UNCHANGED <<row, web, job, history>>

StoreCreated(q) ==
    /\ req[q].op = "create" /\ req[q].step = "store"
    /\ LET s == req[q].on
           a == req[q].address
           w == req[q].answer
       IN  /\ row' = [row EXCEPT ![s] = [state |-> "stored", address |-> a,
                            namespace |-> NamespaceOf(w), blocked |-> FALSE]]
           /\ origin' = [origin EXCEPT ![s] = [address |-> a, answer |-> w]]
           /\ had' = [had EXCEPT ![s] = @ \cup {a}]
    /\ Ends(q)
    /\ UNCHANGED <<web, job, faulty>>

-----------------------------------------------------------------------------
(* serviceUpdate, serviceDelete and connect begin with reading the row     *)

Reads(q, s, o, extra) ==
    /\ req[q] = Idle
    /\ Stored(s)
    /\ Steps(q, [op |-> o, step |-> "read", on |-> s, read |-> row[s],
                 address |-> extra])
    /\ UNCHANGED <<row, web, job, history>>

(* Nothing about the new address is validated. *)
BeginUpdate(q, s, a) == Reads(q, s, "update", a)
BeginDelete(q, s) == Reads(q, s, "delete", row[s].address)
BeginConnect(q, s) == Reads(q, s, "connect", row[s].address)

(* Mutant: the whole row is written as it was read. *)
WrittenWhole(q) == [req[q].read EXCEPT !.address = req[q].address]

(* The columns that differ from the row the request has read are written,  *)
(* to the row as it is by now.                                             *)
Written(q) ==
    [row[req[q].on] EXCEPT !.address =
        IF req[q].address # req[q].read.address THEN req[q].address ELSE @]

(* An UPDATE that meets no row is no error. *)
FlushUpdate(q) ==
    /\ req[q].op = "update"
    /\ LET s == req[q].on
       IN  IF Stored(s)
           THEN /\ row' = [row EXCEPT ![s] = Written(q)]
                /\ had' = [had EXCEPT ![s] = @ \cup {Written(q).address}]
           ELSE UNCHANGED <<row, had>>
    /\ Ends(q)
    /\ UNCHANGED <<web, job, origin, faulty>>

FlushDelete(q) ==
    /\ req[q].op = "delete"
    /\ row' = [row EXCEPT ![req[q].on] = Gone]
    /\ Ends(q)
    /\ UNCHANGED <<web, job, history>>

(* Mutant: the client is built from the namespace of the file, and a file  *)
(* without one is an error of its own.                                     *)
ConnectUnnamed(q) ==
    /\ req[q].op = "connect" /\ req[q].step = "read"
    /\ LET w == web[req[q].read.address]
       IN  Steps(q, [req[q] EXCEPT !.step =
                       IF w.kind = "protocol" THEN "connected" ELSE "unnamed"])
    /\ UNCHANGED <<row, web, job, history>>

(* The file is fetched and loaded; then MainService of the stored          *)
(* namespace either is there or makes the construction of the client throw.*)
Connect(q) ==
    /\ req[q].op = "connect" /\ req[q].step = "read"
    /\ LET w == web[req[q].read.address]
       IN  Steps(q, [req[q] EXCEPT !.step =
                       IF ~Loads(w) THEN "unreachable"
                       ELSE IF Found(w, req[q].read.namespace)
                            THEN "connected" ELSE "throws"])
    /\ UNCHANGED <<row, web, job, history>>

ConnectEnds(q) ==
    /\ req[q].op = "connect" /\ req[q].step # "read"
    /\ Ends(q)
    /\ UNCHANGED <<row, web, job, history>>

(* A query or a flush fails; or the deletion is refused, as long as there  *)
(* are resources of the service.                                           *)
Breaks(q) ==
    /\ req[q] # Idle
    /\ Ends(q)
    /\ UNCHANGED <<row, web, job, history>>

-----------------------------------------------------------------------------
(* validateAllServices *)

(* The services not blocked are loaded.  One that an earlier run has       *)
(* loaded may keep the address it had then.  A run starts every hour, also *)
(* when the last one has not ended; the query may fail, or be refused by   *)
(* the global entity manager, and nothing happens.                         *)
JobLoads ==
    LET unblocked == {s \in Service : Stored(s) /\ ~row[s].blocked}
    IN  /\ \E addresses \in [unblocked -> Address] :
               /\ \A s \in unblocked :
                      addresses[s] = row[s].address \/ loaded[s] = {addresses[s]}
               /\ loaded' = [s \in Service |->
                     IF s \in unblocked THEN {addresses[s]} ELSE loaded[s]]
               /\ fetches' = fetches \cup {<<s, addresses[s]>> : s \in unblocked}
        /\ UNCHANGED <<row, web, req, dirty, due, history>>

(* Mutant: a protocol that cannot be fetched blocks its service. *)
JobFetchesOrBlocks(s, a) ==
    /\ <<s, a>> \in fetches
    /\ fetches' = fetches \ {<<s, a>>}
    /\ IF ~Valid(web[a])
       THEN dirty' = dirty \cup {s} /\ due' = due \cup {s}
       ELSE UNCHANGED <<dirty, due>>
    /\ UNCHANGED <<row, web, req, loaded, history>>

(* A fetch that fails rejects the Promise.all; the other callbacks go on.  *)
JobFetches(s, a) ==
    /\ <<s, a>> \in fetches
    /\ fetches' = fetches \ {<<s, a>>}
    /\ IF Unsound(web[a])
       THEN dirty' = dirty \cup {s} /\ due' = due \cup {s}
       ELSE UNCHANGED <<dirty, due>>
    /\ UNCHANGED <<row, web, req, loaded, history>>

(* The flush of one callback writes what all of them have marked.          *)
JobFlushes(s) ==
    /\ s \in due
    /\ due' = due \ {s}
    /\ row' = [t \in Service |->
                 IF t \in dirty /\ Stored(t) THEN [row[t] EXCEPT !.blocked = TRUE]
                 ELSE row[t]]
    /\ dirty' = {}
    /\ UNCHANGED <<web, req, loaded, fetches, history>>

(* The marks stay, and go with the next flush there is. *)
JobFlushFails(s) ==
    /\ s \in due
    /\ due' = due \ {s}
    /\ UNCHANGED <<row, web, req, loaded, dirty, fetches, history>>

-----------------------------------------------------------------------------
(* The surroundings *)

(* The author puts another file at an address, or the server there fails.  *)
Publish(a, w) ==
    /\ web' = [web EXCEPT ![a] = w]
    /\ faulty' = IF Unsound(w) THEN faulty \cup {a} ELSE faulty
    /\ UNCHANGED <<row, req, job, origin, had>>

(* The process stops and starts again. *)
Crash ==
    /\ req' = [q \in Request |-> Idle]
    /\ loaded' = [s \in Service |-> {}]
    /\ dirty' = {} /\ fetches' = {} /\ due' = {}
    /\ UNCHANGED <<row, web, history>>

Init ==
    /\ row = [s \in Service |-> None]
    /\ web \in [Address -> Answers]
    /\ req = [q \in Request |-> Idle]
    /\ loaded = [s \in Service |-> {}]
    /\ dirty = {} /\ fetches = {} /\ due = {}
    /\ origin = [s \in Service |-> None]
    /\ had = [s \in Service |-> {}]
    /\ faulty = {a \in Address : Unsound(web[a])}

Next ==
    \/ \E q \in Request :
           \/ \E s \in Service :
                  \/ \E a \in Address : BeginCreate(q, s, a) \/ BeginUpdate(q, s, a)
                  \/ BeginDelete(q, s)
                  \/ BeginConnect(q, s)
           \/ FetchForCreate(q) \/ StoreCreated(q)
           \/ FlushUpdate(q) \/ FlushDelete(q)
           \/ Connect(q) \/ ConnectEnds(q)
           \/ Breaks(q)
    \/ JobLoads
    \/ \E s \in Service :
           \/ \E a \in Address : JobFetches(s, a)
           \/ JobFlushes(s)
           \/ JobFlushFails(s)
    \/ \E a \in Address, w \in Answers : Publish(a, w)
    \/ Crash

Spec == Init /\ [][Next]_vars

-----------------------------------------------------------------------------
(* Properties *)

Doing ==
    {Idle}
    \cup [op : {"create"}, step : {"fetch"}, on : Service, address : Address]
    \cup [op : {"create"}, step : {"store"}, on : Service, address : Address,
          answer : Answer]
    \cup [op : {"update", "delete"}, step : {"read"}, on : Service, read : Row,
          address : Address]
    \cup [op : {"connect"}, step : {"read", "connected", "unreachable", "throws"},
          on : Service, read : Row, address : Address]

TypeOK ==
    /\ row \in [Service -> Row \cup {None, Gone}]
    /\ web \in [Address -> Answers]
    /\ req \in [Request -> Doing]
    /\ loaded \in [Service -> SUBSET Address]
    /\ dirty \subseteq Service
    /\ fetches \subseteq Service \X Address
    /\ due \subseteq Service
    /\ origin \in [Service -> {None} \cup [address : Address, answer : Answer]]
    /\ had \in [Service -> SUBSET Address]
    /\ faulty \subseteq Address

(* A service is blocked only when an address it has or had answered with a *)
(* protocol that is not sound: not because a fetch failed, because another *)
(* service of the same run was blocked, or because it shares a flush.      *)
BlockedForCause ==
    \A s \in Service : Stored(s) /\ row[s].blocked => had[s] \cap faulty # {}

(* A blocked service stays blocked: an update that read its row before the *)
(* job blocked it does not write the old value back.                       *)
BlockedStays == [][
    \A s \in Service : Stored(s) /\ row[s].blocked /\ row'[s] # Gone =>
        row'[s].blocked]_vars

(* Requests that overlap, with each other and with runs of the job, keep   *)
(* the promises of the registry: an identifier is used once, a namespace   *)
(* never changes, a block has a cause and is not undone by an update that  *)
(* read the row before the job wrote it, and nothing is stored again that  *)
(* a request or the job had read before it was deleted.                    *)
Board == INSTANCE ServiceBoard WITH homes <- had, Absent <- None, Removed <- Gone

BoardSpec == Board!Spec

(* What was validated is what a connection needs: while an address answers *)
(* as it did when the service was registered with it, a connection that    *)
(* has read this address finds the client, if the imports of the file are  *)
(* there, whatever happened to the row and the address in between.         *)
SteadyServiceConnects == [][
    \A q \in Request :
        /\ req[q].op = "connect" /\ req[q].step = "read"
        /\ req'[q] # req[q] /\ req'[q] # Idle
        /\ origin[req[q].on] = [address |-> req[q].read.address,
                                answer |-> web[req[q].read.address]]
        /\ Loads(web[req[q].read.address])
        => req'[q].step = "connected"]_vars

-----------------------------------------------------------------------------
(* The inductive invariant behind them *)

(* A service in the table was registered with a sound protocol, and keeps  *)
(* the namespace it had then.                                              *)
OriginInv ==
    /\ \A s \in Service :
           /\ row[s] = None <=> origin[s] = None
           /\ row[s] = None => had[s] = {}
           /\ origin[s] # None => Valid(origin[s].answer)
           /\ Stored(s) => /\ row[s].namespace = NamespaceOf(origin[s].answer)
                           /\ row[s].address \in had[s]
    /\ \A a \in Address : Unsound(web[a]) => a \in faulty

(* A registration is alone with its identifier, which is not stored yet;   *)
(* what any other request has read comes from a registered service.        *)
RequestInv ==
    /\ \A q \in Request :
           /\ req[q].op = "create" =>
                  /\ row[req[q].on] = None
                  /\ req[q].step = "store" => Valid(req[q].answer)
           /\ req[q].op \in {"update", "delete", "connect"} =>
                  /\ origin[req[q].on] # None
                  /\ req[q].read.namespace = NamespaceOf(origin[req[q].on].answer)
    /\ \A p, q \in Request :
           req[p].op = "create" /\ req[q].op = "create" /\ req[p].on = req[q].on
               => p = q

(* The job works with addresses the services have or had, and marks only   *)
(* services for which one of these has answered an unsound protocol.       *)
JobInv ==
    /\ \A s \in Service : loaded[s] \subseteq had[s]
    /\ \A f \in fetches : f[2] \in had[f[1]]
    /\ \A s \in dirty : had[s] \cap faulty # {}

IInv == TypeOK /\ OriginInv /\ RequestInv /\ JobInv /\ BlockedForCause
=============================================================================
