----------------------------- MODULE Credentials -----------------------------
(***************************************************************************)
(* The credentials a deployment keeps for the platforms of its resources:  *)
(* stored with every secret encrypted, changed provider by provider,       *)
(* decrypted whenever a service of one of the resources is called.         *)
(*                                                                         *)
(* Each provider has columns of its own in the row of the deployment: one  *)
(* with what is no secret (the id and the region, the tenant and the       *)
(* client) and one with the secret; the values of any other provider are   *)
(* one column, encrypted value by value.  A Request is an HTTP request     *)
(* that has an entity manager of its own, and so one copy of the           *)
(* deployment, which it goes on using from one field of its document to    *)
(* the next, while other requests change the row.                          *)
(***************************************************************************)
EXTENDS Naturals

CONSTANTS
    Deployment,
    Request,
    Name,      \* what is no secret
    Secret,    \* clear texts
    Provider,  \* providers, with "other" among them or not
    Inputs,    \* DeploymentCredentialsInput, by provider
    Absent,    \* no credentials of a provider
    Odd,       \* values of "other" of which one is no text
    None,      \* no deployment yet
    Gone       \* no deployment any more

Given(p) ==
    IF p = "other" THEN [secret : Secret] ELSE [name : Name, secret : Secret]

(* What a client may ask to be stored for a provider. *)
Asked(p) == {Absent} \cup Given(p) \cup (IF p = "other" THEN {Odd} ELSE {})

Credential == [name : Name, secret : Secret] \cup [secret : Secret]

(* The columns of a deployment, where a secret is encrypted once.          *)
Sealing == [clear : Secret, layers : {1}]

StoredFor(p) ==
    {Absent} \cup (IF p = "other" THEN [secret : Sealing]
                   ELSE [name : Name, secret : Sealing])

Rows == {r \in [Provider -> {Absent} \cup [secret : Sealing]
                               \cup [name : Name, secret : Sealing]] :
            \A p \in Provider : r[p] \in StoredFor(p)}

ASSUME CredentialTypes ==
    /\ Inputs \subseteq {g \in [Provider -> {Absent, Odd} \cup Credential] :
                            \A p \in Provider : g[p] \in Asked(p)}
    /\ Absent \notin Credential \cup [secret : Sealing]
                          \cup [name : Name, secret : Sealing]
    /\ Odd \notin Credential /\ Odd # Absent
    /\ None # Gone /\ {None, Gone} \cap Rows = {}

VARIABLES
    row,    \* the credentials of each deployment, None yet, or Gone again
    doc,    \* the documents that are being executed, by request
    given,  \* history: what clients have been told to be stored, by provider
    raced   \* history: where the last update was based on what was no more

history == <<given, raced>>
vars == <<row, doc, history>>

-----------------------------------------------------------------------------
(* encrypt and decrypt *)

Seal(s) == [clear |-> s, layers |-> 1]
SealAgain(x) == [x EXCEPT !.layers = @ + 1]

Sealed(g) == [g EXCEPT !.secret = Seal(@)]

(* What is encrypted twice is still encrypted after decryption. *)
OpenedSecret(x) == IF x.layers = 1 THEN x.clear ELSE [x EXCEPT !.layers = @ - 1]

Opened(c) == [c EXCEPT !.secret = OpenedSecret(@)]

(* getCredentials *)
Credentials(copy) ==
    [p \in Provider |-> IF copy[p] = Absent THEN Absent ELSE Opened(copy[p])]

-----------------------------------------------------------------------------
(* The requests *)

Stored(d) == row[d] \notin {None, Gone}

Idle == [step |-> "idle"]
Is(q, step) == doc[q].step = step
Concerns(q, d) == ~Is(q, "idle") /\ doc[q].on = d

Goes(q, r) == doc' = [doc EXCEPT ![q] = r]
Ends(q) == Goes(q, Idle)

BeginCreate(q, d, g) ==
    /\ Is(q, "idle") /\ row[d] = None
    /\ \A r \in Request : ~Concerns(r, d)
    /\ Goes(q, [step |-> "creating", on |-> d, asks |-> g])
    /\ UNCHANGED <<row, history>>

(* findByIDByUser finds the deployment the entity manager has already      *)
(* loaded as it loaded it, whatever has become of the row.                 *)
Copy(q, d) == IF Is(q, "ready") THEN doc[q].copy ELSE row[d]
Mixed(q, d) ==
    IF Is(q, "ready") THEN doc[q].mixed ELSE {p \in Provider : <<d, p>> \in raced}

Loads(q, d) ==
    \/ Is(q, "idle") /\ Stored(d)
    \/ Is(q, "ready") /\ doc[q].on = d

BeginUpdate(q, d, g) ==
    /\ Loads(q, d)
    /\ Goes(q, [step |-> "updating", on |-> d, copy |-> Copy(q, d),
                mixed |-> Mixed(q, d), asks |-> g])
    /\ UNCHANGED <<row, history>>

(* Mutant: the credentials are sent as they are stored. *)
BeginCallUnopened(q, d) ==
    /\ Loads(q, d)
    /\ Goes(q, [step |-> "calling", on |-> d, copy |-> Copy(q, d),
                mixed |-> Mixed(q, d), sends |-> Copy(q, d)])
    /\ UNCHANGED <<row, history>>

(* Creating, updating or deleting a resource, or asking for its status,    *)
(* usage or details: the credentials are decrypted before the protocol of  *)
(* the service is fetched.                                                 *)
BeginCall(q, d) ==
    /\ Loads(q, d)
    /\ Goes(q, [step |-> "calling", on |-> d, copy |-> Copy(q, d),
                mixed |-> Mixed(q, d), sends |-> Credentials(Copy(q, d))])
    /\ UNCHANGED <<row, history>>

(* The service is called, or is not for some other reason. *)
Call(q) ==
    /\ Is(q, "calling")
    /\ Goes(q, [step |-> "ready", on |-> doc[q].on, copy |-> doc[q].copy,
                mixed |-> doc[q].mixed])
    /\ UNCHANGED <<row, history>>

-----------------------------------------------------------------------------
(* create and update *)

Asking(q) == {p \in Provider : doc[q].asks[p] # Absent}

(* Mutant: a value that is no text is left out of those of "other", and    *)
(* that is all.                                                            *)
EncryptsLenient(q) == TRUE

(* Encrypting a value that is no text throws, within a callback whose      *)
(* promise nobody looks at.                                                *)
Encrypts(q) == \A p \in Asking(q) : doc[q].asks[p] # Odd

(* Were one of the values left out, the others would make another value.   *)
SealedOf(g) == IF g = Odd THEN [secret |-> Seal(Odd)] ELSE Sealed(g)

Remembers(d, g) ==
    given' = [given EXCEPT ![d] =
                [p \in Provider |-> IF g[p] \in {Absent, Odd} THEN @[p]
                                    ELSE @[p] \cup {g[p]}]]

Create(q) ==
    /\ Is(q, "creating") /\ Encrypts(q)
    /\ LET g == doc[q].asks
           d == doc[q].on
       IN  /\ row' = [row EXCEPT ![d] =
                        [p \in Provider |-> IF g[p] = Absent THEN Absent
                                            ELSE SealedOf(g[p])]]
           /\ Remembers(d, g)
    /\ Ends(q)
    /\ UNCHANGED raced

(* Mutant: what is kept is encrypted with the rest. *)
AssignedResealing(q) ==
    [p \in Provider |->
        IF p \in Asking(q) THEN SealedOf(doc[q].asks[p])
        ELSE IF doc[q].copy[p] = Absent THEN Absent
        ELSE [doc[q].copy[p] EXCEPT !.secret = SealAgain(@)]]

(* Only what is asked is new; the rest is assigned as it was loaded.       *)
Assigned(q) ==
    [p \in Provider |->
        IF p \in Asking(q) THEN SealedOf(doc[q].asks[p]) ELSE doc[q].copy[p]]

(* Mutant: the columns of all providers are written, as they are assigned. *)
WrittenWhole(q, now, p) == Assigned(q)[p]

(* The columns that differ from what was loaded are written.  A secret     *)
(* that was asked for always does: each encryption draws a vector of its   *)
(* own.  What was there once never goes, so there is a pair to write into. *)
Written(q, now, p) ==
    LET was == doc[q].copy[p]
        new == Assigned(q)[p]
    IN  IF p \notin Asking(q) /\ new = was THEN now
        ELSE IF was = Absent \/ "name" \notin DOMAIN new THEN new
        ELSE [now EXCEPT !.secret = new.secret,
                         !.name = IF new.name # was.name THEN new.name ELSE @]

(* An UPDATE that meets no row is no error. *)
Update(q) ==
    /\ Is(q, "updating") /\ Encrypts(q)
    /\ LET d == doc[q].on
       IN  /\ IF Stored(d)
              THEN /\ row' = [row EXCEPT ![d] =
                                [p \in Provider |-> Written(q, @[p], p)]]
                   /\ raced' = (raced \ {<<d, p>> : p \in Asking(q)})
                        \cup {<<d, p>> : p \in {p \in Asking(q) :
                                  row[d][p] # doc[q].copy[p]}}
              ELSE UNCHANGED <<row, raced>>
           /\ Remembers(d, doc[q].asks)
           /\ Goes(q, [step |-> "ready", on |-> d, copy |-> Assigned(q),
                       mixed |-> doc[q].mixed \ Asking(q)])

(* The rejection nobody handles ends the process, as anything else may.    *)
Stops ==
    /\ doc' = [q \in Request |-> Idle]
    /\ UNCHANGED <<row, history>>

(* A query or a flush fails: the document is over, as its mutations may    *)
(* not be null.  Or it simply is over.                                     *)
Leaves(q) ==
    /\ ~Is(q, "idle")
    /\ Ends(q)
    /\ UNCHANGED <<row, history>>

(* By another request, with the resources. *)
Delete(d) ==
    /\ Stored(d)
    /\ row' = [row EXCEPT ![d] = Gone]
    /\ UNCHANGED <<doc, history>>

Init ==
    /\ row = [d \in Deployment |-> None]
    /\ doc = [q \in Request |-> Idle]
    /\ given = [d \in Deployment |-> [p \in Provider |-> {}]]
    /\ raced = {}

Next ==
    \/ \E q \in Request :
           \/ \E d \in Deployment :
                  \/ \E g \in Inputs : BeginCreate(q, d, g) \/ BeginUpdate(q, d, g)
                  \/ BeginCall(q, d)
           \/ Create(q) \/ Update(q) \/ Call(q) \/ Leaves(q)
    \/ Stops
    \/ \E d \in Deployment : Delete(d)

Spec == Init /\ [][Next]_vars
-----------------------------------------------------------------------------
(* Properties *)

Sent == [Provider -> {Absent} \cup Credential]

Documents ==
    {Idle}
    \cup [step : {"creating"}, on : Deployment, asks : Inputs]
    \cup [step : {"updating"}, on : Deployment, copy : Rows,
          mixed : SUBSET Provider, asks : Inputs]
    \cup [step : {"calling"}, on : Deployment, copy : Rows,
          mixed : SUBSET Provider, sends : Sent]
    \cup [step : {"ready"}, on : Deployment, copy : Rows, mixed : SUBSET Provider]

(* Every secret in the table and in the copies of it is encrypted, and     *)
(* once; those that are sent are not.                                      *)
TypeOK ==
    /\ row \in [Deployment -> Rows \cup {None, Gone}]
    /\ doc \in [Request -> Documents]
    /\ given \in [Deployment -> [Provider -> SUBSET Credential]]
    /\ raced \subseteq Deployment \X Provider

(* What is stored for a provider is what one client gave for it, the       *)
(* secret with the name it belongs to and all of the values, unless the    *)
(* last update of it overlapped another one.                               *)
WholeUnlessRaced ==
    \A d \in Deployment, p \in Provider :
        Stored(d) /\ row[d][p] # Absent /\ <<d, p>> \notin raced =>
            Opened(row[d][p]) \in given[d][p]

(* Services are called with credentials clients gave for the deployment,   *)
(* decrypted, however old the copy and however many mutations of the       *)
(* document came before; but for what overlapping updates had mixed up     *)
(* when it was loaded.                                                     *)
ServicesHearWhatWasGiven ==
    \A q \in Request :
        Is(q, "calling") => \A p \in Provider \ doc[q].mixed :
            doc[q].sends[p] = Absent \/ doc[q].sends[p] \in given[doc[q].on][p]

(* An update changes what is stored for the providers it was asked to      *)
(* change, and nothing of the others, though it assigns them as it had     *)
(* loaded them.                                                            *)
OthersAreKept == [][
    \A d \in Deployment, p \in Provider :
        Stored(d) /\ row'[d] # Gone /\ row'[d][p] # row[d][p] =>
            \E q \in Request :
                Is(q, "updating") /\ doc[q].on = d /\ p \in Asking(q)]_vars

-----------------------------------------------------------------------------
(* The inductive invariant behind them *)

(* A deployment is created once, and nothing else is done about it before. *)
OriginInv ==
    /\ \A q \in Request : ~Is(q, "idle") =>
           (Is(q, "creating") <=> row[doc[q].on] = None)
    /\ \A q, r \in Request :
           Is(q, "creating") /\ Is(r, "creating") /\ doc[q].on = doc[r].on
               => q = r

Copied(q) == doc[q].step \in {"updating", "calling", "ready"}

(* What a copy has for a provider is whole, if the row it was taken from   *)
(* was; and the row has something, too, for it never loses all.            *)
CopyInv ==
    \A q \in Request : Copied(q) => \A p \in Provider :
        doc[q].copy[p] # Absent =>
            /\ p \notin doc[q].mixed =>
                   Opened(doc[q].copy[p]) \in given[doc[q].on][p]
            /\ Stored(doc[q].on) => row[doc[q].on][p] # Absent

SendInv ==
    \A q \in Request : Is(q, "calling") => doc[q].sends = Credentials(doc[q].copy)

IInv == TypeOK /\ OriginInv /\ CopyInv /\ SendInv /\ WholeUnlessRaced

=============================================================================
