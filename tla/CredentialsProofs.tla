-------------------------- MODULE CredentialsProofs --------------------------
(* Credentials, for any number of deployments, providers and requests.     *)
EXTENDS Credentials, TLAPS

Pairs == [secret : Sealing] \cup [name : Name, secret : Sealing]

-----------------------------------------------------------------------------
(* Sealing and opening.                                                    *)
LEMMA SealOpens ==
    ASSUME NEW p \in Provider, NEW g \in Given(p)
    PROVE  /\ Sealed(g) \in StoredFor(p) /\ Sealed(g) # Absent
           /\ Opened(Sealed(g)) = g
           /\ g \in Credential
<1>1. CASE p = "other"
  <2>1. g \in [secret : Secret]  BY <1>1 DEF Given
  <2>2. Sealed(g) = [secret |-> [clear |-> g.secret, layers |-> 1]]
    BY <2>1 DEF Sealed, Seal
  <2>3. Sealed(g) \in [secret : Sealing]  BY <2>1, <2>2 DEF Sealing
  <2>4. Opened(Sealed(g)) = g  BY <2>1, <2>2 DEF Opened, OpenedSecret
  <2> QED  BY <1>1, <2>1, <2>3, <2>4, CredentialTypes DEF StoredFor, Credential
<1>2. CASE p # "other"
  <2>1. g \in [name : Name, secret : Secret]  BY <1>2 DEF Given
  <2>2. Sealed(g) = [name |-> g.name, secret |-> [clear |-> g.secret, layers |-> 1]]
    BY <2>1 DEF Sealed, Seal
  <2>3. Sealed(g) \in [name : Name, secret : Sealing]
    BY <2>1, <2>2 DEF Sealing
  <2>4. Opened(Sealed(g)) = g  BY <2>1, <2>2 DEF Opened, OpenedSecret
  <2> QED  BY <1>2, <2>1, <2>3, <2>4, CredentialTypes DEF StoredFor, Credential
<1> QED  BY <1>1, <1>2

LEMMA Opening ==
    ASSUME NEW p \in Provider, NEW c \in StoredFor(p), c # Absent
    PROVE  Opened(c) \in Credential
<1>1. CASE p = "other"
  <2>1. c \in [secret : Sealing]  BY <1>1 DEF StoredFor
  <2>2. Opened(c) = [secret |-> c.secret.clear]
    BY <2>1 DEF Opened, OpenedSecret, Sealing
  <2> QED  BY <2>1, <2>2 DEF Credential, Sealing
<1>2. CASE p # "other"
  <2>1. c \in [name : Name, secret : Sealing]  BY <1>2 DEF StoredFor
  <2>2. Opened(c) = [name |-> c.name, secret |-> c.secret.clear]
    BY <2>1 DEF Opened, OpenedSecret, Sealing
  <2> QED  BY <2>1, <2>2 DEF Credential, Sealing
<1> QED  BY <1>1, <1>2

LEMMA RowShape ==
    \A r : r \in Rows <=>
        /\ r = [p \in Provider |-> r[p]]
        /\ \A p \in Provider : r[p] \in StoredFor(p)
BY DEF Rows, StoredFor

LEMMA Decrypting ==
    ASSUME NEW copy \in Rows
    PROVE  /\ Credentials(copy) \in Sent
           /\ \A p \in Provider :
                  Credentials(copy)[p] =
                      IF copy[p] = Absent THEN Absent ELSE Opened(copy[p])
BY RowShape, Opening DEF Credentials, Sent

(* What an input asks for a provider, once it is known to be encrypted.    *)
LEMMA Inputting ==
    ASSUME NEW g \in Inputs, NEW p \in Provider, g[p] # Absent, g[p] # Odd
    PROVE  g[p] \in Given(p)
BY CredentialTypes DEF Asked

-----------------------------------------------------------------------------
(* The documents that create or update.                                    *)
LEMMA Shapes ==
    ASSUME TypeOK, NEW q \in Request
    PROVE  /\ Is(q, "idle") <=> doc[q] = Idle
           /\ ~Is(q, "idle") => doc[q].on \in Deployment
           /\ Is(q, "creating") \/ Is(q, "updating") => doc[q].asks \in Inputs
           /\ Copied(q) => doc[q].copy \in Rows /\ doc[q].mixed \in SUBSET Provider
           /\ Is(q, "calling") => doc[q].sends \in Sent
           /\ ~Is(q, "idle") => Is(q, "creating") \/ Copied(q)
<1>1. doc[q] \in Documents  BY DEF TypeOK
<1> QED  BY <1>1 DEF Documents, Idle, Is, Copied
LEMMA AssignedRow ==
    ASSUME TypeOK, NEW q \in Request, Is(q, "updating"), Encrypts(q)
    PROVE  /\ Assigned(q) \in Rows
           /\ \A p \in Asking(q) :
                  /\ p \in Provider
                  /\ doc[q].asks[p] \in Given(p) \ {Absent, Odd}
                  /\ Assigned(q)[p] # Absent
                  /\ Opened(Assigned(q)[p]) = doc[q].asks[p]
           /\ \A p \in Provider \ Asking(q) : Assigned(q)[p] = doc[q].copy[p]
<1>1. doc[q].asks \in Inputs /\ doc[q].copy \in Rows
  BY Shapes DEF Copied, Is
<1>2. ASSUME NEW p \in Asking(q)
      PROVE  /\ p \in Provider /\ doc[q].asks[p] \in Given(p) \ {Absent, Odd}
             /\ Assigned(q)[p] = Sealed(doc[q].asks[p])
  <2>1. p \in Provider /\ doc[q].asks[p] # Absent /\ doc[q].asks[p] # Odd
    BY DEF Encrypts, Asking
  <2>2. doc[q].asks[p] \in Given(p)  BY <1>1, <2>1, Inputting
  <2> QED  BY <2>1, <2>2 DEF Assigned, SealedOf
<1>3. ASSUME NEW p \in Asking(q)
      PROVE  /\ Sealed(doc[q].asks[p]) \in StoredFor(p)
             /\ Sealed(doc[q].asks[p]) # Absent
             /\ Opened(Sealed(doc[q].asks[p])) = doc[q].asks[p]
  BY <1>2, SealOpens
<1>4. \A p \in Provider \ Asking(q) : Assigned(q)[p] = doc[q].copy[p]
  BY DEF Assigned
<1>5. \A p \in Provider : Assigned(q)[p] \in StoredFor(p)
  BY <1>1, <1>2, <1>3, <1>4, RowShape
<1>6. Assigned(q) = [p \in Provider |-> Assigned(q)[p]]  BY DEF Assigned
<1> QED  BY <1>2, <1>3, <1>4, <1>5, <1>6, RowShape

(* An update writes what it was asked, over columns that may have changed. *)
LEMMA WrittenColumns ==
    ASSUME TypeOK, CopyInv, NEW q \in Request, Is(q, "updating"), Encrypts(q),
           Stored(doc[q].on), NEW p \in Provider
    PROVE  LET now == row[doc[q].on][p]
               w == Written(q, now, p)
           IN  /\ w \in StoredFor(p)
               /\ now # Absent => w # Absent
               /\ p \in Asking(q) => w # Absent
               /\ p \notin Asking(q) => w = now
               /\ p \in Asking(q) /\ now = doc[q].copy[p] => w = Assigned(q)[p]
<1> DEFINE now == row[doc[q].on][p]
           was == doc[q].copy[p]
           new == Assigned(q)[p]
           w == Written(q, now, p)
<1>1. doc[q].on \in Deployment /\ doc[q].copy \in Rows
  BY Shapes DEF Is, Copied
<1>2. row[doc[q].on] \in Rows  BY <1>1 DEF TypeOK, Stored
<1>3. now \in StoredFor(p) /\ was \in StoredFor(p)  BY <1>1, <1>2, RowShape
<1>4. was # Absent => now # Absent  BY DEF CopyInv, Copied, Is
<1>5. new \in StoredFor(p) /\ (p \in Asking(q) => new # Absent)
      /\ (p \notin Asking(q) => new = was)
  BY AssignedRow, RowShape
<1>6. CASE p \notin Asking(q)
  <2>1. w = now  BY <1>5, <1>6 DEF Written
  <2> QED  BY <1>3, <1>6, <2>1
<1>7. CASE p \in Asking(q) /\ was = Absent
  <2>1. w = new  BY <1>7 DEF Written
  <2> QED  BY <1>5, <1>7, <2>1
<1>8. CASE p \in Asking(q) /\ was # Absent /\ p = "other"
  <2>1. new \in [secret : Sealing]  BY <1>5, <1>8 DEF StoredFor
  <2>2. w = new  BY <1>8, <2>1 DEF Written
  <2> QED  BY <1>5, <1>8, <2>2
<1>9. CASE p \in Asking(q) /\ was # Absent /\ p # "other"
  <2> DEFINE Full == [name : Name, secret : Sealing]
  <2>1. new \in Full /\ was \in Full /\ now \in Full
    BY <1>3, <1>4, <1>5, <1>9 DEF StoredFor
  <2>2. w = [now EXCEPT !.secret = new.secret,
                        !.name = IF new.name # was.name THEN new.name ELSE @]
    BY <1>9, <2>1 DEF Written
  <2>3. w = [name |-> IF new.name # was.name THEN new.name ELSE now.name,
             secret |-> new.secret]
    BY <2>1, <2>2
  <2>4. w \in Full  BY <2>1, <2>3
  <2>5. now = was => w = new  BY <2>1, <2>3
  <2> QED  BY <1>9, <2>4, <2>5, CredentialTypes DEF StoredFor
<1> QED  BY <1>6, <1>7, <1>8, <1>9

LEMMA CreatedColumns ==
    ASSUME TypeOK, NEW q \in Request, Is(q, "creating"), Encrypts(q)
    PROVE  LET r == [p \in Provider |-> IF doc[q].asks[p] = Absent THEN Absent
                                        ELSE SealedOf(doc[q].asks[p])]
           IN  /\ r \in Rows
               /\ \A p \in Provider : r[p] # Absent =>
                      /\ doc[q].asks[p] \in Given(p) \ {Absent, Odd}
                      /\ Opened(r[p]) = doc[q].asks[p]
<1> DEFINE r == [p \in Provider |-> IF doc[q].asks[p] = Absent THEN Absent
                                    ELSE SealedOf(doc[q].asks[p])]
<1>1. doc[q].asks \in Inputs  BY Shapes
<1>2. ASSUME NEW p \in Provider, doc[q].asks[p] # Absent
      PROVE  /\ doc[q].asks[p] \in Given(p) \ {Absent, Odd}
             /\ r[p] \in StoredFor(p) /\ Opened(r[p]) = doc[q].asks[p]
  <2>1. doc[q].asks[p] # Odd  BY <1>2 DEF Encrypts, Asking
  <2>2. doc[q].asks[p] \in Given(p)  BY <1>1, <1>2, <2>1, Inputting
  <2>3. r[p] = Sealed(doc[q].asks[p])  BY <1>2, <2>1 DEF SealedOf
  <2> QED  BY <1>2, <2>1, <2>2, <2>3, SealOpens
<1>3. \A p \in Provider : doc[q].asks[p] = Absent =>
          r[p] = Absent /\ r[p] \in StoredFor(p)
  BY DEF StoredFor
<1>4. r = [p \in Provider |-> r[p]]  OBVIOUS
<1>5. \A p \in Provider : r[p] \in StoredFor(p)  BY <1>2, <1>3
<1>6. r \in Rows  BY <1>4, <1>5, RowShape
<1> QED  BY <1>2, <1>3, <1>6

(* What is remembered only grows.                                          *)
LEMMA Remembering ==
    ASSUME TypeOK, NEW d \in Deployment, NEW g \in Inputs, Remembers(d, g),
           \A p \in Provider : g[p] # Odd
    PROVE  /\ given' \in [Deployment -> [Provider -> SUBSET Credential]]
           /\ \A e \in Deployment, p \in Provider : given[e][p] \subseteq given'[e][p]
           /\ \A p \in Provider : g[p] # Absent => g[p] \in given'[d][p]
<1>1. \A p \in Provider : g[p] # Absent => g[p] \in Credential
  <2> SUFFICES ASSUME NEW p \in Provider, g[p] # Absent
               PROVE  g[p] \in Credential
    OBVIOUS
  <2>1. g[p] \in Given(p)  BY Inputting
  <2> QED  BY <2>1, SealOpens
<1>2. given' = [given EXCEPT ![d] =
                 [p \in Provider |-> IF g[p] \in {Absent, Odd} THEN given[d][p]
                                     ELSE given[d][p] \cup {g[p]}]]
  BY DEF Remembers, TypeOK
<1>3. given \in [Deployment -> [Provider -> SUBSET Credential]]  BY DEF TypeOK
<1>4. \A e \in Deployment : e # d => given'[e] = given[e]  BY <1>2, <1>3
<1>5. given'[d] = [p \in Provider |-> IF g[p] \in {Absent, Odd} THEN given[d][p]
                                      ELSE given[d][p] \cup {g[p]}]
  BY <1>2, <1>3
<1> QED  BY <1>1, <1>2, <1>3, <1>4, <1>5
(* A document that goes on uses the copy it has, another takes the row.    *)
LEMMA Copying ==
    ASSUME TypeOK, CopyInv, WholeUnlessRaced, NEW q \in Request,
           NEW d \in Deployment, Loads(q, d)
    PROVE  /\ row[d] # None \/ Is(q, "ready")
           /\ Copy(q, d) \in Rows /\ Mixed(q, d) \in SUBSET Provider
           /\ \A p \in Provider : Copy(q, d)[p] # Absent =>
                  /\ p \notin Mixed(q, d) => Opened(Copy(q, d)[p]) \in given[d][p]
                  /\ Stored(d) => row[d][p] # Absent
<1>1. CASE Is(q, "ready")
  <2>1. doc[q].on = d  BY <1>1 DEF Loads, Is
  <2>2. doc[q].copy \in Rows /\ doc[q].mixed \in SUBSET Provider
    BY <1>1, Shapes DEF Copied, Is
  <2> QED  BY <1>1, <2>1, <2>2 DEF Copy, Mixed, CopyInv, Copied, Is
<1>2. CASE ~Is(q, "ready")
  <2>1. Stored(d)  BY <1>2 DEF Loads
  <2>2. row[d] \in Rows  BY <2>1 DEF TypeOK, Stored
  <2> QED  BY <1>2, <2>1, <2>2 DEF Copy, Mixed, WholeUnlessRaced, Stored
<1> QED  BY <1>1, <1>2

-----------------------------------------------------------------------------
(* The steps.                                                              *)

LEMMA CreateBegins ==
    ASSUME IInv, NEW q \in Request, NEW d \in Deployment, NEW g \in Inputs,
           BeginCreate(q, d, g)
    PROVE  IInv'
<1> USE DEF IInv
<1> DEFINE r == [step |-> "creating", on |-> d, asks |-> g]
<1>1. doc' = [doc EXCEPT ![q] = r] /\ UNCHANGED <<row, given, raced>>
  BY DEF BeginCreate, Goes, history
<1>2. doc'[q] = r /\ \A o \in Request \ {q} : doc'[o] = doc[o]
  BY <1>1 DEF TypeOK
<1>3. r \in Documents  BY DEF Documents
<1>4. TypeOK'  BY <1>1, <1>3 DEF TypeOK
<1>5. OriginInv'
  BY <1>1, <1>2 DEF OriginInv, BeginCreate, Concerns, Is
<1>6. CopyInv' /\ SendInv'
  BY <1>1, <1>2 DEF CopyInv, SendInv, Copied, Is, Stored
<1>7. WholeUnlessRaced'  BY <1>1 DEF WholeUnlessRaced, Stored
<1> QED  BY <1>4, <1>5, <1>6, <1>7

(* Another field of a document, or its first one.                          *)
LEMMA FieldBegins ==
    ASSUME IInv, NEW q \in Request, NEW d \in Deployment,
           \/ \E g \in Inputs : BeginUpdate(q, d, g)
           \/ BeginCall(q, d)
    PROVE  IInv'
<1> USE DEF IInv
<1>1. Loads(q, d) /\ UNCHANGED <<row, given, raced>>
  BY DEF BeginUpdate, BeginCall, history
<1>2. /\ row[d] # None
      /\ Copy(q, d) \in Rows /\ Mixed(q, d) \in SUBSET Provider
      /\ \A p \in Provider : Copy(q, d)[p] # Absent =>
             /\ p \notin Mixed(q, d) => Opened(Copy(q, d)[p]) \in given[d][p]
             /\ Stored(d) => row[d][p] # Absent
  BY <1>1, Copying DEF OriginInv, Loads, Is
<1>3. PICK r \in Documents :
          /\ doc' = [doc EXCEPT ![q] = r]
          /\ r.step \in {"updating", "calling"} /\ r.on = d
          /\ r.copy = Copy(q, d) /\ r.mixed = Mixed(q, d)
          /\ r.step = "calling" => r.sends = Credentials(r.copy)
  <2>1. CASE BeginCall(q, d)
    <3> DEFINE r == [step |-> "calling", on |-> d, copy |-> Copy(q, d),
                     mixed |-> Mixed(q, d), sends |-> Credentials(Copy(q, d))]
    <3>1. r \in Documents  BY <1>2, Decrypting DEF Documents
    <3> QED  BY <2>1, <3>1 DEF BeginCall, Goes
  <2>2. ASSUME NEW g \in Inputs, BeginUpdate(q, d, g)
        PROVE  \E r \in Documents :
                 /\ doc' = [doc EXCEPT ![q] = r]
                 /\ r.step \in {"updating", "calling"} /\ r.on = d
                 /\ r.copy = Copy(q, d) /\ r.mixed = Mixed(q, d)
                 /\ r.step = "calling" => r.sends = Credentials(r.copy)
    <3> DEFINE r == [step |-> "updating", on |-> d, copy |-> Copy(q, d),
                     mixed |-> Mixed(q, d), asks |-> g]
    <3>1. r \in Documents  BY <1>2 DEF Documents
    <3> QED  BY <2>2, <3>1 DEF BeginUpdate, Goes
  <2> QED  BY <2>1, <2>2
<1>4. doc'[q] = r /\ \A o \in Request \ {q} : doc'[o] = doc[o]
  BY <1>3 DEF TypeOK
<1>5. TypeOK'  BY <1>1, <1>3 DEF TypeOK
<1>6. OriginInv'  BY <1>1, <1>2, <1>3, <1>4 DEF OriginInv, Is
<1>7. CopyInv'  BY <1>1, <1>2, <1>3, <1>4 DEF CopyInv, Copied, Stored
<1>8. SendInv'  BY <1>3, <1>4 DEF SendInv, Is
<1>9. WholeUnlessRaced'  BY <1>1 DEF WholeUnlessRaced, Stored
<1> QED  BY <1>5, <1>6, <1>7, <1>8, <1>9

(* A call has been made, or documents are over.                            *)
LEMMA FieldEnds ==
    ASSUME IInv, (\E q \in Request : Call(q) \/ Leaves(q)) \/ Stops
    PROVE  IInv'
<1> USE DEF IInv
<1>1. UNCHANGED <<row, given, raced>>  BY DEF Call, Leaves, Stops, history
<1>2. \A o \in Request :
          \/ doc'[o] \in {doc[o], Idle}
          \/ /\ Is(o, "calling") /\ doc'[o] \in Documents
             /\ doc'[o] = [step |-> "ready", on |-> doc[o].on,
                           copy |-> doc[o].copy, mixed |-> doc[o].mixed]
  <2>1. ASSUME NEW q \in Request, Call(q),  NEW o \in Request
        PROVE  \/ doc'[o] = doc[o]
               \/ /\ Is(o, "calling") /\ doc'[o] \in Documents
                  /\ doc'[o] = [step |-> "ready", on |-> doc[o].on,
                                copy |-> doc[o].copy, mixed |-> doc[o].mixed]
    <3>1. [step |-> "ready", on |-> doc[q].on, copy |-> doc[q].copy,
           mixed |-> doc[q].mixed] \in Documents
      BY <2>1, Shapes DEF Call, Copied, Is, Documents
    <3> QED  BY <2>1, <3>1 DEF Call, Goes, TypeOK
  <2>2. ASSUME NEW q \in Request, Leaves(q), NEW o \in Request
        PROVE  doc'[o] \in {doc[o], Idle}
    BY <2>2 DEF Leaves, Ends, Goes, TypeOK
  <2>3. ASSUME Stops, NEW o \in Request PROVE doc'[o] = Idle
    BY <2>3 DEF Stops
  <2> QED  BY <2>1, <2>2, <2>3
<1>3. doc' = [o \in Request |-> doc'[o]]
  BY DEF Call, Leaves, Stops, Ends, Goes, TypeOK
<1>4. \A o \in Request : doc'[o] \in Documents
  BY <1>2 DEF TypeOK, Documents
<1>5. TypeOK'  BY <1>1, <1>3, <1>4 DEF TypeOK
<1>6. \A o \in Request : ~Is(o, "idle")' =>
          /\ ~Is(o, "idle") /\ doc'[o].on = doc[o].on
          /\ Is(o, "creating")' <=> Is(o, "creating")
          /\ Copied(o)' => /\ Copied(o) /\ doc'[o].copy = doc[o].copy
                           /\ doc'[o].mixed = doc[o].mixed
          /\ Is(o, "calling")' => doc'[o] = doc[o]
  <2> SUFFICES ASSUME NEW o \in Request, doc'[o].step # "idle"
               PROVE  /\ ~Is(o, "idle") /\ doc'[o].on = doc[o].on
                      /\ doc'[o].step = "creating" <=> Is(o, "creating")
                      /\ doc'[o].step \in {"updating", "calling", "ready"} =>
                            /\ Copied(o) /\ doc'[o].copy = doc[o].copy
                            /\ doc'[o].mixed = doc[o].mixed
                      /\ doc'[o].step = "calling" => doc'[o] = doc[o]
    BY DEF Is, Copied
  <2>1. CASE doc'[o] = doc[o]  BY <2>1 DEF Is, Copied
  <2>2. CASE doc'[o] = Idle  BY <2>2 DEF Idle
  <2>3. CASE /\ Is(o, "calling")
             /\ doc'[o] = [step |-> "ready", on |-> doc[o].on,
                           copy |-> doc[o].copy, mixed |-> doc[o].mixed]
    <3>1. /\ doc'[o].step = "ready" /\ doc'[o].on = doc[o].on
          /\ doc'[o].copy = doc[o].copy /\ doc'[o].mixed = doc[o].mixed
      BY <2>3
    <3> QED  BY <2>3, <3>1 DEF Is, Copied
  <2> QED  BY <1>2, <2>1, <2>2, <2>3
<1>7. OriginInv'
  <2>1. \A o \in Request : ~Is(o, "idle")' =>
            (Is(o, "creating")' <=> row'[doc'[o].on] = None)
    BY <1>1, <1>6 DEF OriginInv
  <2>2. \A o \in Request : Is(o, "creating")' => ~Is(o, "idle")'
    BY DEF Is
  <2>3. ASSUME NEW q \in Request, NEW o \in Request, Is(q, "creating")',
               Is(o, "creating")', doc'[q].on = doc'[o].on
        PROVE  q = o
    BY <1>6, <2>2, <2>3 DEF OriginInv
  <2> QED  BY <2>1, <2>3 DEF OriginInv, Is
<1>8. CopyInv'
  <2>1. \A o \in Request : Copied(o)' => ~Is(o, "idle")'
    BY DEF Copied, Is
  <2> QED  BY <1>1, <1>6, <2>1 DEF CopyInv, Copied, Stored
<1>9. SendInv'
  <2>1. \A o \in Request : Is(o, "calling")' => ~Is(o, "idle")'
    BY DEF Is
  <2> QED  BY <1>6, <2>1 DEF SendInv, Is
<1>10. WholeUnlessRaced'  BY <1>1 DEF WholeUnlessRaced, Stored
<1> QED  BY <1>5, <1>7, <1>8, <1>9, <1>10

(* The deployment is stored, with everything the client gave.              *)
LEMMA CreateStep ==
    ASSUME IInv, NEW q \in Request, Create(q)
    PROVE  IInv'
<1> USE DEF IInv
<1> DEFINE d == doc[q].on
           g == doc[q].asks
           r == [p \in Provider |-> IF g[p] = Absent THEN Absent
                                    ELSE SealedOf(g[p])]
<1>1. Is(q, "creating") /\ Encrypts(q) /\ d \in Deployment /\ g \in Inputs
  BY Shapes DEF Create, Is
<1>2. /\ row' = [row EXCEPT ![d] = r] /\ Remembers(d, g)
      /\ doc' = [doc EXCEPT ![q] = Idle] /\ raced' = raced
  BY DEF Create, Ends, Goes
<1>3. row[d] = None  BY <1>1 DEF OriginInv, Is
<1>4. /\ r \in Rows
      /\ \A p \in Provider : r[p] # Absent =>
             g[p] \notin {Absent, Odd} /\ Opened(r[p]) = g[p]
  BY <1>1, CreatedColumns
<1>5. \A p \in Provider : g[p] # Odd
  BY <1>1, CredentialTypes DEF Encrypts, Asking
<1>6. /\ given' \in [Deployment -> [Provider -> SUBSET Credential]]
      /\ \A e \in Deployment, p \in Provider : given[e][p] \subseteq given'[e][p]
      /\ \A p \in Provider : g[p] # Absent => g[p] \in given'[d][p]
  BY <1>1, <1>2, <1>5, Remembering
<1>7. row'[d] = r /\ \A e \in Deployment \ {d} : row'[e] = row[e]
  BY <1>1, <1>2 DEF TypeOK
<1>8. doc'[q] = Idle /\ \A o \in Request \ {q} : doc'[o] = doc[o]
  BY <1>2 DEF TypeOK
<1>9. doc'[q].step = "idle"  BY <1>8 DEF Idle
<1>10. \A o \in Request \ {q} : ~Is(o, "idle") =>
           /\ doc[o].on \in Deployment /\ doc[o].on # d
           /\ row'[doc[o].on] = row[doc[o].on]
  <2> SUFFICES ASSUME NEW o \in Request \ {q}, ~Is(o, "idle")
               PROVE  doc[o].on \in Deployment /\ doc[o].on # d
    BY <1>7
  <2>1. doc[o].on \in Deployment  BY Shapes
  <2>2. doc[o].on # d  BY <1>1, <1>3 DEF OriginInv
  <2> QED  BY <2>1, <2>2
<1>11. TypeOK'
  <2>1. Idle \in Documents  BY DEF Documents
  <2>2. row' \in [Deployment -> Rows \cup {None, Gone}]
    BY <1>2, <1>4 DEF TypeOK
  <2>3. doc' \in [Request -> Documents]  BY <1>2, <2>1 DEF TypeOK
  <2> QED  BY <1>2, <1>6, <2>2, <2>3 DEF TypeOK
<1>12. OriginInv'
  BY <1>8, <1>9, <1>10 DEF OriginInv, Is
<1>13. CopyInv'
  <2> SUFFICES ASSUME NEW o \in Request, Copied(o)', NEW p \in Provider,
                      doc'[o].copy[p] # Absent
               PROVE  /\ p \notin doc'[o].mixed =>
                             Opened(doc'[o].copy[p]) \in given'[doc'[o].on][p]
                      /\ row'[doc'[o].on] \notin {None, Gone} =>
                             row'[doc'[o].on][p] # Absent
    BY DEF CopyInv, Copied, Stored
  <2>1. o # q /\ doc'[o] = doc[o]  BY <1>8, <1>9 DEF Copied
  <2>2. Copied(o) /\ ~Is(o, "idle")  BY <2>1 DEF Copied, Is
  <2>3. doc[o].on \in Deployment /\ row'[doc[o].on] = row[doc[o].on]
    BY <1>10, <2>1, <2>2
  <2> QED  BY <1>6, <2>1, <2>2, <2>3 DEF CopyInv, Copied, Stored
<1>14. SendInv'
  <2> SUFFICES ASSUME NEW o \in Request, Is(o, "calling")'
               PROVE  doc'[o].sends = Credentials(doc'[o].copy)
    BY DEF SendInv
  <2>1. doc'[o] = doc[o]  BY <1>8, <1>9 DEF Is
  <2> QED  BY <2>1 DEF SendInv, Is
<1>15. WholeUnlessRaced'
  <2> SUFFICES ASSUME NEW e \in Deployment, NEW p \in Provider, Stored(e)',
                      row'[e][p] # Absent, <<e, p>> \notin raced
               PROVE  Opened(row'[e][p]) \in given'[e][p]
    BY <1>2 DEF WholeUnlessRaced
  <2>1. CASE e = d  BY <1>4, <1>6, <1>7, <2>1
  <2>2. CASE e # d
    BY <1>6, <1>7, <2>2 DEF WholeUnlessRaced, Stored
  <2> QED  BY <2>1, <2>2
<1> QED  BY <1>11, <1>12, <1>13, <1>14, <1>15

(* The deployment is gone, whoever has a copy of it.                       *)
LEMMA DeleteStep ==
    ASSUME IInv, NEW d \in Deployment, Delete(d)
    PROVE  IInv'
<1> USE DEF IInv
<1>1. Stored(d) /\ row' = [row EXCEPT ![d] = Gone] /\ UNCHANGED <<doc, given, raced>>
  BY DEF Delete, history
<1>2. row'[d] = Gone /\ \A e \in Deployment \ {d} : row'[e] = row[e]
  BY <1>1 DEF TypeOK
<1>3. TypeOK'  BY <1>1 DEF TypeOK
<1>4. \A e \in Deployment : row'[e] = None <=> row[e] = None
  BY <1>1, <1>2, CredentialTypes DEF Stored
<1>5. \A e \in Deployment : Stored(e)' => Stored(e) /\ row'[e] = row[e]
  BY <1>2 DEF Stored
<1>6. OriginInv'
  <2>1. \A o \in Request : ~Is(o, "idle") => doc[o].on \in Deployment
    BY Shapes
  <2> QED  BY <1>1, <1>4, <2>1 DEF OriginInv, Is
<1>7. CopyInv'
  <2>1. \A o \in Request : Copied(o) => doc[o].on \in Deployment
    BY Shapes DEF Copied, Is
  <2> QED  BY <1>1, <1>5, <2>1 DEF CopyInv, Copied
<1>8. SendInv'  BY <1>1 DEF SendInv, Is
<1>9. WholeUnlessRaced'  BY <1>1, <1>5 DEF WholeUnlessRaced
<1> QED  BY <1>3, <1>6, <1>7, <1>8, <1>9

(* What an update does to the table: nothing goes, and what it was asked   *)
(* for is what is there, unless another update came in between.            *)
LEMMA Updating ==
    ASSUME IInv, NEW q \in Request, Update(q)
    PROVE  /\ row' \in [Deployment -> Rows \cup {None, Gone}]
           /\ raced' \subseteq Deployment \X Provider
           /\ \A e \in Deployment :
                  /\ row'[e] = None <=> row[e] = None
                  /\ row'[e] \notin {None, Gone} => row[e] \notin {None, Gone}
                  /\ e # doc[q].on => row'[e] = row[e]
           /\ \A e \in Deployment, p \in Provider :
                  /\ row[e] \notin {None, Gone} /\ row[e][p] # Absent =>
                         row'[e][p] # Absent
                  /\ e # doc[q].on \/ p \notin Asking(q) =>
                         (<<e, p>> \notin raced' => <<e, p>> \notin raced)
           /\ row[doc[q].on] \notin {None, Gone} => \A p \in Provider :
                  /\ p \notin Asking(q) => row'[doc[q].on][p] = row[doc[q].on][p]
                  /\ p \in Asking(q) =>
                         /\ row'[doc[q].on][p] # Absent
                         /\ <<doc[q].on, p>> \notin raced' =>
                                row'[doc[q].on][p] = Assigned(q)[p]
<1> USE DEF IInv
<1> DEFINE d == doc[q].on
<1>1. Is(q, "updating") /\ Encrypts(q) /\ d \in Deployment
  BY Shapes DEF Update, Is
<1>2. row \in [Deployment -> Rows \cup {None, Gone}]
      /\ raced \subseteq Deployment \X Provider
  BY DEF TypeOK
<1>3. CASE ~Stored(d)
  <2>1. UNCHANGED <<row, raced>>  BY <1>3 DEF Update
  <2> QED  BY <1>2, <1>3, <2>1 DEF Stored
<1>4. CASE Stored(d)
  <2> DEFINE w == [p \in Provider |-> Written(q, row[d][p], p)]
  <2>1. /\ row' = [row EXCEPT ![d] = w]
        /\ raced' = (raced \ {<<d, p>> : p \in Asking(q)})
              \cup {<<d, p>> : p \in {p \in Asking(q) :
                        row[d][p] # doc[q].copy[p]}}
    BY <1>1, <1>2, <1>4 DEF Update
  <2>2. \A p \in Provider :
            /\ w[p] \in StoredFor(p)
            /\ row[d][p] # Absent => w[p] # Absent
            /\ p \in Asking(q) => w[p] # Absent
            /\ p \notin Asking(q) => w[p] = row[d][p]
            /\ p \in Asking(q) /\ row[d][p] = doc[q].copy[p] =>
                   w[p] = Assigned(q)[p]
    BY <1>1, <1>4, WrittenColumns
  <2>3. w = [p \in Provider |-> w[p]]  OBVIOUS
  <2>4. w \in Rows
    <3> HIDE DEF w
    <3> QED  BY <2>2, <2>3, RowShape
  <2>5. row'[d] = w /\ \A e \in Deployment \ {d} : row'[e] = row[e]
    BY <1>1, <1>2, <2>1
  <2>6. w \notin {None, Gone}  BY <2>4, CredentialTypes
  <2> HIDE DEF w
  <2>7. row' \in [Deployment -> Rows \cup {None, Gone}]
    BY <1>2, <2>1, <2>4
  <2>8. raced' \subseteq Deployment \X Provider
    BY <1>1, <1>2, <2>1 DEF Asking
  <2>9. \A e \in Deployment, p \in Provider :
            e # d \/ p \notin Asking(q) =>
                (<<e, p>> \notin raced' => <<e, p>> \notin raced)
    BY <2>1
  <2>10. \A p \in Asking(q) : <<d, p>> \notin raced' => row[d][p] = doc[q].copy[p]
    BY <2>1
  <2> QED  BY <1>1, <1>4, <2>2, <2>5, <2>6, <2>7, <2>8, <2>9, <2>10 DEF Stored
<1> QED  BY <1>3, <1>4

LEMMA UpdateStep ==
    ASSUME IInv, NEW q \in Request, Update(q)
    PROVE  IInv'
<1> USE DEF IInv
<1> DEFINE d == doc[q].on
           g == doc[q].asks
           r == [step |-> "ready", on |-> d, copy |-> Assigned(q),
                 mixed |-> doc[q].mixed \ Asking(q)]
<1>1. /\ Is(q, "updating") /\ Copied(q) /\ Encrypts(q)
      /\ d \in Deployment /\ g \in Inputs /\ doc[q].mixed \in SUBSET Provider
  BY Shapes DEF Update, Is, Copied
<1>2. Remembers(d, g) /\ doc' = [doc EXCEPT ![q] = r]
  BY DEF Update, Goes
<1>3. /\ Assigned(q) \in Rows
      /\ \A p \in Asking(q) : p \in Provider /\ Opened(Assigned(q)[p]) = g[p]
      /\ \A p \in Provider \ Asking(q) : Assigned(q)[p] = doc[q].copy[p]
  BY <1>1, AssignedRow
<1>4. \A p \in Provider : g[p] # Odd
  BY <1>1, CredentialTypes DEF Encrypts, Asking
<1>5. /\ given' \in [Deployment -> [Provider -> SUBSET Credential]]
      /\ \A e \in Deployment, p \in Provider : given[e][p] \subseteq given'[e][p]
      /\ \A p \in Provider : g[p] # Absent => g[p] \in given'[d][p]
  BY <1>1, <1>2, <1>4, Remembering
<1>6. \A p \in Asking(q) : p \in Provider /\ Opened(Assigned(q)[p]) \in given'[d][p]
  BY <1>3, <1>5 DEF Asking
<1>7. doc'[q] = r /\ \A o \in Request \ {q} : doc'[o] = doc[o]
  BY <1>2 DEF TypeOK
<1>8. TypeOK'
  <2>1. r \in Documents  BY <1>1, <1>3 DEF Documents
  <2>2. doc' \in [Request -> Documents]  BY <1>2, <2>1 DEF TypeOK
  <2> QED  BY <1>5, <2>2, Updating DEF TypeOK
<1>9. OriginInv'
  <2>1. \A e \in Deployment : row'[e] = None <=> row[e] = None  BY Updating
  <2>2. \A o \in Request : ~Is(o, "idle") => doc[o].on \in Deployment  BY Shapes
  <2>3. \A o \in Request :
            /\ doc'[o].step = "idle" <=> Is(o, "idle")
            /\ doc'[o].step = "creating" <=> Is(o, "creating")
            /\ ~Is(o, "idle") => doc'[o].on = doc[o].on
    BY <1>1, <1>7 DEF Is
  <2>4. \A o \in Request : Is(o, "creating") => ~Is(o, "idle")  BY DEF Is
  <2> QED  BY <2>1, <2>2, <2>3, <2>4 DEF OriginInv, Is
<1>10. CopyInv'
  <2> SUFFICES ASSUME NEW o \in Request,
                      doc'[o].step \in {"updating", "calling", "ready"},
                      NEW p \in Provider, doc'[o].copy[p] # Absent
               PROVE  /\ p \notin doc'[o].mixed =>
                             Opened(doc'[o].copy[p]) \in given'[doc'[o].on][p]
                      /\ row'[doc'[o].on] \notin {None, Gone} =>
                             row'[doc'[o].on][p] # Absent
    BY DEF CopyInv, Copied, Stored
  <2>1. CASE o # q
    <3>1. doc'[o] = doc[o] /\ Copied(o)  BY <1>7, <2>1 DEF Copied
    <3>2. doc[o].on \in Deployment  BY <3>1, Shapes DEF Copied, Is
    <3>3. /\ p \notin doc[o].mixed => Opened(doc[o].copy[p]) \in given[doc[o].on][p]
          /\ row[doc[o].on] \notin {None, Gone} => row[doc[o].on][p] # Absent
      BY <3>1 DEF CopyInv, Copied, Stored
    <3>4. row'[doc[o].on] \notin {None, Gone} => row'[doc[o].on][p] # Absent
      BY <3>2, <3>3, Updating
    <3> QED  BY <1>5, <3>1, <3>2, <3>3, <3>4
  <2>2. CASE o = q /\ p \in Asking(q)
    <3>1. doc'[o] = r  BY <1>7, <2>2
    <3>2. row'[d] \notin {None, Gone} => row'[d][p] # Absent
      BY <1>1, <2>2, Updating
    <3> QED  BY <1>6, <2>2, <3>1, <3>2
  <2>3. CASE o = q /\ p \notin Asking(q)
    <3>1. doc'[o] = r  BY <1>7, <2>3
    <3>2. Assigned(q)[p] = doc[q].copy[p]  BY <1>3, <2>3
    <3>3. /\ p \notin doc[q].mixed => Opened(doc[q].copy[p]) \in given[d][p]
          /\ row[d] \notin {None, Gone} => row[d][p] # Absent
      BY <1>1, <3>1, <3>2 DEF CopyInv, Stored
    <3>4. row'[d] \notin {None, Gone} => row'[d][p] # Absent
      BY <1>1, <3>3, Updating
    <3> QED  BY <1>1, <1>5, <2>3, <3>1, <3>2, <3>3, <3>4
  <2> QED  BY <2>1, <2>2, <2>3
<1>11. SendInv'
  <2> SUFFICES ASSUME NEW o \in Request, doc'[o].step = "calling"
               PROVE  doc'[o].sends = Credentials(doc'[o].copy)
    BY DEF SendInv, Is
  <2>1. doc'[o] = doc[o]  BY <1>7
  <2> QED  BY <2>1 DEF SendInv, Is
<1>12. WholeUnlessRaced'
  <2> SUFFICES ASSUME NEW e \in Deployment, NEW p \in Provider,
                      row'[e] \notin {None, Gone}, row'[e][p] # Absent,
                      <<e, p>> \notin raced'
               PROVE  Opened(row'[e][p]) \in given'[e][p]
    BY DEF WholeUnlessRaced, Stored
  <2>1. row[e] \notin {None, Gone}  BY Updating
  <2>2. CASE e # d
    <3>1. row'[e] = row[e] /\ <<e, p>> \notin raced  BY <2>2, Updating
    <3> QED  BY <1>5, <2>1, <3>1 DEF WholeUnlessRaced, Stored
  <2>3. CASE e = d /\ p \in Asking(q)
    <3>1. row'[e][p] = Assigned(q)[p]  BY <2>1, <2>3, Updating
    <3> QED  BY <1>6, <2>3, <3>1
  <2>4. CASE e = d /\ p \notin Asking(q)
    <3>1. row'[e][p] = row[e][p]  BY <2>1, <2>4, Updating
    <3>2. <<e, p>> \notin raced  BY <2>4, Updating
    <3>3. Opened(row[e][p]) \in given[e][p]
      BY <2>1, <3>1, <3>2 DEF WholeUnlessRaced, Stored
    <3> QED  BY <1>5, <3>1, <3>3
  <2> QED  BY <2>2, <2>3, <2>4
<1> QED  BY <1>8, <1>9, <1>10, <1>11, <1>12

-----------------------------------------------------------------------------
LEMMA InitHolds == Init => IInv
<1> SUFFICES ASSUME Init PROVE IInv
  OBVIOUS
<1>1. Idle \in Documents  BY DEF Documents
<1>2. TypeOK  BY <1>1 DEF Init, TypeOK
<1>3. OriginInv /\ CopyInv /\ SendInv
  BY DEF Init, OriginInv, CopyInv, SendInv, Copied, Is, Idle
<1>4. WholeUnlessRaced  BY DEF Init, WholeUnlessRaced, Stored
<1> QED  BY <1>2, <1>3, <1>4 DEF IInv

LEMMA StepHolds == IInv /\ [Next]_vars => IInv'
<1> SUFFICES ASSUME IInv, [Next]_vars PROVE IInv'
  OBVIOUS
<1>1. CASE UNCHANGED vars
  BY <1>1 DEF vars, history, IInv, TypeOK, OriginInv, CopyInv, SendInv,
              WholeUnlessRaced, Stored, Copied, Is
<1>2. CASE Next
  <2>1. ASSUME NEW q \in Request, NEW d \in Deployment, NEW g \in Inputs,
               BeginCreate(q, d, g)
        PROVE  IInv'
    BY <2>1, CreateBegins
  <2>2. ASSUME NEW q \in Request, NEW d \in Deployment,
               (\E g \in Inputs : BeginUpdate(q, d, g)) \/ BeginCall(q, d)
        PROVE  IInv'
    BY <2>2, FieldBegins
  <2>3. ASSUME NEW q \in Request, Create(q) PROVE IInv'  BY <2>3, CreateStep
  <2>4. ASSUME NEW q \in Request, Update(q) PROVE IInv'  BY <2>4, UpdateStep
  <2>5. CASE (\E q \in Request : Call(q) \/ Leaves(q)) \/ Stops
    BY <2>5, FieldEnds
  <2>6. ASSUME NEW d \in Deployment, Delete(d) PROVE IInv'
    BY <2>6, DeleteStep
  <2> QED  BY <1>2, <2>1, <2>2, <2>3, <2>4, <2>5, <2>6 DEF Next
<1> QED  BY <1>1, <1>2

(* All of the invariant: a deployment is created once, copies have what    *)
(* their rows had or were given, and what is sent is the copy, opened.     *)
THEOREM Inductive == Spec => []IInv
BY InitHolds, StepHolds, PTL DEF Spec

(* Secrets are encrypted once wherever they are kept, and clear where they *)
(* are sent.                                                               *)
THEOREM TypesHold == Spec => []TypeOK
<1>1. IInv => TypeOK  BY DEF IInv
<1> QED  BY <1>1, Inductive, PTL

(* A stored secret belongs to the name it is stored with, but for updates  *)
(* that overlapped.                                                        *)
THEOREM PairsBelongTogether == Spec => []WholeUnlessRaced
<1>1. IInv => WholeUnlessRaced  BY DEF IInv
<1> QED  BY <1>1, Inductive, PTL

(* Services hear the credentials clients gave, decrypted.                  *)
THEOREM ServicesHear == Spec => []ServicesHearWhatWasGiven
<1>1. IInv => ServicesHearWhatWasGiven
  <2> SUFFICES ASSUME IInv, NEW q \in Request, Is(q, "calling"),
                      NEW p \in Provider \ doc[q].mixed
               PROVE  \/ doc[q].sends[p] = Absent
                      \/ doc[q].sends[p] \in given[doc[q].on][p]
    BY DEF ServicesHearWhatWasGiven
  <2>1. doc[q].sends[p] = IF doc[q].copy[p] = Absent THEN Absent
                          ELSE Opened(doc[q].copy[p])
    BY Shapes, Decrypting DEF IInv, SendInv, Copied, Is
  <2>2. doc[q].copy[p] # Absent => Opened(doc[q].copy[p]) \in given[doc[q].on][p]
    BY DEF IInv, CopyInv, Copied, Is
  <2> QED  BY <2>1, <2>2
<1> QED  BY <1>1, Inductive, PTL

(* An update leaves the other providers of the row alone.                  *)
THEOREM OthersStay == Spec => OthersAreKept
<1> DEFINE Kept ==
      \A d \in Deployment, p \in Provider :
        Stored(d) /\ row'[d] # Gone /\ row'[d][p] # row[d][p] =>
            \E q \in Request :
                Is(q, "updating") /\ doc[q].on = d /\ p \in Asking(q)
<1>1. IInv /\ [Next]_vars => [Kept]_vars
  <2> SUFFICES ASSUME IInv, Next PROVE Kept
    OBVIOUS
  <2> SUFFICES ASSUME NEW d \in Deployment, NEW p \in Provider,
                      Stored(d), row'[d] # Gone, row'[d][p] # row[d][p]
               PROVE  \E q \in Request :
                          Is(q, "updating") /\ doc[q].on = d /\ p \in Asking(q)
    OBVIOUS
  <2>1. CASE UNCHANGED row  BY <2>1
  <2>2. ASSUME NEW q \in Request, Create(q) PROVE FALSE
    <3>1. doc[q].on \in Deployment /\ row[doc[q].on] = None
      BY <2>2, Shapes DEF IInv, OriginInv, Create, Is
    <3>2. row'[d] = row[d]
      BY <2>2, <3>1 DEF Create, Stored, IInv, TypeOK
    <3> QED  BY <3>2
  <2>3. ASSUME NEW q \in Request, Update(q)
        PROVE  Is(q, "updating") /\ doc[q].on = d /\ p \in Asking(q)
    <3>1. row[d] \notin {None, Gone}  BY DEF Stored
    <3>2. d = doc[q].on  BY <2>3, Updating
    <3>3. p \in Asking(q)
      <4> SUFFICES ASSUME p \notin Asking(q) PROVE FALSE
        OBVIOUS
      <4>1. row'[doc[q].on][p] = row[doc[q].on][p]  BY <2>3, <3>1, <3>2, Updating
      <4> QED  BY <3>2, <4>1
    <3> QED  BY <2>3, <3>2, <3>3 DEF Update
  <2>4. ASSUME NEW e \in Deployment, Delete(e) PROVE FALSE
    BY <2>4 DEF Delete, IInv, TypeOK
  <2> QED
    BY <2>1, <2>2, <2>3, <2>4
       DEF Next, BeginCreate, BeginUpdate, BeginCall, Call, Leaves, Stops
<1> QED  BY <1>1, Inductive, PTL DEF Spec, OthersAreKept
=============================================================================
