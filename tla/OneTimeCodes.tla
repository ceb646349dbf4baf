---------------------------- MODULE OneTimeCodes ----------------------------
(***************************************************************************)
(* One-time codes sent to telephone numbers: CodeService and the resolvers *)
(* requestCode and verifyCode, with the clean-up job.                      *)
(*                                                                         *)
(* A Request is a requestCode, a verifyCode or a run of cleanUp.  A row of *)
(* the table has an id of its own beside its code; here the id is the      *)
(* requestCode that inserts the row.  A deletion names the id.  The        *)
(* telephone number is a fixed column of the row and not repeated here.    *)
(***************************************************************************)
EXTENDS Integers, FiniteSets

CONSTANTS
    Code,
    Request,    \* requests and runs of the job, each run once
    Asking,     \* those that may be a requestCode,
    Verifying,  \* a verifyCode,
    Sweeping,   \* or a run of cleanUp
    Retries,    \* how often another code is tried (100)
    Lifetime,   \* OTC_LIFETIME: how long a code can be verified (30 minutes)
    SweepAge,   \* age from which cleanUp deletes a code (12 hours)
    MaxTime     \* bound: the clock stops there

ASSUME CodeTypes == Code # {}

ASSUME AgeTypes == Retries \in Nat /\ Lifetime \in Nat /\ SweepAge \in Nat

\* The defaults; a longer OTC_LIFETIME would let cleanUp delete valid codes.
ASSUME SweepsDeadCodes == Lifetime < SweepAge

VARIABLES
    clock,
    row,        \* row[q]: "none" yet, "stored", or "gone" again
    draft,      \* draft[q]: the entity a requestCode builds (before: anything)
    left,       \* left[q]: retries it has left
    phase,      \* phase[q]: where the request stands, and its answer
    seen        \* seen[q]: rows a verifyCode or cleanUp has read

vars == <<clock, row, draft, left, phase, seen>>

-----------------------------------------------------------------------------
Entity == [code : Code, created : Nat]

Taken(c) == \E r \in Request : row[r] = "stored" /\ draft[r].code = c

(* verify, and the age cleanUp asks for *)
Expired(r) == clock > draft[r].created + Lifetime
Sweepable(r) == draft[r].created <= clock - SweepAge

Goes(q, ph) == phase' = [phase EXCEPT ![q] = ph]

Remove(r) == row' = [row EXCEPT ![r] = IF @ = "stored" THEN "gone" ELSE @]

-----------------------------------------------------------------------------
(* requestCode *)

(* The entity notes its creation before the insertion is attempted.        *)
Draw(q, c) ==
    /\ q \in Asking /\ phase[q] = "new"
    /\ draft' = [draft EXCEPT ![q] = [code |-> c, created |-> clock]]
    /\ Goes(q, "drawn")
    /\ UNCHANGED <<clock, row, left, seen>>

(* Mutant: the column is not unique. *)
InsertAnyway(q) ==
    /\ phase[q] = "drawn"
    /\ row' = [row EXCEPT ![q] = "stored"]
    /\ Goes(q, "kept")
    /\ UNCHANGED <<clock, draft, left, seen>>

(* The column is unique: a code that is taken makes the flush fail.        *)
Insert(q) ==
    /\ phase[q] = "drawn"
    /\ ~Taken(draft[q].code)
    /\ row' = [row EXCEPT ![q] = "stored"]
    /\ Goes(q, "kept")
    /\ UNCHANGED <<clock, draft, left, seen>>

(* Mutant: the retries are not counted down. *)
RedrawForever(q, c) ==
    /\ phase[q] = "drawn"
    /\ left[q] > 0
    /\ draft' = [draft EXCEPT ![q] = [code |-> c, created |-> clock]]
    /\ UNCHANGED <<clock, row, left, phase, seen>>

(* Mutant: one retry too many. *)
RedrawOnceMore(q, c) ==
    /\ phase[q] = "drawn"
    /\ left[q] >= 0
    /\ draft' = [draft EXCEPT ![q] = [code |-> c, created |-> clock]]
    /\ left' = [left EXCEPT ![q] = @ - 1]
    /\ UNCHANGED <<clock, row, phase, seen>>

(* The flush fails, because the code is taken or for any other reason; a   *)
(* new entity with another code is tried.                                  *)
Redraw(q, c) ==
    /\ phase[q] = "drawn"
    /\ left[q] > 0
    /\ draft' = [draft EXCEPT ![q] = [code |-> c, created |-> clock]]
    /\ left' = [left EXCEPT ![q] = @ - 1]
    /\ UNCHANGED <<clock, row, phase, seen>>

GiveUp(q) ==
    /\ phase[q] = "drawn"
    /\ left[q] = 0
    /\ Goes(q, "failed")
    /\ UNCHANGED <<clock, row, draft, left, seen>>

(* The text leaves and the request is answered. *)
Send(q) ==
    /\ phase[q] = "kept"
    /\ Goes(q, "sent")
    /\ UNCHANGED <<clock, row, draft, left, seen>>

-----------------------------------------------------------------------------
(* verifyCode *)

FindCode(q, c) ==
    /\ q \in Verifying /\ phase[q] = "new"
    /\ LET found == {r \in Request : row[r] = "stored" /\ draft[r].code = c}
       IN  /\ seen' = [seen EXCEPT ![q] = found]
           /\ Goes(q, IF found = {} THEN "incorrect" ELSE "found")
    /\ UNCHANGED <<clock, row, draft, left>>

(* Its age is compared when the query has returned. *)
Judge(q) ==
    /\ phase[q] = "found"
    /\ \E r \in seen[q] : Goes(q, IF Expired(r) THEN "expiring" ELSE "spending")
    /\ UNCHANGED <<clock, row, draft, left, seen>>

(* Mutant: the deletion looks the code up again. *)
DeleteByCode(q) ==
    /\ phase[q] \in {"expiring", "spending"}
    /\ \E r \in seen[q] :
           row' = [s \in Request |->
                     IF row[s] = "stored" /\ draft[s].code = draft[r].code
                     THEN "gone" ELSE row[s]]
    /\ Goes(q, IF phase[q] = "spending" THEN "signed" ELSE "expired")
    /\ UNCHANGED <<clock, draft, left, seen>>

(* The row is deleted, if it is still there; then the token is signed, or  *)
(* the code reported as expired.                                           *)
Delete(q) ==
    /\ phase[q] \in {"expiring", "spending"}
    /\ \E r \in seen[q] : Remove(r)
    /\ Goes(q, IF phase[q] = "spending" THEN "signed" ELSE "expired")
    /\ UNCHANGED <<clock, draft, left, seen>>

-----------------------------------------------------------------------------
(* cleanUp *)

(* The rows to delete are read once, those older than the age.             *)
SweepFind(q) ==
    /\ q \in Sweeping /\ phase[q] = "new"
    /\ seen' = [seen EXCEPT ![q] =
                  {r \in Request : row[r] = "stored" /\ Sweepable(r)}]
    /\ Goes(q, "sweeping")
    /\ UNCHANGED <<clock, row, draft, left>>

SweepDelete(q, r) ==
    /\ phase[q] = "sweeping" /\ r \in seen[q]
    /\ Remove(r)
    /\ seen' = [seen EXCEPT ![q] = @ \ {r}]
    /\ UNCHANGED <<clock, draft, left, phase>>

(* One of the deletions fails; the others go on. *)
SweepMisses(q, r) ==
    /\ phase[q] = "sweeping" /\ r \in seen[q]
    /\ seen' = [seen EXCEPT ![q] = @ \ {r}]
    /\ UNCHANGED <<clock, row, draft, left, phase>>

SweepEnds(q) ==
    /\ phase[q] = "sweeping" /\ seen[q] = {}
    /\ Goes(q, "swept")
    /\ UNCHANGED <<clock, row, draft, left, seen>>

-----------------------------------------------------------------------------
Answered(q) ==
    phase[q] \in {"sent", "failed", "incorrect", "signed", "expired", "swept",
                 "broken", "lost"}

(* A query or flush fails, or the process stops: a deletion on its way may *)
(* have been committed all the same.  What was judged valid by then is     *)
(* lost with the token.                                                    *)
Breaks(q) ==
    /\ ~Answered(q)
    /\ Goes(q, IF phase[q] = "spending" THEN "lost" ELSE "broken")
    /\ \/ UNCHANGED row
       \/ phase[q] \in {"expiring", "spending"} /\ \E r \in seen[q] : Remove(r)
    /\ UNCHANGED <<clock, draft, left, seen>>

Tick ==
    /\ clock < MaxTime
    /\ clock' = clock + 1
    /\ UNCHANGED <<row, draft, left, phase, seen>>

Init ==
    /\ clock = 0
    /\ row = [q \in Request |-> "none"]
    /\ \E c \in Code : draft = [q \in Request |-> [code |-> c, created |-> 0]]
    /\ left = [q \in Request |-> Retries]
    /\ phase = [q \in Request |-> "new"]
    /\ seen = [q \in Request |-> {}]

Generate(q) ==
    \/ \E c \in Code : Redraw(q, c)
    \/ Insert(q) \/ GiveUp(q) \/ Send(q)

Arrives(q) ==
    \/ \E c \in Code : Draw(q, c)
    \/ \E c \in Code : FindCode(q, c)
    \/ SweepFind(q)

Next ==
    \/ \E q \in Request :
           \/ Arrives(q) \/ Generate(q)
           \/ Judge(q) \/ Delete(q)
           \/ \E r \in Request : SweepDelete(q, r) \/ SweepMisses(q, r)
           \/ SweepEnds(q)
           \/ Breaks(q)
    \/ Tick

Spec == Init /\ [][Next]_vars

(* The event loop runs every continuation, and the database answers.       *)
FairSpec == Spec /\ \A q \in Request : WF_vars(Generate(q))

-----------------------------------------------------------------------------
(* Properties *)

(* Everything is of its type; generate never retries more often than it    *)
(* is told to.                                                             *)
TypeOK ==
    /\ clock \in Nat
    /\ row \in [Request -> {"none", "stored", "gone"}]
    /\ draft \in [Request -> Entity]
    /\ left \in [Request -> 0..Retries]
    /\ phase \in [Request -> {"new", "drawn", "kept", "sent", "failed",
                              "found", "incorrect", "spending", "signed",
                              "expiring", "expired", "sweeping", "swept", "broken",
                              "lost"}]
    /\ seen \in [Request -> SUBSET Request]

\* some verifyCode has accepted the code of this row
Accepted(r) ==
    \E q \in Request : phase[q] \in {"spending", "signed", "lost"} /\ r \in seen[q]

(* A code that was inserted stays until it has expired or was accepted:    *)
(* no verifyCode deletes the row of another person who has been given the  *)
(* same digits meanwhile, and cleanUp deletes none that is still valid.    *)
LiveCodesStay == \A r \in Request : row[r] = "gone" => Expired(r) \/ Accepted(r)

(* The rows as a book of codes.                                            *)
Digits == [r \in {s \in Request : row[s] # "none"} |-> draft[r].code]
Lapsed == {r \in Request : row[r] # "none" /\ Expired(r)}
AcceptedOnes == {r \in Request : Accepted(r)}
Struck == {r \in Request : row[r] = "gone"}

Book ==
    INSTANCE CodeBook
    WITH Entry <- Request, digits <- Digits, lapsed <- Lapsed,
         accepted <- AcceptedOnes, struck <- Struck

(* The book of codes: every code that was sent is accepted only in its     *)
(* time, and is there for the person it was sent to until it is too old or *)
(* accepted; the same digits are never there twice.  This goes on through  *)
(* failing queries, stops of the process and repeated digits.              *)
BookSpec == Book!Spec

(* Among the rows no two have the same code, so a verifyCode finds at most *)
(* one and the token it signs names the number that code was sent to.      *)
OneRowPerCode ==
    /\ \A r, s \in Request :
           row[r] = "stored" /\ row[s] = "stored" /\ draft[r].code = draft[s].code
               => r = s
    /\ \A q \in Request : phase[q] \in {"found", "spending", "expiring"} =>
           \E r \in Request : seen[q] = {r}

(* Every requestCode is answered: also when the codes have run out, it     *)
(* ends after a bounded number of attempts.                                *)
GenerateAnswers ==
    \A q \in Request : phase[q] \in {"drawn", "kept"} ~> Answered(q)

-----------------------------------------------------------------------------
(* The inductive invariant behind them *)

(* A row is inserted only by a request that has drawn it, whose draft does *)
(* not change afterwards; a job has seen rows old enough to sweep, and a   *)
(* verifyCode in the expiring phase an expired one.                        *)
SeenInv ==
    /\ \A r \in Request : row[r] # "none" => phase[r] \in {"kept", "sent", "broken"}
    /\ \A q \in Request : \A r \in seen[q] : row[r] # "none"
    /\ \A q \in Request : phase[q] = "expiring" => \A r \in seen[q] : Expired(r)
    /\ \A q \in Request : phase[q] = "sweeping" =>
           \A r \in seen[q] : Sweepable(r)

IInv == TypeOK /\ SeenInv /\ OneRowPerCode /\ LiveCodesStay

-----------------------------------------------------------------------------
(* What a comment of the repository says, and the code does not do *)

(* code.service.ts: the code is deleted so that it cannot be used again.   *)
(* Two overlapping verifications of one code are both given a token.       *)
UsedOnce ==
    \A q, r \in Request :
        phase[q] = "signed" /\ phase[r] = "signed" /\ seen[q] = seen[r] => q = r
=============================================================================
