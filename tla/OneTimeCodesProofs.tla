------------------------- MODULE OneTimeCodesProofs -------------------------
(* One-time codes, for every number of requests, codes and retries, every  *)
(* Lifetime shorter than SweepAge and every MaxTime.                       *)
EXTENDS OneTimeCodes, TLAPS

(* Time only makes codes older: an expired code stays expired, and one old *)
(* enough to sweep stays so, as long as drafts stay as they are.           *)
LEMMA AgesOnlyGrow ==
    ASSUME TypeOK, clock' \in Nat, clock' >= clock,
           NEW r \in Request, draft'[r] = draft[r]
    PROVE  /\ Expired(r) => Expired(r)'
           /\ Sweepable(r) => Sweepable(r)'
<1>1. draft[r] \in Entity  BY DEF TypeOK
<1>2. draft[r].created \in Nat /\ clock \in Nat  BY <1>1 DEF Entity, TypeOK
<1>3. Lifetime \in Int /\ SweepAge \in Int  BY AgeTypes
<1>4. draft'[r].created = draft[r].created  OBVIOUS
<1> QED  BY <1>2, <1>3, <1>4 DEF Expired, Sweepable

(* cleanUp takes only codes no longer valid.                               *)
LEMMA SweepableExpired ==
    ASSUME TypeOK, NEW r \in Request, Sweepable(r)
    PROVE  Expired(r)
<1>1. draft[r] \in Entity  BY DEF TypeOK
<1>2. draft[r].created \in Nat /\ clock \in Nat  BY <1>1 DEF Entity, TypeOK
<1>3. Lifetime \in Nat /\ SweepAge \in Nat  BY AgeTypes
<1> QED  BY <1>2, <1>3, SweepsDeadCodes DEF Expired, Sweepable

-----------------------------------------------------------------------------
(* The first state satisfies the invariant.                                *)
LEMMA InitInv == Init => IInv
<1> SUFFICES ASSUME Init PROVE IInv  OBVIOUS
<1>1. TypeOK
  <2>1. left \in [Request -> 0..Retries]  BY AgeTypes DEF Init
  <2>2. draft \in [Request -> Entity]  BY DEF Init, Entity
  <2> QED  BY <2>1, <2>2 DEF Init, TypeOK
<1>2. SeenInv /\ OneRowPerCode /\ LiveCodesStay
  BY DEF Init, SeenInv, OneRowPerCode, LiveCodesStay
<1> QED  BY <1>1, <1>2 DEF IInv

(* Types are preserved, and no step turns the clock back.                  *)
LEMMA TypeStep ==
    ASSUME TypeOK, [Next]_vars
    PROVE  TypeOK' /\ clock' >= clock
<1>0. clock \in Nat  BY DEF TypeOK
<1>1. CASE UNCHANGED vars
  BY <1>0, <1>1 DEF TypeOK, vars
<1>2. CASE Tick
  BY <1>0, <1>2 DEF TypeOK, Tick
<1>3. ASSUME NEW q \in Request, NEW c \in Code, Draw(q, c)
      PROVE  TypeOK' /\ clock' = clock
  <2>1. [code |-> c, created |-> clock] \in Entity  BY <1>0 DEF Entity
  <2> QED  BY <2>1, <1>3 DEF TypeOK, Draw, Goes
<1>4. ASSUME NEW q \in Request, NEW c \in Code, Redraw(q, c)
      PROVE  TypeOK' /\ clock' = clock
  <2>1. draft'[q] \in Entity /\ draft' \in [Request -> Entity]
    BY <1>0, <1>4 DEF TypeOK, Redraw, Entity
  <2>2. left[q] - 1 \in 0..Retries
    BY <1>4, AgeTypes DEF TypeOK, Redraw
  <2>3. left' \in [Request -> 0..Retries]
    BY <2>2, <1>4 DEF TypeOK, Redraw
  <2> QED  BY <2>1, <2>3, <1>4 DEF TypeOK, Redraw
<1>5. ASSUME NEW q \in Request, Insert(q) \/ GiveUp(q) \/ Send(q)
      PROVE  TypeOK' /\ clock' = clock
  BY <1>5 DEF TypeOK, Insert, GiveUp, Send, Goes
<1>6. ASSUME NEW q \in Request, NEW c \in Code, FindCode(q, c)
      PROVE  TypeOK' /\ clock' = clock
  BY <1>6 DEF TypeOK, FindCode, Goes
<1>7. ASSUME NEW q \in Request, Judge(q)
      PROVE  TypeOK' /\ clock' = clock
  BY <1>7 DEF TypeOK, Judge, Goes
<1>8. ASSUME NEW q \in Request, Delete(q) \/ Breaks(q)
      PROVE  TypeOK' /\ clock' = clock
  BY <1>8 DEF TypeOK, Delete, Breaks, Goes, Remove
<1>9. ASSUME NEW q \in Request, SweepFind(q) \/ SweepEnds(q)
      PROVE  TypeOK' /\ clock' = clock
  BY <1>9 DEF TypeOK, SweepFind, SweepEnds, Goes
<1>10. ASSUME NEW q \in Request, NEW r \in Request,
              SweepDelete(q, r) \/ SweepMisses(q, r)
       PROVE  TypeOK' /\ clock' = clock
  BY <1>10 DEF TypeOK, SweepDelete, SweepMisses, Remove
<1> QED
  BY <1>0, <1>1, <1>2, <1>3, <1>4, <1>5, <1>6, <1>7, <1>8, <1>9, <1>10
  DEF Next, Arrives, Generate

-----------------------------------------------------------------------------
(* What every step does to rows that were ever inserted: their drafts do   *)
(* not change, and none of them becomes uninserted.                        *)
LEMMA RowsKeepDrafts ==
    ASSUME TypeOK, SeenInv, [Next]_vars
    PROVE  \A r \in Request : row[r] # "none" =>
               draft'[r] = draft[r] /\ row'[r] # "none"
<1> SUFFICES ASSUME NEW r \in Request, row[r] # "none"
             PROVE  draft'[r] = draft[r] /\ row'[r] # "none"
  OBVIOUS
<1>0. phase[r] \notin {"new", "drawn"}  BY DEF SeenInv
<1>1. CASE UNCHANGED vars
  BY <1>1 DEF vars
<1>2. CASE Tick
  BY <1>2 DEF Tick
<1>3. ASSUME NEW q \in Request, NEW c \in Code, Draw(q, c) \/ Redraw(q, c)
      PROVE  draft'[r] = draft[r] /\ row'[r] # "none"
  BY <1>0, <1>3 DEF TypeOK, Draw, Redraw
<1>4. ASSUME NEW q \in Request, Insert(q) \/ Delete(q) \/ Breaks(q)
      PROVE  draft'[r] = draft[r] /\ row'[r] # "none"
  BY <1>4 DEF TypeOK, Insert, Delete, Breaks, Remove
<1>5. ASSUME NEW q \in Request,
             \/ GiveUp(q) \/ Send(q) \/ Judge(q) \/ SweepFind(q) \/ SweepEnds(q)
             \/ \E c \in Code : FindCode(q, c)
      PROVE  draft'[r] = draft[r] /\ row'[r] # "none"
  BY <1>5 DEF GiveUp, Send, Judge, SweepFind, SweepEnds, FindCode
<1>6. ASSUME NEW q \in Request, NEW s \in Request,
             SweepDelete(q, s) \/ SweepMisses(q, s)
      PROVE  draft'[r] = draft[r] /\ row'[r] # "none"
  BY <1>6 DEF TypeOK, SweepDelete, SweepMisses, Remove
<1> QED
  BY <1>1, <1>2, <1>3, <1>4, <1>5, <1>6 DEF Next, Arrives, Generate

(* The ways a step can change where a request stands and what it has seen. *)
LEMMA StepsOfOne ==
    ASSUME TypeOK, [Next]_vars, NEW q \in Request
    PROVE  \/ phase'[q] = phase[q] /\ seen'[q] \subseteq seen[q]
           \/ (\E c \in Code : FindCode(q, c)) \/ Judge(q) \/ SweepFind(q)
           \/ /\ seen'[q] = seen[q]
              /\ phase'[q] \notin {"found", "expiring", "spending", "sweeping"}
<1> DEFINE Kept == phase'[q] = phase[q] /\ seen'[q] \subseteq seen[q]
           Past == /\ seen'[q] = seen[q]
                   /\ phase'[q] \notin {"found", "expiring", "spending", "sweeping"}
<1>1. CASE UNCHANGED vars \/ Tick
  <2>1. Kept  BY <1>1 DEF vars, Tick
  <2> QED  BY <2>1
<1>2. ASSUME NEW p \in Request, NEW c \in Code, Draw(p, c) \/ Redraw(p, c)
      PROVE  Kept \/ Past
  BY <1>2 DEF TypeOK, Draw, Redraw, Goes
<1>3. ASSUME NEW p \in Request, NEW c \in Code, FindCode(p, c)
      PROVE  Kept \/ p = q
  BY <1>3 DEF TypeOK, FindCode, Goes
<1>4. ASSUME NEW p \in Request, Judge(p) \/ SweepFind(p)
      PROVE  Kept \/ p = q
  BY <1>4 DEF TypeOK, Judge, SweepFind, Goes
<1>5. ASSUME NEW p \in Request,
             Insert(p) \/ GiveUp(p) \/ Send(p) \/ SweepEnds(p) \/ Breaks(p)
      PROVE  Kept \/ Past
  BY <1>5 DEF TypeOK, Insert, GiveUp, Send, SweepEnds, Breaks, Goes
<1>6. ASSUME NEW p \in Request, Delete(p)
      PROVE  Kept \/ Past
  <2>1. phase' = [phase EXCEPT ![p] = IF phase[p] = "spending" THEN "signed" ELSE "expired"]
        /\ seen' = seen
    BY <1>6 DEF Delete, Goes
  <2> QED  BY <2>1 DEF TypeOK
<1>7. ASSUME NEW p \in Request, NEW s \in Request,
             SweepDelete(p, s) \/ SweepMisses(p, s)
      PROVE  Kept
  BY <1>7 DEF TypeOK, SweepDelete, SweepMisses
<1> QED
  BY <1>1, <1>2, <1>3, <1>4, <1>5, <1>6, <1>7 DEF Next, Arrives, Generate

(* Rows, drafts and what requests have seen of them stay consistent.       *)
LEMMA SeenStep == IInv /\ [Next]_vars => SeenInv'
<1> SUFFICES ASSUME IInv, [Next]_vars PROVE SeenInv'  OBVIOUS
<1>0. TypeOK /\ SeenInv /\ TypeOK' /\ clock' >= clock /\ clock' \in Nat
  BY TypeStep DEF IInv, TypeOK
<1>1. \A r \in Request : row[r] # "none" =>
        /\ draft'[r] = draft[r] /\ row'[r] # "none"
        /\ Expired(r) => Expired(r)'
        /\ Sweepable(r) => Sweepable(r)'
  BY <1>0, RowsKeepDrafts, AgesOnlyGrow
<1>2. \A r \in Request : row'[r] # "none" => phase'[r] \in {"kept", "sent", "broken"}
  <2>1. CASE UNCHANGED vars \/ Tick
    BY <1>0, <2>1 DEF SeenInv, vars, Tick
  <2>2. ASSUME NEW q \in Request, NEW c \in Code,
               Draw(q, c) \/ Redraw(q, c) \/ FindCode(q, c)
        PROVE  \A r \in Request : row'[r] # "none" => phase'[r] \in {"kept", "sent", "broken"}
    BY <1>0, <2>2 DEF SeenInv, TypeOK, Draw, Redraw, FindCode, Goes
  <2>3. ASSUME NEW q \in Request,
               \/ Insert(q) \/ GiveUp(q) \/ Send(q) \/ Judge(q)
               \/ SweepFind(q) \/ SweepEnds(q)
        PROVE  \A r \in Request : row'[r] # "none" => phase'[r] \in {"kept", "sent", "broken"}
    BY <1>0, <2>3 DEF SeenInv, TypeOK, Insert, GiveUp, Send, Judge, SweepFind,
                      SweepEnds, Goes
  <2>4. ASSUME NEW q \in Request, Delete(q) \/ Breaks(q)
        PROVE  \A r \in Request : row'[r] # "none" => phase'[r] \in {"kept", "sent", "broken"}
    BY <1>0, <2>4 DEF SeenInv, TypeOK, Delete, Breaks, Remove, Goes
  <2>5. ASSUME NEW q \in Request, NEW s \in Request,
               SweepDelete(q, s) \/ SweepMisses(q, s)
        PROVE  \A r \in Request : row'[r] # "none" => phase'[r] \in {"kept", "sent", "broken"}
    BY <1>0, <2>5 DEF SeenInv, TypeOK, SweepDelete, SweepMisses, Remove
  <2> QED
    BY <2>1, <2>2, <2>3, <2>4, <2>5 DEF Next, Arrives, Generate
<1>3. ASSUME NEW q \in Request
      PROVE  /\ \A r \in seen'[q] : row'[r] # "none"
             /\ phase'[q] = "expiring" => \A r \in seen'[q] : Expired(r)'
             /\ phase'[q] = "sweeping" => \A r \in seen'[q] : Sweepable(r)'
  <2>0. seen[q] \subseteq Request  BY <1>0 DEF TypeOK
  <2>1. CASE phase'[q] = phase[q] /\ seen'[q] \subseteq seen[q]
    BY <1>0, <1>1, <2>0, <2>1 DEF SeenInv
  <2>2. CASE \E c \in Code : FindCode(q, c)
    <3>1. phase'[q] \in {"incorrect", "found"}  BY <1>0, <2>2 DEF TypeOK, FindCode, Goes
    <3>2. \A r \in seen'[q] : r \in Request /\ row[r] = "stored"
      BY <1>0, <2>2 DEF TypeOK, FindCode
    <3> QED  BY <1>1, <3>1, <3>2
  <2>3. CASE Judge(q)
    <3>1. PICK r \in Request : seen[q] = {r} /\ seen'[q] = {r}
      BY <2>3 DEF IInv, OneRowPerCode, Judge
    <3>2. phase'[q] = IF Expired(r) THEN "expiring" ELSE "spending"
      BY <1>0, <2>3, <3>1 DEF TypeOK, Judge, Goes
    <3>3. row[r] # "none"  BY <1>0, <3>1 DEF SeenInv
    <3> QED  BY <1>1, <3>1, <3>2, <3>3
  <2>4. CASE SweepFind(q)
    <3>1. phase'[q] = "sweeping"  BY <1>0, <2>4 DEF TypeOK, SweepFind, Goes
    <3>2. \A r \in seen'[q] : r \in Request /\ row[r] = "stored" /\ Sweepable(r)
      BY <1>0, <2>4 DEF TypeOK, SweepFind
    <3> QED  BY <1>1, <3>1, <3>2
  <2>5. CASE seen'[q] = seen[q] /\ phase'[q] \notin {"expiring", "sweeping"}
    BY <1>0, <1>1, <2>0, <2>5 DEF SeenInv
  <2> QED  BY <1>0, <2>1, <2>2, <2>3, <2>4, <2>5, StepsOfOne
<1> QED  BY <1>2, <1>3 DEF SeenInv

(* Codes stay unique among the rows: only an insertion stores a row, and   *)
(* only when the code is free.                                             *)
LEMMA OneRowStep == IInv /\ [Next]_vars => OneRowPerCode'
<1> SUFFICES ASSUME IInv, [Next]_vars PROVE OneRowPerCode'  OBVIOUS
<1>0. TypeOK /\ SeenInv /\ OneRowPerCode /\ TypeOK'
  BY TypeStep DEF IInv
<1>1. \A r \in Request : row[r] # "none" => draft'[r] = draft[r]
  BY <1>0, RowsKeepDrafts
<1>2. \A r, s \in Request :
        row'[r] = "stored" /\ row'[s] = "stored" /\ draft'[r].code = draft'[s].code => r = s
  <2>1. ASSUME NEW q \in Request, Insert(q)
        PROVE  \A r, s \in Request :
          row'[r] = "stored" /\ row'[s] = "stored" /\ draft'[r].code = draft'[s].code => r = s
    BY <1>0, <2>1 DEF TypeOK, OneRowPerCode, Insert, Taken
  <2>2. CASE \A r \in Request : row'[r] = "stored" => row[r] = "stored"
    BY <1>0, <1>1, <2>2 DEF OneRowPerCode
  <2>3. (\E q \in Request : Insert(q)) \/ \A r \in Request : row'[r] = "stored" => row[r] = "stored"
    <3>1. CASE UNCHANGED vars \/ Tick
      BY <3>1 DEF vars, Tick
    <3>2. ASSUME NEW q \in Request,
                 \/ GiveUp(q) \/ Send(q) \/ Judge(q) \/ SweepFind(q) \/ SweepEnds(q)
                 \/ \E c \in Code : Draw(q, c) \/ Redraw(q, c) \/ FindCode(q, c)
          PROVE  row' = row
      BY <3>2 DEF GiveUp, Send, Judge, SweepFind, SweepEnds, Draw, Redraw, FindCode
    <3>3. ASSUME NEW q \in Request, NEW s \in Request,
                 Delete(q) \/ Breaks(q) \/ SweepDelete(q, s) \/ SweepMisses(q, s)
          PROVE  \A r \in Request : row'[r] = "stored" => row[r] = "stored"
      BY <1>0, <3>3 DEF TypeOK, Delete, Breaks, SweepDelete, SweepMisses, Remove
    <3> QED  BY <3>1, <3>2, <3>3 DEF Next, Arrives, Generate
  <2> QED  BY <2>1, <2>2, <2>3
<1>3. ASSUME NEW q \in Request, phase'[q] \in {"found", "spending", "expiring"}
      PROVE  \E r \in Request : seen'[q] = {r}
  <2>1. CASE phase'[q] = phase[q] /\ seen'[q] \subseteq seen[q]
    <3>1. seen'[q] = seen[q]
      <4>1. CASE UNCHANGED vars \/ Tick
        BY <4>1 DEF vars, Tick
      <4>2. ASSUME NEW p \in Request,
                 \/ Insert(p) \/ GiveUp(p) \/ Send(p) \/ Judge(p) \/ Delete(p)
                 \/ SweepEnds(p) \/ Breaks(p) \/ \E c \in Code : Draw(p, c) \/ Redraw(p, c)
            PROVE  seen' = seen
        BY <4>2 DEF Insert, GiveUp, Send, Judge, Delete, SweepEnds, Breaks, Draw, Redraw
      <4>3. ASSUME NEW p \in Request, SweepFind(p) \/ \E c \in Code : FindCode(p, c)
            PROVE  p # q /\ seen'[q] = seen[q]
        BY <1>0, <1>3, <2>1, <4>3 DEF TypeOK, SweepFind, FindCode
      <4>4. ASSUME NEW p \in Request, NEW s \in Request,
                   SweepDelete(p, s) \/ SweepMisses(p, s)
            PROVE  p # q /\ seen'[q] = seen[q]
        BY <1>0, <1>3, <2>1, <4>4 DEF TypeOK, SweepDelete, SweepMisses
      <4> QED  BY <4>1, <4>2, <4>3, <4>4 DEF Next, Arrives, Generate
    <3> QED  BY <1>0, <1>3, <2>1, <3>1 DEF OneRowPerCode
  <2>2. CASE \E c \in Code : FindCode(q, c)
    <3>1. PICK c \in Code : FindCode(q, c)  BY <2>2
    <3> DEFINE found == {r \in Request : row[r] = "stored" /\ draft[r].code = c}
    <3>2. seen'[q] = found /\ phase'[q] = IF found = {} THEN "incorrect" ELSE "found"
      BY <1>0, <3>1 DEF TypeOK, FindCode, Goes
    <3>3. \A r, s \in found : r = s  BY <1>0 DEF OneRowPerCode
    <3>4. found # {}  BY <1>3, <3>2
    <3> QED  BY <3>2, <3>3, <3>4
  <2>3. CASE Judge(q)
    BY <1>0, <2>3 DEF OneRowPerCode, Judge
  <2>4. CASE SweepFind(q)
    BY <1>0, <1>3, <2>4 DEF TypeOK, SweepFind, Goes
  <2> QED  BY <1>0, <1>3, <2>1, <2>2, <2>3, <2>4, StepsOfOne
<1> QED  BY <1>2, <1>3 DEF OneRowPerCode

(* What was accepted stays accepted, and what was gone was so for a        *)
(* reason; a row that goes was seen by the request that deletes it.        *)
LEMMA LiveStep == IInv /\ [Next]_vars => LiveCodesStay'
<1> SUFFICES ASSUME IInv, [Next]_vars, NEW r \in Request, row'[r] = "gone"
             PROVE  Expired(r)' \/ Accepted(r)'
  BY DEF LiveCodesStay
<1>0. TypeOK /\ SeenInv /\ LiveCodesStay /\ TypeOK' /\ clock' >= clock /\ clock' \in Nat
  BY TypeStep DEF IInv, TypeOK
<1>1. row[r] # "none" => (Expired(r) => Expired(r)')
  BY <1>0, RowsKeepDrafts, AgesOnlyGrow
<1>2. Accepted(r) => Accepted(r)'
  <2> SUFFICES ASSUME NEW q \in Request, r \in seen[q],
                      phase[q] \in {"spending", "signed", "lost"}
               PROVE  phase'[q] \in {"spending", "signed", "lost"} /\ r \in seen'[q]
    BY DEF Accepted
  <2>1. CASE UNCHANGED vars \/ Tick
    BY <2>1 DEF vars, Tick
  <2>2. ASSUME NEW p \in Request, NEW c \in Code,
               Draw(p, c) \/ Redraw(p, c) \/ FindCode(p, c)
        PROVE  phase'[q] = phase[q] /\ seen'[q] = seen[q]
    BY <1>0, <2>2 DEF TypeOK, Draw, Redraw, FindCode, Goes
  <2>3. ASSUME NEW p \in Request,
               Insert(p) \/ GiveUp(p) \/ Send(p) \/ Judge(p) \/ SweepFind(p) \/ SweepEnds(p)
        PROVE  phase'[q] = phase[q] /\ seen'[q] = seen[q]
    BY <1>0, <2>3 DEF TypeOK, Insert, GiveUp, Send, Judge, SweepFind, SweepEnds, Goes
  <2>4. ASSUME NEW p \in Request, Delete(p) \/ Breaks(p)
        PROVE  phase'[q] \in {"spending", "signed", "lost"} /\ seen'[q] = seen[q]
    BY <1>0, <2>4 DEF TypeOK, Delete, Breaks, Answered, Goes
  <2>5. ASSUME NEW p \in Request, NEW s \in Request,
               SweepDelete(p, s) \/ SweepMisses(p, s)
        PROVE  phase'[q] = phase[q] /\ seen'[q] = seen[q]
    BY <1>0, <2>5 DEF TypeOK, SweepDelete, SweepMisses
  <2> QED  BY <2>1, <2>2, <2>3, <2>4, <2>5 DEF Next, Arrives, Generate
<1>3. CASE row[r] = "gone"
  BY <1>0, <1>1, <1>2, <1>3 DEF LiveCodesStay
<1>4. CASE row[r] # "gone"
  <2>1. \/ \E q \in Request :
              /\ Delete(q) \/ Breaks(q)
              /\ r \in seen[q] /\ phase[q] \in {"expiring", "spending"}
        \/ \E q \in Request : SweepDelete(q, r)
    <3>1. CASE UNCHANGED vars \/ Tick
      BY <1>4, <3>1 DEF vars, Tick
    <3>2. ASSUME NEW q \in Request,
                 \/ GiveUp(q) \/ Send(q) \/ Judge(q) \/ SweepFind(q) \/ SweepEnds(q)
                 \/ \E c \in Code : Draw(q, c) \/ Redraw(q, c) \/ FindCode(q, c)
          PROVE  row' = row
      BY <3>2 DEF GiveUp, Send, Judge, SweepFind, SweepEnds, Draw, Redraw, FindCode
    <3>3. ASSUME NEW q \in Request, Insert(q) PROVE FALSE
      BY <1>0, <1>4, <3>3 DEF TypeOK, Insert
    <3>4. ASSUME NEW q \in Request, Delete(q) \/ Breaks(q)
          PROVE  r \in seen[q] /\ phase[q] \in {"expiring", "spending"}
      BY <1>0, <1>4, <3>4 DEF TypeOK, Delete, Breaks, Remove
    <3>5. ASSUME NEW q \in Request, NEW s \in Request,
                 SweepDelete(q, s) \/ SweepMisses(q, s)
          PROVE  SweepDelete(q, r)
      BY <1>0, <1>4, <3>5 DEF TypeOK, SweepDelete, SweepMisses, Remove
    <3> QED  BY <1>4, <3>1, <3>2, <3>3, <3>4, <3>5 DEF Next, Arrives, Generate
  <2>2. ASSUME NEW q \in Request, Delete(q) \/ Breaks(q), r \in seen[q],
               phase[q] \in {"expiring", "spending"}
        PROVE  Expired(r)' \/ Accepted(r)'
    <3>1. row[r] # "none"  BY <1>0, <2>2 DEF SeenInv
    <3>2. CASE phase[q] = "expiring"
      BY <1>0, <1>1, <2>2, <3>1, <3>2 DEF SeenInv
    <3>3. CASE phase[q] = "spending"
      <4>1. phase'[q] \in {"signed", "lost"} /\ r \in seen'[q]
        BY <1>0, <2>2, <3>3 DEF TypeOK, Delete, Breaks, Goes
      <4> QED  BY <4>1 DEF Accepted
    <3> QED  BY <2>2, <3>2, <3>3
  <2>3. ASSUME NEW q \in Request, SweepDelete(q, r)
        PROVE  Expired(r)'
    <3>1. row[r] # "none" /\ Sweepable(r)  BY <1>0, <2>3 DEF SeenInv, SweepDelete
    <3> QED  BY <1>0, <1>1, <3>1, SweepableExpired
  <2> QED  BY <2>1, <2>2, <2>3
<1> QED  BY <1>3, <1>4

-----------------------------------------------------------------------------
(* The book of codes: what changes it, and how.                            *)

(* Only a judgement accepts a code, and nothing takes that back.           *)
LEMMA AcceptedFrame ==
    ASSUME TypeOK, [Next]_vars, ~(\E q \in Request : Judge(q))
    PROVE  AcceptedOnes' = AcceptedOnes
<1> DEFINE By(q, r) ==
        phase[q] \in {"spending", "signed", "lost"} /\ r \in seen[q]
<1>1. ASSUME NEW q \in Request, NEW r \in Request PROVE By(q, r)' <=> By(q, r)
  <2>1. CASE UNCHANGED vars \/ Tick
    BY <2>1 DEF vars, Tick
  <2>2. ASSUME NEW p \in Request, NEW c \in Code,
               Draw(p, c) \/ Redraw(p, c) \/ FindCode(p, c)
        PROVE  By(q, r)' <=> By(q, r)
    BY <2>2 DEF TypeOK, Draw, Redraw, FindCode, Goes
  <2>3. ASSUME NEW p \in Request,
               Insert(p) \/ GiveUp(p) \/ Send(p) \/ SweepFind(p) \/ SweepEnds(p)
        PROVE  By(q, r)' <=> By(q, r)
    BY <2>3 DEF TypeOK, Insert, GiveUp, Send, SweepFind, SweepEnds, Goes
  <2>4. ASSUME NEW p \in Request, Delete(p) \/ Breaks(p)
        PROVE  By(q, r)' <=> By(q, r)
    BY <2>4 DEF TypeOK, Delete, Breaks, Answered, Goes
  <2>5. ASSUME NEW p \in Request, NEW s \in Request,
               SweepDelete(p, s) \/ SweepMisses(p, s)
        PROVE  By(q, r)' <=> By(q, r)
    BY <2>5 DEF TypeOK, SweepDelete, SweepMisses
  <2> QED  BY <2>1, <2>2, <2>3, <2>4, <2>5 DEF Next, Arrives, Generate
<1> QED  BY <1>1 DEF AcceptedOnes, Accepted

(* As long as rows and clock stand still the book does.                    *)
LEMMA BookFrame ==
    ASSUME IInv, [Next]_vars, row' = row, clock' = clock
    PROVE  Digits' = Digits /\ Lapsed' = Lapsed /\ Struck' = Struck
<1>1. \A r \in Request : row[r] # "none" => draft'[r] = draft[r]
  BY RowsKeepDrafts DEF IInv
<1>2. Digits' = Digits  BY <1>1 DEF Digits
<1>3. Lapsed' = Lapsed  BY <1>1 DEF Lapsed, Expired
<1>4. Struck' = Struck  BY DEF Struck
<1> QED  BY <1>2, <1>3, <1>4

(* A row that goes is struck from the book, if it was there.               *)
LEMMA RemovalStrikes ==
    ASSUME IInv, TypeOK', [Next]_vars, NEW r \in Request, Remove(r),
           clock' = clock, AcceptedOnes' = AcceptedOnes,
           r \in Lapsed \cup AcceptedOnes
    PROVE  \/ Book!Strike(r)
           \/ UNCHANGED <<Digits, Lapsed, AcceptedOnes, Struck>>
<1>0. TypeOK /\ SeenInv  BY DEF IInv
<1>1. \A s \in Request : row[s] # "none" => draft'[s] = draft[s] /\ row'[s] # "none"
  BY <1>0, RowsKeepDrafts
<1>2. CASE row[r] = "stored"
  <2>1. row' = [row EXCEPT ![r] = "gone"]  BY <1>2 DEF Remove
  <2>2. \A s \in Request : row'[s] # "none" <=> row[s] # "none"
    BY <1>0, <1>2, <2>1 DEF TypeOK
  <2>3. Digits' = Digits  BY <1>1, <2>2 DEF Digits
  <2>4. Lapsed' = Lapsed  BY <1>1, <2>2 DEF Lapsed, Expired
  <2>5. Struck' = Struck \cup {r}  BY <1>0, <2>1 DEF TypeOK, Struck
  <2>6. r \notin Struck  BY <1>2 DEF Struck
  <2> QED  BY <2>3, <2>4, <2>5, <2>6 DEF Book!Strike
<1>3. CASE row[r] # "stored"
  <2>1. row' = row  BY <1>0, <1>3 DEF TypeOK, Remove
  <2> QED  BY <2>1, BookFrame
<1> QED  BY <1>2, <1>3

(* Every step of the requests and of the job is a step of the book, or     *)
(* leaves the book as it is.                                               *)
LEMMA BookStep ==
    ASSUME IInv, [Next]_vars
    PROVE  Book!Next \/ UNCHANGED <<Digits, Lapsed, AcceptedOnes, Struck>>
<1>0. /\ TypeOK /\ SeenInv /\ OneRowPerCode
      /\ TypeOK' /\ clock' \in Nat /\ clock' >= clock
  BY TypeStep DEF IInv, TypeOK
<1>1. CASE UNCHANGED vars
  <2>1. ~(\E q \in Request : Judge(q))
    BY <1>0, <1>1 DEF vars, Judge, Goes, TypeOK
  <2> QED  BY <1>0, <1>1, <2>1, AcceptedFrame, BookFrame DEF vars
<1>2. CASE Tick
  <2>1. ~(\E q \in Request : Judge(q))
    BY <1>0, <1>2 DEF Tick, Judge, TypeOK
  <2>2. AcceptedOnes' = AcceptedOnes  BY <1>0, <2>1, AcceptedFrame
  <2>3. row' = row /\ draft' = draft  BY <1>2 DEF Tick
  <2>4. Digits' = Digits /\ Struck' = Struck  BY <2>3 DEF Digits, Struck
  <2>5. \A r \in Request : Expired(r) => Expired(r)'
    BY <1>0, <2>3, AgesOnlyGrow
  <2>6. Lapsed \subseteq Lapsed'  BY <2>3, <2>5 DEF Lapsed
  <2>7. Lapsed' \subseteq DOMAIN Digits  BY <2>3 DEF Lapsed, Digits
  <2> QED  BY <2>2, <2>4, <2>6, <2>7 DEF Book!Next, Book!Lapse, Book!Made
<1>3. ASSUME NEW q \in Request, Insert(q)
      PROVE  Book!Next
  <2>1. ~(\E p \in Request : Judge(p))
    <3>1. phase[q] = "drawn"  BY <1>3 DEF Insert
    <3>2. row[q] = "none"  BY <1>0, <3>1 DEF SeenInv
    <3>3. row'[q] = "stored"  BY <1>0, <1>3 DEF Insert, TypeOK
    <3> QED  BY <3>2, <3>3 DEF Judge
  <2>2. AcceptedOnes' = AcceptedOnes  BY <1>0, <2>1, AcceptedFrame
  <2>3. /\ row[q] = "none" /\ row' = [row EXCEPT ![q] = "stored"]
        /\ draft' = draft /\ clock' = clock
        /\ \A r \in Request : row[r] = "stored" => draft[r].code # draft[q].code
    <3>1. phase[q] = "drawn"  BY <1>3 DEF Insert
    <3>2. row[q] = "none"  BY <1>0, <3>1 DEF SeenInv
    <3> QED  BY <1>3, <3>2 DEF Insert, Taken
  <2>4. \A r \in Request : row'[r] = IF r = q THEN "stored" ELSE row[r]
    BY <1>0, <2>3 DEF TypeOK
  <2>5. Struck' = Struck  BY <2>3, <2>4 DEF Struck
  <2>6. Lapsed' \in {Lapsed, Lapsed \cup {q}}
    <3>1. CASE Expired(q)
      <4>1. Lapsed' = Lapsed \cup {q}  BY <2>3, <2>4, <3>1 DEF Lapsed, Expired
      <4> QED  BY <4>1
    <3>2. CASE ~Expired(q)
      <4>1. Lapsed' = Lapsed  BY <2>3, <2>4, <3>2 DEF Lapsed, Expired
      <4> QED  BY <4>1
    <3> QED  BY <3>1, <3>2
  <2>7. q \notin DOMAIN Digits  BY <2>3 DEF Digits
  <2>8. \A f \in DOMAIN Digits \ Struck : Digits[f] # draft[q].code
    BY <1>0, <2>3 DEF Digits, Struck, TypeOK
  <2>9. Digits' = [f \in DOMAIN Digits \cup {q} |->
                      IF f = q THEN draft[q].code ELSE Digits[f]]
    <3>1. {s \in Request : row'[s] # "none"} = DOMAIN Digits \cup {q}
      BY <2>4 DEF Digits
    <3> QED  BY <2>3, <3>1 DEF Digits
  <2>10. draft[q].code \in Code  BY <1>0 DEF TypeOK, Entity
  <2>11. Book!Enter(q, draft[q].code)
    BY <2>2, <2>5, <2>6, <2>7, <2>8, <2>9 DEF Book!Enter, Book!Made
  <2> QED  BY <2>10, <2>11 DEF Book!Next
<1>4. ASSUME NEW q \in Request, Judge(q)
      PROVE  Book!Next \/ UNCHANGED <<Digits, Lapsed, AcceptedOnes, Struck>>
  <2>1. PICK r \in Request : seen[q] = {r}
    BY <1>0, <1>4 DEF OneRowPerCode, Judge
  <2>2. /\ phase' = [phase EXCEPT ![q] = IF Expired(r) THEN "expiring" ELSE "spending"]
        /\ seen' = seen /\ row' = row /\ clock' = clock /\ phase[q] = "found"
    BY <1>4, <2>1 DEF Judge, Goes
  <2>3. Digits' = Digits /\ Lapsed' = Lapsed /\ Struck' = Struck
    BY <2>2, BookFrame
  <2>4. CASE Expired(r)
    <3>1. \A p \in Request :
              phase'[p] \in {"spending", "signed", "lost"}
                <=> phase[p] \in {"spending", "signed", "lost"}
      BY <1>0, <2>2, <2>4 DEF TypeOK
    <3>2. AcceptedOnes' = AcceptedOnes
      BY <2>2, <3>1 DEF AcceptedOnes, Accepted
    <3> QED  BY <2>3, <3>2
  <2>5. CASE ~Expired(r)
    <3>1. \A p \in Request :
              phase'[p] \in {"spending", "signed", "lost"}
                <=> p = q \/ phase[p] \in {"spending", "signed", "lost"}
      BY <1>0, <2>2, <2>5 DEF TypeOK
    <3>2. AcceptedOnes' = AcceptedOnes \cup {r}
      BY <2>1, <2>2, <3>1 DEF AcceptedOnes, Accepted
    <3>3. row[r] # "none"  BY <1>0, <2>1 DEF SeenInv
    <3>4. r \in DOMAIN Digits \ Lapsed  BY <2>5, <3>3 DEF Digits, Lapsed
    <3>5. Book!Accept(r)
      BY <2>3, <3>2, <3>4 DEF Book!Accept, Book!Made
    <3> QED  BY <3>5 DEF Book!Next
  <2> QED  BY <2>4, <2>5
<1>5. ASSUME NEW q \in Request, Delete(q) \/ Breaks(q), row' # row
      PROVE  Book!Next \/ UNCHANGED <<Digits, Lapsed, AcceptedOnes, Struck>>
  <2>1. ~(\E p \in Request : Judge(p))
    BY <1>5 DEF Judge
  <2>2. AcceptedOnes' = AcceptedOnes  BY <1>0, <2>1, AcceptedFrame
  <2>3. PICK r \in seen[q] : Remove(r) /\ phase[q] \in {"expiring", "spending"}
    BY <1>5 DEF Delete, Breaks
  <2>4. r \in Request /\ row[r] # "none"  BY <1>0, <2>3 DEF SeenInv, TypeOK
  <2>5. r \in Lapsed \cup AcceptedOnes
    <3>1. CASE phase[q] = "expiring"
      BY <1>0, <2>3, <2>4, <3>1 DEF SeenInv, Lapsed
    <3>2. CASE phase[q] = "spending"
      BY <2>3, <2>4, <3>2 DEF AcceptedOnes, Accepted
    <3> QED  BY <2>3, <3>1, <3>2
  <2>6. clock' = clock  BY <1>5 DEF Delete, Breaks
  <2> QED
    BY <1>0, <2>2, <2>3, <2>4, <2>5, <2>6, RemovalStrikes DEF Book!Next
<1>6. ASSUME NEW q \in Request, NEW r \in Request, SweepDelete(q, r)
      PROVE  Book!Next \/ UNCHANGED <<Digits, Lapsed, AcceptedOnes, Struck>>
  <2>1. ~(\E p \in Request : Judge(p))
    BY <1>0, <1>6 DEF Judge, SweepDelete, Goes, TypeOK
  <2>2. AcceptedOnes' = AcceptedOnes  BY <1>0, <2>1, AcceptedFrame
  <2>3. row[r] # "none" /\ Sweepable(r) /\ Remove(r) /\ clock' = clock
    BY <1>0, <1>6 DEF SeenInv, SweepDelete
  <2>4. r \in Lapsed  BY <1>0, <2>3, SweepableExpired DEF Lapsed
  <2> QED  BY <1>0, <2>2, <2>3, <2>4, RemovalStrikes DEF Book!Next
<1>7. CASE row' = row /\ clock' = clock /\ ~(\E q \in Request : Judge(q))
  BY <1>0, <1>7, AcceptedFrame, BookFrame
<1>8. ASSUME NEW q \in Request,
             \/ GiveUp(q) \/ Send(q) \/ SweepFind(q) \/ SweepEnds(q)
             \/ \E c \in Code : Draw(q, c) \/ Redraw(q, c) \/ FindCode(q, c)
             \/ \E r \in Request : SweepMisses(q, r)
      PROVE  row' = row /\ clock' = clock
  BY <1>8 DEF GiveUp, Send, SweepFind, SweepEnds, Draw, Redraw, FindCode, SweepMisses
<1>9. ASSUME NEW q \in Request, Delete(q) \/ Breaks(q), row' = row
      PROVE  row' = row /\ clock' = clock
  BY <1>9 DEF Delete, Breaks
<1> QED
  BY <1>1, <1>2, <1>3, <1>4, <1>5, <1>6, <1>7, <1>8, <1>9
  DEF Next, Arrives, Generate

-----------------------------------------------------------------------------
(* Everything has its type, and generate keeps to its number of retries.   *)
THEOREM TypeCorrectness == Spec => []TypeOK
<1>1. Init => TypeOK  BY InitInv DEF IInv
<1>2. TypeOK /\ [Next]_vars => TypeOK'  BY TypeStep
<1> QED  BY <1>1, <1>2, PTL DEF Spec

(* The inductive invariant holds.                                          *)
THEOREM Invariance == Spec => []IInv
<1>1. IInv /\ [Next]_vars => IInv'
  BY TypeStep, SeenStep, OneRowStep, LiveStep DEF IInv
<1> QED  BY InitInv, <1>1, PTL DEF Spec

(* A code stays verifiable until it expires or is accepted, whoever else   *)
(* verifies, requests or sweeps meanwhile.                                 *)
THEOREM LiveCodesStayHolds == Spec => []LiveCodesStay
<1>1. IInv => LiveCodesStay  BY DEF IInv
<1> QED  BY <1>1, Invariance, PTL

(* No two rows carry the same code, and a verification finds one at most.  *)
THEOREM OneRowPerCodeHolds == Spec => []OneRowPerCode
<1>1. IInv => OneRowPerCode  BY DEF IInv
<1> QED  BY <1>1, Invariance, PTL

(* CodeService keeps the book of codes, for any number of overlapping      *)
(* requests, verifications and runs of the job, any codes and any ages:    *)
(* the detailed specification implements the abstract one.                 *)
THEOREM BookIsKept == Spec => BookSpec
<1>1. Init => Book!Init
  <2> SUFFICES ASSUME Init PROVE Book!Init  OBVIOUS
  <2>1. \A r \in Request : row[r] = "none" /\ seen[r] = {}  BY DEF Init
  <2> QED
    BY <2>1 DEF Book!Init, Book!Made, Digits, Lapsed, AcceptedOnes, Accepted, Struck
<1>2. IInv /\ [Next]_vars => [Book!Next]_<<Digits, Lapsed, AcceptedOnes, Struck>>
  BY BookStep
<1> QED  BY <1>1, <1>2, Invariance, PTL DEF Spec, BookSpec, Book!Spec
=============================================================================
