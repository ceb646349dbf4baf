----------------------------- MODULE PagesProofs -----------------------------
(* Lists by pages, for lists of any length, pages of any size, and any     *)
(* number of insertions and removals.                                      *)
EXTENDS Pages, FiniteSetTheorems, TLAPS

-----------------------------------------------------------------------------
(* Tables and pages are finite, so that their rows can be counted.         *)
LEMMA Counts ==
    ASSUME NEW t \in SUBSET Row
    PROVE  IsFiniteSet(t) /\ Cardinality(t) \in Nat
BY PageNumbers, FS_Subset, FS_CardinalityType

(* Where pages begin and end.                                              *)
LEMMA Bounds ==
    ASSUME NEW p \in Int, NEW n \in Nat
    PROVE  /\ p * n \in Int /\ (p - 1) * n \in Int
           /\ (p - 1) * n + n = p * n
           /\ \A q : q = p + 1 => (q - 1) * n = p * n
OBVIOUS

LEMMA NothingMore == ASSUME NEW n \in Nat, NEW k, k = 0 PROVE n + k = n
OBVIOUS

LEMMA OffsetIsInt ==
    ASSUME NEW w, w.page \in Int, w.limit \in Nat
    PROVE  Offset(w) \in Int
BY Bounds DEF Offset

(* What comes after a page is what came after the one before, less what is *)
(* on the page; more rows put no fewer on either.                          *)
LEMMA PageByPage ==
    ASSUME NEW n \in Nat, NEW m \in Int, NEW k \in Nat
    PROVE  /\ After(n, m) \in Nat /\ OnPage(n, m, k) \in Nat
           /\ OnPage(n, m, k) + After(n, m + k) = After(n, m)
BY DEF After, OnPage

LEMMA MoreRows ==
    ASSUME NEW n \in Nat, NEW o \in Nat, n <= o, NEW m \in Int, NEW k \in Nat
    PROVE  /\ After(n, m) <= After(o, m)
           /\ OnPage(n, m, k) <= OnPage(o, m, k)
BY DEF After, OnPage

-----------------------------------------------------------------------------
Walk == [status : {"asking", "done", "failed"}, list : Lists, page : Int,
         limit : Nat \ {0}, got : SUBSET {"rows", "count"},
         rows : SUBSET Row, count : {NotANumber} \cup Nat]

LEMMA AskingWalks == ASSUME TypeOK, walk.status # "none" PROVE walk \in Walk
BY DEF TypeOK, Walk, NoWalk

LEMMA InitInv == Init => IInv
<1> SUFFICES ASSUME Init PROVE IInv  OBVIOUS
<1>1. walk.status = "none" /\ walk.list = "none"  BY DEF Init, NoWalk
<1>2. TypeOK  BY DEF Init, TypeOK
<1>3. DueInv /\ SeenInv /\ CountInv /\ WholeListSeen /\ PagesAddUp
  BY <1>1 DEF DueInv, SeenInv, CountInv, WholeListSeen, PagesAddUp, NoneTooMany,
              NoneTooFew, Asking
<1> QED  BY <1>2, <1>3 DEF IInv

-----------------------------------------------------------------------------
LEMMA TypeStep == TypeOK /\ [Next]_vars => TypeOK'
<1> SUFFICES ASSUME TypeOK, [Next]_vars PROVE TypeOK'  OBVIOUS
<1> USE DEF Walk
<1>1. CASE UNCHANGED vars
  BY <1>1 DEF TypeOK, vars, client, history
<1>2. ASSUME NEW l \in Lists, NEW p \in FirstPages,
             NEW n \in Limits \cup {DefaultLimit}, Begin(l, p, n)
      PROVE  TypeOK'
  <2>1. walk' \in Walk  BY <1>2, PageNumbers DEF Begin
  <2>2. due' \in Nat
    <3>1. (p - 1) * n \in Int
      <4>1. p \in Int /\ n \in Nat  BY PageNumbers
      <4> QED  BY <4>1, Bounds
    <3>2. Cardinality(table) \in Nat  BY Counts DEF TypeOK
    <3>3. After(Cardinality(table), (p - 1) * n) \in Nat
      BY <3>1, <3>2, PageByPage
    <3> QED  BY <1>2, <3>3 DEF Begin
  <2> QED  BY <2>1, <2>2, <1>2 DEF Begin, TypeOK, Calm
<1>3. CASE QueryRows
  <2>1. walk \in Walk  BY <1>3, AskingWalks DEF QueryRows, Asking
  <2>2. PICK rs \in Rows(walk) :
            walk' = [walk EXCEPT !.rows = rs, !.got = @ \cup {"rows"}]
    BY <1>3 DEF QueryRows
  <2>3. rs \in SUBSET Row  BY DEF Rows, Slices, TypeOK
  <2>4. walk' \in Walk  BY <2>1, <2>2, <2>3
  <2> QED  BY <2>4, <1>3 DEF QueryRows, TypeOK, history
<1>4. CASE QueryCount
  <2>1. walk \in Walk  BY <1>4, AskingWalks DEF QueryCount, Asking
  <2>2. Cardinality(table) \in Nat
    BY Counts DEF TypeOK
  <2>3. Count(walk) \in {NotANumber} \cup Nat  BY <2>2 DEF Count
  <2>4. walk' \in Walk  BY <2>1, <2>3, <1>4 DEF QueryCount
  <2> QED  BY <2>4, <1>4 DEF QueryCount, TypeOK, history
<1>5. CASE Answer
  <2>1. walk \in Walk  BY <1>5, AskingWalks DEF Answer, Asking
  <2>2. [walk EXCEPT !.page = @ + 1, !.got = {}, !.rows = {}, !.count = 0] \in Walk
    <3>1. walk.page + 1 \in Int /\ 0 \in {NotANumber} \cup Nat  BY <2>1
    <3>2. [walk EXCEPT !.page = @ + 1, !.got = {}, !.rows = {}, !.count = 0]
          = [walk EXCEPT !.page = walk.page + 1, !.got = {}, !.rows = {}, !.count = 0]
      BY <2>1
    <3> DEFINE p == walk.page + 1
    <3> HIDE DEF p
    <3>3. [walk EXCEPT !.page = p, !.got = {}, !.rows = {}, !.count = 0] \in Walk
      BY <2>1, <3>1 DEF p
    <3> QED  BY <3>2, <3>3 DEF p
  <2>3. [walk EXCEPT !.status = "done"] \in Walk  BY <2>1
  <2>4. walk' \in Walk  BY <2>2, <2>3, <1>5 DEF Answer
  <2>5. Cardinality(walk.rows) \in Nat  BY <2>1, Counts
  <2>6. given' \in Nat  BY <2>5, <1>5 DEF Answer, TypeOK
  <2> QED  BY <2>1, <2>4, <2>6, <1>5 DEF Answer, TypeOK
<1>6. CASE Refuses \/ Fails
  <2>1. walk \in Walk  BY <1>6, AskingWalks DEF Refuses, Fails, Asking
  <2>2. walk' \in Walk  BY <2>1, <1>6 DEF Refuses, Fails, Ends
  <2> QED  BY <2>2, <1>6 DEF Refuses, Fails, Ends, TypeOK, history
<1>7. CASE Leaves
  BY <1>7 DEF Leaves, TypeOK, Calm
<1>8. ASSUME NEW r \in Row, Insert(r) \/ Remove(r) PROVE TypeOK'
  BY <1>8 DEF Insert, Remove, TypeOK, client
<1> QED
  BY <1>1, <1>2, <1>3, <1>4, <1>5, <1>6, <1>7, <1>8 DEF Next, Walks

-----------------------------------------------------------------------------
(* The pages add up to what was due.                                       *)
LEMMA DueStep ==
    ASSUME IInv, TypeOK', [Next]_vars
    PROVE  DueInv' /\ PagesAddUp'
<1> USE DEF IInv
<1> DEFINE N == Cardinality(table)
           here == (walk.page - 1) * walk.limit
           next == walk.page * walk.limit
<1>0. Cardinality(table) \in Nat /\ Cardinality(table') \in Nat
      /\ given \in Nat /\ due \in Nat
  BY Counts DEF TypeOK
<1>1. CASE UNCHANGED vars
  BY <1>1 DEF vars, client, history, DueInv, PagesAddUp, NoneTooMany, NoneTooFew,
              Held, Rest, Got, Asking
<1>2. ASSUME NEW l \in Lists, NEW p \in FirstPages,
             NEW n \in Limits \cup {DefaultLimit}, Begin(l, p, n)
      PROVE  DueInv' /\ PagesAddUp'
  <2>1. /\ walk'.status = "asking" /\ walk'.page = p /\ walk'.limit = n
        /\ walk'.got = {} /\ walk'.rows = {} /\ given' = 0 /\ table' = table
        /\ due' = After(Cardinality(table), (p - 1) * n)
    BY <1>2 DEF Begin
  <2>2. (p - 1) * n \in Int
    <3>1. p \in Int /\ n \in Nat  BY PageNumbers
    <3> QED  BY <3>1, Bounds
  <2>3. After(Cardinality(table), (p - 1) * n) \in Nat
    BY <1>0, <2>2, PageByPage
  <2>4. Held' = 0  BY <2>1, FS_EmptySet DEF Held
  <2>5. Rest(Cardinality(table))' = due'  BY <2>1 DEF Rest, Got
  <2>6. DueInv'
    BY <2>1, <2>3, <2>4, <2>5 DEF DueInv, Got
  <2> QED  BY <2>1, <2>3, <2>6 DEF PagesAddUp, NoneTooMany, NoneTooFew
<1>3. CASE QueryRows
  <2>1. walk \in Walk /\ walk.status = "asking"
    BY <1>3, AskingWalks DEF QueryRows, Asking
  <2>2. PICK rs \in Rows(walk) :
            walk' = [walk EXCEPT !.rows = rs, !.got = @ \cup {"rows"}]
    BY <1>3 DEF QueryRows
  <2>3. /\ walk'.status = walk.status /\ walk'.list = walk.list
        /\ walk'.page = walk.page /\ walk'.limit = walk.limit
        /\ walk'.count = walk.count /\ walk'.rows = rs
        /\ walk'.got = walk.got \cup {"rows"}
    BY <2>1, <2>2 DEF Walk
  <2>4. /\ UNCHANGED <<table, given, due, grew, shrunk>>
        /\ "rows" \notin walk.got
    BY <1>3 DEF QueryRows, history, Got
  <2>5. PagesAddUp'
    BY <2>1, <2>3, <2>4 DEF PagesAddUp, NoneTooMany, NoneTooFew
  <2>6. ASSUME walk.list = "systems" PROVE DueInv'
    <3>1. /\ here \in Int /\ next \in Int /\ here + walk.limit = next
          /\ walk.limit \in Nat
      BY <2>1, Bounds DEF Walk
    <3>2. Cardinality(rs) = OnPage(N, here, walk.limit)
      BY <2>6 DEF Rows, Slices, Offset
    <3>3. walk.rows = {} /\ Cardinality(walk.rows) = 0
      BY <2>1, <2>4, <2>6, FS_EmptySet DEF DueInv, Got, Asking
    <3>4. /\ ~grew => given + After(N, here) <= due
          /\ ~shrunk =>
                 /\ due <= given + After(N, here)
                 /\ "count" \in walk.got =>
                        /\ walk.count <= N
                        /\ due <= given + After(walk.count, here)
      BY <1>0, <2>1, <2>4, <2>6, <3>3 DEF DueInv, Held, Rest, Got, Asking
    <3>5. walk.count \in Nat
      BY <2>1, <2>6 DEF CountInv, Asking
    <3> HIDE DEF N, here, next
    <3>6. N \in Nat  BY <1>0 DEF N
    <3>7. /\ OnPage(N, here, walk.limit) \in Nat
          /\ After(N, next) \in Nat /\ After(N, here) \in Nat
          /\ OnPage(N, here, walk.limit) + After(N, next) = After(N, here)
      BY <3>1, <3>6, PageByPage
    <3>8. ASSUME walk.count <= N
          PROVE  /\ After(walk.count, next) \in Nat
                 /\ After(walk.count, here)
                      <= OnPage(N, here, walk.limit) + After(walk.count, next)
      <4>1. /\ OnPage(walk.count, here, walk.limit) \in Nat
            /\ After(walk.count, next) \in Nat /\ After(walk.count, here) \in Nat
            /\ OnPage(walk.count, here, walk.limit) + After(walk.count, next)
                 = After(walk.count, here)
        BY <3>1, <3>5, PageByPage
      <4>2. OnPage(walk.count, here, walk.limit) <= OnPage(N, here, walk.limit)
        BY <3>1, <3>5, <3>6, <3>8, MoreRows
      <4> QED  BY <3>7, <4>1, <4>2
    <3>9. /\ ~grew => given + OnPage(N, here, walk.limit) + After(N, next) <= due
          /\ ~shrunk =>
                 /\ due <= given + OnPage(N, here, walk.limit) + After(N, next)
                 /\ "count" \in walk.got =>
                        /\ walk.count <= N
                        /\ due <= given + OnPage(N, here, walk.limit)
                                    + After(walk.count, next)
      <4>1. /\ After(walk.count, here) \in Nat /\ After(walk.count, next) \in Nat
        BY <3>1, <3>5, PageByPage
      <4> QED  BY <1>0, <3>4, <3>7, <3>8, <4>1
    <3>10. /\ Held' = given + OnPage(N, here, walk.limit)
           /\ \A n : Rest(n)' = After(n, next)
      BY <2>3, <2>4, <3>2 DEF Held, Rest, Got, next
    <3>11. Cardinality(table)' = N /\ walk'.count = walk.count
      BY <2>3, <2>4 DEF N
    <3>12. Got("rows")' /\ (Got("count")' <=> "count" \in walk.got)
      BY <2>3 DEF Got
    <3> HIDE DEF IInv
    <3> QED
      BY <2>4, <3>9, <3>10, <3>11, <3>12 DEF DueInv
  <2> QED  BY <2>3, <2>5, <2>6 DEF DueInv
<1>4. CASE QueryCount
  <2>1. walk \in Walk /\ walk.status = "asking"
    BY <1>4, AskingWalks DEF QueryCount, Asking
  <2>2. /\ walk'.status = walk.status /\ walk'.list = walk.list
        /\ walk'.page = walk.page /\ walk'.limit = walk.limit
        /\ walk'.count = Count(walk) /\ walk'.rows = walk.rows
        /\ walk'.got = walk.got \cup {"count"}
    BY <1>4, <2>1 DEF QueryCount, Walk
  <2>3. UNCHANGED <<table, given, due, grew, shrunk>>
    BY <1>4 DEF QueryCount, history
  <2>4. PagesAddUp'
    BY <2>1, <2>2, <2>3 DEF PagesAddUp, NoneTooMany, NoneTooFew
  <2>5. ASSUME walk.list = "systems" PROVE DueInv'
    <3>1. Count(walk) = N  BY <2>5 DEF Count
    <3>2. /\ Held' = Held /\ \A n : Rest(n)' = Rest(n)
          /\ Got("rows")' = Got("rows")
      BY <2>2, <2>3 DEF Held, Rest, Got
    <3> QED
      BY <1>0, <2>1, <2>2, <2>3, <2>5, <3>1, <3>2 DEF DueInv, Asking
  <2> QED  BY <2>2, <2>4, <2>5 DEF DueInv
<1>5. CASE Answer
  <2>1. walk \in Walk /\ walk.status = "asking"
        /\ "rows" \in walk.got /\ "count" \in walk.got
    BY <1>5, AskingWalks DEF Answer, Answered, Got, Asking
  <2>2. /\ UNCHANGED <<table, due, grew, shrunk>>
        /\ given' = given + Cardinality(walk.rows)
        /\ walk' = IF HasNextPage(walk)
                   THEN [walk EXCEPT !.page = @ + 1, !.got = {}, !.rows = {}, !.count = 0]
                   ELSE [walk EXCEPT !.status = "done"]
    BY <1>5 DEF Answer
  <2>3. walk'.list = walk.list  BY <2>1, <2>2 DEF Walk
  <2>4. ASSUME walk.list = "systems" PROVE DueInv' /\ PagesAddUp'
    <3>1. /\ next \in Int
          /\ \A q : q = walk.page + 1 => (q - 1) * walk.limit = next
      BY <2>1, Bounds DEF Walk
    <3>2. walk.count \in Nat  BY <2>1, <2>4 DEF CountInv, Asking
    <3>3. After(N, next) \in Nat /\ After(walk.count, next) \in Nat
      BY <1>0, <3>1, <3>2, PageByPage
    <3>4. Cardinality(walk.rows) \in Nat  BY <2>1, Counts DEF Walk
    <3>5. /\ ~grew => given' + After(N, next) <= due
          /\ ~shrunk => /\ due <= given' + After(N, next)
                        /\ due <= given' + After(walk.count, next)
      BY <2>1, <2>2, <2>4 DEF DueInv, Held, Rest, Got, Asking
    <3>6. ~grew => given' <= due
      BY <1>0, <2>2, <3>3, <3>4, <3>5
    <3>7. CASE HasNextPage(walk)
      <4>1. /\ walk'.status = "asking" /\ walk'.page = walk.page + 1
            /\ walk'.limit = walk.limit /\ walk'.rows = {} /\ walk'.got = {}
        BY <2>1, <2>2, <3>7 DEF Walk
      <4>2. Held' = given'
        <5>1. Cardinality(walk'.rows) = 0  BY <4>1, FS_EmptySet
        <5>2. given' \in Nat  BY DEF TypeOK
        <5> QED  BY <5>1, <5>2, NothingMore, Zenon DEF Held
      <4>3. \A n : Rest(n)' = After(n, next)
        <5>1. (walk'.page - 1) * walk.limit = next
          <6> DEFINE q == walk'.page
          <6>1. q = walk.page + 1  BY <4>1
          <6> HIDE DEF q
          <6>2. (q - 1) * walk.limit = next  BY <3>1, <6>1, Zenon
          <6> QED  BY <6>2 DEF q
        <5>2. ~Got("rows")'  BY <4>1 DEF Got
        <5> QED  BY <4>1, <5>1, <5>2 DEF Rest
      <4>4. ~Got("count")'  BY <4>1 DEF Got
      <4>5. DueInv'
        BY <2>2, <3>5, <4>1, <4>2, <4>3, <4>4 DEF DueInv
      <4> QED
        BY <2>2, <3>6, <4>1, <4>5 DEF PagesAddUp, NoneTooMany, NoneTooFew
    <3>8. CASE ~HasNextPage(walk)
      <4>1. walk'.status = "done"  BY <2>1, <2>2, <3>8 DEF Walk
      <4>2. ~(next < walk.count)
        BY <2>4, <3>2, <3>8 DEF HasNextPage
      <4>3. After(walk.count, next) = 0  BY <4>2 DEF After
      <4>4. ~shrunk => due <= given'
        BY <1>0, <2>2, <3>4, <3>5, <4>3
      <4> QED
        BY <2>2, <3>6, <4>1, <4>4
        DEF DueInv, PagesAddUp, NoneTooMany, NoneTooFew, Asking
    <3> QED  BY <3>7, <3>8
  <2> QED
    BY <2>3, <2>4 DEF DueInv, PagesAddUp, NoneTooMany, NoneTooFew
<1>6. CASE Refuses \/ Fails
  <2>1. walk \in Walk  BY <1>6, AskingWalks DEF Refuses, Fails, Asking
  <2>2. walk'.status = "failed" /\ walk'.list = walk.list
    BY <2>1, <1>6 DEF Refuses, Fails, Ends, Walk
  <2> QED
    BY <1>6, <2>2 DEF Refuses, Fails, Ends, history, DueInv, PagesAddUp,
       NoneTooMany, NoneTooFew, Asking
<1>7. CASE Leaves
  BY <1>7 DEF Leaves, NoWalk, DueInv, PagesAddUp, NoneTooMany, NoneTooFew, Asking
<1>8. ASSUME NEW x \in Row, Insert(x) \/ Remove(x) PROVE DueInv' /\ PagesAddUp'
  <2>1. /\ UNCHANGED <<walk, given, due>>
        /\ grew => grew'
        /\ shrunk => shrunk'
    BY <1>8 DEF Insert, Remove, client, TypeOK
  <2>2. PagesAddUp'
    BY <1>8, <2>1 DEF Insert, Remove, PagesAddUp, NoneTooMany, NoneTooFew
  <2>3. ASSUME Asking, walk.list = "systems" PROVE DueInv'
    <3>1. walk \in Walk /\ walk # NoWalk
      BY <2>3, AskingWalks DEF Asking, NoWalk
    <3>2. /\ walk.count \in Nat  BY <2>3 DEF CountInv
    <3>3. Cardinality(walk.rows) \in Nat  BY <3>1, Counts DEF Walk
    <3>4. /\ \A n : Rest(n)' = Rest(n)
          /\ Held' = Held /\ Held \in Nat
          /\ Got("count")' = Got("count") /\ Got("rows")' = Got("rows")
      BY <1>0, <2>1, <3>3 DEF Rest, Held, Got
    <3>5. \A n \in Nat : Rest(n) \in Nat
      <4>1. here \in Int /\ next \in Int  BY <3>1, Bounds DEF Walk
      <4> QED  BY <4>1, PageByPage DEF Rest
    <3>6. \A m, n \in Nat : m <= n => Rest(m) <= Rest(n)
      <4>1. here \in Int /\ next \in Int  BY <3>1, Bounds DEF Walk
      <4> QED  BY <4>1, MoreRows DEF Rest
    <3>7. CASE Insert(x)
      <4>1. Cardinality(table) <= Cardinality(table')
        <5>1. table \in SUBSET table' /\ IsFiniteSet(table')
          BY <3>7, Counts DEF Insert, TypeOK
        <5> QED  BY <5>1, FS_Subset
      <4>2. grew' /\ shrunk' = shrunk  BY <3>1, <3>7 DEF Insert
      <4>3. Rest(Cardinality(table)) <= Rest(Cardinality(table'))
        BY <1>0, <3>6, <4>1
      <4>4. ~shrunk => due <= Held + Rest(Cardinality(table'))
        <5>1. Rest(Cardinality(table)) \in Nat /\ Rest(Cardinality(table')) \in Nat
          BY <1>0, <3>5
        <5>2. ~shrunk => due <= Held + Rest(Cardinality(table))
          BY <2>3 DEF DueInv
        <5> QED  BY <1>0, <3>4, <4>3, <5>1, <5>2
      <4>5. ~shrunk /\ Got("count") =>
                /\ walk.count <= Cardinality(table')
                /\ due <= Held + Rest(walk.count)
        BY <1>0, <2>3, <3>2, <4>1 DEF DueInv
      <4>6. ~Got("rows") => walk.rows = {}  BY <2>3 DEF DueInv
      <4> QED  BY <2>1, <3>4, <4>2, <4>4, <4>5, <4>6 DEF DueInv
    <3>8. CASE Remove(x)
      <4>1. Cardinality(table') <= Cardinality(table)
        <5>1. table' \in SUBSET table /\ IsFiniteSet(table)
          BY <3>8, Counts DEF Remove, TypeOK
        <5> QED  BY <5>1, FS_Subset
      <4>2. shrunk' /\ grew' = grew  BY <3>1, <3>8 DEF Remove
      <4>3. Rest(Cardinality(table')) <= Rest(Cardinality(table))
        BY <1>0, <3>6, <4>1
      <4>4. ~grew => Held + Rest(Cardinality(table')) <= due
        <5>1. Rest(Cardinality(table)) \in Nat /\ Rest(Cardinality(table')) \in Nat
          BY <1>0, <3>5
        <5>2. ~grew => Held + Rest(Cardinality(table)) <= due
          BY <2>3 DEF DueInv
        <5> QED  BY <1>0, <3>4, <4>3, <5>1, <5>2
      <4>5. ~Got("rows") => walk.rows = {}  BY <2>3 DEF DueInv
      <4> QED  BY <2>1, <3>4, <4>2, <4>4, <4>5 DEF DueInv
    <3> QED  BY <1>8, <3>7, <3>8
  <2> QED  BY <2>1, <2>2, <2>3 DEF DueInv, Asking
<1> QED
  BY <1>1, <1>2, <1>3, <1>4, <1>5, <1>6, <1>7, <1>8 DEF Next, Walks

-----------------------------------------------------------------------------
(* Rows that are given once each are as many as are given.                 *)
LEMMA SeenStep ==
    ASSUME IInv, TypeOK', PagesAddUp', [Next]_vars
    PROVE  SeenInv' /\ WholeListSeen'
<1> USE DEF IInv
<1>1. CASE UNCHANGED vars
  BY <1>1 DEF vars, client, history, SeenInv, WholeListSeen, Asking
<1>2. ASSUME NEW l \in Lists, NEW p \in FirstPages,
             NEW n \in Limits \cup {DefaultLimit}, Begin(l, p, n)
      PROVE  SeenInv' /\ WholeListSeen'
  BY <1>2, FS_EmptySet DEF Begin, SeenInv, WholeListSeen, Asking
<1>3. CASE QueryRows
  <2>1. walk \in Walk /\ walk.status = "asking"
    BY <1>3, AskingWalks DEF QueryRows, Asking
  <2>2. PICK rs \in Rows(walk) :
            walk' = [walk EXCEPT !.rows = rs, !.got = @ \cup {"rows"}]
    BY <1>3 DEF QueryRows
  <2>3. /\ walk'.status = walk.status /\ walk'.list = walk.list
        /\ walk'.rows = rs
    BY <2>1, <2>2 DEF Walk
  <2>4. UNCHANGED <<table, seen, twice, given, grew, shrunk>>
    BY <1>3 DEF QueryRows, history
  <2>5. walk.list = "systems" => rs \subseteq table  BY DEF Rows, Slices
  <2> QED  BY <2>1, <2>3, <2>4, <2>5 DEF SeenInv, WholeListSeen
<1>4. CASE QueryCount
  <2>1. walk \in Walk /\ walk.status = "asking"
    BY <1>4, AskingWalks DEF QueryCount, Asking
  <2>2. /\ walk'.status = walk.status /\ walk'.list = walk.list
        /\ walk'.rows = walk.rows
    BY <1>4, <2>1 DEF QueryCount, Walk
  <2>3. UNCHANGED <<table, seen, twice, given, grew, shrunk>>
    BY <1>4 DEF QueryCount, history
  <2> QED  BY <2>1, <2>2, <2>3 DEF SeenInv, WholeListSeen, Asking
<1>5. CASE Answer
  <2>1. walk \in Walk /\ walk.status = "asking"
    BY <1>5, AskingWalks DEF Answer, Asking
  <2>2. /\ UNCHANGED <<table, due, grew, shrunk>>
        /\ seen' = seen \cup walk.rows
        /\ twice' = twice \cup (seen \cap walk.rows)
        /\ given' = given + Cardinality(walk.rows)
    BY <1>5 DEF Answer
  <2>3. /\ walk'.list = walk.list
        /\ walk'.status = "asking" => walk'.rows = {}
    BY <1>5, <2>1 DEF Answer, Walk
  <2>4. ASSUME walk.list = "systems", ~grew, ~shrunk
        PROVE  seen \subseteq table /\ walk.rows \subseteq table
    BY <2>1, <2>4 DEF SeenInv, Asking
  <2>5. ASSUME walk.list = "systems", ~grew, ~shrunk, twice' = {}
        PROVE  Cardinality(seen') = given'
    <3>1. twice = {} /\ seen \cap walk.rows = {}  BY <2>2, <2>5
    <3>2. Cardinality(seen) = given  BY <2>5, <3>1 DEF SeenInv
    <3>3. /\ IsFiniteSet(seen) /\ IsFiniteSet(walk.rows)
          /\ Cardinality(seen) \in Nat /\ Cardinality(walk.rows) \in Nat
      BY <2>1, Counts DEF TypeOK, Walk
    <3>4. Cardinality(seen \cup walk.rows) =
              Cardinality(seen) + Cardinality(walk.rows) - Cardinality(seen \cap walk.rows)
      BY <3>3, FS_Union
    <3>5. Cardinality(seen \cap walk.rows) = 0  BY <3>1, FS_EmptySet
    <3> QED  BY <2>2, <3>2, <3>3, <3>4, <3>5
  <2>6. SeenInv'
    BY <2>2, <2>3, <2>4, <2>5 DEF SeenInv, Asking
  <2>7. ASSUME walk'.status = "done", walk.list = "systems", ~grew, ~shrunk,
               due = Cardinality(table), twice' = {}
        PROVE  seen' = table
    <3>1. seen' \in SUBSET table  BY <2>2, <2>4, <2>7
    <3>2. due' <= given' /\ given' <= due'
      BY <2>2, <2>3, <2>7 DEF PagesAddUp, NoneTooMany, NoneTooFew
    <3>3. given' = due  BY <2>2, <3>2 DEF TypeOK
    <3>4. Cardinality(seen') = Cardinality(table)  BY <2>5, <2>7, <3>3
    <3>5. IsFiniteSet(table)  BY Counts DEF TypeOK
    <3> QED  BY <3>1, <3>4, <3>5, FS_Subset
  <2>8. WholeListSeen'
    BY <2>2, <2>3, <2>7 DEF WholeListSeen
  <2> QED  BY <2>6, <2>8
<1>6. CASE Refuses \/ Fails
  <2>1. walk \in Walk  BY <1>6, AskingWalks DEF Refuses, Fails, Asking
  <2>2. walk'.status = "failed" /\ walk'.list = walk.list
    BY <2>1, <1>6 DEF Refuses, Fails, Ends, Walk
  <2> QED
    BY <1>6, <2>2 DEF Refuses, Fails, Ends, history, SeenInv, WholeListSeen, Asking
<1>7. CASE Leaves
  BY <1>7 DEF Leaves, NoWalk, SeenInv, WholeListSeen, Asking
<1>8. ASSUME NEW x \in Row, Insert(x) \/ Remove(x)
      PROVE  SeenInv' /\ WholeListSeen'
  <2>1. walk' = walk /\ (walk # NoWalk => grew' \/ shrunk')
    BY <1>8 DEF Insert, Remove, client
  <2>2. walk.list = "systems" => walk # NoWalk  BY DEF NoWalk
  <2> QED  BY <2>1, <2>2 DEF SeenInv, WholeListSeen
<1> QED
  BY <1>1, <1>2, <1>3, <1>4, <1>5, <1>6, <1>7, <1>8 DEF Next, Walks

-----------------------------------------------------------------------------
(* What has been counted is what there is, until the table changes.        *)
LEMMA CountStep ==
    ASSUME IInv, TypeOK', [Next]_vars
    PROVE  CountInv'
<1> USE DEF IInv, CountInv, Got, Asking
<1>1. CASE UNCHANGED vars  BY <1>1 DEF vars, client, history
<1>2. ASSUME NEW l \in Lists, NEW p \in FirstPages,
             NEW n \in Limits \cup {DefaultLimit}, Begin(l, p, n)
      PROVE  CountInv'
  BY <1>2 DEF Begin
<1>3. CASE QueryRows \/ QueryCount
  <2>1. walk \in Walk /\ walk.status = "asking"
    BY <1>3, AskingWalks DEF QueryRows, QueryCount
  <2>2. /\ walk'.list = walk.list /\ walk'.page = walk.page
        /\ walk'.limit = walk.limit
    BY <1>3, <2>1 DEF QueryRows, QueryCount, Walk
  <2>3. table' = table /\ moved' = moved /\ ~Refused(walk)
    BY <1>3 DEF QueryRows, QueryCount, history
  <2>4. walk.list = "systems" => 0 <= (walk.page - 1) * walk.limit
    <3>1. (walk.page - 1) * walk.limit \in Int  BY <2>1, Bounds DEF Walk
    <3> QED  BY <2>3, <3>1 DEF Refused, Offset
  <2>5. \/ "count" \in walk.got /\ walk'.count = walk.count
        \/ walk'.count = Count(walk)
        \/ "count" \notin walk'.got /\ walk'.count = walk.count
    <3>1. CASE QueryRows
      <4>1. /\ walk'.count = walk.count
            /\ walk'.got = walk.got \cup {"rows"}
        BY <2>1, <3>1 DEF QueryRows, Walk
      <4> QED  BY <4>1
    <3>2. CASE QueryCount
      <4>1. walk'.count = Count(walk)  BY <2>1, <3>2 DEF QueryCount, Walk
      <4> QED  BY <4>1
    <3> QED  BY <1>3, <3>1, <3>2
  <2>6. walk.list = "systems" => Count(walk) = Cardinality(table)
    BY DEF Count
  <2>7. Cardinality(table) \in Nat  BY Counts DEF TypeOK
  <2> QED  BY <2>1, <2>2, <2>3, <2>4, <2>5, <2>6, <2>7
<1>4. CASE Answer
  <2>1. walk \in Walk  BY <1>4, AskingWalks DEF Answer
  <2>2. walk'.status = "done" \/ (walk'.got = {} /\ walk'.count = 0)
    BY <1>4, <2>1 DEF Answer, Walk
  <2> QED  BY <2>2
<1>5. CASE Refuses \/ Fails
  <2>1. walk \in Walk  BY <1>5, AskingWalks DEF Refuses, Fails
  <2>2. walk'.status = "failed"  BY <2>1, <1>5 DEF Refuses, Fails, Ends, Walk
  <2> QED  BY <2>2
<1>6. CASE Leaves  BY <1>6 DEF Leaves, NoWalk
<1>7. ASSUME NEW x \in Row, Insert(x) \/ Remove(x) PROVE CountInv'
  BY <1>7 DEF Insert, Remove, client
<1> QED
  BY <1>1, <1>2, <1>3, <1>4, <1>5, <1>6, <1>7 DEF Next, Walks

(* What a client is told of the next page by an answer.                    *)
LEMMA ToldStep ==
    ASSUME IInv, [Next]_vars,
           walk.list = "systems", Asking, Answered, ~moved,
           walk' # walk, walk'.status # "failed"
    PROVE  walk'.status = "asking"
             <=> 0 < OnPage(Cardinality(table), walk.page * walk.limit, walk.limit)
<1>1. walk \in Walk  BY AskingWalks DEF IInv, Asking
<1>2. ~Refuses /\ ~Fails  BY <1>1 DEF Refuses, Fails, Ends, Walk
<1>3. Answer
  <2>1. walk' # walk /\ walk.status = "asking" /\ walk # NoWalk
    BY DEF Asking, NoWalk
  <2>2. \A x \in Row : ~Insert(x) /\ ~Remove(x)
    BY <2>1 DEF Insert, Remove, client
  <2>3. ~QueryRows /\ ~QueryCount  BY DEF QueryRows, QueryCount, Answered
  <2>4. ~Leaves /\ ~UNCHANGED vars  BY <2>1 DEF Leaves, vars, client
  <2>5. \A l, p, n : ~Begin(l, p, n)  BY <2>1 DEF Begin
  <2> QED  BY <1>2, <2>2, <2>3, <2>4, <2>5 DEF Next, Walks
<1>4. /\ walk.count = Cardinality(table)
      /\ 0 <= (walk.page - 1) * walk.limit
  BY DEF IInv, CountInv, Answered, Got
<1>5. Cardinality(table) \in Nat  BY Counts DEF IInv, TypeOK
<1>6. /\ walk.page * walk.limit \in Int
      /\ walk.limit \in Nat /\ 0 < walk.limit
  BY <1>1, Bounds DEF Walk
<1>7. HasNextPage(walk) <=> walk.page * walk.limit < Cardinality(table)
  BY <1>4, <1>5 DEF HasNextPage
<1>8. walk'.status = "asking" <=> HasNextPage(walk)
  BY <1>1, <1>3 DEF Answer, Asking, Walk
<1>9. walk.page * walk.limit < Cardinality(table)
        <=> 0 < OnPage(Cardinality(table), walk.page * walk.limit, walk.limit)
  <2> DEFINE m == walk.page * walk.limit
  <2> HIDE DEF m
  <2>1. m < Cardinality(table) <=> 0 < OnPage(Cardinality(table), m, walk.limit)
    BY <1>5, <1>6 DEF OnPage, After, m
  <2> QED  BY <2>1 DEF m
<1> QED  BY <1>7, <1>8, <1>9

-----------------------------------------------------------------------------
(* The invariants hold in every reachable state.                           *)
THEOREM Inductive == Spec => []IInv
<1>1. Init => IInv  BY InitInv
<1>2. IInv /\ [Next]_vars => IInv'
  <2> SUFFICES ASSUME IInv, [Next]_vars PROVE IInv'  OBVIOUS
  <2>1. TypeOK'  BY TypeStep DEF IInv
  <2>2. DueInv' /\ PagesAddUp'  BY <2>1, DueStep
  <2>3. SeenInv' /\ WholeListSeen'  BY <2>1, <2>2, SeenStep
  <2>4. CountInv'  BY <2>1, CountStep
  <2> QED  BY <2>1, <2>2, <2>3, <2>4 DEF IInv
<1> QED  BY <1>1, <1>2, PTL DEF Spec

(* The walk and what the client has been given are of their types.         *)
THEOREM TypesHold == Spec => []TypeOK
<1>1. IInv => TypeOK  BY DEF IInv
<1> QED  BY <1>1, Inductive, PTL

(* In whatever order each page of systems is read, all pages together have *)
(* as many rows as there were; more only if some were inserted, fewer only *)
(* if some were removed.                                                   *)
THEOREM AsManyAsThereWere == Spec => []PagesAddUp
<1>1. IInv => PagesAddUp  BY DEF IInv
<1> QED  BY <1>1, Inductive, PTL

(* In whatever order each page of systems is read, who is given none twice *)
(* has missed none, if the list did not change.                            *)
THEOREM NoneTwiceNoneMissed == Spec => []WholeListSeen
<1>1. IInv => WholeListSeen  BY DEF IInv
<1> QED  BY <1>1, Inductive, PTL

(* hasNextPage of systems is exact, for every page and every length of the *)
(* list, whenever the table stands still while the page is read.           *)
THEOREM NextPageIsExact == Spec => NextPageIsTold
<1> DEFINE Told ==
        walk.list = "systems" /\ Asking /\ Answered /\ ~moved
            /\ walk' # walk /\ walk'.status # "failed" =>
        (walk'.status = "asking"
            <=> 0 < OnPage(Cardinality(table), walk.page * walk.limit, walk.limit))
<1>1. IInv /\ [Next]_vars => [Told]_vars  BY ToldStep
<1>2. Spec => [][Told]_vars  BY <1>1, Inductive, PTL DEF Spec
<1> QED  BY <1>2 DEF NextPageIsTold
=============================================================================
