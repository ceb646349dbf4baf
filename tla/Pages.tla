-------------------------------- MODULE Pages --------------------------------
(***************************************************************************)
(* Lists by pages: a client asks for one page after the other as long as   *)
(* the answer says that there are more, while rows are inserted and        *)
(* removed by other requests.                                              *)
(*                                                                         *)
(* A page is answered from two queries, one for its rows and one for the   *)
(* number of all rows, which nothing ties together.  Nor does anything tie *)
(* the rows of one page to those of the next: the queries have a LIMIT and *)
(* an OFFSET but ask for no order, so that each may read the table in an   *)
(* order of its own.  The table is that of one list: the systems of an     *)
(* organisation, the deployments of a system, the services not blocked;    *)
(* to block a service is to remove it.                                     *)
(***************************************************************************)
EXTENDS Integers, FiniteSets

CONSTANTS
    Row,          \* identifiers of rows
    Limits,       \* numbers of rows a client asks for, @IsPositive
    FirstPages,   \* pages clients begin with, which may be any integer
    DefaultLimit, \* 25, of a list that is a field of its parent
    NotANumber

Lists == {"systems", "field", "services", "stub", "many"}

NoWalk == [status |-> "none", list |-> "none"]

ASSUME PageNumbers ==
    /\ IsFiniteSet(Row)
    /\ Limits \subseteq Nat \ {0} /\ DefaultLimit \in Nat \ {0}
    /\ FirstPages \subseteq Int
    /\ NotANumber \notin Int

VARIABLES
    table,   \* the rows there are
    used,    \* the rows there are or have been
    walk,    \* the page the client has asked for, and what is known of it
    seen,    \* the rows the client has been given
    twice,   \* those it has been given on more than one page
    given,   \* the number of rows it has been given, page by page
    due,     \* history: how many there were from its first page on
    grew,    \* history: a row has been inserted since it began
    shrunk,  \* history: a row has been removed since it began
    moved    \* history: the table has changed since this page was first read

client == <<walk, seen, twice, given>>
history == <<due, grew, shrunk, moved>>
vars == <<table, used, client, history>>

-----------------------------------------------------------------------------
(* The queries *)

(* How many of n rows come after the first m, and are on a page that ends  *)
(* after k.                                                                *)
After(n, m) == IF m < n THEN n - m ELSE 0
OnPage(n, m, k) == IF After(n, m) < k THEN After(n, m) ELSE k

(* LIMIT and OFFSET without ORDER BY: as many rows as there are on the     *)
(* page, but any.                                                          *)
Slices(t, offset, limit) ==
    {rs \in SUBSET t : Cardinality(rs) = OnPage(Cardinality(t), offset, limit)}

(* Mutant: pages are taken for rows. *)
OffsetUnscaled(w) == w.page - 1

(* Mutant: pages are taken to be counted from zero. *)
OffsetFromZero(w) == w.page * w.limit

(* systems passes a negative offset on to the query builder, which throws; *)
(* getList, for services and for the lists of BaseService, does not.       *)
Offset(w) ==
    LET offset == (w.page - 1) * w.limit
    IN  IF w.list \in {"services", "stub"} /\ offset < 0 THEN 0 ELSE offset

Refused(w) == Offset(w) < 0

(* The search of BaseService and findByIDs return nothing at all. *)
Rows(w) ==
    IF w.list \in {"stub", "many"} THEN {{}} ELSE Slices(table, Offset(w), w.limit)

(* Mutant: only the rows from the offset on are counted. *)
CountOfRest(w) == Cardinality(table) - Offset(w)

(* SearchQuery takes the row that holds the count for the count. *)
Count(w) ==
    CASE w.list \in {"stub", "many"} -> 0
      [] w.list = "services" -> NotANumber
      [] OTHER -> Cardinality(table)

(* Mutant: a last page that is full is not taken for the last one. *)
HasNextPageAlso(w) ==
    w.list \notin {"field", "many"} /\ w.count \in Int /\ w.page * w.limit <= w.count

(* page < count / limit, which is false for NaN; a field is no connection, *)
(* and a list by ids does not say.                                         *)
HasNextPage(w) ==
    w.list \notin {"field", "many"} /\ w.count \in Int /\ w.page * w.limit < w.count

-----------------------------------------------------------------------------
(* The client and the resolvers that answer it *)

Asking == walk.status = "asking"

Got(what) == what \in walk.got

Answered == Got("rows") /\ Got("count")

Calm == grew' = FALSE /\ shrunk' = FALSE /\ moved' = FALSE

Begin(l, p, n) ==
    /\ walk = NoWalk
    /\ l \in {"field", "many"} => p = 1
    /\ l = "field" => n = DefaultLimit
    /\ walk' = [status |-> "asking", list |-> l, page |-> p, limit |-> n,
                got |-> {}, rows |-> {}, count |-> 0]
    /\ seen' = {} /\ twice' = {} /\ given' = 0
    /\ due' = After(Cardinality(table), (p - 1) * n)
    /\ Calm
    /\ UNCHANGED <<table, used>>

QueryRows ==
    /\ Asking /\ ~Got("rows") /\ ~Refused(walk)
    /\ \E rs \in Rows(walk) :
           walk' = [walk EXCEPT !.rows = rs, !.got = @ \cup {"rows"}]
    /\ UNCHANGED <<table, used, seen, twice, given, history>>

(* Mutant: a page without rows is left without a count, and unanswered.    *)
QueryCountIfAny ==
    /\ Asking /\ Got("rows") /\ walk.rows # {} /\ ~Got("count")
    /\ walk' = [walk EXCEPT !.count = Count(walk), !.got = @ \cup {"count"}]
    /\ UNCHANGED <<table, used, seen, twice, given, history>>

(* findAndCount sends both queries at once, each on a connection of its    *)
(* own; SearchQuery counts when it has the rows.                           *)
QueryCount ==
    /\ Asking /\ ~Got("count") /\ ~Refused(walk)
    /\ walk.list = "services" => Got("rows")
    /\ walk' = [walk EXCEPT !.count = Count(walk), !.got = @ \cup {"count"}]
    /\ UNCHANGED <<table, used, seen, twice, given, history>>

(* The client is answered, and asks for the next page when there is one.   *)
Answer ==
    /\ Asking /\ Answered
    /\ seen' = seen \cup walk.rows
    /\ twice' = twice \cup (seen \cap walk.rows)
    /\ given' = given + Cardinality(walk.rows)
    /\ walk' = IF HasNextPage(walk)
               THEN [walk EXCEPT !.page = @ + 1, !.got = {}, !.rows = {}, !.count = 0]
               ELSE [walk EXCEPT !.status = "done"]
    /\ moved' = FALSE
    /\ UNCHANGED <<table, used, due, grew, shrunk>>

Ends(w) ==
    /\ walk' = [walk EXCEPT !.status = w]
    /\ UNCHANGED <<table, used, seen, twice, given, history>>

Refuses == Asking /\ Refused(walk) /\ Ends("failed")

(* A query fails.  The count of services does where the server wants the   *)
(* columns beside an aggregate grouped, and their rows do when fields are  *)
(* to be filtered; and a list by ids does when the client asks whether     *)
(* there are more pages.                                                   *)
Fails == Asking /\ Ends("failed")

Leaves ==
    /\ walk.status \in {"done", "failed"}
    /\ walk' = NoWalk /\ seen' = {} /\ twice' = {} /\ given' = 0
    /\ due' = 0 /\ Calm
    /\ UNCHANGED <<table, used>>

-----------------------------------------------------------------------------
(* The other requests *)

Insert(r) ==
    /\ r \notin used
    /\ table' = table \cup {r}
    /\ used' = used \cup {r}
    /\ grew' = (grew \/ walk # NoWalk)
    /\ moved' = (moved \/ (Asking /\ walk.got # {}))
    /\ UNCHANGED <<client, due, shrunk>>

Remove(r) ==
    /\ r \in table
    /\ table' = table \ {r}
    /\ shrunk' = (shrunk \/ walk # NoWalk)
    /\ moved' = (moved \/ (Asking /\ walk.got # {}))
    /\ UNCHANGED <<used, client, due, grew>>

Init ==
    /\ table \in SUBSET Row /\ used = table
    /\ walk = NoWalk /\ seen = {} /\ twice = {} /\ given = 0
    /\ due = 0 /\ grew = FALSE /\ shrunk = FALSE /\ moved = FALSE

Walks == QueryRows \/ QueryCount \/ Answer \/ Refuses

Next ==
    \/ \E l \in Lists, p \in FirstPages, n \in Limits \cup {DefaultLimit} :
           Begin(l, p, n)
    \/ Walks \/ Fails
    \/ Leaves
    \/ \E r \in Row : Insert(r) \/ Remove(r)

Spec == Init /\ [][Next]_vars

(* The database answers every query, though maybe with an error. *)
FairSpec == Spec /\ WF_vars(Walks)

-----------------------------------------------------------------------------
(* Properties *)

TypeOK ==
    /\ table \subseteq used /\ used \subseteq Row
    /\ walk \in {NoWalk} \cup
         [status : {"asking", "done", "failed"}, list : Lists, page : Int,
          limit : Nat \ {0}, got : SUBSET {"rows", "count"},
          rows : SUBSET Row, count : {NotANumber} \cup Nat]
    /\ seen \subseteq Row /\ twice \subseteq Row
    /\ given \in Nat /\ due \in Nat
    /\ grew \in BOOLEAN /\ shrunk \in BOOLEAN /\ moved \in BOOLEAN

(* A client that follows the pages of systems from the first to the last   *)
(* while the list does not change, and is given no system twice, has been  *)
(* given every one of them.  Without an order of the rows a repetition is  *)
(* what a missed row costs, and nothing else tells of it.                  *)
WholeListSeen ==
    walk.status = "done" /\ walk.list = "systems" /\ ~grew /\ ~shrunk
        /\ due = Cardinality(table) /\ twice = {} =>
            seen = table

(* The pages of systems together have no more rows than there were from    *)
(* the first of them on, unless one was inserted meanwhile; and at the end *)
(* no fewer, unless one was removed.                                       *)
NoneTooMany == walk.list = "systems" /\ ~grew => given <= due

NoneTooFew ==
    walk.status = "done" /\ walk.list = "systems" /\ ~shrunk => due <= given

PagesAddUp == NoneTooMany /\ NoneTooFew

(* A page of systems says that there are more exactly when the query of    *)
(* the next page would find a row, if the table did not change while it    *)
(* was read.                                                               *)
NextPageIsTold == [][
    walk.list = "systems" /\ Asking /\ Answered /\ ~moved
        /\ walk' # walk /\ walk'.status # "failed" =>
    (walk'.status = "asking"
        <=> 0 < OnPage(Cardinality(table), walk.page * walk.limit, walk.limit))]_vars

(* Every walk ends. *)
WalkEnds == Asking ~> ~Asking

-----------------------------------------------------------------------------
(* The inductive invariants behind them *)

(* Of n rows, those the client has not asked for yet.                      *)
Rest(n) ==
    After(n, IF Got("rows") THEN walk.page * walk.limit
                            ELSE (walk.page - 1) * walk.limit)

Held == given + Cardinality(walk.rows)

(* What the client has and what it has not asked for make up what was due, *)
(* as far as the table has not grown or shrunk; a count that has not       *)
(* missed a removal has missed nothing that is due.                        *)
DueInv ==
    Asking /\ walk.list = "systems" =>
        /\ ~Got("rows") => walk.rows = {}
        /\ ~grew => Held + Rest(Cardinality(table)) <= due
        /\ ~shrunk =>
               /\ due <= Held + Rest(Cardinality(table))
               /\ Got("count") => /\ walk.count <= Cardinality(table)
                                  /\ due <= Held + Rest(walk.count)

(* While the table stands still the client is given what is there, and     *)
(* what it is given once it has once.                                      *)
SeenInv ==
    walk.list = "systems" /\ ~grew /\ ~shrunk =>
        /\ seen \subseteq table
        /\ Asking => walk.rows \subseteq table
        /\ twice = {} => Cardinality(seen) = given

(* A page of systems that is read is not before the first, and its count   *)
(* is that of the table unless the table has changed since.                *)
CountInv ==
    Asking /\ walk.list = "systems" =>
        /\ walk.got # {} => 0 <= (walk.page - 1) * walk.limit
        /\ walk.count \in Nat
        /\ ~moved /\ Got("count") => walk.count = Cardinality(table)

IInv == TypeOK /\ DueInv /\ SeenInv /\ CountInv /\ WholeListSeen /\ PagesAddUp
=============================================================================
