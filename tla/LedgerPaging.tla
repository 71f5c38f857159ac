---------------------------- MODULE LedgerPaging ----------------------------
(***************************************************************************)
(* GET /wallets/:id/transactions and GET /transfers: a client walks over   *)
(* the pages of a list, newest row first, for as long as it is told that   *)
(* there is a next page, while movements add rows.  A row is stamped       *)
(* (created_at, in milliseconds) before its transaction commits, and rows  *)
(* commit in any order.  The page and the count of one request are two     *)
(* statements, in either order, each with a snapshot of its own.           *)
(*                                                                         *)
(* A definition named X_Y is X with the mistake Y; see WalletLedger.       *)
(***************************************************************************)
EXTENDS Integers, FiniteSets

CONSTANTS
  Movements,      \* rows that are in the list or will be
  MaxTime,        \* bound on the clock
  DefaultLimit, MaxLimit,    \* 20 and 100
  Asked,          \* what clients send as page and as limit
  Absent          \* a parameter that was not sent

ASSUME PagingAssumption ==
  /\ IsFiniteSet(Movements)
  /\ MaxTime \in Nat \ {0}
  /\ DefaultLimit \in Nat \ {0} /\ MaxLimit \in Nat /\ DefaultLimit <= MaxLimit
  /\ Absent \notin Int /\ Asked \subseteq Int \cup {Absent}

VARIABLES
  clock,
  stamp,      \* when each row was made, 0 before
  committed,  \* the rows that statements see
  query,      \* the page and limit the client asks for
  pc,         \* "ask", "list", "invalid" or "done"
  executed,   \* which of the two statements were: "page", "count"
  shown,      \* the rows of the page
  total,      \* the count
  seen,       \* the rows the client has been shown
  again,      \* one of them was shown twice
  promised,   \* hasNext of the last answer
  first,      \* the rows committed when the client first asked, and the page
  overtaken   \* a row was committed after the count and before the page

table == <<clock, stamp, committed>>
client == <<query, pc, seen, again, promised, first>>
statements == <<executed, shown, total>>
vars == <<table, client, statements, overtaken>>

-----------------------------------------------------------------------------
(* common.validator.js, then pagination.js, whose defaults and bounds are  *)
(* those of the validator.                                                 *)
Smaller(a, b) == IF a <= b THEN a ELSE b
Larger(a, b) == IF a >= b THEN a ELSE b
OrElse(n, default) == IF n = Absent \/ n = 0 THEN default ELSE n

PaginationQuery_NoMin(q) == q.limit = Absent \/ q.limit <= MaxLimit
PaginationQuery(q) ==
  /\ q.page = Absent \/ q.page >= 1
  /\ q.limit = Absent \/ q.limit \in 1 .. MaxLimit

Page_Always1(q) == 1
Page(q) == Larger(OrElse(q.page, 1), 1)
Limit(q) == Smaller(Larger(OrElse(q.limit, DefaultLimit), 1), MaxLimit)
Take_OneMore(q) == Limit(q) + 1
Take(q) == Limit(q)
Skip_OneShort(q) == IF Page(q) = 1 THEN 0 ELSE (Page(q) - 1) * Take(q) - 1
Skip(q) == (Page(q) - 1) * Take(q)

PageMeta_Inclusive(q, n) ==
  [page |-> Page(q), limit |-> Limit(q), total |-> n,
   totalPages |-> Larger((n + Limit(q) - 1) \div Limit(q), 1),
   hasNext |-> Page(q) * Limit(q) <= n, hasPrev |-> Page(q) > 1]
PageMeta_Short(q, n) ==
  [page |-> Page(q), limit |-> Limit(q), total |-> n,
   totalPages |-> Larger(n \div Limit(q), 1),
   hasNext |-> Page(q) < n \div Limit(q), hasPrev |-> Page(q) > 1]
PageMeta(q, n) ==
  [page |-> Page(q), limit |-> Limit(q), total |-> n,
   totalPages |-> Larger((n + Limit(q) - 1) \div Limit(q), 1),
   hasNext |-> Page(q) * Limit(q) < n, hasPrev |-> Page(q) > 1]

-----------------------------------------------------------------------------
TypeOK ==
  /\ clock \in 1 .. MaxTime
  /\ stamp \in [Movements -> 0 .. MaxTime]
  /\ committed \subseteq {m \in Movements : stamp[m] > 0}
  /\ query \in [page : Int \cup {Absent}, limit : Asked]
  /\ pc \in {"ask", "list", "invalid", "done"}
  /\ executed \subseteq {"page", "count"}
  /\ shown \in {rows \in SUBSET Movements : Cardinality(rows) <= MaxLimit}
  /\ total \in Nat
  /\ seen \subseteq Movements
  /\ again \in BOOLEAN /\ promised \in BOOLEAN /\ overtaken \in BOOLEAN
  /\ first \in [rows : SUBSET Movements, page : Int \cup {Absent}]

(* Some rows are there already, perhaps of the same millisecond.           *)
Init ==
  /\ clock \in 1 .. MaxTime
  /\ committed \in SUBSET Movements
  /\ stamp \in [Movements -> 0 .. clock]
  /\ \A m \in Movements : m \in committed <=> stamp[m] > 0
  /\ query \in [page : Asked, limit : Asked]
  /\ pc = "ask"
  /\ executed = {} /\ shown = {} /\ total = 0
  /\ seen = {} /\ again = FALSE /\ promised = FALSE
  /\ first = [rows |-> {}, page |-> query.page]
  /\ overtaken = FALSE

-----------------------------------------------------------------------------
(* Movements, from the outside.                                            *)
Tick ==
  /\ clock < MaxTime
  /\ clock' = clock + 1
  /\ UNCHANGED <<stamp, committed, client, statements, overtaken>>

Make(m) ==
  /\ stamp[m] = 0
  /\ stamp' = [stamp EXCEPT ![m] = clock]
  /\ UNCHANGED <<clock, committed, client, statements, overtaken>>

Commit(m) ==
  /\ stamp[m] > 0 /\ m \notin committed
  /\ committed' = committed \cup {m}
  /\ overtaken' = (overtaken \/ executed = {"count"})
  /\ UNCHANGED <<clock, stamp, client, statements>>

-----------------------------------------------------------------------------
(* The handler of a list, and the client that walks.                       *)
Ask ==
  /\ pc = "ask"
  /\ pc' = IF PaginationQuery(query) THEN "list" ELSE "invalid"
  /\ executed' = {} /\ shown' = {} /\ total' = 0 /\ overtaken' = FALSE
  /\ first' = IF promised THEN first ELSE [first EXCEPT !.rows = committed]
  /\ UNCHANGED <<table, query, seen, again, promised>>

(* orderBy createdAt desc, skip, take: `before' are the rows skipped.      *)
(* Nothing orders rows of one millisecond, so each statement may put them  *)
(* in another order.                                                       *)
Newer(a, b) == stamp[a] >= stamp[b]
IsPage(rows, skip, take) ==
  \E before \in SUBSET (committed \ rows) :
    LET after == committed \ (before \cup rows)
    IN /\ Cardinality(before) = Smaller(skip, Cardinality(committed))
       /\ Cardinality(rows) =
            Smaller(take, Cardinality(committed) - Cardinality(before))
       /\ \A a \in before, b \in rows \cup after : Newer(a, b)
       /\ \A a \in rows, b \in after : Newer(a, b)

ReadPage ==
  /\ pc = "list" /\ "page" \notin executed
  /\ executed' = executed \cup {"page"}
  /\ \E rows \in SUBSET committed :
       /\ IsPage(rows, Skip(query), Take(query))
       /\ shown' = rows
  /\ UNCHANGED <<table, client, total, overtaken>>

ReadCount ==
  /\ pc = "list" /\ "count" \notin executed
  /\ executed' = executed \cup {"count"}
  /\ total' = Cardinality(committed)
  /\ UNCHANGED <<table, client, shown, overtaken>>

(* Promise.all is over; the client asks for the next page if there is one. *)
Answered == pc = "list" /\ executed = {"page", "count"}
Meta == PageMeta(query, total)
Answer ==
  /\ Answered
  /\ seen' = seen \cup shown
  /\ again' = (again \/ seen \cap shown # {})
  /\ promised' = Meta.hasNext
  /\ \/ /\ Meta.hasNext
        /\ query' = [query EXCEPT !.page = Meta.page + 1]
        /\ pc' = "ask"
     \/ ~Meta.hasNext /\ pc' = "done" /\ UNCHANGED query
  /\ UNCHANGED <<table, first, statements, overtaken>>

Quiescent == pc \in {"invalid", "done"} /\ UNCHANGED vars

List == Ask \/ ReadPage \/ ReadCount \/ Answer
Next ==
  \/ List
  \/ Tick
  \/ \E m \in Movements : Make(m) \/ Commit(m)
  \/ Quiescent

Spec == Init /\ [][Next]_vars
FairSpec == Spec /\ WF_vars(List)

-----------------------------------------------------------------------------
NoTies == \A a, b \in committed : stamp[a] = stamp[b] => a = b

(* A client that walks from the first page to the last meets every row     *)
(* that was there when it began, although others are committed on the way, *)
(* in any order: rows move to later pages only.  It may miss some when     *)
(* rows share a millisecond, or when a row is committed between the count  *)
(* and the page of one answer; NoTies and ~overtaken exclude these cases   *)
(* (transaction.list.service.js).                                          *)
EveryRowMet ==
  (pc = "done" /\ first.page \in {1, Absent} /\ NoTies /\ ~overtaken) =>
    first.rows \subseteq seen

(* A row is shown twice only if something was committed during the walk,   *)
(* or rows share a millisecond (orderBy createdAt).                        *)
NothingTwice ==
  (again /\ NoTies) => committed # first.rows

(* Who is told that there is a next page finds rows there, whenever he     *)
(* asks and in whichever order the two statements ran (buildPageMeta).     *)
NextPageHasRows == (promised /\ Answered) => shown # {}

(* The meta data say of the count what a reader of the list would: there   *)
(* are as many pages as it takes, one at least, there is a next one when   *)
(* this is not the last, and page and limit are those that were asked for. *)
Pages(n, limit) == {p \in 1 .. n : (p - 1) * limit < n}
MetaAgrees ==
  Answered =>
    /\ Meta.page = (IF query.page = Absent THEN 1 ELSE query.page)
    /\ Meta.limit = (IF query.limit = Absent THEN DefaultLimit ELSE query.limit)
    /\ Meta.totalPages = Larger(Cardinality(Pages(total, Meta.limit)), 1)
    /\ Meta.hasNext <=> Meta.page < Meta.totalPages
    /\ Meta.hasPrev <=> Meta.page # 1
    /\ Cardinality(shown) <= Meta.limit

(* The walk ends: the pages it is promised do not go on for ever.          *)
WalkEnds == <>(pc \in {"invalid", "done"})
=============================================================================
