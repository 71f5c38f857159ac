------------------------- MODULE LedgerPagingProofs -------------------------
(***************************************************************************)
(* What a client that walks over the pages of a list may rely on, for any  *)
(* number of rows, any bounds of the parameters and whatever is committed  *)
(* meanwhile.                                                              *)
(***************************************************************************)
EXTENDS LedgerPaging, FiniteSetTheorems, TLAPS

-----------------------------------------------------------------------------
(* The arithmetic of pagination.js.                                        *)

Queries == [page : Int \cup {Absent}, limit : Int \cup {Absent}]

(* Whatever is asked for, page and limit are within their bounds.          *)
LEMMA Bounds ==
  ASSUME NEW q \in Queries
  PROVE  /\ Page(q) \in Nat \ {0}
         /\ Limit(q) \in 1 .. MaxLimit
         /\ Limit(q) \in Nat \ {0}
         /\ Take(q) = Limit(q)
         /\ Skip(q) = (Page(q) - 1) * Limit(q)
<1>1. OrElse(q.page, 1) \in Int /\ OrElse(q.limit, DefaultLimit) \in Int
  BY PagingAssumption DEF Queries, OrElse
<1> QED
  BY <1>1, PagingAssumption DEF Page, Limit, Take, Skip, Smaller, Larger

(* What is asked for within the bounds is what is given.                   *)
LEMMA AsAsked ==
  ASSUME NEW q \in Queries, PaginationQuery(q)
  PROVE  /\ Page(q) = (IF q.page = Absent THEN 1 ELSE q.page)
         /\ Limit(q) = (IF q.limit = Absent THEN DefaultLimit ELSE q.limit)
BY PagingAssumption
   DEF Queries, PaginationQuery, Page, Limit, OrElse, Smaller, Larger

(* Multiplication by a natural number keeps the order.                     *)
LEMMA Monotone ==
  ASSUME NEW a \in Int, NEW b \in Int, NEW l \in Nat, a <= b
  PROVE  a * l <= b * l
<1>1. (b - a) * l >= 0
  OBVIOUS
<1>2. (b - a) * l = b * l - a * l
  OBVIOUS
<1>3. a * l \in Int /\ b * l \in Int
  OBVIOUS
<1> QED
  BY <1>1, <1>2, <1>3

(* Rounded up, the quotient counts the pages that hold a row.              *)
LEMMA Quotient ==
  ASSUME NEW n \in Nat, NEW l \in Nat \ {0}
  PROVE  LET k == (n + l - 1) \div l
         IN  /\ k \in Nat
             /\ \A p \in Nat \ {0} : p <= k <=> (p - 1) * l < n
<1> DEFINE k == (n + l - 1) \div l
<1>1. k \in Nat /\ k * l <= n + l - 1 /\ n + l - 1 < k * l + l
  <2>1. n + l - 1 \in Nat
    OBVIOUS
  <2>2. \A a \in Nat : /\ a \div l \in Int
                       /\ a = l * (a \div l) + (a % l)
                       /\ a % l \in 0 .. l - 1
    OBVIOUS
  <2> DEFINE a == n + l - 1
  <2>3. k \in Int /\ a = l * k + (a % l) /\ a % l \in 0 .. l - 1
    BY <2>1, <2>2
  <2> HIDE DEF k
  <2>4. l * k = k * l /\ k * l \in Int
    BY <2>3
  <2>5. k >= 0
    <3>1. SUFFICES ASSUME k <= -1 PROVE FALSE
      BY <2>3
    <3>2. k * l <= -1 * l
      BY <3>1, <2>3, Monotone
    <3> QED
      BY <3>2, <2>3, <2>4
  <2> QED
    BY <2>3, <2>4, <2>5
<1> HIDE DEF k
<1>2. ASSUME NEW p \in Nat \ {0}
      PROVE  p <= k <=> (p - 1) * l < n
  <2>1. p * l = (p - 1) * l + l /\ (p - 1) * l \in Int /\ k * l \in Int
    BY <1>1
  <2>2. CASE p <= k
    <3>1. p * l <= k * l
      BY <2>2, <1>1, Monotone
    <3> QED
      BY <3>1, <2>1, <2>2, <1>1
  <2>3. CASE ~(p <= k)
    <3>1. k * l <= (p - 1) * l
      BY <2>3, <1>1, Monotone
    <3> QED
      BY <3>1, <2>1, <2>3, <1>1
  <2> QED
    BY <2>2, <2>3
<1> QED
  BY <1>1, <1>2 DEF k

(* Pages are counted as a reader would, for every list and every limit.    *)
LEMMA MetaIsRight ==
  ASSUME NEW q \in Queries, PaginationQuery(q), NEW n \in Nat
  PROVE  LET meta == PageMeta(q, n)
         IN  /\ meta.page = (IF q.page = Absent THEN 1 ELSE q.page)
             /\ meta.limit = (IF q.limit = Absent THEN DefaultLimit ELSE q.limit)
             /\ meta.totalPages = Larger(Cardinality(Pages(n, meta.limit)), 1)
             /\ meta.hasNext <=> meta.page < meta.totalPages
             /\ meta.hasPrev <=> meta.page # 1
<1> DEFINE l == Limit(q)
           p == Page(q)
           k == (n + l - 1) \div l
<1>1. l \in Nat \ {0} /\ p \in Nat \ {0}
  BY Bounds
<1>2. k \in Nat /\ \A i \in Nat \ {0} : i <= k <=> (i - 1) * l < n
  BY <1>1, Quotient
<1>3. PageMeta(q, n) = [page |-> p, limit |-> l, total |-> n,
                        totalPages |-> Larger(k, 1),
                        hasNext |-> p * l < n, hasPrev |-> p > 1]
  BY DEF PageMeta
<1> HIDE DEF l, p, k
<1>4. Pages(n, l) = 1 .. k
  <2>1. k <= n
    <3>1. SUFFICES ASSUME k > n PROVE FALSE
      BY <1>2
    <3>2. (k - 1) * l < n
      BY <3>1, <1>2
    <3>3. (k - 1) * 1 <= (k - 1) * l
      <4>1. (l - 1) * (k - 1) >= 0 /\ (l - 1) * (k - 1) = (k - 1) * l - (k - 1)
        BY <1>1, <1>2, <3>1
      <4> QED
        BY <4>1, <1>1, <1>2
    <3> QED
      BY <3>1, <3>2, <3>3, <1>1, <1>2
  <2> QED
    BY <2>1, <1>2 DEF Pages
<1>5. Cardinality(Pages(n, l)) = k
  BY <1>2, <1>4, FS_Interval
<1>6. p * l < n <=> p < Larger(k, 1)
  <2>1. p + 1 <= k <=> (p + 1 - 1) * l < n
    BY <1>1, <1>2
  <2>2. p + 1 - 1 = p
    BY <1>1
  <2> QED
    BY <2>1, <2>2, <1>1, <1>2 DEF Larger
<1> DEFINE meta == PageMeta(q, n)
<1>7. /\ meta.page = p /\ meta.limit = l
      /\ meta.totalPages = Larger(k, 1)
      /\ meta.hasNext = (p * l < n) /\ meta.hasPrev = (p > 1)
  BY <1>3
<1>8. /\ p = (IF q.page = Absent THEN 1 ELSE q.page)
      /\ l = (IF q.limit = Absent THEN DefaultLimit ELSE q.limit)
  BY AsAsked DEF l, p
<1>9. p > 1 <=> p # 1
  BY <1>1
<1> HIDE DEF meta
<1>10. /\ meta.page = (IF q.page = Absent THEN 1 ELSE q.page)
       /\ meta.limit = (IF q.limit = Absent THEN DefaultLimit ELSE q.limit)
       /\ meta.totalPages = Larger(Cardinality(Pages(n, meta.limit)), 1)
       /\ meta.hasNext <=> meta.page < meta.totalPages
       /\ meta.hasPrev <=> meta.page # 1
  BY <1>5, <1>6, <1>7, <1>8, <1>9
<1> QED
  BY <1>10 DEF meta

-----------------------------------------------------------------------------
(* What each statement has seen, and what the answers promise.             *)
Served ==
  /\ pc = "list" => PaginationQuery(query)
  /\ "page" \in executed => Cardinality(shown) <= Limit(query)
  /\ "count" \in executed => total <= Cardinality(committed)
  /\ (executed = {"count"} /\ ~overtaken) => total = Cardinality(committed)
  /\ promised => Skip(query) < Cardinality(committed)
  /\ (promised /\ pc = "list" /\ "page" \in executed) => shown # {}
ServedInv == TypeOK /\ Served

(* A set of rows is finite.                                                *)
LEMMA Finite ==
  ASSUME NEW S \in SUBSET Movements
  PROVE  IsFiniteSet(S) /\ Cardinality(S) \in Nat
BY PagingAssumption, FS_Subset, FS_CardinalityType

(* A query of the state is one of Queries.                                 *)
LEMMA QueryTyped == TypeOK => query \in Queries
  BY PagingAssumption DEF TypeOK, Queries

(* The rows before a page of S, and those on it, are as many as IsPage     *)
(* asks for.                                                               *)
Sized(S, before, rows, skip, take) ==
  /\ S \in SUBSET Movements /\ before \in SUBSET S /\ rows \in SUBSET (S \ before)
  /\ skip \in Nat /\ take \in Nat
  /\ Cardinality(before) = Smaller(skip, Cardinality(S))
  /\ Cardinality(rows) = Smaller(take, Cardinality(S) - Cardinality(before))

(* What a page holds: skip rows come before it, or it is empty, and it is  *)
(* full, or the last one.                                                  *)
LEMMA PageSize ==
  ASSUME NEW S, NEW before, NEW rows, NEW skip, NEW take,
         Sized(S, before, rows, skip, take)
  PROVE  /\ Cardinality(rows) <= take
         /\ Cardinality(before \cup rows) = Cardinality(before) + Cardinality(rows)
         /\ S # before => Cardinality(before) = skip
         /\ S # before \cup rows => Cardinality(rows) = take
<1> USE DEF Sized
<1>1. /\ before \in SUBSET Movements /\ rows \in SUBSET Movements
      /\ before \cup rows \in SUBSET S
  OBVIOUS
<1>2. /\ IsFiniteSet(S) /\ Cardinality(S) \in Nat
      /\ IsFiniteSet(before) /\ Cardinality(before) \in Nat
      /\ IsFiniteSet(rows) /\ Cardinality(rows) \in Nat
  BY <1>1, Finite
<1>3. Cardinality(before \cup rows) = Cardinality(before) + Cardinality(rows)
  <2>1. before \cap rows = {}
    OBVIOUS
  <2>2. Cardinality(before \cup rows) =
          Cardinality(before) + Cardinality(rows) - Cardinality(before \cap rows)
    BY <1>2, FS_Union
  <2>3. Cardinality(before \cap rows) = 0
    BY <2>1, FS_EmptySet
  <2> QED
    BY <1>2, <2>2, <2>3
<1>4. /\ Cardinality(before) <= Cardinality(S)
      /\ Cardinality(before) = Cardinality(S) => before = S
      /\ Cardinality(before \cup rows) = Cardinality(S) => before \cup rows = S
  BY <1>1, <1>2, FS_Subset
<1> QED
  BY <1>2, <1>3, <1>4 DEF Smaller

(* Before the first request nothing was seen or promised.                  *)
LEMMA ServedInit == Init => ServedInv
<1> SUFFICES ASSUME Init PROVE ServedInv
  OBVIOUS
<1>1. IsFiniteSet({}) /\ Cardinality({}) = 0
  BY FS_EmptySet
<1>2. TypeOK
  <2>1. stamp \in [Movements -> 0 .. MaxTime] /\ clock \in 1 .. MaxTime
    BY PagingAssumption DEF Init
  <2>2. query \in [page : Int \cup {Absent}, limit : Asked]
    BY PagingAssumption DEF Init
  <2>3. first \in [rows : SUBSET Movements, page : Int \cup {Absent}]
    BY <2>2 DEF Init
  <2>4. shown \in {rows \in SUBSET Movements : Cardinality(rows) <= MaxLimit}
    BY <1>1, PagingAssumption DEF Init
  <2> QED
    BY <2>1, <2>2, <2>3, <2>4 DEF Init, TypeOK
<1> QED
  BY <1>2 DEF Init, ServedInv, Served

(* The statements run one after the other, in either order, while rows are *)
(* committed: neither sees a row that goes again.                          *)
LEMMA ServedStep == ServedInv /\ [Next]_vars => ServedInv'
<1> SUFFICES ASSUME TypeOK, Served, [Next]_vars
             PROVE  TypeOK' /\ Served'
  BY DEF ServedInv
<1>0. /\ query \in Queries
      /\ committed \in SUBSET Movements
      /\ IsFiniteSet(committed) /\ Cardinality(committed) \in Nat
      /\ Page(query) \in Nat \ {0} /\ Limit(query) \in 1 .. MaxLimit
      /\ Take(query) = Limit(query) /\ Skip(query) = (Page(query) - 1) * Limit(query)
      /\ Skip(query) \in Nat
  BY QueryTyped, Bounds, Finite DEF TypeOK
<1>1. CASE Tick
  <2>1. TypeOK'
    BY <1>1, PagingAssumption DEF Tick, client, statements, TypeOK
  <2> QED
    BY <1>1, <2>1 DEF Tick, client, statements, Served
<1>2. ASSUME NEW m \in Movements, Make(m)
      PROVE  TypeOK' /\ Served'
  <2>1. TypeOK'
    BY <1>2, PagingAssumption DEF Make, client, statements, TypeOK
  <2> QED
    BY <1>2, <2>1 DEF Make, client, statements, Served
<1>3. ASSUME NEW m \in Movements, Commit(m)
      PROVE  TypeOK' /\ Served'
  <2>1. TypeOK'
    BY <1>3 DEF Commit, client, statements, TypeOK
  <2>2. Cardinality(committed') = Cardinality(committed) + 1
    BY <1>0, <1>3, FS_AddElement DEF Commit
  <2>3. /\ UNCHANGED <<query, pc, executed, shown, total, promised>>
        /\ overtaken' = (overtaken \/ executed = {"count"})
    BY <1>3 DEF Commit, client, statements
  <2>4. total \in Nat
    BY DEF TypeOK
  <2>5. ~overtaken' => ~overtaken /\ executed # {"count"}
    BY <1>3 DEF Commit, TypeOK
  <2>6. /\ Cardinality(committed) <= Cardinality(committed')
        /\ Skip(query) < Cardinality(committed) => Skip(query') < Cardinality(committed')
        /\ total <= Cardinality(committed) => total' <= Cardinality(committed')
    BY <1>0, <2>2, <2>3, <2>4
  <2>7. Served'
    BY <2>3, <2>5, <2>6 DEF Served
  <2> QED
    BY <2>1, <2>7
<1>4. CASE Ask
  <2>1. Cardinality({}) = 0
    BY FS_EmptySet
  <2>2. TypeOK'
    <3>1. first' \in [rows : SUBSET Movements, page : Int \cup {Absent}]
      BY <1>4 DEF Ask, TypeOK
    <3>2. shown' \in {rows \in SUBSET Movements : Cardinality(rows) <= MaxLimit}
      BY <1>4, <2>1, PagingAssumption DEF Ask
    <3> QED
      BY <1>4, <3>1, <3>2 DEF Ask, table, TypeOK
  <2> QED
    BY <1>4, <2>1, <2>2 DEF Ask, table, Served
<1>5. CASE ReadPage
  <2>1. PICK rows \in SUBSET committed :
          IsPage(rows, Skip(query), Take(query)) /\ shown' = rows
    BY <1>5 DEF ReadPage
  <2>2. PICK before \in SUBSET (committed \ rows) :
          /\ Cardinality(before) = Smaller(Skip(query), Cardinality(committed))
          /\ Cardinality(rows) =
               Smaller(Take(query), Cardinality(committed) - Cardinality(before))
    BY <2>1 DEF IsPage
  <2>3. before \in SUBSET committed /\ rows \in SUBSET (committed \ before)
    OBVIOUS
  <2>4. Take(query) \in Nat
    BY <1>0
  <2>5. Cardinality(before) \in Nat
    BY <1>0, <2>3, Finite
  <2>6. /\ Cardinality(rows) <= Take(query)
        /\ Skip(query) < Cardinality(committed) => rows # {}
    <3>1. Cardinality({}) = 0
      BY FS_EmptySet
    <3>2. Take(query) > 0
      BY <1>0, PagingAssumption
    <3>3. /\ Cardinality(rows) <= Take(query)
          /\ Skip(query) < Cardinality(committed) => Cardinality(rows) > 0
      BY <1>0, <2>2, <2>4, <2>5, <3>2 DEF Smaller
    <3> QED
      BY <3>1, <3>3
  <2>7. Cardinality(rows) \in Nat
    BY <1>0, <2>1, Finite
  <2>8. /\ pc = "list" /\ executed' = executed \cup {"page"}
        /\ UNCHANGED <<table, client, total, overtaken>>
    BY <1>5 DEF ReadPage
  <2>9. TypeOK'
    BY <1>0, <2>1, <2>6, <2>7, <2>8, PagingAssumption DEF table, client, TypeOK
  <2> QED
    BY <1>0, <2>1, <2>6, <2>8, <2>9 DEF table, client, TypeOK, Served
<1>6. CASE ReadCount
  <2>1. TypeOK'
    BY <1>0, <1>6 DEF ReadCount, table, client, TypeOK
  <2> QED
    BY <1>0, <1>6, <2>1 DEF ReadCount, table, client, TypeOK, Served
<1>7. CASE Answer
  <2>1. /\ pc = "list" /\ executed = {"page", "count"}
        /\ total <= Cardinality(committed) /\ total \in Nat
        /\ Meta.hasNext <=> Page(query) * Limit(query) < total
        /\ Meta.page = Page(query)
        /\ UNCHANGED <<table, first, statements, overtaken>>
        /\ promised' = Meta.hasNext
    BY <1>7 DEF Answer, Answered, Meta, PageMeta, Served, TypeOK
  <2>2. promised' \in BOOLEAN /\ again' \in BOOLEAN
    <3>1. Meta.hasNext = (Page(query) * Limit(query) < total)
      BY DEF Meta, PageMeta
    <3>2. promised' = Meta.hasNext /\ again' = (again \/ seen \cap shown # {})
      BY <1>7 DEF Answer
    <3> QED
      BY <3>1, <3>2
  <2>3. CASE Meta.hasNext
    <3>1. query' = [query EXCEPT !.page = Page(query) + 1] /\ pc' = "ask"
      BY <1>7, <2>1, <2>3 DEF Answer
    <3>2. /\ query' \in Queries /\ query'.page = Page(query) + 1
          /\ query'.limit = query.limit
      BY <1>0, <3>1 DEF Queries
    <3>3. Page(query') = Page(query) + 1 /\ Limit(query') = Limit(query)
      BY <1>0, <3>2, PagingAssumption DEF Page, Limit, OrElse, Larger
    <3>4. Skip(query') = Page(query) * Limit(query)
      <4>1. Page(query) + 1 - 1 = Page(query)
        BY <1>0
      <4> QED
        BY <1>0, <3>2, <3>3, <4>1 DEF Skip, Take
    <3>5. TypeOK'
      BY <1>0, <1>7, <2>1, <2>2, <3>1 DEF Answer, table, statements, TypeOK
    <3>6. UNCHANGED <<committed, executed, shown, total, overtaken>>
      BY <2>1 DEF table, statements
    <3>7. Page(query) * Limit(query) \in Nat
      BY <1>0
    <3>8. Skip(query') < Cardinality(committed')
      BY <1>0, <2>1, <2>3, <3>4, <3>6, <3>7
    <3>9. Served'
      BY <2>1, <3>1, <3>3, <3>6, <3>8 DEF Served
    <3> QED
      BY <3>5, <3>9
  <2>4. CASE ~Meta.hasNext
    <3>1. UNCHANGED query /\ pc' = "done" /\ ~promised'
      BY <1>7, <2>1, <2>4 DEF Answer
    <3>2. TypeOK'
      BY <1>7, <2>1, <2>2, <3>1 DEF Answer, table, statements, TypeOK
    <3> QED
      BY <2>1, <3>1, <3>2 DEF table, statements, TypeOK, Served
  <2> QED
    BY <2>3, <2>4
<1>8. CASE Quiescent \/ UNCHANGED vars
  <2>1. UNCHANGED vars
    BY <1>8 DEF Quiescent
  <2>2. TypeOK'
    BY <2>1 DEF vars, table, client, statements, TypeOK
  <2> QED
    BY <2>1, <2>2 DEF vars, table, client, statements, Served
<1> QED
  BY <1>1, <1>2, <1>3, <1>4, <1>5, <1>6, <1>7, <1>8 DEF Next, List

(* The three facts of an invariance proof, combined.                       *)
LEMMA ServedAlways == Spec => []ServedInv
  BY ServedInit, ServedStep, PTL DEF Spec

(* The state of a list and of a walk over it keeps its types, for every    *)
(* list and every query string (pagination.js: no page, limit or offset    *)
(* that is not a number reaches a statement).                              *)
THEOREM PagingTypes == Spec => []TypeOK
<1>1. ServedInv => TypeOK
  BY DEF ServedInv
<1> QED
  BY <1>1, ServedAlways, PTL

(* The meta data of an answer say of its count what a reader of the list   *)
(* would (buildPageMeta), for every list and every page and limit that the *)
(* validator lets through.                                                 *)
THEOREM MetaDataAgree == Spec => []MetaAgrees
<1>1. ServedInv => MetaAgrees
  <2> SUFFICES ASSUME ServedInv, Answered PROVE MetaAgrees
    BY DEF MetaAgrees
  <2>1. query \in Queries /\ PaginationQuery(query) /\ total \in Nat
    BY QueryTyped DEF ServedInv, Served, TypeOK, Answered
  <2>2. Meta.limit = Limit(query) /\ Cardinality(shown) <= Limit(query)
    BY DEF Meta, PageMeta, ServedInv, Served, Answered
  <2> QED
    BY <2>1, <2>2, MetaIsRight DEF Meta, MetaAgrees
<1> QED
  BY <1>1, ServedAlways, PTL

(* Whoever is told that there is a next page finds rows there: lists only  *)
(* grow, and the count promised no more than was committed.                *)
THEOREM PromisesAreKept == Spec => []NextPageHasRows
<1>1. ServedInv => NextPageHasRows
  BY DEF ServedInv, Served, NextPageHasRows, Answered
<1> QED
  BY <1>1, ServedAlways, PTL

(* Each request of a walk asks for the page after the one before, and      *)
(* never for one beyond the number of rows there are: a walk is over after *)
(* as many requests as the list has rows, or the first one (buildPageMeta: *)
(* hasNext).  WalkEnds rests on it, with fairness.                         *)
WalkAdvances ==
  [][(pc = "list" /\ pc' = "ask") =>
       /\ Page(query') = Page(query) + 1
       /\ Page(query') <= Cardinality(committed)]_vars
THEOREM WalksAreFinite == Spec => WalkAdvances
<1>1. ASSUME ServedInv, [Next]_vars, pc = "list", pc' = "ask"
      PROVE  Page(query') = Page(query) + 1 /\ Page(query') <= Cardinality(committed)
  <2>1. Answer /\ Meta.hasNext
    BY <1>1 DEF Next, List, Ask, ReadPage, ReadCount, Answer, Make, Commit, Tick,
       Quiescent, vars, table, client
  <2>2. /\ query \in Queries /\ PaginationQuery(query)
        /\ total \in Nat /\ total <= Cardinality(committed)
        /\ query' = [query EXCEPT !.page = Page(query) + 1]
        /\ Page(query) * Limit(query) < total
    BY <1>1, <2>1, QueryTyped
       DEF ServedInv, Served, TypeOK, Answer, Answered, Meta, PageMeta
  <2>3. Page(query) \in Nat \ {0} /\ Limit(query) \in Nat \ {0}
    BY <2>2, Bounds
  <2>4. Cardinality(committed) \in Nat
    BY <1>1, Finite DEF ServedInv, TypeOK
  <2>5. Page(query') = Page(query) + 1
    BY <2>2, <2>3, PagingAssumption DEF Queries, Page, OrElse, Larger
  <2>6. Page(query) * 1 <= Page(query) * Limit(query)
    BY <2>3, Monotone
  <2>7. Page(query) * Limit(query) \in Int
    BY <2>3
  <2> QED
    BY <2>2, <2>3, <2>4, <2>5, <2>6, <2>7
<1>2. ServedInv /\ [Next]_vars =>
        [(pc = "list" /\ pc' = "ask") =>
           /\ Page(query') = Page(query) + 1
           /\ Page(query') <= Cardinality(committed)]_vars
  BY <1>1
<1> QED
  BY <1>2, ServedAlways, PTL DEF Spec, WalkAdvances

-----------------------------------------------------------------------------
(* How many rows of a list are newer than one of them: where it stands in  *)
(* the list, if no two rows share a millisecond.                           *)
Rank(a, rows, time) == Cardinality({b \in rows : time[b] > time[a]})

(* The rows of a page are those whose ranks are its own; one that is left  *)
(* out comes before the page or after it.                                  *)
LEMMA PageRanks ==
  ASSUME TypeOK, NoTies, NEW rows \in SUBSET committed,
         NEW skip \in Nat, NEW take \in Nat, IsPage(rows, skip, take),
         NEW a \in committed
  PROVE  /\ Rank(a, committed, stamp) \in Nat
         /\ a \in rows => /\ skip <= Rank(a, committed, stamp)
                          /\ Rank(a, committed, stamp) < skip + take
         /\ (a \notin rows /\ skip <= Rank(a, committed, stamp)) =>
              skip + take <= Rank(a, committed, stamp)
<1> DEFINE newer == {b \in committed : stamp[b] > stamp[a]}
<1>1. PICK before \in SUBSET (committed \ rows) :
        /\ Cardinality(before) = Smaller(skip, Cardinality(committed))
        /\ Cardinality(rows) =
             Smaller(take, Cardinality(committed) - Cardinality(before))
        /\ \A c \in before, b \in rows \cup (committed \ (before \cup rows)) :
             stamp[c] >= stamp[b]
        /\ \A c \in rows, b \in committed \ (before \cup rows) : stamp[c] >= stamp[b]
  BY DEF IsPage, Newer
<1>2. /\ committed \in SUBSET Movements
      /\ before \in SUBSET committed /\ rows \in SUBSET (committed \ before)
      /\ \A c \in committed : stamp[c] \in Int
      /\ \A b, c \in committed : stamp[b] = stamp[c] => b = c
  BY DEF TypeOK, NoTies
<1>3. /\ Cardinality(rows) <= take
      /\ Cardinality(before \cup rows) = Cardinality(before) + Cardinality(rows)
      /\ committed # before => Cardinality(before) = skip
      /\ committed # before \cup rows => Cardinality(rows) = take
  <2>1. Sized(committed, before, rows, skip, take)
    BY <1>1, <1>2 DEF Sized
  <2> QED
    BY <2>1, PageSize
<1>4. /\ IsFiniteSet(newer) /\ Cardinality(newer) \in Nat
      /\ IsFiniteSet(before) /\ Cardinality(before) \in Nat
      /\ IsFiniteSet(rows) /\ Cardinality(rows) \in Nat
      /\ IsFiniteSet(before \cup rows) /\ Cardinality(before \cup rows) \in Nat
  <2>1. /\ newer \in SUBSET Movements /\ before \in SUBSET Movements
        /\ rows \in SUBSET Movements /\ before \cup rows \in SUBSET Movements
    BY <1>2
  <2> QED
    BY <2>1, Finite
<1>5. Rank(a, committed, stamp) = Cardinality(newer)
  BY DEF Rank
<1>6. ASSUME a \in rows
      PROVE  skip <= Cardinality(newer) /\ Cardinality(newer) < skip + take
  <2>1. before \in SUBSET newer
    BY <1>1, <1>2, <1>6
  <2>2. newer \in SUBSET ((before \cup rows) \ {a})
    BY <1>1, <1>2, <1>6
  <2>3. /\ IsFiniteSet((before \cup rows) \ {a})
        /\ Cardinality((before \cup rows) \ {a}) = Cardinality(before \cup rows) - 1
    BY <1>4, <1>6, FS_RemoveElement
  <2>4. Cardinality(before) <= Cardinality(newer)
    BY <1>4, <2>1, FS_Subset
  <2>5. Cardinality(newer) <= Cardinality((before \cup rows) \ {a})
    BY <2>2, <2>3, FS_Subset
  <2>6. committed # before
    BY <1>2, <1>6
  <2> QED
    BY <1>3, <1>4, <2>3, <2>4, <2>5, <2>6
<1>7. ASSUME a \notin rows, skip <= Cardinality(newer)
      PROVE  skip + take <= Cardinality(newer)
  <2>1. CASE a \in before
    <3>1. newer \in SUBSET (before \ {a})
      BY <1>1, <1>2, <2>1
    <3>2. /\ IsFiniteSet(before \ {a})
          /\ Cardinality(before \ {a}) = Cardinality(before) - 1
      BY <1>4, <2>1, FS_RemoveElement
    <3>3. Cardinality(newer) <= Cardinality(before \ {a})
      BY <3>1, <3>2, FS_Subset
    <3>4. Cardinality(committed) \in Nat
      BY <1>2, Finite
    <3>5. Cardinality(before) <= skip
      BY <1>1, <3>4 DEF Smaller
    <3> QED
      BY <1>4, <1>7, <3>2, <3>3, <3>5
  <2>2. CASE a \notin before
    <3>1. before \cup rows \in SUBSET newer
      BY <1>1, <1>2, <1>7, <2>2
    <3>2. Cardinality(before \cup rows) <= Cardinality(newer)
      BY <1>4, <3>1, FS_Subset
    <3>3. committed # before /\ committed # before \cup rows
      BY <1>7, <2>2
    <3> QED
      BY <1>3, <1>4, <3>2, <3>3
  <2> QED
    BY <2>1, <2>2
<1> QED
  BY <1>4, <1>5, <1>6, <1>7

(* A row has a rank below the number of rows, and commits only raise it.   *)
LEMMA RankBounds ==
  ASSUME NEW rows \in SUBSET Movements, NEW a \in rows, NEW m \in Movements,
         NEW time \in [Movements -> Nat]
  PROVE  /\ Rank(a, rows, time) \in Nat
         /\ Rank(a, rows, time) < Cardinality(rows)
         /\ Rank(a, rows, time) <= Rank(a, rows \cup {m}, time)
         /\ Rank(a, rows \cup {m}, time) \in Nat
<1> DEFINE newer == {b \in rows : time[b] > time[a]}
           then == {b \in rows \cup {m} : time[b] > time[a]}
<1>1. /\ newer \in SUBSET Movements /\ then \in SUBSET Movements
      /\ newer \in SUBSET (rows \ {a}) /\ newer \in SUBSET then
  OBVIOUS
<1>2. /\ IsFiniteSet(newer) /\ Cardinality(newer) \in Nat
      /\ IsFiniteSet(then) /\ Cardinality(then) \in Nat
      /\ IsFiniteSet(rows) /\ Cardinality(rows) \in Nat
  BY <1>1, Finite
<1>3. IsFiniteSet(rows \ {a}) /\ Cardinality(rows \ {a}) = Cardinality(rows) - 1
  BY <1>2, FS_RemoveElement
<1>4. /\ Cardinality(newer) <= Cardinality(rows \ {a})
      /\ Cardinality(newer) <= Cardinality(then)
  BY <1>1, <1>2, <1>3, FS_Subset
<1>5. /\ Rank(a, rows, time) = Cardinality(newer)
      /\ Rank(a, rows \cup {m}, time) = Cardinality(then)
  BY DEF Rank
<1> HIDE DEF newer, then
<1> QED
  BY <1>2, <1>3, <1>4, <1>5

-----------------------------------------------------------------------------
(* Where the client of a walk stands: the rows it has not met come later,  *)
(* and those it has met came before, if nothing was committed meanwhile.   *)
Position(a) == Rank(a, committed, stamp)
Walking == pc = "list" \/ (pc = "ask" /\ promised)
Paged == pc = "list" /\ "page" \in executed
Remembers ==
  /\ first.rows \subseteq committed
  /\ seen \subseteq committed
  /\ shown \subseteq committed
  /\ (pc = "ask" /\ ~promised) => query.page = first.page /\ seen = {} /\ ~again
UnmetAreAhead ==
  (NoTies /\ first.page \in {1, Absent}) =>
    /\ Walking => \A a \in first.rows \ seen : Skip(query) <= Position(a)
    /\ Paged => \A a \in first.rows \ (seen \cup shown) :
         /\ Skip(query) + Take(query) <= Position(a)
         /\ ("count" \in executed /\ ~overtaken) => Skip(query) + Take(query) < total
    /\ (pc = "done" /\ ~overtaken) => first.rows \subseteq seen
MetAreBehind ==
  (NoTies /\ committed = first.rows) =>
    /\ ~again
    /\ Walking => \A a \in seen : Position(a) < Skip(query)
    /\ Paged => \A a \in shown : /\ Skip(query) <= Position(a)
                                 /\ Position(a) < Skip(query) + Take(query)
WalkInv == Remembers /\ UnmetAreAhead /\ MetAreBehind

(* A walk that has not begun has met nothing.                              *)
LEMMA WalkInit == Init => WalkInv
<1> SUFFICES ASSUME Init PROVE WalkInv
  OBVIOUS
<1>1. /\ pc = "ask" /\ ~promised /\ ~again /\ executed = {} /\ shown = {} /\ seen = {}
      /\ first.rows = {} /\ first.page = query.page
  BY DEF Init
<1>2. Remembers
  BY <1>1 DEF Remembers
<1>3. UnmetAreAhead /\ MetAreBehind
  BY <1>1 DEF UnmetAreAhead, MetAreBehind, Walking, Paged
<1> QED
  BY <1>2, <1>3 DEF WalkInv

(* Rows are committed while the client walks: those it knows only move to  *)
(* later pages.                                                            *)
LEMMA WalkCommit ==
  ASSUME ServedInv, WalkInv, NEW m \in Movements, Commit(m)
  PROVE  WalkInv'
<1>1. /\ m \notin committed /\ committed' = committed \cup {m}
      /\ UNCHANGED <<stamp, query, pc, seen, again, promised, first>>
      /\ UNCHANGED <<executed, shown, total>>
      /\ ~overtaken' => ~overtaken /\ executed # {"count"}
  BY DEF Commit, client, statements, ServedInv, TypeOK
<1>2. Remembers'
  BY <1>1 DEF WalkInv, Remembers
<1>3. NoTies' => NoTies
  BY <1>1 DEF NoTies
<1>4. /\ committed \in SUBSET Movements /\ stamp \in [Movements -> Nat]
      /\ query \in Queries
  BY PagingAssumption, QueryTyped DEF ServedInv, TypeOK
<1>5. Skip(query) \in Nat /\ Take(query) \in Nat
  BY <1>4, Bounds
<1>6. ASSUME NEW a \in committed
      PROVE  /\ Position(a) \in Nat /\ Position(a)' \in Nat
             /\ Position(a) <= Position(a)'
  BY <1>1, <1>4, RankBounds DEF Position
<1>7. UnmetAreAhead'
  <2> SUFFICES ASSUME NoTies', first.page \in {1, Absent}
               PROVE  /\ Walking => \A a \in first.rows \ seen :
                                      Skip(query) <= Position(a)'
                      /\ Paged => \A a \in first.rows \ (seen \cup shown) :
                           /\ Skip(query) + Take(query) <= Position(a)'
                           /\ ("count" \in executed /\ ~overtaken') =>
                                Skip(query) + Take(query) < total
                      /\ (pc = "done" /\ ~overtaken') => first.rows \subseteq seen
    BY <1>1 DEF UnmetAreAhead, Walking, Paged
  <2>1. UnmetAreAhead /\ NoTies /\ first.rows \subseteq committed
    BY <1>3 DEF WalkInv, Remembers
  <2>2. ASSUME Walking, NEW a \in first.rows \ seen
        PROVE  Skip(query) <= Position(a)'
    <3>1. Skip(query) <= Position(a)
      BY <2>1, <2>2 DEF UnmetAreAhead
    <3> QED
      BY <1>5, <1>6, <2>1, <3>1
  <2>3. ASSUME Paged, NEW a \in first.rows \ (seen \cup shown)
        PROVE  /\ Skip(query) + Take(query) <= Position(a)'
               /\ ("count" \in executed /\ ~overtaken') =>
                    Skip(query) + Take(query) < total
    <3>1. /\ Skip(query) + Take(query) <= Position(a)
          /\ ("count" \in executed /\ ~overtaken) => Skip(query) + Take(query) < total
      BY <2>1, <2>3 DEF UnmetAreAhead
    <3> QED
      BY <1>1, <1>5, <1>6, <2>1, <3>1
  <2>4. (pc = "done" /\ ~overtaken') => first.rows \subseteq seen
    BY <1>1, <2>1 DEF UnmetAreAhead
  <2> QED
    BY <2>2, <2>3, <2>4
<1>8. MetAreBehind'
  <2>1. committed' # first.rows'
    BY <1>1 DEF WalkInv, Remembers
  <2> QED
    BY <2>1 DEF MetAreBehind
<1> QED
  BY <1>2, <1>7, <1>8 DEF WalkInv

(* The first page of a walk has everything ahead of it; another request of *)
(* it starts where the last one ended.                                     *)
LEMMA WalkAsk ==
  ASSUME ServedInv, WalkInv, Ask
  PROVE  WalkInv'
<1>1. /\ pc = "ask" /\ pc' \in {"list", "invalid"} /\ executed' = {} /\ shown' = {}
      /\ pc' = "list" => PaginationQuery(query)
      /\ UNCHANGED <<clock, stamp, committed, query, seen, again, promised>>
      /\ first' = IF promised THEN first ELSE [first EXCEPT !.rows = committed]
  BY DEF Ask, table
<1>2. /\ first'.page = first.page
      /\ promised => first' = first
      /\ ~promised => first'.rows = committed
  BY <1>1 DEF ServedInv, TypeOK
<1>3. Remembers'
  BY <1>1, <1>2 DEF WalkInv, Remembers
<1>4. (NoTies' <=> NoTies) /\ ~Paged'
  BY <1>1 DEF NoTies, Paged
<1>5. CASE promised
  <2>1. Walking /\ UnmetAreAhead /\ MetAreBehind
    BY <1>1, <1>5 DEF Walking, WalkInv
  <2>2. UnmetAreAhead'
    BY <1>1, <1>2, <1>4, <1>5, <2>1 DEF UnmetAreAhead, Position
  <2>3. MetAreBehind'
    BY <1>1, <1>2, <1>4, <1>5, <2>1 DEF MetAreBehind, Position
  <2> QED
    BY <1>3, <2>2, <2>3 DEF WalkInv
<1>6. CASE ~promised
  <2>1. query.page = first.page /\ seen = {} /\ ~again
    BY <1>1, <1>6 DEF WalkInv, Remembers
  <2>2. ASSUME first.page \in {1, Absent}, NEW a \in committed
        PROVE  Skip(query) <= Position(a)
    <3>1. query \in Queries /\ committed \in SUBSET Movements
          /\ stamp \in [Movements -> Nat]
      BY QueryTyped, PagingAssumption DEF ServedInv, TypeOK
    <3>2. Page(query) = 1
      BY <2>1, <2>2, PagingAssumption DEF Page, OrElse, Larger
    <3>3. Limit(query) \in Nat /\ Skip(query) = (1 - 1) * Limit(query)
      BY <3>1, <3>2, Bounds
    <3>4. Skip(query) = 0
      BY <3>3
    <3>5. Position(a) \in Nat
      BY <2>2, <3>1, RankBounds DEF Position
    <3> QED
      BY <3>4, <3>5
  <2>3. UnmetAreAhead'
    BY <1>1, <1>2, <1>4, <1>6, <2>2 DEF UnmetAreAhead, Position
  <2>4. MetAreBehind'
    BY <1>1, <1>4, <2>1 DEF MetAreBehind
  <2> QED
    BY <1>3, <2>3, <2>4 DEF WalkInv
<1> QED
  BY <1>5, <1>6

(* The page: who is on it, and who is left for later.                      *)
LEMMA WalkPage ==
  ASSUME ServedInv, WalkInv, ReadPage
  PROVE  WalkInv'
<1>1. PICK rows \in SUBSET committed :
        IsPage(rows, Skip(query), Take(query)) /\ shown' = rows
  BY DEF ReadPage
<1>2. /\ pc = "list" /\ "page" \notin executed /\ executed' = executed \cup {"page"}
      /\ UNCHANGED <<clock, stamp, committed, query, pc, seen, again, promised>>
      /\ UNCHANGED <<first, total, overtaken>>
  BY DEF ReadPage, table, client
<1>3. /\ TypeOK /\ query \in Queries /\ committed \in SUBSET Movements
      /\ stamp \in [Movements -> Nat]
  BY QueryTyped, PagingAssumption DEF ServedInv, TypeOK
<1>4. Skip(query) \in Nat /\ Take(query) \in Nat
  BY <1>3, Bounds
<1>5. Remembers'
  BY <1>1, <1>2 DEF WalkInv, Remembers
<1>6. (NoTies' <=> NoTies) /\ Walking /\ Walking' /\ Paged'
  BY <1>2 DEF NoTies, Walking, Paged
<1>7. ASSUME NoTies, NEW a \in committed
      PROVE  /\ Position(a) \in Nat
             /\ a \in rows => /\ Skip(query) <= Position(a)
                              /\ Position(a) < Skip(query) + Take(query)
             /\ (a \notin rows /\ Skip(query) <= Position(a)) =>
                  Skip(query) + Take(query) <= Position(a)
  BY <1>1, <1>3, <1>4, <1>7, PageRanks DEF Position
<1>8. UnmetAreAhead'
  <2> SUFFICES ASSUME NoTies, first.page \in {1, Absent}
               PROVE  /\ \A a \in first.rows \ seen : Skip(query) <= Position(a)
                      /\ \A a \in first.rows \ (seen \cup rows) :
                           /\ Skip(query) + Take(query) <= Position(a)
                           /\ ("count" \in executed /\ ~overtaken) =>
                                Skip(query) + Take(query) < total
    BY <1>1, <1>2, <1>6 DEF UnmetAreAhead, Position
  <2>1. \A a \in first.rows \ seen : Skip(query) <= Position(a)
    BY <1>6 DEF WalkInv, UnmetAreAhead
  <2>2. ASSUME NEW a \in first.rows \ (seen \cup rows)
        PROVE  /\ Skip(query) + Take(query) <= Position(a)
               /\ ("count" \in executed /\ ~overtaken) =>
                    Skip(query) + Take(query) < total
    <3>1. a \in committed
      BY DEF WalkInv, Remembers
    <3>2. Skip(query) + Take(query) <= Position(a) /\ Position(a) \in Nat
      BY <1>7, <2>1, <3>1
    <3>3. ASSUME "count" \in executed, ~overtaken
          PROVE  Skip(query) + Take(query) < total
      <4>1. executed = {"count"}
        BY <1>2, <3>3 DEF ServedInv, TypeOK
      <4>2. total = Cardinality(committed)
        BY <3>3, <4>1 DEF ServedInv, Served
      <4>3. Position(a) < Cardinality(committed)
        BY <1>3, <3>1, RankBounds DEF Position
      <4>4. Cardinality(committed) \in Nat
        BY <1>3, Finite
      <4> QED
        BY <1>4, <3>2, <4>2, <4>3, <4>4
    <3> QED
      BY <3>2, <3>3
  <2> QED
    BY <2>1, <2>2
<1>9. MetAreBehind'
  <2>1. (NoTies /\ committed = first.rows) =>
          /\ ~again
          /\ \A a \in seen : Position(a) < Skip(query)
    BY <1>6 DEF WalkInv, MetAreBehind
  <2> QED
    BY <1>1, <1>2, <1>6, <1>7, <2>1 DEF MetAreBehind, Position
<1> QED
  BY <1>5, <1>8, <1>9 DEF WalkInv

(* The count: whoever is left for later is in it.                          *)
LEMMA WalkCount ==
  ASSUME ServedInv, WalkInv, ReadCount
  PROVE  WalkInv'
<1>1. /\ pc = "list" /\ executed' = executed \cup {"count"}
      /\ total' = Cardinality(committed)
      /\ UNCHANGED <<clock, stamp, committed, query, pc, seen, again, promised>>
      /\ UNCHANGED <<first, shown, overtaken>>
  BY DEF ReadCount, table, client
<1>2. /\ query \in Queries /\ committed \in SUBSET Movements
      /\ stamp \in [Movements -> Nat]
  BY QueryTyped, PagingAssumption DEF ServedInv, TypeOK
<1>3. Skip(query) \in Nat /\ Take(query) \in Nat /\ Cardinality(committed) \in Nat
  BY <1>2, Bounds, Finite
<1>4. Remembers'
  BY <1>1 DEF WalkInv, Remembers
<1>5. (NoTies' <=> NoTies) /\ (Walking' <=> Walking) /\ (Paged' <=> Paged)
  BY <1>1 DEF NoTies, Walking, Paged
<1>6. MetAreBehind'
  BY <1>1, <1>5 DEF WalkInv, MetAreBehind, Position
<1>7. UnmetAreAhead'
  <2> SUFFICES ASSUME NoTies, first.page \in {1, Absent}
               PROVE  /\ Walking => \A a \in first.rows \ seen :
                                      Skip(query) <= Position(a)
                      /\ Paged => \A a \in first.rows \ (seen \cup shown) :
                           /\ Skip(query) + Take(query) <= Position(a)
                           /\ Skip(query) + Take(query) < Cardinality(committed)
    BY <1>1, <1>5 DEF UnmetAreAhead, Position
  <2>1. /\ Walking => \A a \in first.rows \ seen : Skip(query) <= Position(a)
        /\ Paged => \A a \in first.rows \ (seen \cup shown) :
             Skip(query) + Take(query) <= Position(a)
    BY DEF WalkInv, UnmetAreAhead
  <2>2. ASSUME NEW a \in committed
        PROVE  Position(a) \in Nat /\ Position(a) < Cardinality(committed)
    BY <1>2, RankBounds DEF Position
  <2>3. first.rows \subseteq committed
    BY DEF WalkInv, Remembers
  <2> QED
    BY <1>3, <2>1, <2>2, <2>3
<1> QED
  BY <1>4, <1>6, <1>7 DEF WalkInv

(* The client has met the page, and ends where nothing is left, or asks    *)
(* for the page that comes after it.                                       *)
LEMMA WalkAnswer ==
  ASSUME ServedInv, WalkInv, Answer
  PROVE  WalkInv'
<1>1. /\ pc = "list" /\ executed = {"page", "count"} /\ Walking /\ Paged
      /\ UNCHANGED <<clock, stamp, committed, first, executed, shown, total, overtaken>>
      /\ seen' = seen \cup shown
      /\ promised' = Meta.hasNext
  BY DEF Answer, Answered, table, statements, Walking, Paged
<1>2. again' = (again \/ seen \cap shown # {})
  BY DEF Answer
<1>3. /\ query \in Queries
      /\ Page(query) \in Nat \ {0} /\ Limit(query) \in Nat \ {0}
      /\ Take(query) = Limit(query) /\ Skip(query) = (Page(query) - 1) * Limit(query)
      /\ total \in Nat
  BY QueryTyped, Bounds DEF ServedInv, TypeOK
<1>4. Skip(query) + Take(query) = Page(query) * Limit(query)
  BY <1>3
<1>5. Meta.hasNext = (Skip(query) + Take(query) < total) /\ Meta.page = Page(query)
  BY <1>4 DEF Meta, PageMeta
<1>6. NoTies' <=> NoTies
  BY <1>1 DEF NoTies
<1>7. (NoTies /\ first.page \in {1, Absent}) =>
        \A a \in first.rows \ (seen \cup shown) :
          /\ Skip(query) + Take(query) <= Position(a)
          /\ ~overtaken => Skip(query) + Take(query) < total
  BY <1>1 DEF WalkInv, UnmetAreAhead
<1>8. /\ Skip(query) \in Nat /\ Take(query) \in Nat
      /\ \A a \in committed : Position(a) \in Nat
  <2>1. committed \in SUBSET Movements /\ stamp \in [Movements -> Nat]
    BY PagingAssumption DEF ServedInv, TypeOK
  <2>2. ASSUME NEW a \in committed
        PROVE  Position(a) \in Nat
    BY <2>1, <2>2, RankBounds DEF Position
  <2>3. Page(query) - 1 \in Nat
    BY <1>3
  <2> QED
    BY <1>3, <2>2, <2>3
<1>9. (NoTies /\ committed = first.rows) =>
        /\ ~again'
        /\ \A a \in seen' : Position(a) < Skip(query) + Take(query)
  <2> SUFFICES ASSUME NoTies, committed = first.rows
               PROVE  /\ ~again'
                      /\ \A a \in seen' : Position(a) < Skip(query) + Take(query)
    OBVIOUS
  <2>1. /\ ~again
        /\ \A a \in seen : Position(a) < Skip(query)
        /\ \A a \in shown : /\ Skip(query) <= Position(a)
                            /\ Position(a) < Skip(query) + Take(query)
    BY <1>1 DEF WalkInv, MetAreBehind
  <2>2. seen \subseteq committed /\ shown \subseteq committed
    BY DEF WalkInv, Remembers
  <2>3. seen \cap shown = {}
    <3>1. ASSUME NEW a \in seen, a \in shown PROVE FALSE
      <4>1. /\ Position(a) < Skip(query) /\ Skip(query) <= Position(a)
            /\ Position(a) \in Nat
        BY <1>8, <2>1, <2>2, <3>1
      <4> QED
        BY <1>8, <4>1
    <3> QED
      BY <3>1
  <2>4. ~again'
    BY <1>2, <2>1, <2>3
  <2>5. \A a \in seen' : Position(a) < Skip(query) + Take(query)
    BY <1>1, <1>8, <2>1, <2>2
  <2> QED
    BY <2>4, <2>5
<1>10. CASE Meta.hasNext
  <2>1. query' = [query EXCEPT !.page = Page(query) + 1] /\ pc' = "ask" /\ promised'
    BY <1>1, <1>5, <1>10 DEF Answer
  <2>2. Skip(query') = Skip(query) + Take(query)
    <3>1. query'.page = Page(query) + 1 /\ query'.limit = query.limit
      BY <1>3, <2>1 DEF Queries
    <3>2. Page(query') = Page(query) + 1 /\ Limit(query') = Limit(query)
      BY <1>3, <3>1, PagingAssumption DEF Page, Limit, OrElse, Larger
    <3>3. Page(query) + 1 - 1 = Page(query)
      BY <1>3
    <3>4. Skip(query') = Page(query) * Limit(query)
      BY <1>3, <3>2, <3>3 DEF Skip, Take
    <3> QED
      BY <1>4, <3>4
  <2>3. Walking' /\ ~Paged'
    BY <2>1 DEF Walking, Paged
  <2>4. Remembers'
    BY <1>1, <2>1 DEF WalkInv, Remembers
  <2>5. UnmetAreAhead'
    BY <1>1, <1>6, <1>7, <2>1, <2>2, <2>3 DEF UnmetAreAhead, Position
  <2>6. MetAreBehind'
    BY <1>1, <1>6, <1>9, <2>2, <2>3 DEF MetAreBehind, Position
  <2> QED
    BY <2>4, <2>5, <2>6 DEF WalkInv
<1>11. CASE ~Meta.hasNext
  <2>1. UNCHANGED query /\ pc' = "done"
    BY <1>11 DEF Answer
  <2>2. ~Walking' /\ ~Paged'
    BY <2>1 DEF Walking, Paged
  <2>3. Remembers'
    BY <1>1, <2>1 DEF WalkInv, Remembers
  <2>4. (NoTies /\ first.page \in {1, Absent} /\ ~overtaken) => first.rows \subseteq seen'
    <3>1. ~(Skip(query) + Take(query) < total)
      BY <1>5, <1>11
    <3> QED
      BY <1>1, <1>7, <3>1
  <2>5. UnmetAreAhead'
    BY <1>1, <1>6, <2>2, <2>4 DEF UnmetAreAhead
  <2>6. MetAreBehind'
    BY <1>1, <1>6, <1>9, <2>2 DEF MetAreBehind
  <2> QED
    BY <2>3, <2>5, <2>6 DEF WalkInv
<1> QED
  BY <1>10, <1>11

(* What neither the client nor the committed rows notice.                  *)
LEMMA WalkElsewhere ==
  ASSUME ServedInv, WalkInv, UNCHANGED <<committed, client, statements, overtaken>>,
         \A m \in committed : stamp'[m] = stamp[m]
  PROVE  WalkInv'
<1>1. /\ UNCHANGED <<committed, query, pc, seen, again, promised, first>>
      /\ UNCHANGED <<executed, shown, total, overtaken>>
  BY DEF client, statements
<1>2. (NoTies' <=> NoTies) /\ (Walking' <=> Walking) /\ (Paged' <=> Paged)
  BY <1>1 DEF NoTies, Walking, Paged
<1>3. ASSUME NEW a \in committed
      PROVE  Position(a)' = Position(a)
  <2>1. {b \in committed : stamp'[b] > stamp'[a]} = {b \in committed : stamp[b] > stamp[a]}
    OBVIOUS
  <2> QED
    BY <1>1, <2>1 DEF Position, Rank
<1>4. first.rows \subseteq committed /\ seen \subseteq committed /\ shown \subseteq committed
  BY DEF WalkInv, Remembers
<1>5. Remembers'
  BY <1>1 DEF WalkInv, Remembers
<1>6. UnmetAreAhead'
  BY <1>1, <1>2, <1>3, <1>4 DEF WalkInv, UnmetAreAhead
<1>7. MetAreBehind'
  BY <1>1, <1>2, <1>3, <1>4 DEF WalkInv, MetAreBehind
<1> QED
  BY <1>5, <1>6, <1>7 DEF WalkInv

(* The steps of the client, of the statements and of the movements         *)
(* together.                                                               *)
LEMMA WalkStep == ServedInv /\ WalkInv /\ [Next]_vars => WalkInv'
<1> SUFFICES ASSUME ServedInv, WalkInv, [Next]_vars PROVE WalkInv'
  OBVIOUS
<1>1. CASE Tick
  BY <1>1, WalkElsewhere DEF Tick
<1>2. ASSUME NEW m \in Movements, Make(m)
      PROVE  WalkInv'
  <2>1. \A n \in committed : n # m /\ stamp'[n] = stamp[n]
    BY <1>2 DEF Make, ServedInv, TypeOK
  <2> QED
    BY <1>2, <2>1, WalkElsewhere DEF Make
<1>3. CASE Quiescent \/ UNCHANGED vars
  BY <1>3, WalkElsewhere DEF Quiescent, vars, table
<1> QED
  BY <1>1, <1>2, <1>3, WalkCommit, WalkAsk, WalkPage, WalkCount, WalkAnswer
     DEF Next, List

(* WalkInv rests on ServedInv, which says what the statements have seen.   *)
LEMMA WalkAlways == Spec => []WalkInv
  BY WalkInit, ServedAlways, WalkStep, PTL DEF Spec

(* A client that walks from the first page to the last meets every row     *)
(* that was there when it began, however many rows there are and whatever  *)
(* is committed between its answers, if no two rows share a millisecond    *)
(* and nothing is committed between the count and the page of one answer   *)
(* (findByWallet, countByWallet, buildPageMeta).                           *)
THEOREM WalksMeetEveryRow == Spec => []EveryRowMet
<1>1. WalkInv => EveryRowMet
  BY DEF WalkInv, UnmetAreAhead, EveryRowMet
<1> QED
  BY <1>1, WalkAlways, PTL

(* And it is shown none of them twice, unless something is committed       *)
(* during the walk or rows share a millisecond.                            *)
THEOREM NoRowIsShownTwice == Spec => []NothingTwice
<1>1. WalkInv => NothingTwice
  BY DEF WalkInv, MetAreBehind, NothingTwice
<1> QED
  BY <1>1, WalkAlways, PTL
=============================================================================
