------------------------------- MODULE Paginator -------------------------------
(***************************************************************************)
(* paginate: how a query string becomes an ordering and a window of rows,  *)
(* and what the meta block says about it.  A parameter is the integer that *)
(* parseInt finds in it, or NaN when it is missing or no number.  A row    *)
(* that is listed carries its sort keys in row.key.                        *)
(***************************************************************************)
EXTENDS Integers, Sequences, FiniteSets, SequencesExt

CONSTANT NaN

Page(param) == Max({1, IF param \in {NaN, 0} THEN 1 ELSE param})
PerPage(param) == Min({100, Max({1, IF param \in {NaN, 0} THEN 15 ELSE param})})

SortBy(allowed, param, default) == IF param \in allowed THEN param ELSE default
SortDir(param, default) ==
  IF param = "" THEN default ELSE IF param = "asc" THEN "asc" ELSE "desc"

Skip(page, perPage) == (page - 1) * perPage

LastPage(total, perPage) == Max({1, (total + perPage - 1) \div perPage})

From(total, page, perPage) == IF total = 0 THEN NaN ELSE Skip(page, perPage) + 1
To(total, page, perPage) == IF total = 0 THEN NaN ELSE Min({Skip(page, perPage) + perPage, total})

NextPage(total, page, perPage) == IF page < LastPage(total, perPage) THEN page + 1 ELSE NaN
PrevPage(page) == IF page > 1 THEN page - 1 ELSE NaN

\* Mutant: the ordering lacks its tie-breaker.
BeforeByKey(a, b, sort, dir) ==
  IF dir = "asc" THEN a.key[sort] < b.key[sort] ELSE b.key[sort] < a.key[sort]

\* orderBy: the sort column, then the unique tie-breaker, in one direction.
Before(a, b, sort, dir) ==
  LET less(x, y) == \/ x.key[sort] < y.key[sort]
                    \/ x.key[sort] = y.key[sort] /\ x.id < y.id
  IN IF dir = "asc" THEN less(a, b) ELSE less(b, a)

\* The orders in which a database may return the rows.
Orders(rows, sort, dir) ==
  {s \in SetToSeqs(rows) : \A i, j \in DOMAIN s : i < j => ~Before(s[j], s[i], sort, dir)}

\* findMany with skip and take.
Window(s, page, perPage) ==
  SubSeq(s, Skip(page, perPage) + 1, Min({Skip(page, perPage) + perPage, Len(s)}))

-----------------------------------------------------------------------------
(***************************************************************************)
(* Whatever the query string and the number of rows: the page number and   *)
(* size are in range; following the next links from the first page, or the *)
(* previous ones from the last, visits every page; every row is on exactly *)
(* one of these pages, and a page has consecutive rows in order; and from  *)
(* and to name the positions of a window.                                  *)
(***************************************************************************)
PagesPartition(params, totals) ==
  \A pageParam, sizeParam \in params, total \in totals :
    LET page == Page(pageParam)
        size == PerPage(sizeParam)
        last == LastPage(total, size)
        rows == [i \in 1 .. total |-> i]
        pages == [n \in 1 .. last |-> Window(rows, n, size)] IN
    /\ page >= 1 /\ size \in 1 .. 100
    /\ \A i \in 1 .. total : \E n \in 1 .. last : \A m \in 1 .. last :
         i \in ToSet(pages[m]) <=> m = n
    /\ \A n \in 1 .. last : \A k \in DOMAIN pages[n] : pages[n][k] = Skip(n, size) + k
    /\ NextPage(total, last, size) = NaN /\ PrevPage(1) = NaN
    /\ \A n \in 1 .. last - 1 : NextPage(total, n, size) = n + 1 /\ PrevPage(n + 1) = n
    /\ page > last => Window(rows, page, size) = <<>>
    /\ page <= last /\ total > 0 =>
         LET w == Window(rows, page, size) IN
         From(total, page, size) = Head(w) /\ To(total, page, size) = w[Len(w)]
=============================================================================
