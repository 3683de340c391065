------------------------------- MODULE Listings --------------------------------
(***************************************************************************)
(* A client walks through the pages of a list of users or roles, following *)
(* the next links, while Accounts changes the rows.  The page and the      *)
(* total of one response are two statements.                               *)
(***************************************************************************)
EXTENDS Accounts, Paginator

CONSTANTS
  Caller,     \* the user who asks, left out of the list of users
  NameOrder,  \* how the database sorts names
  Sizes       \* per_page parameters

ASSUME ListingsAssumption ==
  /\ NameOrder \in [Names \cup {SuperAdmin} -> Int]
  /\ NaN \notin Int /\ Sizes \subseteq Int \cup {NaN}

VARIABLE walk

NoWalk == [pc |-> "idle", table |-> "user", sort |-> "createdAt", dir |-> "desc",
           search |-> Null, size |-> 1, page |-> 1, rows |-> Null, total |-> Null,
           seen |-> <<>>, stay |-> {}, met |-> {}]

ListInit == Init /\ walk = NoWalk

\* searchConditions: a word of the name or title, or the email.
Found(t, i, search) == search \in ToSet(tbl[t][i].name) \/ search = tbl[t][i].email

\* Deleted rows, the caller and what does not match the search are left out.
Listed(t, search) ==
  {i \in Live(t) : /\ ~(t = "user" /\ i = Caller)
                   /\ search # Null => Found(t, i, search)}

\* A row with its sort columns; ids grow with the time of creation.
Listable(t, i) == [id |-> i, key |-> [createdAt |-> i, name |-> NameOrder[tbl[t][i].name]]]
ListRows(t, search) == {Listable(t, i) : i \in Listed(t, search)}

\* GET with the query parameters of the first page.
StartWalk(t, sortParam, dirParam, search, sizeParam) ==
  /\ walk.pc = "idle" /\ started < MaxRequests
  /\ started' = started + 1
  /\ walk' = [NoWalk EXCEPT !.pc = "ask", !.table = t, !.search = search,
                !.sort = SortBy({"createdAt", "name"}, sortParam, "createdAt"),
                !.dir = SortDir(dirParam, "desc"), !.size = PerPage(sizeParam),
                !.page = Page(NaN), !.stay = Listed(t, search)]
  /\ UNCHANGED <<tbl, files, uploads, log, req, history>>

\* findMany.
FindMany ==
  /\ walk.pc = "ask" /\ walk.rows = Null
  /\ \E s \in Orders(ListRows(walk.table, walk.search), walk.sort, walk.dir) :
       walk' = [walk EXCEPT !.rows = [n \in DOMAIN Window(s, walk.page, walk.size) |->
                                        Window(s, walk.page, walk.size)[n].id]]
  /\ UNCHANGED vars

\* count, with the same filter; the two statements run in either order.
Count ==
  /\ walk.pc = "ask" /\ walk.total = Null
  /\ walk' = [walk EXCEPT !.total = Cardinality(Listed(walk.table, walk.search))]
  /\ UNCHANGED vars

\* The response: the client collects the rows and follows next_page_url.
FollowNext ==
  /\ walk.pc = "ask" /\ walk.rows # Null /\ walk.total # Null
  /\ LET next == NextPage(walk.total, walk.page, walk.size)
         got == [walk EXCEPT !.seen = walk.seen \o walk.rows, !.rows = Null, !.total = Null] IN
     walk' = IF next = NaN THEN [got EXCEPT !.pc = "done"] ELSE [got EXCEPT !.page = next]
  /\ UNCHANGED vars

\* What a walk under way meets of a step of Accounts.
Observed ==
  \E t \in {walk.table}, search \in {walk.search}, sort \in {walk.sort} :
    LET before == ListRows(t, search)
        after == ListRows(t, search)'
        gone == \E r \in before : ~\E s \in after : s.id = r.id /\ s.key[sort] = r.key[sort]
        came == \E s \in after : ~\E r \in before : r.id = s.id
        between == (walk.rows = Null) # (walk.total = Null) IN
    walk' = IF walk.pc # "ask" \/ tbl' = tbl THEN walk
            ELSE [walk EXCEPT !.met = @ \cup (IF gone THEN {"gone"} ELSE {})
                                        \cup (IF came THEN {"came"} ELSE {})
                                        \cup (IF came /\ between THEN {"torn"} ELSE {})]

ListNext ==
  \/ Next /\ Observed
  \/ \E t \in Tables, sort \in {"name", "password"}, dir \in {"", "asc"},
        search \in {Null} \cup Emails \cup (UNION {ToSet(n) : n \in Names} \ {Punct}), size \in Sizes :
       StartWalk(t, sort, dir, search, size)
  \/ FindMany \/ Count \/ FollowNext

ListSpec == ListInit /\ [][ListNext]_<<vars, walk>>

-----------------------------------------------------------------------------
SmallPages == PagesPartition({NaN, -1, 0, 1, 2, 3, 7, 101}, 0 .. 7)

\* The numbers of a response fit its rows, unless the list changed between its
\* two statements: from and to count the rows returned, which are none exactly
\* when nothing matches; and pages partition a list of any (small) length.
PageFits ==
  walk.pc = "ask" /\ walk.rows # Null /\ walk.total # Null =>
    /\ SmallPages
    /\ walk.met = {} =>
         LET from == From(walk.total, walk.page, walk.size)
             to == To(walk.total, walk.page, walk.size) IN
         IF walk.total = 0 THEN from = NaN /\ to = NaN /\ walk.rows = <<>>
         ELSE to - from + 1 = Len(walk.rows) /\ from >= 1 /\ to <= walk.total

\* The responses of paginate fit together: a walk lists every row that was there
\* all the time, unless meanwhile a row left its place, or one was inserted
\* between the two statements of a response; and it lists no row twice unless a
\* row was inserted or moved.  Two rows with equal sort columns do not change
\* that.  Every response on the way fits in itself.
WalkListsAll ==
  /\ PageFits
  /\ walk.pc = "done" =>
       /\ walk.met \cap {"gone", "torn"} = {} => walk.stay \subseteq ToSet(walk.seen)
       /\ walk.met = {} => Len(walk.seen) = Cardinality(ToSet(walk.seen))
=============================================================================
