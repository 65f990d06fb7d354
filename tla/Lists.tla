-------------------------------- MODULE Lists --------------------------------
(***************************************************************************)
(* The lists of the web UI that are fetched page by page: functions (which *)
(* are filtered in the browser besides), packages of the marketplace, and  *)
(* the users and projects of the platform. The server answers a page of    *)
(* the rows there are, newest first; every page is cached under its number *)
(* while rows are added, which moves the older ones to later pages.        *)
(***************************************************************************)
EXTENDS Naturals, Sequences

CONSTANTS
    PageSize,        \* rows of a page
    MaxRows,         \* bound: rows on the server
    MaxPages,        \* bound: how far the user turns the pages
    Matching         \* per filter, the rows that pass it
ASSUME ListsAssumption ==
    /\ {PageSize, MaxRows, MaxPages} \subseteq Nat \ {0}
    \* The filter that is set at first passes every row that another passes.
    /\ \E f \in DOMAIN Matching : \A g \in DOMAIN Matching : Matching[g] \subseteq Matching[f]

VARIABLES
    listKind,        \* the list that is followed
    listShown,       \* its page is mounted
    listPage,        \* the page it is at
    listFilters,
    listed,          \* the cache: the pages per filter
    rows             \* server: how many rows there are; row n was the n-th to be added
listVars == <<listKind, listShown, listPage, listFilters, listed, rows>>

(* The lists, and whether they have filters. *)
FunctionListPage == [of |-> "functions", filtered |-> TRUE]
MarketplaceListPage == [of |-> "packages", filtered |-> FALSE]
AdminUsersPage == [of |-> "users", filtered |-> FALSE]
AdminProjectsPage == [of |-> "projects", filtered |-> FALSE]
ListKinds == {FunctionListPage, MarketplaceListPage, AdminUsersPage, AdminProjectsPage}

DEFAULT_FILTERS == CHOOSE f \in DOMAIN Matching : \A g \in DOMAIN Matching : Matching[g] \subseteq Matching[f]
NoPage == [loaded |-> FALSE, failed |-> FALSE, at |-> 0, rows |-> <<>>]
Here == listed[listFilters][listPage]
ListTypeOK ==
    /\ listKind \in ListKinds /\ listShown \in BOOLEAN
    /\ listPage \in 1 .. MaxPages /\ listFilters \in DOMAIN Matching
    /\ rows \in 0 .. MaxRows
    /\ \A f \in DOMAIN Matching, p \in 1 .. MaxPages :
        /\ {listed[f][p].loaded, listed[f][p].failed} \subseteq BOOLEAN
        /\ listed[f][p].at \in 0 .. rows /\ Len(listed[f][p].rows) <= PageSize
        /\ ~listKind.filtered => listed[f][p] = NoPage \/ f = DEFAULT_FILTERS

-----------------------------------------------------------------------------
LeastOf(a, b) == IF a < b THEN a ELSE b
Offset(page) == (page - 1) * PageSize
(* The rows that the server answers with: newest first, as many as fit, after those of the pages before. *)
PageOf(page) ==
    LET left == IF rows > Offset(page) THEN rows - Offset(page) ELSE 0
    IN  [i \in 1 .. LeastOf(PageSize, left) |-> left + 1 - i]
(* What the page shows of it. *)
filtered == {i \in DOMAIN Here.rows : listKind.filtered => Here.rows[i] \in Matching[listFilters]}

ShowList ==
    /\ listShown' = ~listShown /\ listPage' = 1 /\ listFilters' = DEFAULT_FILTERS
    /\ UNCHANGED <<listKind, listed, rows>>
\* The number of rows is not known, and there is always a next page, once this one is no longer loading.
Pagination ==
    /\ listShown /\ (Here.loaded \/ Here.failed)
    /\ listPage' \in {listPage - 1, listPage + 1} \cap (1 .. MaxPages)
    /\ UNCHANGED <<listKind, listShown, listFilters, listed, rows>>
\* A change of the filters keeps the page, and asks the server for it once more.
setFilters ==
    /\ listShown /\ listKind.filtered
    /\ listFilters' \in DOMAIN Matching \ {listFilters}
    /\ UNCHANGED <<listKind, listShown, listPage, listed, rows>>
(* The fetch of the page shown, the first or a later one. (A later one that fails leaves the rows there were.) *)
FetchPage ==
    /\ listShown
    /\ listed' = [listed EXCEPT ![listFilters][listPage] =
                    [loaded |-> TRUE, failed |-> FALSE, at |-> rows, rows |-> PageOf(listPage)]]
    /\ UNCHANGED <<listKind, listShown, listPage, listFilters, rows>>
PageFails ==
    /\ listShown /\ ~Here.loaded /\ listed' = [listed EXCEPT ![listFilters][listPage].failed = TRUE]
    /\ UNCHANGED <<listKind, listShown, listPage, listFilters, rows>>
(* A page not shown for five minutes leaves the cache. *)
Forgotten ==
    /\ \E f \in DOMAIN Matching, p \in 1 .. MaxPages :
        /\ ~(listShown /\ f = listFilters /\ p = listPage)
        /\ listed' = [listed EXCEPT ![f][p] = NoPage]
    /\ UNCHANGED <<listKind, listShown, listPage, listFilters, rows>>
\* By the link of a row, or, from the list of functions, by an identifier typed in.
GoTo ==
    /\ listShown /\ (listKind = FunctionListPage \/ filtered # {}) /\ listShown' = FALSE
    /\ listPage' = 1 /\ listFilters' = DEFAULT_FILTERS
    /\ UNCHANGED <<listKind, listed, rows>>
RowAdded ==
    /\ rows < MaxRows /\ rows' = rows + 1
    /\ UNCHANGED <<listKind, listShown, listPage, listFilters, listed>>

-----------------------------------------------------------------------------
ListInit ==
    /\ listKind \in ListKinds /\ listShown = FALSE /\ listPage = 1 /\ listFilters = DEFAULT_FILTERS
    /\ listed = [f \in DOMAIN Matching |-> [p \in 1 .. MaxPages |-> NoPage]]
    /\ rows = 1
ListNext ==
    ShowList \/ Pagination \/ setFilters \/ FetchPage \/ PageFails \/ Forgotten \/ GoTo \/ RowAdded
ListSpec == ListInit /\ [][ListNext]_listVars

-----------------------------------------------------------------------------
(* Who turns the pages forward misses no row: the first page begins with the newest there was, and a page
   fetched after the one before it begins no further than one row after its end. (Rows may be seen twice, and a
   page that is shown from the cache may be older than the one before it.) *)
NothingSkipped ==
    \A f \in DOMAIN Matching : \A p \in 1 .. MaxPages - 1 :
        LET first == listed[f][p]
            next == listed[f][p + 1]
            oldest == IF first.rows = <<>> THEN 1 ELSE first.rows[Len(first.rows)]
        IN  /\ p = 1 /\ first.loaded => (first.rows = <<>>) = (first.at = 0) /\ (first.at > 0 => first.rows[1] = first.at)
            /\ first.loaded /\ next.loaded /\ first.at <= next.at =>
                    IF next.rows = <<>> THEN oldest = 1 ELSE next.rows[1] >= oldest - 1
=============================================================================
