----------------------------- MODULE RecordListing -----------------------------
(***************************************************************************)
(* A reader that walks a list page by page while the rows of module        *)
(* Records change: resolvePagination and createPaginationMeta, with the    *)
(* two statements of every list, one that counts the matching rows and one *)
(* that reads a page of them.  They are sent together and the database     *)
(* runs them in either order, each on the rows of its moment.              *)
(***************************************************************************)
EXTENDS Records

CONSTANT PageSize

ASSUME PageSizeAssumption == PageSize \in Nat \ {0}
\* Ids are UUIDs.
ASSUME FiniteRows == IsFiniteSet(Row)

VARIABLE walk   \* the reader; start, torn and moved are observed only

listingVars == <<row, call, clock, handed, lost, overrun, walk>>

NotRead == 0 - 1

----------------------------------------------------------------------------
(* The lists: which rows a filter keeps, and their order *)

ListClients(t, f) == {r \in Row : t[r].kind = "client" /\ f \in {"any", t[r].status}}
ListTemplates(t, f) == {r \in Row : t[r].kind = "template" /\ f \in {"any", t[r].status}}
ListWorkspaces(t, f) == {r \in Row : t[r].kind = "workspace" /\ f \in {"any", t[r].status}}
ListApplications(t, f) ==
    {r \in Row : t[r].kind = "application" /\ f \in {"any", t[r].status, t[r].type}}
ListEvents(t, f) == {r \in Row : t[r].kind = "event" /\ f \in {"any", t[r].status}}

Listed(t, k, f) == CASE k = "client"      -> ListClients(t, f)
                     [] k = "template"    -> ListTemplates(t, f)
                     [] k = "workspace"   -> ListWorkspaces(t, f)
                     [] k = "application" -> ListApplications(t, f)
                     [] OTHER             -> ListEvents(t, f)

\* Rows at the same place are told apart by their ids, in an order that is fixed.
IdOrder == CHOOSE f \in [Row -> 1..Cardinality(Row)] : \A a, b \in Row : f[a] = f[b] => a = b

\* Workspaces by name, everything else with the newest first.
Before(t, a, b) ==
    IF t[a].place = t[b].place THEN IdOrder[a] < IdOrder[b]
    ELSE IF t[a].kind = "workspace" THEN t[a].place < t[b].place
    ELSE t[a].place > t[b].place

Rank(t, rows, r) == Cardinality({x \in rows : Before(t, x, r)})

\* Mistake: the first page is skipped.
OffsetFromOne(page) == page * PageSize

Offset(page) == (page - 1) * PageSize

TotalPages(total) == (total + PageSize - 1) \div PageSize
HasNextPage(page, total) == page < TotalPages(total)

PageOf(t, rows, page) ==
    {r \in rows : Offset(page) <= Rank(t, rows, r) /\ Rank(t, rows, r) < Offset(page) + PageSize}

----------------------------------------------------------------------------
(* Walking *)

NoWalk == [pc |-> "idle", kind |-> "none", filter |-> "none", page |-> 0, total |-> NotRead,
           itemsRead |-> FALSE, seen |-> {}, start |-> {}, torn |-> FALSE, moved |-> FALSE]

Matching(t) == Listed(t, walk.kind, walk.filter)

OnlyWalk == UNCHANGED <<row, call, clock, handed, lost, overrun>>

StartWalk(k, f) ==
    /\ walk.pc = "idle"
    /\ walk' = [NoWalk EXCEPT !.pc = "walk", !.kind = k, !.filter = f, !.page = 1,
                              !.start = Listed(row, k, f)]
    /\ OnlyWalk

CountRows ==
    /\ walk.pc = "walk" /\ walk.total = NotRead
    /\ walk' = [walk EXCEPT !.total = Cardinality(Matching(row))]
    /\ OnlyWalk

ReadItems ==
    /\ walk.pc = "walk" /\ ~walk.itemsRead
    /\ walk' = [walk EXCEPT !.itemsRead = TRUE,
                            !.seen = @ \cup PageOf(row, Matching(row), walk.page)]
    /\ OnlyWalk

\* The reader follows hasNextPage.
NextPage ==
    /\ walk.pc = "walk" /\ walk.total # NotRead /\ walk.itemsRead
    /\ walk' = IF HasNextPage(walk.page, walk.total)
               THEN [walk EXCEPT !.page = @ + 1, !.total = NotRead, !.itemsRead = FALSE]
               ELSE [walk EXCEPT !.pc = "done", !.page = 0, !.total = NotRead, !.itemsRead = FALSE]
    /\ OnlyWalk

\* What a change of the rows means to a walk under way.
Observe ==
    walk' = IF walk.pc # "walk" THEN walk
            ELSE [walk EXCEPT
                     !.torn = @ \/ /\ walk.total # NotRead /\ ~walk.itemsRead
                                   /\ ~(Matching(row') \subseteq Matching(row)),
                     !.moved = @ \/ \E r \in Matching(row) :
                                        \/ r \notin Matching(row')
                                        \/ row'[r].place # row[r].place]

----------------------------------------------------------------------------

ListingInit == RecordsInit /\ walk = NoWalk

\* No filter, or one whose rows may leave it.
FilterOf(k) == CASE k = "template"    -> {"any", "published"}
                 [] k = "application" -> {"any", "confidential"}
                 [] k = "event"       -> {"any"}
                 [] OTHER             -> {"any", "active"}

WalkNext ==
    \/ \E k \in Kind : \E f \in FilterOf(k) : StartWalk(k, f)
    \/ CountRows \/ ReadItems \/ NextPage

ListingNext == WalkNext \/ (RecordsNext /\ Observe)

ListingSpec == ListingInit /\ [][ListingNext]_listingVars

----------------------------------------------------------------------------
(* Properties *)

\* A walk from the first page to the one without a next page has seen every row
\* that matched when it began, unless a row was moved or left the filter on the
\* way, or one appeared between the two statements of a page and pushed another
\* beyond the total that had been counted.  Rows that are created between pages
\* hide nothing.
WalkMissesNothing ==
    walk.pc = "done" /\ ~walk.torn /\ ~walk.moved => walk.start \subseteq walk.seen
=============================================================================
