-------------------------------- MODULE Lists --------------------------------
(***************************************************************************)
(* The list endpoints, and a client that walks through the pages of one    *)
(* while its rows come and go.                                             *)
(*                                                                         *)
(* A list sends two queries for a page: find with skip and limit, and      *)
(* countDocuments, from which the answer says how many pages there are.    *)
(* A list is described by what decides which rows a walk meets: its        *)
(* order, which of the two queries is first, whether rows can leave its    *)
(* filter, whether documents of its collection are ever deleted, and       *)
(* whether they can be deleted softly, which find does not see and         *)
(* countDocuments does.  Lists that are cached are taken with Redis down.  *)
(***************************************************************************)
EXTENDS Integers, FiniteSets, Sequences

CONSTANTS
    Rows,           \* ids of documents
    Limits,         \* page sizes a client asks for
    DefaultLimit    \* the page size of a client that asks for none

ASSUME LimitsAssumption == Limits \subseteq Nat \ {0} /\ DefaultLimit \in Limits

ASSUME RowsAssumption == IsFiniteSet(Rows)

VARIABLES
    list,           \* the list that is walked in this behaviour
    rows,           \* what has become of each document
    rank,           \* where its order puts it: a later date or name has a higher rank
    walk            \* the client's walk

walkVars == <<list, rows, rank, walk>>

(***************************************************************************)
(* The lists.                                                              *)
(***************************************************************************)
List(order, more) ==
    [order |-> order, counts |-> IF "countFirst" \in more THEN "first" ELSE "last",
     leave |-> "filtered" \in more, delete |-> "deleted" \in more, hide |-> "soft" \in more]

\* sort({ created_at: -1 }), or another date that is set when the document is written.
Newest(more) == List("newest", more)

CasesGetAll == Newest({"filtered", "deleted"})
CasesByClient == Newest({"filtered", "deleted"})
CasesByLawyer == Newest({"filtered", "deleted"})
InvoicesGetAll == Newest({"filtered"})
InvoicesByClient == Newest({"filtered"})
InvoicesByLawyer == Newest({"filtered"})
OffersByCase == Newest({"deleted"})
OffersByLawyer == Newest({"filtered", "deleted"})
OffersGetAll == Newest({"filtered", "deleted"})
PayoutsByLawyer == Newest({"filtered"})
PayoutsGetAll == Newest({"filtered"})
ReviewsGetAll == Newest({"deleted"})
ReviewsByLawyer == Newest({"deleted"})
NotificationsGetAll == Newest({"filtered", "deleted"})
UsersGetAll == Newest({"filtered", "deleted", "soft"})
AdminsGetAll == Newest({"filtered", "deleted", "soft"})
GetAuditLogs == Newest({})

\* QueryBuilder.sortBy: a field that is not on the allow-list does not sort.
AllowedFields == {"createdAt", "updatedAt", "name", "fullName", "rating", "budget", "price"}
SortBy(field) == IF field \in AllowedFields THEN field ELSE "none"

\* QueryBuilder.execute counts before it finds.
Built(field, more) == List(SortBy(field), more \cup {"countFirst"})

LawyersGetAll == Built("rate", {"filtered", "deleted"})
ClientsGetAll == Built("created_at", {"filtered", "deleted"})
CategoriesGetAll == Built("name", {"filtered", "deleted"})

AllLists ==
    {CasesGetAll, CasesByClient, CasesByLawyer, InvoicesGetAll, InvoicesByClient,
     InvoicesByLawyer, OffersByCase, OffersByLawyer, OffersGetAll, PayoutsByLawyer,
     PayoutsGetAll, ReviewsGetAll, ReviewsByLawyer, NotificationsGetAll, UsersGetAll,
     AdminsGetAll, GetAuditLogs, LawyersGetAll, ClientsGetAll, CategoriesGetAll}

(***************************************************************************)
(* Documents: not yet written, in the list, not matching its filter,       *)
(* deleted softly, deleted.                                                *)
(***************************************************************************)
RowState == {"absent", "listed", "other", "hidden", "gone"}

Ranks == 1 .. Cardinality(Rows) + 1

In(states) == {r \in Rows : rows[r] \in states}
Found == In({"listed"})
Counted == In({"listed", "hidden"})

\* In the order of the list: dates and names are unique, and without a sort any order
\* may come.
InOrder(s) ==
    list.order # "none" =>
        \A i, j \in DOMAIN s : i < j =>
            IF list.order = "newest" THEN rank[s[i]] > rank[s[j]] ELSE rank[s[i]] < rank[s[j]]

Sorted(S) ==
    {s \in [1 .. Cardinality(S) -> S] :
        InOrder(s) /\ \A i, j \in DOMAIN s : s[i] = s[j] => i = j}

\* Mutant: skip is computed with the default page size.
SkipDefault(page, limit) == (page - 1) * DefaultLimit

\* Mutant: pages are taken to start at zero.
SkipFromZero(page, limit) == page * limit

Skip(page, limit) == (page - 1) * limit

OnPage(s, page, limit) ==
    {s[i] : i \in {j \in DOMAIN s : Skip(page, limit) < j /\ j <= Skip(page, limit) + limit}}

(***************************************************************************)
(* The walk.  start is what the list held when it began; grew and shrank   *)
(* say that a row has come into the list, or left it, since.               *)
(***************************************************************************)
Stops == {"off", "find", "count", "done"}

Walk == [at: Stops, page: Nat, limit: Limits, total: Nat, start: SUBSET Rows,
         shown: [Rows -> 0 .. 2], grew: BOOLEAN, shrank: BOOLEAN]

NoneShown == [r \in Rows |-> 0]

Off == [at |-> "off", page |-> 1, limit |-> DefaultLimit, total |-> 0, start |-> {},
        shown |-> NoneShown, grew |-> FALSE, shrank |-> FALSE]

WalkTypeOK ==
    /\ list \in AllLists
    /\ rows \in [Rows -> RowState]
    /\ rank \in [Rows -> Ranks \cup {0}]
    /\ walk \in Walk

WalkInit ==
    /\ list \in AllLists
    /\ rows = [r \in Rows |-> "absent"]
    /\ rank = [r \in Rows |-> 0]
    /\ walk = Off

FirstQuery == IF list.counts = "first" THEN "count" ELSE "find"
LastQuery == IF list.counts = "first" THEN "find" ELSE "count"

BeginWalk ==
    /\ walk.at = "off"
    /\ \E limit \in Limits :
          walk' = [Off EXCEPT !.at = FirstQuery, !.limit = limit, !.start = Found]
    /\ UNCHANGED <<list, rows, rank>>

\* After the second query of a page: hasNext.
NextStop(w) ==
    IF w.at # LastQuery THEN [w EXCEPT !.at = LastQuery]
    ELSE IF w.page * w.limit < w.total THEN [w EXCEPT !.at = FirstQuery, !.page = @ + 1]
    ELSE [w EXCEPT !.at = "done"]

Once(n) == IF n = 2 THEN 2 ELSE n + 1

FindPage ==
    /\ walk.at = "find"
    /\ \E s \in Sorted(Found) :
          LET page == OnPage(s, walk.page, walk.limit) IN
          walk' = NextStop([walk EXCEPT
              !.shown = [r \in Rows |-> IF r \in page THEN Once(@[r]) ELSE @[r]]])
    /\ UNCHANGED <<list, rows, rank>>

CountRows ==
    /\ walk.at = "count"
    /\ walk' = NextStop([walk EXCEPT !.total = Cardinality(Counted)])
    /\ UNCHANGED <<list, rows, rank>>

EndWalk ==
    /\ walk.at = "done"
    /\ walk' = Off
    /\ UNCHANGED <<list, rows, rank>>

(***************************************************************************)
(* What the other handlers do to the rows meanwhile.                       *)
(***************************************************************************)
Walking == walk.at # "off"
Grown == walk' = [walk EXCEPT !.grew = @ \/ Walking]
Shrunk == walk' = [walk EXCEPT !.shrank = @ \/ Walking]

RanksInUse == {rank[r] : r \in Rows}

\* A document is written: its date is the latest, its name any that is not taken.
Insert(r) ==
    /\ rows[r] = "absent"
    /\ \E k \in Ranks \ RanksInUse :
          /\ list.order = "name" \/ k = Cardinality(Rows \ In({"absent"})) + 1
          /\ rank' = [rank EXCEPT ![r] = k]
    /\ rows' = [rows EXCEPT ![r] = "listed"]
    /\ Grown
    /\ UNCHANGED list

\* Its status changes, or it is marked as read.
Leave(r) ==
    /\ list.leave /\ rows[r] = "listed"
    /\ rows' = [rows EXCEPT ![r] = "other"]
    /\ Shrunk
    /\ UNCHANGED <<list, rank>>

Return(r) ==
    /\ list.leave /\ rows[r] = "other"
    /\ rows' = [rows EXCEPT ![r] = "listed"]
    /\ Grown
    /\ UNCHANGED <<list, rank>>

\* updateMany: every row of the list at once.
LeaveAll ==
    /\ list.leave /\ Found # {}
    /\ rows' = [r \in Rows |-> IF rows[r] = "listed" THEN "other" ELSE rows[r]]
    /\ Shrunk
    /\ UNCHANGED <<list, rank>>

Delete(r) ==
    /\ list.delete /\ rows[r] \in {"listed", "other"}
    /\ rows' = [rows EXCEPT ![r] = "gone"]
    /\ rank' = [rank EXCEPT ![r] = 0]
    /\ IF rows[r] = "listed" THEN Shrunk ELSE UNCHANGED walk
    /\ UNCHANGED list

SoftDelete(r) ==
    /\ list.hide /\ rows[r] = "listed"
    /\ rows' = [rows EXCEPT ![r] = "hidden"]
    /\ Shrunk
    /\ UNCHANGED <<list, rank>>

\* A category gets another name.
Rename(r) ==
    /\ list.order = "name" /\ rows[r] = "listed"
    /\ \E k \in Ranks \ RanksInUse : rank' = [rank EXCEPT ![r] = k]
    /\ walk' = [walk EXCEPT !.grew = @ \/ Walking, !.shrank = @ \/ Walking]
    /\ UNCHANGED <<list, rows>>

WalkNext ==
    \/ BeginWalk \/ FindPage \/ CountRows \/ EndWalk \/ LeaveAll
    \/ \E r \in Rows :
          Insert(r) \/ Leave(r) \/ Return(r) \/ Delete(r) \/ SoftDelete(r) \/ Rename(r)

(***************************************************************************)
(* Properties.                                                             *)
(***************************************************************************)
\* A walk to the last page has shown every row that was there when it began, unless a row
\* left the list meanwhile.  New rows do not hide old ones, except in the lists that count
\* before they find: there the last page may be taken to be reached too early.
WalkComplete ==
    walk.at = "done" /\ list.order # "none" /\ ~walk.shrank
        /\ (list.counts = "first" => ~walk.grew)
    => \A r \in walk.start : walk.shown[r] > 0

\* A walk shows no row twice, unless a row came into the list meanwhile.
WalkShowsOnce ==
    list.order # "none" /\ ~walk.grew => \A r \in Rows : walk.shown[r] <= 1

(***************************************************************************)
(* The inductive invariant of a walk: the pages found so far are the first *)
(* rows of the list, however it has grown or however it has shrunk.        *)
(***************************************************************************)
UpTo(r) == {q \in Found :
    IF list.order = "newest" THEN rank[q] >= rank[r] ELSE rank[q] <= rank[r]}
Position(r) == Cardinality(UpTo(r))

Passed(w) ==
    Skip(IF w.at = "done" \/ (w.at = "count" /\ list.counts # "first") THEN w.page + 1 ELSE w.page,
         w.limit)

\* While no row has come, a row that was shown is on the pages behind the walk.
ShownBehind ==
    ~walk.grew => \A r \in Rows :
        /\ walk.shown[r] <= 1
        /\ walk.shown[r] = 1 /\ r \in Found => Position(r) <= Passed(walk)

\* While none has left, a row that is still to be shown is on the pages ahead.
UnshownAhead ==
    walk.at # "off" /\ ~walk.shrank =>
        /\ walk.start \subseteq Found
        /\ \A r \in walk.start : walk.shown[r] > 0 \/ Position(r) > Passed(walk)

WalkInv ==
    /\ walk.page > 0
    /\ walk.at = "off" => walk.shown = NoneShown
    /\ list.order # "none" => ShownBehind /\ UnshownAhead
    /\ list.counts = "first" /\ walk.at = "find" /\ ~walk.grew =>
           Cardinality(Found) <= walk.total
    /\ WalkComplete
=============================================================================
