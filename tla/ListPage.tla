------------------------------ MODULE ListPage ------------------------------
(* The three list pages of the web client (tickets, users, organizations),   *)
(* the paginated queries of the API behind them, and the dialogs that        *)
(* create, edit and remove a row.  The pages share their code but for the    *)
(* filters and the dialogs; page says which one is open.                     *)
(*                                                                           *)
(* A load is never cancelled: its query is fixed when it is sent, the server *)
(* reads the rows and then counts them (two statements of one READ COMMITTED *)
(* transaction), and its answer is shown whenever it arrives.                *)
EXTENDS Integers, FiniteSets

CONSTANTS
  Rows,         \* rows that may exist, in the order of their creation
  Kinds,        \* values of the status, the priority or the role
  Texts, Blank, \* contents of the search field, Blank is the empty one
  Hits,         \* Hits[t]: the rows whose name contains t
  Every,          \* the filter that selects every kind
  Sizes,        \* page sizes on offer
  Loads, Posts, \* bound: loads, and submissions, in flight at a time
  MaxSteps,     \* bound: what the user and, counted Weight times each, others do
  Weight,
  Stored,       \* the rows at the start
  Inputs,       \* contents a form may submit
  Directions,   \* sort directions, "" is none
  Null

\* A row, a query and its answer, a submission.
Contents == [kind: Kinds, active: BOOLEAN]
Queries == [search: Texts, filter: Kinds \cup {Every}, index: Int, size: Sizes,
            sort: Directions \cup {"desc"}]
LoadRecords == [q: Queries, items: (UNION {[S -> Contents] : S \in SUBSET Rows}) \cup {Null},
                total: Nat \cup {Null}]
PostRecords == [kind: {"create", "edit", "remove"}, row: Rows \cup {Null},
                value: Inputs \cup {Null}, state: {"sent", "done", "refused"}, open: BOOLEAN]

ASSUME ListAssumption ==
  /\ Null \notin LoadRecords \cup PostRecords \cup Contents \cup Texts
  /\ {"shown", "missed"} \cap Loads = {}
  /\ IsFiniteSet(Rows) /\ Rows \subseteq Nat /\ Blank \in Texts /\ Every \notin Kinds
  /\ Hits \in [Texts -> SUBSET Rows] /\ Hits[Blank] = Rows
  /\ Sizes \subseteq 1..100 /\ Sizes # {}
  /\ Inputs \subseteq Contents
  /\ Stored \in [Rows -> Contents \cup {Null}]
  /\ MaxSteps \in Nat /\ Weight \in Nat \ {0}

Pages == {"tickets", "users", "organizations"}

VARIABLES
  page, rows,                        \* the open page; the table of the API
  search, emitted, timer,            \* the field, what it last emitted, the debounce
  filter, pageIndex, pageSize, sort, \* the other controls
  loads, loading,                    \* requests in flight, the loading bar
  shown,                             \* items and total on the page, and their query
  dialog, posts,                     \* the open dialog, submissions in flight
  hist, steps                        \* history and bounds

controls == <<search, emitted, timer, filter, pageIndex, pageSize, sort>>
table == <<loads, loading, shown>>
vars == <<page, rows, controls, table, dialog, posts, hist, steps>>

-----------------------------------------------------------------------------
(* The query and its answer.                                                 *)

\* What load() sends; the search is the text of the field, emitted or not.
TicketQuery == [search |-> search, filter |-> filter, index |-> pageIndex,
                size |-> pageSize, sort |-> sort]
UserQuery == [search |-> search, filter |-> filter, index |-> pageIndex,
              size |-> pageSize, sort |-> sort]
OrganizationQuery == [search |-> search, filter |-> Every, index |-> pageIndex,
                      size |-> pageSize, sort |-> sort]

Query == CASE page = "tickets" -> TicketQuery
           [] page = "users" -> UserQuery
           [] page = "organizations" -> OrganizationQuery

Live == {r \in Rows : rows[r] # Null}
TicketsWhere(q) ==
  {r \in Live \cap Hits[q.search] : q.filter \in {Every, rows[r].kind}}
UsersWhere(q) ==
  {r \in Live \cap Hits[q.search] : q.filter \in {Every, rows[r].kind}}
OrganizationsWhere(q) == Live \cap Hits[q.search]

Where(q) == CASE page = "tickets" -> TicketsWhere(q)
              [] page = "users" -> UsersWhere(q)
              [] page = "organizations" -> OrganizationsWhere(q)

\* toPrismaOrderBy: no direction, or one that is not asc, is the newest first.
Before(q, r, s) == IF q.sort = "asc" THEN r < s ELSE r > s

\* toPrismaPage: skip (page - 1) * limit rows, take limit.
Slice(q) ==
  LET matching == Where(q)
      rank(r) == Cardinality({s \in matching : Before(q, s, r)})
  IN  {r \in matching : /\ q.index * q.size <= rank(r)
                        /\ rank(r) < (q.index + 1) * q.size}

Items(q) == [r \in Slice(q) |-> rows[r]]

\* The paginator's number of pages, computed from the total on the page.
PageCount == (shown.total + pageSize - 1) \div pageSize

\* The table gives way to "No ... found", and the paginator with it.
SaysEmpty == ~loading /\ shown.total = 0

-----------------------------------------------------------------------------
(* History.  newest: the slot of the last load sent, "shown" once its answer *)
(* is on the page, "missed" when it failed or an older answer came after it. *)
(* drift: what the page has not been told since that load was sent.          *)
(* overrun: the current page may have lost its rows: the table shrank, the    *)
(* paginator had the total of another query, or a load kept the page while a *)
(* text was being typed.                                                     *)
(* made, lost: rows inserted by the open form, answers to it that were lost; *)
(* a submission that was given up before it was served counts as neither.    *)

Missing(what) == [hist EXCEPT !.drift = @ \cup {what}]

\* load(): a request, and the loading bar.
Request(q) == [q |-> q, items |-> Null, total |-> Null]
Load(s, q) ==
  /\ loads[s] = Null
  /\ loads' = [loads EXCEPT ![s] = Request(q)]
  /\ loading' = TRUE
  /\ UNCHANGED shown

\* resetAndLoad()
ResetAndLoad_SamePage(s, q) == UNCHANGED pageIndex /\ Load(s, q)
ResetAndLoad(s, q) == pageIndex' = 0 /\ Load(s, [q EXCEPT !.index = 0])

Sent(s, h) == [h EXCEPT !.newest = s, !.drift = {}]
SentFirstPage(s, h) == [Sent(s, h) EXCEPT !.overrun = FALSE]
SentSamePage(s, h) == [Sent(s, h) EXCEPT !.overrun = @ \/ timer]

Step(n) == steps + n <= MaxSteps /\ steps' = steps + n

Closed == [kind |-> "none", row |-> Null, saving |-> FALSE]
NoDialog == dialog = Closed

-----------------------------------------------------------------------------
(* The controls.                                                             *)

\* The user types: valueChanges restarts the debounce.
Type(t) ==
  /\ Step(1) /\ NoDialog /\ t # search
  /\ search' = t
  /\ timer' = TRUE
  /\ UNCHANGED <<page, rows, emitted, filter, pageIndex, pageSize, sort, table,
                 dialog, posts, hist>>

\* 300 ms later: distinctUntilChanged drops a text equal to the last emitted.
DebounceFires(s) ==
  /\ timer /\ timer' = FALSE
  /\ search # emitted
  /\ emitted' = search
  /\ ResetAndLoad(s, Query)
  /\ hist' = SentFirstPage(s, hist)
  /\ UNCHANGED <<page, rows, search, filter, pageSize, sort, dialog, posts, steps>>
DebounceSuppressed ==
  /\ timer /\ timer' = FALSE
  /\ search = emitted
  /\ hist' = Missing("suppressed")
  /\ UNCHANGED <<page, rows, search, emitted, filter, pageIndex, pageSize, sort,
                 table, dialog, posts, steps>>

\* statusFilter, priorityFilter and roleFilter; organizations have no filter.
ChangeFilter(f, s) ==
  /\ Step(1) /\ NoDialog /\ page # "organizations" /\ f # filter
  /\ filter' = f
  /\ ResetAndLoad(s, [Query EXCEPT !.filter = f])
  /\ hist' = SentFirstPage(s, hist)
  /\ UNCHANGED <<page, rows, search, emitted, timer, pageSize, sort, dialog, posts>>

\* The paginator is on the page, offers the pages of the total shown, and keeps
\* the first row of the page in sight when the size changes.
Turned(i) == \/ pageIndex > 0 /\ i \in {0, pageIndex - 1}
             \/ pageIndex < PageCount - 1 /\ i \in {pageIndex + 1, PageCount - 1}

\* The total shown is not the one of the rows the controls select.
TotalIsStale == \/ hist.newest # "shown" \/ hist.drift # {}
                \/ shown.q.search # search \/ shown.q.filter # filter

\* onPage
Page(i, n, s) ==
  /\ Step(1) /\ NoDialog /\ ~SaysEmpty
  /\ \/ n = pageSize /\ Turned(i)
     \/ n # pageSize /\ i = (pageIndex * pageSize) \div n
  /\ pageIndex' = i
  /\ pageSize' = n
  /\ Load(s, [Query EXCEPT !.index = i, !.size = n])
  /\ hist' = [SentSamePage(s, hist) EXCEPT !.overrun = @ \/ TotalIsStale]
  /\ UNCHANGED <<page, rows, search, emitted, timer, filter, sort, dialog, posts>>

\* onSort keeps the page.
Sort(d, s) ==
  /\ Step(1) /\ NoDialog /\ ~SaysEmpty /\ d # sort
  /\ sort' = d
  /\ Load(s, [Query EXCEPT !.sort = d])
  /\ hist' = SentSamePage(s, hist)
  /\ UNCHANGED <<page, rows, search, emitted, timer, filter, pageIndex, pageSize,
                 dialog, posts>>

-----------------------------------------------------------------------------
(* The answers.                                                              *)

\* The server: findMany, then count.
FindMany(s) ==
  /\ loads[s] # Null /\ loads[s].items = Null
  /\ loads' = [loads EXCEPT ![s].items = Items(loads[s].q)]
  /\ UNCHANGED <<page, rows, controls, loading, shown, dialog, posts, hist, steps>>

Count(s) ==
  /\ loads[s] # Null /\ loads[s].items # Null /\ loads[s].total = Null
  /\ loads' = [loads EXCEPT ![s].total = Cardinality(Where(loads[s].q))]
  /\ UNCHANGED <<page, rows, controls, loading, shown, dialog, posts, hist, steps>>

\* An answer arrives, in any order.
Answer(s) ==
  /\ loads[s] # Null /\ loads[s].total # Null
  /\ shown' = [items |-> loads[s].items, total |-> loads[s].total, q |-> loads[s].q]
  /\ loading' = FALSE
  /\ loads' = [loads EXCEPT ![s] = Null]
  /\ hist' = [hist EXCEPT !.newest = CASE @ = s -> "shown"
                                       [] @ = "shown" -> "missed"
                                       [] OTHER -> @]
  /\ UNCHANGED <<page, rows, controls, dialog, posts, steps>>

\* A load fails at any point: the rows on the page stay.
LoadFails_Silent(s) ==
  /\ loads[s] # Null
  /\ loads' = [loads EXCEPT ![s] = Null]
  /\ hist' = [hist EXCEPT !.newest = IF @ = s THEN "missed" ELSE @]
  /\ UNCHANGED <<page, rows, controls, loading, shown, dialog, posts, steps>>
LoadFails(s) ==
  /\ loads[s] # Null
  /\ loading' = FALSE
  /\ loads' = [loads EXCEPT ![s] = Null]
  /\ hist' = [hist EXCEPT !.newest = IF @ = s THEN "missed" ELSE @]
  /\ UNCHANGED <<page, rows, controls, shown, dialog, posts, steps>>

-----------------------------------------------------------------------------
(* The dialogs.  They are modal: the controls are out of reach, the loads    *)
(* and the debounce go on.  Closing one does not cancel its request.         *)

\* What a closed dialog leaves of the requests it has sent.
Shut(ps) == [p \in Posts |-> IF ps[p] = Null THEN Null ELSE [ps[p] EXCEPT !.open = FALSE]]

\* create()
OpenCreate ==
  /\ Step(1) /\ NoDialog
  /\ dialog' = [Closed EXCEPT !.kind = "create"]
  /\ hist' = [hist EXCEPT !.made = 0, !.lost = 0]
  /\ UNCHANGED <<page, rows, controls, table, posts>>

\* edit(row) and the confirmation of deactivate(user) and remove(org), on a row
\* of the page; a ticket opens a page of its own instead, and a user shown as
\* inactive cannot be deactivated.
OnPage(r) == page # "tickets" /\ ~SaysEmpty /\ r \in DOMAIN shown.items
OpenEdit(r) ==
  /\ Step(1) /\ NoDialog /\ OnPage(r)
  /\ dialog' = [kind |-> "edit", row |-> r, saving |-> FALSE]
  /\ UNCHANGED <<page, rows, controls, table, posts, hist>>
AskRemoval(r) ==
  /\ Step(1) /\ NoDialog /\ OnPage(r)
  /\ page = "users" => shown.items[r].active
  /\ dialog' = [kind |-> "remove", row |-> r, saving |-> FALSE]
  /\ UNCHANGED <<page, rows, controls, table, posts, hist>>

\* cancel(), Escape or a click beside the dialog, also while it is saving.
Dismiss ==
  /\ ~NoDialog
  /\ dialog' = Closed
  /\ posts' = Shut(posts)
  /\ UNCHANGED <<page, rows, controls, table, hist, steps>>

Post(k, r, v) == [kind |-> k, row |-> r, value |-> v, state |-> "sent", open |-> TRUE]

\* What the three forms can submit: only an edit can deactivate.
TicketForm(v) == dialog.kind = "create" /\ v.active
UserForm(v) == dialog.kind \in {"create", "edit"} /\ (dialog.kind = "create" => v.active)
OrganizationForm(v) ==
  dialog.kind \in {"create", "edit"} /\ (dialog.kind = "create" => v.active)
Submits(v) == CASE page = "tickets" -> TicketForm(v)
                [] page = "users" -> UserForm(v)
                [] page = "organizations" -> OrganizationForm(v)

\* save(): nothing while a save is under way.
Save_Twice(p, v) ==
  /\ Step(1) /\ Submits(v) /\ posts[p] = Null
  /\ dialog' = [dialog EXCEPT !.saving = TRUE]
  /\ posts' = [posts EXCEPT ![p] = Post(dialog.kind, dialog.row, v)]
  /\ UNCHANGED <<page, rows, controls, table, hist>>
Save(p, v) ==
  /\ Step(1) /\ Submits(v) /\ ~dialog.saving /\ posts[p] = Null
  /\ dialog' = [dialog EXCEPT !.saving = TRUE]
  /\ posts' = [posts EXCEPT ![p] = Post(dialog.kind, dialog.row, v)]
  /\ UNCHANGED <<page, rows, controls, table, hist>>

\* The confirmation closes and sends the request.
Confirm(p) ==
  /\ dialog.kind = "remove" /\ posts[p] = Null
  /\ dialog' = Closed
  /\ posts' = [posts EXCEPT ![p] =
                 [Post("remove", dialog.row, Null) EXCEPT !.open = FALSE]]
  /\ UNCHANGED <<page, rows, controls, table, hist, steps>>

-----------------------------------------------------------------------------
(* The API's side of a submission.                                           *)

\* A change of the table that a load under way may or may not see, and that can
\* take rows from the page: any but an insertion nobody is counting.
Unseen(what, shrinks) ==
  [hist EXCEPT !.drift = @ \cup {what},
               !.overrun = @ \/ shrinks \/ \E s \in Loads :
                   loads[s] # Null /\ loads[s].items # Null /\ loads[s].total = Null]

\* A new row is the newest.
Fresh(r) == Live \cap {s \in Rows : s >= r} = {} /\ (r = 1 \/ r - 1 \in Live)

Applied(p, what) ==
  posts' = [posts EXCEPT ![p].state = what]

\* create of the three services: a new row, unless an address, a name or a
\* slug is taken.
CreateRow(p, r) ==
  /\ posts[p] # Null /\ posts[p].kind = "create" /\ posts[p].state = "sent"
  /\ Fresh(r)
  /\ rows' = [rows EXCEPT ![r] = posts[p].value]
  /\ Applied(p, "done")
  /\ hist' = [Unseen("unanswered", FALSE)
             EXCEPT !.made = IF posts[p].open THEN @ + 1 ELSE @]
  /\ UNCHANGED <<page, controls, table, dialog, steps>>

\* update: findOne, then the update.
UpdateUser(p) ==
  /\ posts[p] # Null /\ posts[p].kind = "edit" /\ posts[p].state = "sent"
  /\ page = "users" /\ rows[posts[p].row] # Null
  /\ rows' = [rows EXCEPT ![posts[p].row] = posts[p].value]
  /\ Applied(p, "done")
  /\ hist' = Unseen("unanswered", TRUE)
  /\ UNCHANGED <<page, controls, table, dialog, steps>>
UpdateOrganization(p) ==
  /\ posts[p] # Null /\ posts[p].kind = "edit" /\ posts[p].state = "sent"
  /\ page = "organizations" /\ rows[posts[p].row] # Null
  /\ rows' = [rows EXCEPT ![posts[p].row] = posts[p].value]
  /\ Applied(p, "done")
  /\ hist' = Unseen("unanswered", TRUE)
  /\ UNCHANGED <<page, controls, table, dialog, steps>>

\* DELETE /users/:id only deactivates.
DeactivateUser(p) ==
  /\ posts[p] # Null /\ posts[p].kind = "remove" /\ posts[p].state = "sent"
  /\ page = "users" /\ rows[posts[p].row] # Null
  /\ rows' = [rows EXCEPT ![posts[p].row].active = FALSE]
  /\ Applied(p, "done")
  /\ hist' = Unseen("removed", FALSE)
  /\ UNCHANGED <<page, controls, table, dialog, steps>>
RemoveOrganization(p) ==
  /\ posts[p] # Null /\ posts[p].kind = "remove" /\ posts[p].state = "sent"
  /\ page = "organizations" /\ rows[posts[p].row] # Null
  /\ rows' = [rows EXCEPT ![posts[p].row] = Null]
  /\ Applied(p, "done")
  /\ hist' = Unseen("removed", TRUE)
  /\ UNCHANGED <<page, controls, table, dialog, steps>>

\* A conflict, a row that is gone, a foreign key or a validation: the request
\* is refused and changes nothing.  The network can lose it too.
Refuse(p) ==
  /\ posts[p] # Null /\ posts[p].state = "sent"
  /\ Applied(p, "refused")
  /\ UNCHANGED <<page, rows, controls, table, dialog, hist, steps>>

\* Other users insert, change and (organizations only) delete rows.
Elsewhere(r, v) ==
  /\ Step(Weight) /\ v # rows[r]
  /\ v = Null => page = "organizations"
  /\ r \in Live \/ Fresh(r)
  /\ rows' = [rows EXCEPT ![r] = v]
  /\ hist' = Unseen("elsewhere", rows[r] # Null)
  /\ UNCHANGED <<page, controls, table, dialog, posts>>

-----------------------------------------------------------------------------
(* The answers to submissions.                                               *)

Freed(p) == [posts EXCEPT ![p] = Null]

\* The form closes with the entity: a creation loads the first page, an edit the
\* same page.
Saved_NoReload(p, s) ==
  /\ posts[p] # Null /\ posts[p].state = "done" /\ posts[p].open
  /\ dialog' = Closed
  /\ posts' = Shut(Freed(p))
  /\ hist' = Sent(hist.newest, hist)
  /\ UNCHANGED <<page, rows, controls, table, steps>>
Saved(p, s) ==
  /\ posts[p] # Null /\ posts[p].state = "done" /\ posts[p].open
  /\ dialog' = Closed
  /\ posts' = Shut(Freed(p))
  /\ \/ /\ posts[p].kind = "create"
        /\ ResetAndLoad(s, Query)
        /\ hist' = SentFirstPage(s, hist)
     \/ /\ posts[p].kind = "edit"
        /\ Load(s, Query)
        /\ hist' = SentSamePage(s, hist)
        /\ UNCHANGED pageIndex
  /\ UNCHANGED <<page, rows, search, emitted, timer, filter, pageSize, sort, steps>>

\* A form dismissed while it was saving: close() on a closed dialog does nothing.
SavedUnseen(p) ==
  /\ posts[p] # Null /\ posts[p].state = "done" /\ ~posts[p].open
  /\ posts[p].kind # "remove"
  /\ posts' = Freed(p)
  /\ UNCHANGED <<page, rows, controls, table, dialog, hist, steps>>

\* The submission is refused or its answer is lost: the form can be sent again.
SubmissionFails(p) ==
  /\ posts[p] # Null /\ posts[p].state # "sent"
  /\ posts' = Freed(p)
  /\ dialog' = IF posts[p].open THEN [dialog EXCEPT !.saving = FALSE] ELSE dialog
  /\ hist' = IF posts[p].state = "refused" THEN hist
             ELSE [Missing("unanswered")
                   EXCEPT !.lost = IF posts[p].open THEN @ + 1 ELSE @]
  /\ UNCHANGED <<page, rows, controls, table, steps>>

\* The proxy gives up on a form's submission that the API has yet to serve: the
\* form can be sent again, and nobody waits for the first any more.
SubmissionTimesOut(p) ==
  /\ posts[p] # Null /\ posts[p].state = "sent" /\ posts[p].open
  /\ posts' = [posts EXCEPT ![p].open = FALSE]
  /\ dialog' = [dialog EXCEPT !.saving = FALSE]
  /\ UNCHANGED <<page, rows, controls, table, hist, steps>>

\* A DELETE is answered 204, without a body: ApiService reads data of null, which
\* throws, so that next of deactivate(user) and remove(org), the toast and the
\* load, never runs.
RemovalAnswered(p) ==
  /\ posts[p] # Null /\ posts[p].state = "done" /\ posts[p].kind = "remove"
  /\ posts' = Freed(p)
  /\ UNCHANGED <<page, rows, controls, table, dialog, hist, steps>>

-----------------------------------------------------------------------------
FirstQuery == [search |-> Blank, filter |-> Every, index |-> 0,
               size |-> CHOOSE n \in Sizes : \A m \in Sizes : n <= m, sort |-> "desc"]

\* ngOnInit: the first load is under way.
FirstLoad ==
  /\ \E s \in Loads :
       /\ loads = [l \in Loads |-> IF l = s THEN Request(FirstQuery) ELSE Null]
       /\ hist = [newest |-> s, drift |-> {}, overrun |-> FALSE, made |-> 0, lost |-> 0]
  /\ loading = TRUE
  /\ shown = [items |-> <<>>, total |-> 0, q |-> Null]

Init ==
  /\ page \in Pages
  /\ rows = Stored
  /\ search = Blank /\ emitted = Null /\ timer = FALSE
  /\ filter = Every /\ pageIndex = 0 /\ pageSize = FirstQuery.size /\ sort = "desc"
  /\ FirstLoad
  /\ dialog = Closed /\ posts = [p \in Posts |-> Null]
  /\ steps = 0

Control ==
  \/ \E t \in Texts : Type(t)
  \/ DebounceSuppressed
  \/ \E s \in Loads :
       \/ DebounceFires(s)
       \/ \E f \in Kinds \cup {Every} : ChangeFilter(f, s)
       \/ \E i \in 0..Cardinality(Rows), n \in Sizes : Page(i, n, s)
       \/ \E d \in Directions : Sort(d, s)

Reply == \E s \in Loads : FindMany(s) \/ Count(s) \/ Answer(s) \/ LoadFails(s)

Dialogs ==
  \/ OpenCreate \/ Dismiss
  \/ \E r \in Rows : OpenEdit(r) \/ AskRemoval(r)
  \/ \E p \in Posts : \/ \E v \in Inputs : Save(p, v)
                       \/ Confirm(p) \/ SavedUnseen(p) \/ SubmissionFails(p)
                       \/ SubmissionTimesOut(p) \/ RemovalAnswered(p)
                       \/ \E s \in Loads : Saved(p, s)

Server ==
  \/ \E p \in Posts : \/ \E r \in Rows : CreateRow(p, r)
                       \/ UpdateUser(p) \/ UpdateOrganization(p)
                       \/ DeactivateUser(p) \/ RemoveOrganization(p) \/ Refuse(p)
  \/ \E r \in Rows, v \in Inputs \cup {Null} : Elsewhere(r, v)

Next == Control \/ Reply \/ Dialogs \/ Server
Spec == Init /\ [][Next]_vars

-----------------------------------------------------------------------------
(* Properties.                                                               *)

\* The loading bar never stays on by itself: while loading is set a load is in
\* flight whose answer or error will clear it (next and error of load()).
LoadingEnds == loading => \E s \in Loads : loads[s] # Null

Quiet == /\ ~timer
         /\ \A s \in Loads : loads[s] = Null
         /\ \A p \in Posts : posts[p] = Null
AsStored == /\ shown.items = Items(Query)
            /\ shown.total = Cardinality(Where(Query))

\* Once nothing is pending, the table shows the rows of the server that the
\* controls select: every change of a control and every answered save has been
\* followed by a load.  The exceptions the code has are named: the last load
\* failed or was overtaken by an older one, or since it was sent a row changed
\* behind the page's back or distinctUntilChanged held a text back.
TableIsCurrent ==
  Quiet /\ hist.newest = "shown" /\ hist.drift = {} => AsStored

\* The same after a removal of this page's own: next of deactivate(user) and
\* remove(org) loads the page again.
RemovalsShow ==
  Quiet /\ hist.newest = "shown" /\ hist.drift \subseteq {"removed"} => AsStored

\* An empty page beside a total that is not zero appears only after rows changed
\* under the page, the paginator worked with the total of another query, or a
\* sort, a turn or an edit kept the page while a text was being typed:
\* resetAndLoad goes back to the first page.
NoEmptyPage ==
  Quiet /\ hist.newest = "shown" /\ shown.total > 0 /\ ~hist.overrun
    => DOMAIN shown.items # {}

\* A form inserts one row, and one more only for each answer that was lost or would
\* have come too late, however often Save is clicked.
OneRowPerForm == hist.made <= 1 + hist.lost
=============================================================================
