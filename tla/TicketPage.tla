----------------------------- MODULE TicketPage -----------------------------
(* The page of one ticket in the web client, with the notification menu of   *)
(* the layout around it, and what the API does for them.  Both keep answers  *)
(* of the API as their own state and never poll: the page shows the ticket   *)
(* that its last answer carried, the badge counts down from one count taken  *)
(* at the start.  Answers arrive in any order, or not at all, and the router *)
(* keeps the component when only the id in the URL changes.                  *)
EXTENDS Integers, Sequences, FiniteSets

CONSTANTS
  Tickets, Statuses, Texts,
  Staff, Nobody,      \* users offered as assignees, and none of them
  Me,                 \* the user whose page it is
  Notes, TicketOf,    \* his notifications, oldest first, and their tickets
  CommentLimit,       \* comments that are asked for (100 in the code)
  MenuLimit,          \* notifications that are asked for (6 in the code)
  Slots,              \* bound: requests in flight at a time
  MaxSteps,           \* bound: what users do
  Roles,              \* the roles Me may have
  Null

\* A row, the ticket on a page, the text of a comment form, and a comment as the
\* page knows it.
Rows == [status: Statuses, assignee: Staff \cup {Nobody}, text: Texts]
Views == [id: Tickets, row: Rows]
Drafts == [internal: BOOLEAN, draft: Nat]
References == [ticket: Tickets, number: Nat]

\* What the page and the menu may ask, of which they keep the row and the rest
\* of the answer until it is their turn.
Asking(kind, to, arg, row, got) ==
  [kind: {kind}, to: to, arg: arg, live: BOOLEAN, row: row \cup {Null}, got: got \cup {Null}]
PageRequests ==
  Asking("load", Tickets, {Null}, Rows, SUBSET Nat)
  \cup Asking("status", Tickets, Statuses, Rows, {TRUE})
  \cup Asking("assign", Tickets, Staff, Rows, {TRUE})
  \cup Asking("edit", Tickets, Texts, Rows, {TRUE})
  \cup Asking("comment", Tickets, Drafts, {}, References)
MenuRequests ==
  Asking("count", {Null}, {Null}, {}, Nat)
  \cup Asking("list", {Null}, {Null}, {}, UNION {[S -> {"unread", "read"}] : S \in SUBSET Notes})
  \cup Asking("read", Notes, {Null}, {}, {TRUE})
  \cup Asking("readall", {Null}, {Null}, {}, {TRUE})

ASSUME TicketPageAssumption ==
  /\ {"OPEN", "IN_PROGRESS"} \subseteq Statuses /\ Nobody \notin Staff
  /\ Roles \subseteq {"ADMIN", "AGENT", "CUSTOMER"}
  /\ Texts # {}
  /\ IsFiniteSet(Notes) /\ Notes \subseteq Nat /\ TicketOf \in [Notes -> Tickets \cup {Null}]
  /\ CommentLimit \in Nat /\ MenuLimit \in Nat /\ MaxSteps \in Nat /\ IsFiniteSet(Slots)
  /\ Null \notin Slots \cup Tickets \cup Rows \cup Views \cup References
              \cup PageRequests \cup MenuRequests
  /\ Null \notin {"shown"} /\ Null \notin BOOLEAN /\ Null \notin Nat

VARIABLES
  role, rows, comments, inbox, \* who Me is, and the database
  url, opened,                 \* the id in the URL, that the page was opened with
  ticket, list, loading,       \* the ticket and comments shown, the loading bar
  posting, draft,              \* the comment form, under way or not, and a text
  dialog,                      \* the edit dialog
  badge, menu, menuOpen,       \* the unread count, the notification menu
  requests, hist, steps        \* in flight; history and bound

database == <<rows, comments, inbox>>
place == <<url, opened>>
page == <<ticket, list, loading, posting, draft, dialog>>
layout == <<badge, menu, menuOpen>>
vars == <<role, database, place, page, layout, requests, hist, steps>>

IsStaff == role # "CUSTOMER"

-----------------------------------------------------------------------------
(* Requests.  live: the page or the dialog that sent it is still there.      *)

Request(kind, to, arg) ==
  [kind |-> kind, to |-> to, arg |-> arg, live |-> TRUE,
   row |-> Null, got |-> Null]

Send(s, r) == requests[s] = Null /\ requests' = [requests EXCEPT ![s] = r]
Done(s) == requests' = [requests EXCEPT ![s] = Null]

PageKinds == {"load", "status", "assign", "edit", "comment"}
Writes == {"status", "assign", "edit"}
Handled(s) == requests[s] # Null /\ requests[s].got # Null
Waiting(s, kind) ==
  requests[s] # Null /\ requests[s].kind = kind /\ requests[s].got = Null
Answered(s, kind) == Handled(s) /\ requests[s].kind = kind
InFlight(kinds) ==
  {s \in Slots : requests[s] # Null /\ requests[s].live /\ requests[s].kind \in kinds}

\* Whoever waits for the answers to these kinds goes away.
Orphaned(kinds) ==
  [s \in Slots |-> IF s \in InFlight(kinds) THEN [requests[s] EXCEPT !.live = FALSE]
                   ELSE requests[s]]

Step == steps < MaxSteps /\ steps' = steps + 1

-----------------------------------------------------------------------------
(* History.  drift and gap: why the ticket and the comments on the page may  *)
(* be behind those of the ticket it was opened with; last: the slot of the   *)
(* newest write of the page that the API served, "shown" once its answer is  *)
(* on the page; lost: drafts of which an answer was lost, also one that      *)
(* the API had yet to give; miscounts: why the badge may be off.             *)

\* Ticket t changes and the page is not told, unless it is still to read it.
Reads(part) == \E s \in InFlight({"load"}) : requests[s][part] = Null
MissedRow(t, why) == IF t = opened /\ ~Reads("row") THEN hist.drift \cup {why} ELSE hist.drift
MissedComment(t, why) == IF t = opened /\ ~Reads("got") THEN hist.gap \cup {why} ELSE hist.gap

-----------------------------------------------------------------------------
(* Getting to the page and away from it.                                     *)

Blank ==
  /\ ticket' = Null /\ list' = <<>>
  /\ posting' = FALSE /\ draft' = hist.drafts + 1 /\ dialog' = "none"

\* ngOnInit and load(): the ticket and its comments, in parallel.
Open(s, t, pending, h) ==
  /\ pending[s] = Null
  /\ url' = t /\ opened' = t
  /\ Blank /\ loading' = TRUE
  /\ requests' = [pending EXCEPT ![s] = Request("load", t, Null)]
  /\ hist' = [h EXCEPT !.drift = {}, !.gap = {}, !.last = Null, !.drafts = @ + 1]

\* The router keeps the component when it is there already: only its id changes.
GoTo(s, t, pending, h) ==
  IF url = Null THEN Open(s, t, pending, h)
  ELSE url' = t /\ requests' = pending /\ hist' = h /\ UNCHANGED <<opened, page>>

\* From the list of tickets.
OpenTicket(s, t) ==
  /\ Step /\ url = Null /\ ~menuOpen
  /\ Open(s, t, requests, hist)
  /\ UNCHANGED <<role, database, layout>>

\* back(), and any other link.
Back ==
  /\ url # Null /\ dialog = "none" /\ ~menuOpen
  /\ url' = Null /\ opened' = Null
  /\ ticket' = Null /\ list' = <<>> /\ loading' = FALSE
  /\ posting' = FALSE /\ draft' = 0 /\ dialog' = "none"
  /\ requests' = Orphaned(PageKinds)
  /\ UNCHANGED <<role, database, layout, hist, steps>>

-----------------------------------------------------------------------------
(* What the user does there.  All of it is about the ticket shown.           *)

AtPage == url # Null /\ ticket # Null /\ dialog = "none" /\ ~menuOpen

\* changeStatus: nothing if the ticket shown has that status.
ChangeStatus(s, status) ==
  /\ Step /\ AtPage /\ IsStaff
  /\ status # ticket.row.status
  /\ Send(s, Request("status", ticket.id, status))
  /\ UNCHANGED <<role, database, place, page, layout, hist>>

\* assign of an admin, assignToMe of an agent.
Assign(s, u) ==
  /\ Step /\ AtPage
  /\ \/ role = "ADMIN"
     \/ role = "AGENT" /\ u = Me
  /\ Send(s, Request("assign", ticket.id, u))
  /\ UNCHANGED <<role, database, place, page, layout, hist>>

\* addComment: one at a time; customers have no checkbox.
AddComment_Again(s, internal) ==
  /\ Step /\ AtPage
  /\ internal => IsStaff
  /\ posting' = TRUE
  /\ Send(s, Request("comment", ticket.id, [internal |-> internal, draft |-> draft]))
  /\ UNCHANGED <<role, database, place, ticket, list, loading, draft, dialog, layout, hist>>
AddComment(s, internal) ==
  /\ Step /\ AtPage /\ ~posting
  /\ internal => IsStaff
  /\ posting' = TRUE
  /\ Send(s, Request("comment", ticket.id, [internal |-> internal, draft |-> draft]))
  /\ UNCHANGED <<role, database, place, ticket, list, loading, draft, dialog, layout, hist>>

\* edit(ticket), and save() and cancel() of the ticket form.
Edit ==
  /\ Step /\ AtPage /\ IsStaff
  /\ dialog' = "open"
  /\ UNCHANGED <<role, database, place, ticket, list, loading, posting, draft, layout,
                 requests, hist>>
Save(s, text) ==
  /\ dialog = "open"
  /\ dialog' = "saving"
  /\ Send(s, Request("edit", ticket.id, text))
  /\ UNCHANGED <<role, database, place, ticket, list, loading, posting, draft, layout,
                 hist, steps>>
Dismiss ==
  /\ dialog # "none"
  /\ dialog' = "none"
  /\ requests' = Orphaned({"edit"})
  /\ hist' = [hist EXCEPT !.drift =
                IF \E s \in InFlight({"edit"}) : Handled(s) THEN @ \cup {"unheard"} ELSE @]
  /\ UNCHANGED <<role, database, place, ticket, list, loading, posting, draft, layout, steps>>

-----------------------------------------------------------------------------
(* The API's side.                                                           *)

\* findForTicket: the numbers of the comments a user may see, the oldest
\* CommentLimit of them, and the order in which they are sent.
Visible(t) == {n \in 1..Len(comments[t]) : IsStaff \/ ~comments[t][n].internal}
FirstComments(t) ==
  {n \in Visible(t) : Cardinality({m \in Visible(t) : m < n}) < CommentLimit}
InOrder(t, numbers) ==
  [i \in 1..Cardinality(numbers) |->
     [ticket |-> t,
      number |-> CHOOSE n \in numbers : Cardinality({m \in numbers : m < n}) = i - 1]]

ReadTicket(s) ==
  /\ requests[s] # Null /\ requests[s].kind = "load" /\ requests[s].row = Null
  /\ requests' = [requests EXCEPT ![s].row = rows[requests[s].to]]
  /\ UNCHANGED <<role, database, place, page, layout, hist, steps>>
ReadComments(s) ==
  /\ Waiting(s, "load")
  /\ requests' = [requests EXCEPT ![s].got = FirstComments(requests[s].to)]
  /\ hist' = [hist EXCEPT !.gap =
       IF requests[s].live /\ Cardinality(Visible(requests[s].to)) > CommentLimit
       THEN @ \cup {"limit"} ELSE @]
  /\ UNCHANGED <<role, database, place, page, layout, steps>>

\* update and assign: the answer is the row they leave.
Written(r, row) ==
  CASE r.kind = "status" -> [row EXCEPT !.status = r.arg]
    [] r.kind = "assign" -> [row EXCEPT !.assignee = r.arg, !.status = "IN_PROGRESS"]
    [] r.kind = "edit" -> [row EXCEPT !.text = r.arg]

ServeWrite(s) ==
  /\ \E k \in Writes : Waiting(s, k)
  /\ LET r == requests[s]  row == Written(r, rows[r.to]) IN
     /\ rows' = [rows EXCEPT ![r.to] = row]
     /\ requests' = [requests EXCEPT ![s].row = row, ![s].got = TRUE]
     /\ hist' = IF r.live THEN [hist EXCEPT !.last = s, !.drift = {}]
                ELSE [hist EXCEPT !.drift = MissedRow(r.to, "unheard")]
  /\ UNCHANGED <<role, comments, inbox, place, page, layout, steps>>

\* create: customers' comments are never internal; the answer is the comment.
ServeComment(s) ==
  /\ Waiting(s, "comment")
  /\ LET r == requests[s] IN
     /\ comments' = [comments EXCEPT ![r.to] =
          Append(@, [r.arg EXCEPT !.internal = @ /\ IsStaff])]
     /\ requests' = [requests EXCEPT ![s].got =
          [ticket |-> r.to, number |-> Len(comments[r.to]) + 1]]
     /\ hist' = IF r.live THEN hist
                ELSE [hist EXCEPT !.gap = MissedComment(r.to, "unheard")]
  /\ UNCHANGED <<role, rows, inbox, place, page, layout, steps>>

\* Colleagues write the ticket, or comment on it.
OthersWrite(t, status) ==
  /\ Step
  /\ status # rows[t].status
  /\ rows' = [rows EXCEPT ![t].status = status]
  /\ hist' = [hist EXCEPT !.drift = MissedRow(t, "others")]
  /\ UNCHANGED <<role, comments, inbox, place, page, layout, requests>>
OthersComment(t, internal) ==
  /\ Step
  /\ comments' = [comments EXCEPT ![t] = Append(@, [internal |-> internal, draft |-> 0])]
  /\ hist' = [hist EXCEPT !.gap = IF internal => IsStaff THEN MissedComment(t, "others") ELSE @]
  /\ UNCHANGED <<role, rows, inbox, place, page, layout, requests>>

-----------------------------------------------------------------------------
(* The answers to the page.  Nobody sees those to a page that is gone.       *)

AnswerLoad(s) ==
  /\ Answered(s, "load") /\ requests[s].row # Null /\ requests[s].live
  /\ ticket' = [id |-> requests[s].to, row |-> requests[s].row]
  /\ list' = InOrder(requests[s].to, requests[s].got)
  /\ loading' = FALSE
  /\ Done(s)
  /\ UNCHANGED <<role, database, place, posting, draft, dialog, layout, hist, steps>>

\* next of changeStatus, assign and edit: the page shows the row answered.
Shown_Status(r) == [ticket EXCEPT !.row.status = r.row.status]
Shown(r) == [ticket EXCEPT !.row = r.row]

AnswerWrite(s) ==
  /\ \E k \in Writes : Answered(s, k)
  /\ requests[s].live
  /\ ticket' = Shown(requests[s])
  /\ dialog' = IF requests[s].kind = "edit" THEN "none" ELSE dialog
  /\ Done(s)
  /\ hist' = [hist EXCEPT !.last = IF @ = s THEN "shown" ELSE @,
                          !.drift = IF hist.last = "shown" THEN @ \cup {"late"} ELSE @]
  /\ UNCHANGED <<role, database, place, list, loading, posting, draft, layout, steps>>

AnswerComment_Anyone(s) ==
  /\ Answered(s, "comment")
  /\ list' = Append(list, requests[s].got)
  /\ posting' = FALSE
  /\ draft' = hist.drafts + 1
  /\ hist' = [hist EXCEPT !.drafts = @ + 1]
  /\ Done(s)
  /\ UNCHANGED <<role, database, place, ticket, loading, dialog, layout, steps>>
AnswerComment(s) ==
  /\ Answered(s, "comment") /\ requests[s].live
  /\ list' = Append(list, requests[s].got)
  /\ posting' = FALSE
  /\ draft' = hist.drafts + 1
  /\ hist' = [hist EXCEPT !.drafts = @ + 1]
  /\ Done(s)
  /\ UNCHANGED <<role, database, place, ticket, loading, dialog, layout, steps>>

Unseen(s) ==
  /\ requests[s] # Null /\ ~requests[s].live
  /\ Done(s)
  /\ UNCHANGED <<role, database, place, page, layout, hist, steps>>

\* A request of the page fails: it never reaches the API, or its answer gets lost.
PageFails_StillPosting(s) ==
  /\ s \in InFlight(PageKinds)
  /\ LET r == requests[s] IN
     /\ loading' = IF r.kind = "load" THEN FALSE ELSE loading
     /\ dialog' = IF r.kind = "edit" THEN "open" ELSE dialog
     /\ hist' = [hist EXCEPT
          !.drift = IF r.kind = "load" \/ (r.kind \in Writes /\ Handled(s))
                    THEN @ \cup {"unheard"} ELSE @,
          !.gap = IF r.kind = "load" \/ (r.kind = "comment" /\ Handled(s))
                  THEN @ \cup {"unheard"} ELSE @,
          !.lost = IF r.kind = "comment" /\ Handled(s) THEN @ \cup {r.arg.draft} ELSE @]
  /\ Done(s)
  /\ UNCHANGED <<role, database, place, ticket, list, posting, draft, layout, steps>>
PageFails(s) ==
  /\ s \in InFlight(PageKinds)
  /\ LET r == requests[s] IN
     /\ loading' = IF r.kind = "load" THEN FALSE ELSE loading
     /\ posting' = IF r.kind = "comment" THEN FALSE ELSE posting
     /\ dialog' = IF r.kind = "edit" THEN "open" ELSE dialog
     /\ hist' = [hist EXCEPT
          !.drift = IF r.kind = "load" \/ (r.kind \in Writes /\ Handled(s))
                    THEN @ \cup {"unheard"} ELSE @,
          !.gap = IF r.kind = "load" \/ (r.kind = "comment" /\ Handled(s))
                  THEN @ \cup {"unheard"} ELSE @,
          !.lost = IF r.kind = "comment" /\ Handled(s) THEN @ \cup {r.arg.draft} ELSE @]
  /\ Done(s)
  /\ UNCHANGED <<role, database, place, ticket, list, draft, layout, steps>>

\* The proxy gives up on a write or a comment that the API has yet to serve.
TimesOut(s) ==
  /\ s \in InFlight(Writes \cup {"comment"}) /\ ~Handled(s)
  /\ LET r == requests[s] IN
     /\ posting' = IF r.kind = "comment" THEN FALSE ELSE posting
     /\ dialog' = IF r.kind = "edit" THEN "open" ELSE dialog
     /\ hist' = [hist EXCEPT !.lost = IF r.kind = "comment" THEN @ \cup {r.arg.draft} ELSE @]
  /\ requests' = [requests EXCEPT ![s].live = FALSE]
  /\ UNCHANGED <<role, database, place, ticket, list, loading, draft, layout, steps>>

-----------------------------------------------------------------------------
(* The notification menu.                                                    *)

Unread == {n \in Notes : inbox[n] = "unread"}
Existing == {n \in Notes : inbox[n] # "none"}
Readings == {"read", "readall"}

\* The worker stores a notification.
Arrives(n) ==
  /\ inbox[n] = "none" /\ \A m \in Notes : m < n => inbox[m] # "none"
  /\ inbox' = [inbox EXCEPT ![n] = "unread"]
  /\ hist' = IF \E s \in Slots : Waiting(s, "count") THEN hist
             ELSE [hist EXCEPT !.miscounts = @ \cup {"arrived"}]
  /\ UNCHANGED <<role, rows, comments, place, page, layout, requests, steps>>

\* loadNotifications, whenever the menu opens; the list of before is there already.
OpenMenu(s) ==
  /\ Step /\ ~menuOpen /\ dialog = "none"
  /\ menuOpen' = TRUE
  /\ Send(s, Request("list", Null, Null))
  /\ UNCHANGED <<role, database, place, page, badge, menu, hist>>
CloseMenu ==
  /\ menuOpen /\ menuOpen' = FALSE
  /\ UNCHANGED <<role, database, place, page, badge, menu, requests, hist, steps>>

\* done of openNotification.
Follow(s, n, pending, h) ==
  IF TicketOf[n] = Null
  THEN requests' = pending /\ hist' = h /\ UNCHANGED <<place, page>>
  ELSE GoTo(s, TicketOf[n], pending, h)

\* openNotification: one shown as unread is marked first.
OpenUnread(s, n) ==
  /\ menuOpen /\ n \in DOMAIN menu /\ menu[n] = "unread"
  /\ menuOpen' = FALSE
  /\ Send(s, Request("read", n, Null))
  /\ UNCHANGED <<role, database, place, page, badge, menu, hist, steps>>
OpenRead(s, n) ==
  /\ menuOpen /\ n \in DOMAIN menu /\ menu[n] = "read"
  /\ menuOpen' = FALSE
  /\ Follow(s, n, requests, hist)
  /\ UNCHANGED <<role, database, badge, menu, steps>>

\* markAllRead
MarkAllRead(s) ==
  /\ Step /\ menuOpen
  /\ Send(s, Request("readall", Null, Null))
  /\ UNCHANGED <<role, database, place, page, layout, hist>>

\* countUnread.  Readings it has counted must not be subtracted again.
ServeCount(s) ==
  /\ Waiting(s, "count")
  /\ requests' = [requests EXCEPT ![s].got = Cardinality(Unread)]
  /\ hist' = IF \E r \in Slots, k \in Readings : Answered(r, k)
             THEN [hist EXCEPT !.miscounts = @ \cup {"crossed"}] ELSE hist
  /\ UNCHANGED <<role, database, place, page, layout, steps>>

\* findForUser: the newest MenuLimit.
Newest == {n \in Existing : Cardinality({m \in Existing : m > n}) < MenuLimit}
ServeList(s) ==
  /\ Waiting(s, "list")
  /\ requests' = [requests EXCEPT ![s].got = [n \in Newest |-> inbox[n]]]
  /\ UNCHANGED <<role, database, place, page, layout, hist, steps>>

\* markRead: also of one that is read already.
ServeRead(s) ==
  /\ Waiting(s, "read")
  /\ inbox' = [inbox EXCEPT ![requests[s].to] = "read"]
  /\ requests' = [requests EXCEPT ![s].got = TRUE]
  /\ hist' = IF inbox[requests[s].to] = "read"
             THEN [hist EXCEPT !.miscounts = @ \cup {"twice"}] ELSE hist
  /\ UNCHANGED <<role, rows, comments, place, page, layout, steps>>
ServeReadAll(s) ==
  /\ Waiting(s, "readall")
  /\ inbox' = [n \in Notes |-> IF n \in Unread THEN "read" ELSE inbox[n]]
  /\ requests' = [requests EXCEPT ![s].got = TRUE]
  /\ hist' = [hist EXCEPT !.miscounts = {}]
  /\ UNCHANGED <<role, rows, comments, place, page, layout, steps>>

AnswerCount(s) ==
  /\ Answered(s, "count")
  /\ badge' = requests[s].got
  /\ Done(s)
  /\ UNCHANGED <<role, database, place, page, menu, menuOpen, hist, steps>>
AnswerList(s) ==
  /\ Answered(s, "list")
  /\ menu' = requests[s].got
  /\ Done(s)
  /\ UNCHANGED <<role, database, place, page, badge, menuOpen, hist, steps>>

\* A count on its way will undo what is subtracted now.
Crossing ==
  IF \E r \in Slots : Answered(r, "count") THEN hist.miscounts \cup {"crossed"}
  ELSE hist.miscounts

\* tap of markRead: the badge counts down, not below zero.
OneLess(c) == IF c > 0 THEN c - 1 ELSE 0

AnswerRead(s) ==
  /\ Answered(s, "read")
  /\ badge' = OneLess(badge)
  /\ Follow(s, requests[s].to, [requests EXCEPT ![s] = Null],
            [hist EXCEPT !.miscounts = Crossing])
  /\ UNCHANGED <<role, database, menu, menuOpen, steps>>

\* tap of markAllRead, and next in the layout.
AllSeen_BadgeStays == badge
AllSeen == 0
AnswerReadAll(s) ==
  /\ Answered(s, "readall")
  /\ badge' = AllSeen
  /\ menu' = [n \in DOMAIN menu |-> "read"]
  /\ Done(s)
  /\ hist' = [hist EXCEPT !.miscounts = Crossing]
  /\ UNCHANGED <<role, database, place, page, menuOpen, steps>>

\* The layout ignores errors; the user is taken to the ticket all the same.
LayoutFails(s) ==
  /\ \E k \in {"count", "list", "readall"} : requests[s] # Null /\ requests[s].kind = k
  /\ Done(s)
  /\ hist' = IF requests[s].kind = "count" \/ Answered(s, "readall")
             THEN [hist EXCEPT !.miscounts = @ \cup {"lost"}] ELSE hist
  /\ UNCHANGED <<role, database, place, page, layout, steps>>
ReadFails(s) ==
  /\ requests[s] # Null /\ requests[s].kind = "read"
  /\ Follow(s, requests[s].to, [requests EXCEPT ![s] = Null],
            IF Handled(s) THEN [hist EXCEPT !.miscounts = @ \cup {"lost"}] ELSE hist)
  /\ UNCHANGED <<role, database, layout, steps>>

-----------------------------------------------------------------------------

NewRow == [status |-> "OPEN", assignee |-> Nobody, text |-> CHOOSE x \in Texts : TRUE]

\* The layout has just asked for the unread count.
Init ==
  /\ role \in Roles
  /\ rows = [t \in Tickets |-> NewRow]
  /\ comments = [t \in Tickets |-> <<>>]
  /\ inbox \in {[n \in Notes |-> IF n <= k THEN "unread" ELSE "none"] : k \in Notes}
  /\ url = Null /\ opened = Null
  /\ ticket = Null /\ list = <<>> /\ loading = FALSE
  /\ posting = FALSE /\ draft = 0 /\ dialog = "none"
  /\ badge = 0 /\ menu = <<>> /\ menuOpen = FALSE
  /\ \E s \in Slots : requests = [r \in Slots |->
        IF r = s THEN Request("count", Null, Null) ELSE Null]
  /\ hist = [drift |-> {}, gap |-> {}, last |-> Null, drafts |-> 0, lost |-> {},
             miscounts |-> {}]
  /\ steps = 0

User(s) ==
  \/ \E t \in Tickets : OpenTicket(s, t)
  \/ \E status \in Statuses : ChangeStatus(s, status)
  \/ \E u \in Staff : Assign(s, u)
  \/ \E internal \in BOOLEAN : AddComment(s, internal)
  \/ \E text \in Texts : Save(s, text)
  \/ \E n \in Notes : OpenUnread(s, n) \/ OpenRead(s, n)
  \/ OpenMenu(s) \/ MarkAllRead(s)

API(s) ==
  \/ ReadTicket(s) \/ ReadComments(s) \/ ServeWrite(s) \/ ServeComment(s)
  \/ ServeCount(s) \/ ServeList(s) \/ ServeRead(s) \/ ServeReadAll(s)

Answers(s) ==
  \/ AnswerLoad(s) \/ AnswerWrite(s) \/ AnswerComment(s) \/ Unseen(s)
  \/ PageFails(s) \/ TimesOut(s)
  \/ AnswerCount(s) \/ AnswerList(s) \/ AnswerRead(s) \/ AnswerReadAll(s)
  \/ LayoutFails(s) \/ ReadFails(s)

Others ==
  \/ \E t \in Tickets, status \in Statuses : OthersWrite(t, status)
  \/ \E t \in Tickets, internal \in BOOLEAN : OthersComment(t, internal)
  \/ \E n \in Notes : Arrives(n)

Next == Back \/ Edit \/ Dismiss \/ CloseMenu \/ Others
        \/ \E s \in Slots : User(s) \/ API(s) \/ Answers(s)

Spec == Init /\ [][Next]_vars

-----------------------------------------------------------------------------

\* When the page waits for nothing it shows the row of the ticket it was opened
\* with as the database has it, and all comments the user may see, unless a
\* colleague wrote since, an answer got lost, came late or was no longer waited
\* for, or there were more than CommentLimit.  Each answer replaces the whole
\* ticket, so own writes bring in what colleagues did before.
PageIsCurrent ==
  (url # Null /\ InFlight(PageKinds) = {} /\ ticket # Null) =>
     /\ ticket.id = opened
     /\ hist.drift = {} => ticket.row = rows[opened]
     /\ hist.gap = {} => list = InOrder(opened, Visible(opened))

\* The comments on the page are of the ticket on it, in the order the database
\* has them and each once, and never internal for a customer.
CommentsInOrder ==
  /\ \A i, j \in DOMAIN list : i < j => list[i].number < list[j].number
  /\ \A i \in DOMAIN list :
       /\ ticket # Null /\ list[i].ticket = ticket.id
       /\ IsStaff \/ ~comments[ticket.id][list[i].number].internal

\* The bar, the form and the dialog are busy only while a request will end it.
BusyEnds ==
  /\ loading <=> InFlight({"load"}) # {}
  /\ posting <=> InFlight({"comment"}) # {}
  /\ dialog = "saving" <=> InFlight({"edit"}) # {}

\* A text is stored as two comments only if the answer to one got lost.
OneCommentPerDraft ==
  \A t \in Tickets : \A i, j \in DOMAIN comments[t] :
    i # j /\ comments[t][i].draft = comments[t][j].draft
    => comments[t][i].draft \in hist.lost \cup {0}

\* When nothing is under way the badge is the number of unread notifications,
\* unless one arrived since it was counted, an answer got lost or overtook the
\* count, or a stale menu marked one twice; marking all sets it right.
BadgeIsCurrent ==
  (hist.miscounts = {} /\ \A s \in Slots : requests[s] # Null => requests[s].kind \in PageKinds \cup {"list"})
  => badge = Cardinality(Unread)
=============================================================================
