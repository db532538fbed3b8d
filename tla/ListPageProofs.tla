---------------------------- MODULE ListPageProofs ----------------------------
(* For every number of rows, of loads and of submissions in flight: the        *)
(* loading bar ends, a form makes one row, the table is current and has rows.  *)
EXTENDS ListPage, FiniteSetTheorems, WellFoundedInduction, TLAPS

Dialogues == [kind: {"none", "create", "edit", "remove"}, row: Rows \cup {Null},
              saving: BOOLEAN]
Histories == [newest: Loads \cup {"shown", "missed"},
              drift: SUBSET {"suppressed", "unanswered", "removed", "elsewhere"},
              overrun: BOOLEAN, made: Nat, lost: Nat]

ListTypeOK ==
  /\ page \in Pages
  /\ rows \in [Rows -> Contents \cup {Null}]
  /\ search \in Texts /\ filter \in Kinds \cup {Every}
  /\ pageIndex \in Int /\ pageSize \in Sizes /\ sort \in Directions \cup {"desc"}
  /\ loads \in [Loads -> LoadRecords \cup {Null}]
  /\ loading \in BOOLEAN
  /\ dialog \in Dialogues
  /\ posts \in [Posts -> PostRecords \cup {Null}]
  /\ hist \in Histories

\* A form that is still open waits for one submission, and says so.
OneOpenPost ==
  \A p \in Posts : posts[p] # Null /\ posts[p].open =>
    /\ dialog.saving /\ dialog.kind = posts[p].kind /\ posts[p].kind # "remove"
    /\ \A q \in Posts : posts[q] # Null /\ posts[q].open => q = p

\* The form's row is counted once its submission is done; only a lost answer
\* lets the form be sent again.
Waits == \E p \in Posts : posts[p] # Null /\ posts[p].open /\ posts[p].state = "done"
Counted ==
  /\ hist.made <= 1 + hist.lost
  /\ dialog.kind = "create" /\ ~Waits => hist.made <= hist.lost

\* What a submission carries.
Carries ==
  \A p \in Posts :
    posts[p] # Null /\ posts[p].kind \in {"create", "edit"} => posts[p].value \in Contents

ListInv == ListTypeOK /\ OneOpenPost /\ Counted /\ Carries /\ LoadingEnds

-----------------------------------------------------------------------------
\* What load() sends is a query, and its request a load.
LEMMA QueryType == ListTypeOK => Query \in Queries
  BY ListAssumption
  DEF ListTypeOK, Query, TicketQuery, UserQuery, OrganizationQuery, Queries, Pages

\* The first page of a query, and a query with another filter, are queries.
LEMMA QueryChanges ==
  ASSUME NEW q \in Queries, NEW f \in Kinds \cup {Every}
  PROVE  [q EXCEPT !.index = 0] \in Queries /\ [q EXCEPT !.filter = f] \in Queries
  BY DEF Queries

\* onPage: a query with another page and size is one.
LEMMA PageChanges ==
  ASSUME NEW q \in Queries, NEW i \in Int, NEW n \in Sizes
  PROVE  [q EXCEPT !.index = i, !.size = n] \in Queries
<1>1. [q EXCEPT !.index = i] \in Queries
  BY DEF Queries
<1>2. \A p \in Queries : [p EXCEPT !.size = n] \in Queries
  BY DEF Queries
<1>3. [[q EXCEPT !.index = i] EXCEPT !.size = n] \in Queries
  BY <1>1, <1>2
<1> QED BY <1>3

\* A request that waits for its rows is not an empty slot.
LEMMA RequestType ==
  ASSUME NEW q \in Queries
  PROVE  Request(q) \in LoadRecords /\ Request(q) # Null
<1>1. Request(q) \in LoadRecords
  BY DEF Request, LoadRecords
<1> QED BY <1>1, ListAssumption

\* load() shows the bar and has a request in flight.
LEMMA LoadType ==
  ASSUME ListTypeOK, NEW s \in Loads, NEW q \in Queries, Load(s, q)
  PROVE  /\ loads' \in [Loads -> LoadRecords \cup {Null}] /\ loading' \in BOOLEAN
         /\ LoadingEnds'
<1>1. loads' = [loads EXCEPT ![s] = Request(q)] /\ loading' = TRUE
  BY DEF Load
<1>2. loads'[s] # Null
  BY <1>1, RequestType DEF ListTypeOK
<1> QED BY <1>1, <1>2, RequestType DEF ListTypeOK, LoadingEnds

\* The server answers with rows it has, and how many there are.
LEMMA ItemsType ==
  ASSUME ListTypeOK, NEW q \in Queries
  PROVE  Items(q) \in UNION {[S -> Contents] : S \in SUBSET Rows}
<1>1. \A r \in Slice(q) : r \in Rows /\ rows[r] \in Contents
  BY DEF Slice, Where, TicketsWhere, UsersWhere, OrganizationsWhere, Live, ListTypeOK, Pages
<1>2. Items(q) \in [Slice(q) -> Contents] /\ Slice(q) \in SUBSET Rows
  BY <1>1 DEF Items
<1> QED BY <1>2

\* The count of the rows a query selects is a number.
LEMMA TotalType ==
  ASSUME ListTypeOK, NEW q \in Queries
  PROVE  Cardinality(Where(q)) \in Nat
<1>1. Where(q) \in SUBSET Rows
  BY DEF Where, TicketsWhere, UsersWhere, OrganizationsWhere, Live, ListTypeOK, Pages
<1> QED BY <1>1, ListAssumption, FS_Subset, FS_CardinalityType

\* Every non-empty set of naturals has a least element.
LEMMA LeastNatural ==
  ASSUME NEW T \in SUBSET Nat, T # {}
  PROVE  \E n \in T : \A m \in T : n <= m
<1> HIDE DEF OpToRel
<1>1. PICK n \in T : \A m \in T : ~ (<<m, n>> \in OpToRel(<, Nat))
  BY WFMin, NatLessThanWellFounded
<1>2. ASSUME NEW m \in T, m < n
      PROVE  FALSE
  <2>1. m \in Nat /\ n \in Nat
    OBVIOUS
  <2>2. <<m, n>> \in OpToRel(<, Nat)
    BY <2>1, <1>2 DEF OpToRel
  <2> QED BY <2>2, <1>1
<1>3. \A m \in T : n <= m
  BY <1>2
<1> QED BY <1>3

\* ngOnInit asks with the smallest page size on offer: there is one.
LEMMA FirstQueryType == FirstQuery \in Queries
<1>1. Sizes \in SUBSET Nat /\ Sizes # {}
  BY ListAssumption
<1>2. \E n \in Sizes : \A m \in Sizes : n <= m
  BY <1>1, LeastNatural
<1>3. (CHOOSE n \in Sizes : \A m \in Sizes : n <= m) \in Sizes
  BY <1>2
<1> QED BY <1>3, ListAssumption DEF FirstQuery, Queries

-----------------------------------------------------------------------------
\* What the controls and the answers leave alone.
DialogsKeep ==
  /\ UNCHANGED <<dialog, posts>>
  /\ hist'.made = hist.made /\ hist'.lost = hist.lost

\* A step that leaves the dialogs alone leaves what is known of them.
LEMMA DialogsKept ==
  ASSUME ListInv, DialogsKeep
  PROVE  OneOpenPost' /\ Counted' /\ Carries'
  BY DEF ListInv, DialogsKeep, OneOpenPost, Counted, Waits, Carries

\* A load leaves what is counted.
LEMMA SentType ==
  ASSUME NEW s \in Loads, NEW h \in Histories
  PROVE  /\ SentSamePage(s, h) \in Histories
         /\ SentSamePage(s, h).made = h.made /\ SentSamePage(s, h).lost = h.lost
<1>1. /\ Sent(s, h) \in Histories /\ Sent(s, h).newest = s /\ Sent(s, h).overrun = h.overrun
      /\ Sent(s, h).made = h.made /\ Sent(s, h).lost = h.lost
  BY DEF Sent, Histories
<1>2. \A g \in Histories : \A c \in BOOLEAN :
        /\ [g EXCEPT !.overrun = c] \in Histories
        /\ [g EXCEPT !.overrun = c].newest = g.newest
        /\ [g EXCEPT !.overrun = c].overrun = c
        /\ [g EXCEPT !.overrun = c].made = g.made /\ [g EXCEPT !.overrun = c].lost = g.lost
  BY DEF Histories
<1>3. /\ SentFirstPage(s, h) = [Sent(s, h) EXCEPT !.overrun = FALSE]
      /\ SentSamePage(s, h) = [Sent(s, h) EXCEPT !.overrun = Sent(s, h).overrun \/ timer]
      /\ (h.overrun \/ timer) \in BOOLEAN /\ (Sent(s, h).overrun \/ timer) \in BOOLEAN
  BY DEF SentFirstPage, SentSamePage
<1>4. SentSamePage(s, h) \in Histories
      /\ SentSamePage(s, h).made = Sent(s, h).made /\ SentSamePage(s, h).lost = Sent(s, h).lost
  <2> HIDE DEF Sent, SentSamePage
  <2> QED BY <1>1, <1>2, <1>3
<1> QED BY <1>1, <1>4

\* What a load writes into the history.
LEMMA SentFields ==
  ASSUME NEW s \in Loads, NEW h \in Histories
  PROVE  /\ SentFirstPage(s, h).newest = s /\ SentFirstPage(s, h).overrun = FALSE
         /\ SentSamePage(s, h) \in Histories
         /\ SentSamePage(s, h).newest = s
         /\ SentSamePage(s, h).overrun <=> (h.overrun \/ timer)
<1>1. /\ Sent(s, h) \in Histories /\ Sent(s, h).newest = s /\ Sent(s, h).overrun = h.overrun
      /\ Sent(s, h).made = h.made /\ Sent(s, h).lost = h.lost
  BY DEF Sent, Histories
<1>2. \A g \in Histories : \A c \in BOOLEAN :
        /\ [g EXCEPT !.overrun = c] \in Histories
        /\ [g EXCEPT !.overrun = c].newest = g.newest
        /\ [g EXCEPT !.overrun = c].overrun = c
        /\ [g EXCEPT !.overrun = c].made = g.made /\ [g EXCEPT !.overrun = c].lost = g.lost
  BY DEF Histories
<1>3. /\ SentFirstPage(s, h) = [Sent(s, h) EXCEPT !.overrun = FALSE]
      /\ SentSamePage(s, h) = [Sent(s, h) EXCEPT !.overrun = Sent(s, h).overrun \/ timer]
      /\ (h.overrun \/ timer) \in BOOLEAN /\ (Sent(s, h).overrun \/ timer) \in BOOLEAN
  BY DEF SentFirstPage, SentSamePage
<1> HIDE DEF Sent, SentFirstPage, SentSamePage
<1> QED BY <1>1, <1>2, <1>3

\* The controls: whatever loads, shows the bar with a request in flight.
LEMMA ControlStep ==
  ASSUME ListInv, Control
  PROVE  ListInv'
<1> USE DEF ListInv
<1>1. ASSUME NEW t \in Texts, Type(t)
      PROVE  ListInv'
  BY <1>1, DialogsKept DEF Type, table, DialogsKeep, ListTypeOK, LoadingEnds
<1>2. CASE DebounceSuppressed
  <2>1. hist' \in Histories /\ DialogsKeep
    BY <1>2 DEF DebounceSuppressed, Missing, ListTypeOK, Histories, DialogsKeep
  <2> QED BY <1>2, <2>1, DialogsKept DEF DebounceSuppressed, table, ListTypeOK, LoadingEnds
<1>3. ASSUME NEW s \in Loads, DebounceFires(s)
      PROVE  ListInv'
  <2>1. [Query EXCEPT !.index = 0] \in Queries
    BY QueryType, QueryChanges
  <2>2. Load(s, [Query EXCEPT !.index = 0]) /\ pageIndex' = 0
    BY <1>3 DEF DebounceFires, ResetAndLoad
  <2>3. hist' \in Histories /\ DialogsKeep
    BY <1>3 DEF DebounceFires, SentFirstPage, Sent, ListTypeOK, Histories, DialogsKeep
  <2> QED BY <1>3, <2>1, <2>2, <2>3, LoadType, DialogsKept DEF DebounceFires, ListTypeOK
<1>4. ASSUME NEW s \in Loads, NEW f \in Kinds \cup {Every}, ChangeFilter(f, s)
      PROVE  ListInv'
  <2>1. [Query EXCEPT !.filter = f] \in Queries
    BY QueryType, QueryChanges
  <2>a. [[Query EXCEPT !.filter = f] EXCEPT !.index = 0] \in Queries
    BY <2>1, QueryChanges
  <2>2. Load(s, [[Query EXCEPT !.filter = f] EXCEPT !.index = 0]) /\ pageIndex' = 0
    BY <1>4 DEF ChangeFilter, ResetAndLoad
  <2>3. hist' \in Histories /\ DialogsKeep
    BY <1>4 DEF ChangeFilter, SentFirstPage, Sent, ListTypeOK, Histories, DialogsKeep
  <2> QED BY <1>4, <2>a, <2>2, <2>3, LoadType, DialogsKept DEF ChangeFilter, ListTypeOK
<1>5. ASSUME NEW s \in Loads, NEW i \in 0 .. Cardinality(Rows), NEW n \in Sizes, Page(i, n, s)
      PROVE  ListInv'
  <2>1. [Query EXCEPT !.index = i, !.size = n] \in Queries
    <3>1. i \in Int
      OBVIOUS
    <3> QED BY <3>1, QueryType, PageChanges
  <2>2. Load(s, [Query EXCEPT !.index = i, !.size = n])
    BY <1>5 DEF Page
  <2>3. hist' \in Histories /\ DialogsKeep
    <3>1. TotalIsStale \in BOOLEAN
      BY DEF TotalIsStale
    <3> DEFINE h == SentSamePage(s, hist)
    <3>a. hist \in Histories
      BY DEF ListTypeOK
    <3>2. h \in Histories /\ h.made = hist.made /\ h.lost = hist.lost
      BY <3>a, SentType
    <3>3. hist' = [h EXCEPT !.overrun = h.overrun \/ TotalIsStale]
      BY <1>5 DEF Page
    <3>4. (h.overrun \/ TotalIsStale) \in BOOLEAN
      OBVIOUS
    <3>5. UNCHANGED <<dialog, posts>>
      BY <1>5 DEF Page
    <3> HIDE DEF h
    <3> QED BY <3>2, <3>3, <3>4, <3>5 DEF Histories, DialogsKeep
  <2> QED BY <1>5, <2>1, <2>2, <2>3, LoadType, DialogsKept DEF Page, ListTypeOK
<1>6. ASSUME NEW s \in Loads, NEW d \in Directions, Sort(d, s)
      PROVE  ListInv'
  <2>1. [Query EXCEPT !.sort = d] \in Queries
    BY QueryType DEF Queries
  <2>2. Load(s, [Query EXCEPT !.sort = d])
    BY <1>6 DEF Sort
  <2>3. hist' \in Histories /\ DialogsKeep
    <3>1. hist \in Histories
      BY DEF ListTypeOK
    <3>2. hist' = SentSamePage(s, hist) /\ UNCHANGED <<dialog, posts>>
      BY <1>6 DEF Sort
    <3> QED BY <3>1, <3>2, SentType DEF DialogsKeep
  <2> QED BY <1>6, <2>1, <2>2, <2>3, LoadType, DialogsKept DEF Sort, ListTypeOK
<1> QED BY <1>1, <1>2, <1>3, <1>4, <1>5, <1>6 DEF Control

\* The answers: the bar goes when a request does.
LEMMA ReplyStep ==
  ASSUME ListInv, Reply
  PROVE  ListInv'
<1> USE DEF ListInv
<1> SUFFICES ASSUME NEW s \in Loads, FindMany(s) \/ Count(s) \/ Answer(s) \/ LoadFails(s)
             PROVE  ListInv'
  BY DEF Reply
<1>1. loads[s] # Null /\ loads[s] \in LoadRecords /\ loads[s].q \in Queries
  BY DEF FindMany, Count, Answer, LoadFails, ListTypeOK, LoadRecords
<1>2. CASE FindMany(s)
  <2>1. [loads[s] EXCEPT !.items = Items(loads[s].q)] \in LoadRecords
    BY <1>1, ItemsType DEF LoadRecords
  <2>2. /\ loads' = [loads EXCEPT ![s] = [loads[s] EXCEPT !.items = Items(loads[s].q)]]
        /\ UNCHANGED <<page, rows, controls, loading, shown, dialog, posts, hist>>
    BY <1>2 DEF FindMany
  <2>3. loads' \in [Loads -> LoadRecords \cup {Null}] /\ loads'[s] # Null
    BY <2>1, <2>2, ListAssumption DEF ListTypeOK
  <2> QED BY <2>2, <2>3, DialogsKept DEF controls, DialogsKeep, ListTypeOK, LoadingEnds
<1>3. CASE Count(s)
  <2>1. [loads[s] EXCEPT !.total = Cardinality(Where(loads[s].q))] \in LoadRecords
    BY <1>1, TotalType DEF LoadRecords
  <2>2. /\ loads' = [loads EXCEPT ![s] = [loads[s] EXCEPT !.total = Cardinality(Where(loads[s].q))]]
        /\ UNCHANGED <<page, rows, controls, loading, shown, dialog, posts, hist>>
    BY <1>3 DEF Count
  <2>3. loads' \in [Loads -> LoadRecords \cup {Null}] /\ loads'[s] # Null
    BY <2>1, <2>2, ListAssumption DEF ListTypeOK
  <2> QED BY <2>2, <2>3, DialogsKept DEF controls, DialogsKeep, ListTypeOK, LoadingEnds
<1>4. CASE Answer(s) \/ LoadFails(s)
  <2>1. /\ loading' = FALSE /\ loads' = [loads EXCEPT ![s] = Null]
        /\ UNCHANGED <<page, rows, controls, dialog, posts>>
    BY <1>4 DEF Answer, LoadFails
  <2>2. hist' \in Histories /\ DialogsKeep
    BY <1>4, <2>1 DEF Answer, LoadFails, ListTypeOK, Histories, DialogsKeep
  <2> QED BY <2>1, <2>2, DialogsKept DEF controls, ListTypeOK, LoadingEnds
<1> QED BY <1>2, <1>3, <1>4

-----------------------------------------------------------------------------
\* What a change of the table adds to the history.
LEMMA UnseenType ==
  ASSUME ListTypeOK, NEW b \in BOOLEAN,
         NEW what \in {"suppressed", "unanswered", "removed", "elsewhere"}
  PROVE  /\ Unseen(what, b) \in Histories
         /\ Unseen(what, b).made = hist.made /\ Unseen(what, b).lost = hist.lost
<1>1. \A c \in BOOLEAN :
        /\ [hist EXCEPT !.drift = @ \cup {what}, !.overrun = c] \in Histories
        /\ [hist EXCEPT !.drift = @ \cup {what}, !.overrun = c].made = hist.made
        /\ [hist EXCEPT !.drift = @ \cup {what}, !.overrun = c].lost = hist.lost
  BY DEF ListTypeOK, Histories
<1>2. (hist.overrun \/ b \/ \E s \in Loads :
          loads[s] # Null /\ loads[s].items # Null /\ loads[s].total = Null) \in BOOLEAN
  OBVIOUS
<1> QED BY <1>1, <1>2 DEF Unseen

\* The API answers a submission: its form, if it is still open, goes on waiting.
LEMMA AppliedStep ==
  ASSUME ListInv, NEW p \in Posts, posts[p] # Null, posts[p].state = "sent",
         NEW what \in {"done", "refused"}, Applied(p, what),
         UNCHANGED <<loads, loading, dialog>>
  PROVE  /\ posts' \in [Posts -> PostRecords \cup {Null}]
         /\ OneOpenPost' /\ Carries' /\ LoadingEnds'
         /\ posts'[p] # Null /\ posts'[p].open = posts[p].open /\ posts'[p].state = what
         /\ \A o \in Posts \ {p} : posts'[o] = posts[o]
<1> USE DEF ListInv
<1>1. posts[p] \in PostRecords
  BY DEF ListTypeOK
<1>2. /\ [posts[p] EXCEPT !.state = what] \in PostRecords
      /\ [posts[p] EXCEPT !.state = what].open = posts[p].open
      /\ [posts[p] EXCEPT !.state = what].kind = posts[p].kind
      /\ [posts[p] EXCEPT !.state = what].value = posts[p].value
      /\ [posts[p] EXCEPT !.state = what].state = what
  BY <1>1 DEF PostRecords
<1>3. posts' = [posts EXCEPT ![p] = [posts[p] EXCEPT !.state = what]]
  BY DEF Applied
<1>4. /\ posts'[p] = [posts[p] EXCEPT !.state = what] /\ posts'[p] # Null
      /\ \A o \in Posts \ {p} : posts'[o] = posts[o]
  BY <1>2, <1>3, ListAssumption DEF ListTypeOK
<1>5. \A o \in Posts : posts'[o] # Null =>
        /\ posts[o] # Null /\ posts'[o].open = posts[o].open
        /\ posts'[o].kind = posts[o].kind /\ posts'[o].value = posts[o].value
  BY <1>2, <1>4
<1>6. OneOpenPost'
  BY <1>5 DEF OneOpenPost
<1>7. Carries'
  BY <1>5 DEF Carries
<1>8. LoadingEnds'
  BY DEF LoadingEnds
<1> QED BY <1>2, <1>3, <1>4, <1>6, <1>7, <1>8 DEF ListTypeOK

\* Nothing is counted but insertions.
LEMMA AppliedCounted ==
  ASSUME ListInv, NEW p \in Posts, posts[p] # Null, posts[p].state = "sent",
         NEW what \in {"done", "refused"}, Applied(p, what),
         UNCHANGED <<loads, loading, dialog>>,
         hist'.made = hist.made, hist'.lost = hist.lost
  PROVE  Counted'
<1>1. Waits => Waits'
  BY AppliedStep DEF Waits
<1> QED BY <1>1 DEF ListInv, Counted

\* The API and the other users: rows change, and an open form is counted once.
LEMMA ServerStep ==
  ASSUME ListInv, Server
  PROVE  ListInv'
<1> USE DEF ListInv
<1>1. ASSUME NEW p \in Posts, NEW r \in Rows, CreateRow(p, r)
      PROVE  ListInv'
  <2>1. /\ posts[p] # Null /\ posts[p].state = "sent" /\ posts[p].kind = "create"
        /\ Applied(p, "done")
        /\ rows' = [rows EXCEPT ![r] = posts[p].value]
        /\ UNCHANGED <<page, controls, loads, loading, dialog>>
    BY <1>1 DEF CreateRow, table
  <2>2. rows' \in [Rows -> Contents \cup {Null}]
    BY <2>1 DEF ListTypeOK, Carries
  <2>3. /\ hist' \in Histories /\ hist'.lost = hist.lost
        /\ hist'.made = IF posts[p].open THEN hist.made + 1 ELSE hist.made
    <3> DEFINE h == Unseen("unanswered", FALSE)
    <3>1. h \in Histories /\ h.made = hist.made /\ h.lost = hist.lost
      BY UnseenType
    <3>2. hist' = [h EXCEPT !.made = IF posts[p].open THEN @ + 1 ELSE @]
      BY <1>1 DEF CreateRow
    <3> HIDE DEF h
    <3> QED BY <3>1, <3>2 DEF Histories
  <2>4. Counted'
    <3>1. CASE posts[p].open
      <4>1. Waits'
        BY <2>1, <3>1, AppliedStep DEF Waits
      <4>2. dialog.kind = "create" /\ ~Waits
        BY <2>1, <3>1 DEF OneOpenPost, Waits
      <4> QED BY <2>3, <3>1, <4>1, <4>2 DEF Counted, ListTypeOK, Histories
    <3>2. CASE ~posts[p].open
      <4>1. Waits => Waits'
        BY <2>1, <3>2, AppliedStep DEF Waits
      <4> QED BY <2>1, <2>3, <3>2, <4>1 DEF Counted
    <3> QED BY <3>1, <3>2
  <2> QED BY <2>1, <2>2, <2>3, <2>4, AppliedStep DEF controls, ListTypeOK
<1>2. ASSUME NEW p \in Posts, UpdateUser(p) \/ UpdateOrganization(p)
      PROVE  ListInv'
  <2>1. /\ posts[p] # Null /\ posts[p].state = "sent" /\ posts[p].kind = "edit"
        /\ Applied(p, "done")
        /\ rows' = [rows EXCEPT ![posts[p].row] = posts[p].value]
        /\ hist' = Unseen("unanswered", TRUE)
        /\ UNCHANGED <<page, controls, loads, loading, dialog>>
    BY <1>2 DEF UpdateUser, UpdateOrganization, table
  <2>2. rows' \in [Rows -> Contents \cup {Null}]
    BY <2>1 DEF ListTypeOK, Carries
  <2> QED BY <2>1, <2>2, AppliedStep, UnseenType, AppliedCounted DEF controls, ListTypeOK
<1>3. ASSUME NEW p \in Posts, DeactivateUser(p)
      PROVE  ListInv'
  <2>1. /\ posts[p] # Null /\ posts[p].state = "sent" /\ Applied(p, "done")
        /\ rows[posts[p].row] # Null
        /\ rows' = [rows EXCEPT ![posts[p].row] = [rows[posts[p].row] EXCEPT !.active = FALSE]]
        /\ hist' = Unseen("removed", FALSE)
        /\ UNCHANGED <<page, controls, loads, loading, dialog>>
    BY <1>3 DEF DeactivateUser, table
  <2>2. posts[p].row \in Rows => [rows[posts[p].row] EXCEPT !.active = FALSE] \in Contents
    BY <2>1 DEF ListTypeOK, Contents
  <2>3. rows' \in [Rows -> Contents \cup {Null}]
    BY <2>1, <2>2 DEF ListTypeOK
  <2> QED BY <2>1, <2>3, AppliedStep, UnseenType, AppliedCounted DEF controls, ListTypeOK
<1>4. ASSUME NEW p \in Posts, RemoveOrganization(p)
      PROVE  ListInv'
  <2>1. /\ posts[p] # Null /\ posts[p].state = "sent" /\ Applied(p, "done")
        /\ rows' = [rows EXCEPT ![posts[p].row] = Null]
        /\ hist' = Unseen("removed", TRUE)
        /\ UNCHANGED <<page, controls, loads, loading, dialog>>
    BY <1>4 DEF RemoveOrganization, table
  <2>2. rows' \in [Rows -> Contents \cup {Null}]
    BY <2>1 DEF ListTypeOK
  <2> QED BY <2>1, <2>2, AppliedStep, UnseenType, AppliedCounted DEF controls, ListTypeOK
<1>5. ASSUME NEW p \in Posts, Refuse(p)
      PROVE  ListInv'
  <2>1. /\ posts[p] # Null /\ posts[p].state = "sent" /\ Applied(p, "refused")
        /\ UNCHANGED <<page, rows, controls, loads, loading, dialog, hist>>
    BY <1>5 DEF Refuse, table
  <2> QED BY <2>1, AppliedStep, AppliedCounted DEF controls, ListTypeOK
<1>6. ASSUME NEW r \in Rows, NEW v \in Inputs \cup {Null}, Elsewhere(r, v)
      PROVE  ListInv'
  <2>1. /\ rows' = [rows EXCEPT ![r] = v]
        /\ hist' = Unseen("elsewhere", rows[r] # Null)
        /\ UNCHANGED <<page, controls, loads, loading, dialog, posts>>
    BY <1>6 DEF Elsewhere, table
  <2>2. rows' \in [Rows -> Contents \cup {Null}]
    BY <2>1, ListAssumption DEF ListTypeOK
  <2>3. hist' \in Histories /\ hist'.made = hist.made /\ hist'.lost = hist.lost
    <3>1. (rows[r] # Null) \in BOOLEAN
      OBVIOUS
    <3> QED BY <2>1, <3>1, UnseenType
  <2>4. DialogsKeep
    BY <2>1, <2>3 DEF DialogsKeep
  <2> QED BY <2>1, <2>2, <2>3, <2>4, DialogsKept DEF controls, ListTypeOK, LoadingEnds
<1> QED BY <1>1, <1>2, <1>3, <1>4, <1>5, <1>6 DEF Server

-----------------------------------------------------------------------------
PostsTyped(ps) == ps \in [Posts -> PostRecords \cup {Null}]
NoneOpen(ps) == \A p \in Posts : ps[p] # Null => ~ps[p].open
Carried(ps) ==
  \A p \in Posts : ps[p] # Null /\ ps[p].kind \in {"create", "edit"} => ps[p].value \in Contents

\* A closed dialog leaves its requests, none of them open.
LEMMA ShutType ==
  ASSUME NEW ps, PostsTyped(ps), Carried(ps)
  PROVE  PostsTyped(Shut(ps)) /\ NoneOpen(Shut(ps)) /\ Carried(Shut(ps))
<1>1. ASSUME NEW p \in Posts, ps[p] # Null
      PROVE  /\ [ps[p] EXCEPT !.open = FALSE] \in PostRecords
             /\ ~[ps[p] EXCEPT !.open = FALSE].open
             /\ [ps[p] EXCEPT !.open = FALSE].kind = ps[p].kind
             /\ [ps[p] EXCEPT !.open = FALSE].value = ps[p].value
  BY <1>1 DEF PostsTyped, PostRecords
<1>2. \A p \in Posts : Shut(ps)[p] = IF ps[p] = Null THEN Null ELSE [ps[p] EXCEPT !.open = FALSE]
  BY DEF Shut
<1>3. PostsTyped(Shut(ps))
  BY <1>1 DEF Shut, PostsTyped
<1> QED BY <1>1, <1>2, <1>3 DEF NoneOpen, Carried

\* An answered request is gone, the others stay.
LEMMA FreedType ==
  ASSUME ListInv, NEW p \in Posts
  PROVE  /\ PostsTyped(Freed(p)) /\ Carried(Freed(p)) /\ Freed(p)[p] = Null
         /\ \A o \in Posts \ {p} : Freed(p)[o] = posts[o]
  BY DEF ListInv, ListTypeOK, Carries, Freed, PostsTyped, Carried

\* With no form open, nothing is waited for.
LEMMA NothingOpen ==
  ASSUME NoneOpen(posts')
  PROVE  OneOpenPost'
  BY DEF NoneOpen, OneOpenPost

\* edit(row) and the confirmation of a removal open on nothing under way.
LEMMA OpenersStep ==
  ASSUME ListInv, NEW r \in Rows, OpenEdit(r) \/ AskRemoval(r)
  PROVE  ListInv'
<1> USE DEF ListInv
<1>1. /\ NoDialog
      /\ UNCHANGED <<page, rows, controls, loads, loading, posts>>
  BY DEF OpenEdit, AskRemoval, table
<1>2. NoneOpen(posts)
  BY <1>1 DEF NoneOpen, OneOpenPost, NoDialog, Closed
<1>3. hist' = hist /\ dialog'.kind # "create" /\ dialog' \in Dialogues
  <2>1. CASE OpenEdit(r)
    BY <2>1 DEF OpenEdit, Dialogues
  <2>2. CASE AskRemoval(r)
    BY <2>2 DEF AskRemoval, Dialogues
  <2> QED BY <2>1, <2>2
<1>4. Counted'
  BY <1>3 DEF Counted
<1> QED BY <1>1, <1>2, <1>3, <1>4, NothingOpen
        DEF controls, ListTypeOK, NoneOpen, Carries, LoadingEnds

\* create() starts the count of its form.
LEMMA CreateOpensStep ==
  ASSUME ListInv, OpenCreate
  PROVE  ListInv'
<1> USE DEF ListInv
<1>1. /\ NoDialog
      /\ UNCHANGED <<page, rows, controls, loads, loading, posts>>
  BY DEF OpenCreate, table
<1>2. NoneOpen(posts)
  BY <1>1 DEF NoneOpen, OneOpenPost, NoDialog, Closed
<1>3. dialog' \in Dialogues
  BY DEF OpenCreate, Closed, Dialogues
<1>4. hist' \in Histories /\ hist'.made = 0 /\ hist'.lost = 0
  BY DEF OpenCreate, ListTypeOK, Histories
<1>5. Counted'
  BY <1>4 DEF Counted
<1> QED BY <1>1, <1>2, <1>3, <1>4, <1>5, NothingOpen
        DEF controls, ListTypeOK, NoneOpen, Carries, LoadingEnds

\* What closes a dialog: nothing stays open, and the reload has its bar.
LEMMA ClosersStep ==
  ASSUME ListInv,
         Dismiss \/ \E p \in Posts : Confirm(p) \/ \E s \in Loads : Saved(p, s)
  PROVE  ListInv'
<1> USE DEF ListInv
<1>1. CASE Dismiss
  <2>1. /\ dialog' = Closed /\ posts' = Shut(posts)
        /\ UNCHANGED <<page, rows, controls, loads, loading, hist>>
    BY <1>1 DEF Dismiss, table
  <2>2. PostsTyped(posts) /\ Carried(posts)
    BY DEF ListTypeOK, PostsTyped, Carries, Carried
  <2>3. PostsTyped(posts') /\ NoneOpen(posts') /\ Carried(posts')
    BY <2>1, <2>2, ShutType
  <2> QED BY <2>1, <2>3, NothingOpen
          DEF controls, ListTypeOK, Closed, Dialogues, PostsTyped, Carries, Carried, Counted,
              LoadingEnds
<1>2. ASSUME NEW p \in Posts, Confirm(p)
      PROVE  ListInv'
  <2> DEFINE new == [Post("remove", dialog.row, Null) EXCEPT !.open = FALSE]
  <2>1. /\ dialog' = Closed /\ dialog.kind = "remove"
        /\ posts' = [posts EXCEPT ![p] = new]
        /\ UNCHANGED <<page, rows, controls, loads, loading, hist>>
    BY <1>2 DEF Confirm, table
  <2>2. new \in PostRecords /\ new.kind = "remove" /\ ~new.open
    <3>1. dialog.row \in Rows \cup {Null}
      BY DEF ListTypeOK, Dialogues
    <3>2. Post("remove", dialog.row, Null) \in PostRecords
      BY <3>1 DEF Post, PostRecords
    <3>3. Post("remove", dialog.row, Null).kind = "remove"
      BY DEF Post
    <3>4. \A r \in PostRecords :
            /\ [r EXCEPT !.open = FALSE] \in PostRecords
            /\ [r EXCEPT !.open = FALSE].kind = r.kind /\ ~[r EXCEPT !.open = FALSE].open
      BY DEF PostRecords
    <3> QED BY <3>2, <3>3, <3>4
  <2> HIDE DEF new
  <2>3. NoneOpen(posts)
    BY <2>1 DEF NoneOpen, OneOpenPost
  <2>4. PostsTyped(posts') /\ NoneOpen(posts') /\ Carried(posts')
    BY <2>1, <2>2, <2>3 DEF ListTypeOK, PostsTyped, NoneOpen, Carries, Carried
  <2> QED BY <2>1, <2>4, NothingOpen
          DEF controls, ListTypeOK, Closed, Dialogues, PostsTyped, Carries, Carried, Counted,
              LoadingEnds
<1>3. ASSUME NEW p \in Posts, NEW s \in Loads, Saved(p, s)
      PROVE  ListInv'
  <2>1. /\ dialog' = Closed /\ posts' = Shut(Freed(p))
        /\ UNCHANGED <<page, rows, search, filter, pageSize, sort>>
    BY <1>3 DEF Saved
  <2>2. PostsTyped(posts') /\ NoneOpen(posts') /\ Carried(posts')
    BY <2>1, FreedType, ShutType
  <2>3. [Query EXCEPT !.index = 0] \in Queries /\ Query \in Queries
    BY QueryType, QueryChanges
  <2>4. PICK q \in Queries : Load(s, q) /\ pageIndex' \in Int
    BY <1>3, <2>3 DEF Saved, ResetAndLoad, ListTypeOK
  <2>5. /\ hist' \in Histories
        /\ hist'.made = hist.made /\ hist'.lost = hist.lost
    <3>1. CASE hist' = SentFirstPage(s, hist)
      BY <3>1 DEF SentFirstPage, Sent, ListTypeOK, Histories
    <3>2. CASE hist' = SentSamePage(s, hist)
      <4>1. hist \in Histories
        BY DEF ListTypeOK
      <4> QED BY <3>2, <4>1, SentType
    <3> QED BY <1>3, <3>1, <3>2 DEF Saved
  <2>6. Counted'
    BY <2>1, <2>5 DEF Counted, Closed
  <2>7. dialog' \in Dialogues
    BY <2>1 DEF Closed, Dialogues
  <2> QED BY <2>1, <2>2, <2>4, <2>5, <2>6, <2>7, LoadType, NothingOpen
          DEF ListTypeOK, PostsTyped, Carries, Carried
<1> QED BY <1>1, <1>2, <1>3

\* save(): only a form that is not saving sends, so one submission is open.
LEMMA SaveStep ==
  ASSUME ListInv, NEW p \in Posts, NEW v \in Inputs, Save(p, v)
  PROVE  ListInv'
<1> USE DEF ListInv
<1>1. /\ dialog.kind \in {"create", "edit"} /\ ~dialog.saving
      /\ posts[p] = Null
      /\ dialog' = [dialog EXCEPT !.saving = TRUE]
      /\ posts' = [posts EXCEPT ![p] = Post(dialog.kind, dialog.row, v)]
      /\ UNCHANGED <<page, rows, controls, loads, loading, hist>>
  BY DEF Save, Submits, TicketForm, UserForm, OrganizationForm, table, ListTypeOK, Pages
<1>2. /\ Post(dialog.kind, dialog.row, v) \in PostRecords
      /\ Post(dialog.kind, dialog.row, v).kind = dialog.kind
      /\ Post(dialog.kind, dialog.row, v).value \in Contents
      /\ Post(dialog.kind, dialog.row, v).state = "sent"
  BY <1>1, ListAssumption DEF Post, PostRecords, ListTypeOK, Dialogues
<1>3. dialog' \in Dialogues /\ dialog'.kind = dialog.kind /\ dialog'.saving
  BY <1>1 DEF ListTypeOK, Dialogues
<1>4. NoneOpen(posts)
  BY <1>1 DEF NoneOpen, OneOpenPost
<1> HIDE DEF Post
<1>5. /\ posts'[p] = Post(dialog.kind, dialog.row, v)
      /\ \A o \in Posts \ {p} : posts'[o] = posts[o]
  BY <1>1 DEF ListTypeOK
<1>6. OneOpenPost'
  BY <1>1, <1>2, <1>3, <1>4, <1>5 DEF OneOpenPost, NoneOpen
<1>7. ~Waits' /\ ~Waits
  BY <1>2, <1>4, <1>5 DEF Waits, NoneOpen
<1>8. Counted'
  BY <1>1, <1>3, <1>7 DEF Counted
<1>9. Carries'
  BY <1>2, <1>5 DEF Carries
<1> QED BY <1>1, <1>2, <1>3, <1>6, <1>8, <1>9 DEF controls, ListTypeOK, LoadingEnds

\* Other answers: only a lost one lets a form that made its row be sent again.
LEMMA AnswerStep ==
  ASSUME ListInv, NEW p \in Posts, SavedUnseen(p) \/ SubmissionFails(p) \/ RemovalAnswered(p)
  PROVE  ListInv'
<1> USE DEF ListInv
<1>1. /\ posts[p] # Null /\ posts' = Freed(p)
      /\ UNCHANGED <<page, rows, controls, loads, loading>>
  BY DEF SavedUnseen, SubmissionFails, RemovalAnswered, table
<1>2. /\ PostsTyped(posts') /\ Carried(posts') /\ posts'[p] = Null
      /\ \A o \in Posts \ {p} : posts'[o] = posts[o]
  BY <1>1, FreedType
<1>3. CASE posts[p].open
  <2>1. SubmissionFails(p)
    BY <1>3 DEF SavedUnseen, RemovalAnswered, OneOpenPost
  <2>2. dialog' = [dialog EXCEPT !.saving = FALSE]
    BY <1>3, <2>1 DEF SubmissionFails
  <2>3. dialog' \in Dialogues /\ dialog'.kind = dialog.kind
    BY <2>2 DEF ListTypeOK, Dialogues
  <2>4. NoneOpen(posts')
    <3>1. \A o \in Posts : posts[o] # Null /\ posts[o].open => o = p
      BY <1>1, <1>3 DEF OneOpenPost
    <3> QED BY <1>2, <3>1 DEF NoneOpen
  <2>5. hist' \in Histories /\ Counted'
    <3>1. CASE posts[p].state = "refused"
      <4>1. ~Waits
        BY <1>1, <1>3, <3>1 DEF Waits, OneOpenPost
      <4> QED BY <2>1, <2>3, <3>1, <4>1 DEF SubmissionFails, Counted, ListTypeOK
    <3>2. CASE posts[p].state # "refused"
      <4>1. hist' = [[hist EXCEPT !.drift = @ \cup {"unanswered"}] EXCEPT !.lost = @ + 1]
        BY <1>3, <2>1, <3>2 DEF SubmissionFails, Missing
      <4>a. /\ [hist EXCEPT !.drift = @ \cup {"unanswered"}] \in Histories
            /\ [hist EXCEPT !.drift = @ \cup {"unanswered"}].made = hist.made
            /\ [hist EXCEPT !.drift = @ \cup {"unanswered"}].lost = hist.lost
        BY DEF ListTypeOK, Histories
      <4>b. \A h \in Histories :
              /\ [h EXCEPT !.lost = @ + 1] \in Histories
              /\ [h EXCEPT !.lost = @ + 1].made = h.made
              /\ [h EXCEPT !.lost = @ + 1].lost = h.lost + 1
        BY DEF Histories
      <4>2. /\ hist' \in Histories /\ hist'.made = hist.made /\ hist'.lost = hist.lost + 1
        BY <4>1, <4>a, <4>b
      <4> QED BY <4>2 DEF Counted, ListTypeOK, Histories
    <3> QED BY <3>1, <3>2
  <2> QED BY <1>1, <1>2, <2>3, <2>4, <2>5, NothingOpen
          DEF controls, ListTypeOK, PostsTyped, Carries, Carried, LoadingEnds
<1>4. CASE ~posts[p].open
  <2>1. dialog' = dialog
    BY <1>4 DEF SavedUnseen, SubmissionFails, RemovalAnswered
  <2>2. hist' \in Histories /\ hist'.made = hist.made /\ hist'.lost = hist.lost
    <3>1. \/ hist' = hist
          \/ hist' = [[hist EXCEPT !.drift = @ \cup {"unanswered"}] EXCEPT !.lost = @]
      BY <1>4 DEF SavedUnseen, SubmissionFails, RemovalAnswered, Missing
    <3>2. /\ [hist EXCEPT !.drift = @ \cup {"unanswered"}] \in Histories
          /\ [hist EXCEPT !.drift = @ \cup {"unanswered"}].made = hist.made
          /\ [hist EXCEPT !.drift = @ \cup {"unanswered"}].lost = hist.lost
      BY DEF ListTypeOK, Histories
    <3>3. \A h \in Histories : [h EXCEPT !.lost = @] = h
      BY DEF Histories
    <3> QED BY <3>1, <3>2, <3>3 DEF ListTypeOK
  <2>3. OneOpenPost'
    BY <1>2, <2>1 DEF OneOpenPost
  <2>4. Waits => Waits'
    BY <1>2, <1>4 DEF Waits
  <2>5. Counted'
    BY <2>1, <2>2, <2>4 DEF Counted
  <2> QED BY <1>1, <1>2, <2>1, <2>2, <2>3, <2>5
          DEF controls, ListTypeOK, PostsTyped, Carries, Carried, LoadingEnds
<1> QED BY <1>3, <1>4

\* A submission that is given up before it was served leaves its form without one.
LEMMA TimesOutStep ==
  ASSUME ListInv, NEW p \in Posts, SubmissionTimesOut(p)
  PROVE  ListInv'
<1> USE DEF ListInv
<1>1. /\ posts[p] # Null /\ posts[p].state = "sent" /\ posts[p].open
      /\ posts' = [posts EXCEPT ![p].open = FALSE]
      /\ dialog' = [dialog EXCEPT !.saving = FALSE]
      /\ UNCHANGED <<page, rows, controls, loads, loading, hist>>
  BY DEF SubmissionTimesOut, table
<1>2. /\ posts'[p] = [posts[p] EXCEPT !.open = FALSE]
      /\ \A o \in Posts \ {p} : posts'[o] = posts[o]
      /\ posts[p] \in PostRecords
  BY <1>1 DEF ListTypeOK
<1>3. /\ posts'[p] \in PostRecords /\ posts'[p].kind = posts[p].kind
      /\ posts'[p].value = posts[p].value /\ ~posts'[p].open
  BY <1>2 DEF PostRecords
<1>4. PostsTyped(posts') /\ Carried(posts')
  BY <1>1, <1>2, <1>3 DEF PostsTyped, Carried, ListTypeOK, Carries
<1>5. NoneOpen(posts')
  <2>1. \A o \in Posts : posts[o] # Null /\ posts[o].open => o = p
    BY <1>1 DEF OneOpenPost
  <2> QED BY <1>2, <1>3, <2>1 DEF NoneOpen
<1>6. dialog' \in Dialogues /\ dialog'.kind = dialog.kind
  BY <1>1 DEF ListTypeOK, Dialogues
<1>7. ~Waits
  BY <1>1 DEF Waits, OneOpenPost
<1>8. Counted'
  BY <1>1, <1>6, <1>7 DEF Counted
<1> QED BY <1>1, <1>4, <1>5, <1>6, <1>8, NothingOpen
        DEF controls, ListTypeOK, PostsTyped, Carries, Carried, LoadingEnds

-----------------------------------------------------------------------------
\* The page opens with its first load in flight.
LEMMA InitSound == Init => ListInv
<1> SUFFICES ASSUME Init PROVE ListInv
  OBVIOUS
<1> USE DEF Init
<1>1. FirstQuery.size \in Sizes
  BY FirstQueryType DEF Queries
<1>2. PICK s \in Loads :
        /\ loads = [l \in Loads |-> IF l = s THEN Request(FirstQuery) ELSE Null]
        /\ hist = [newest |-> s, drift |-> {}, overrun |-> FALSE, made |-> 0, lost |-> 0]
  BY DEF FirstLoad
<1>3. loads \in [Loads -> LoadRecords \cup {Null}] /\ loads[s] # Null
  BY <1>2, FirstQueryType, RequestType
<1>4. hist \in Histories
  BY <1>2 DEF Histories
<1>5. ListTypeOK
  BY <1>1, <1>3, <1>4, ListAssumption DEF ListTypeOK, FirstLoad, Closed, Dialogues
<1> QED BY <1>2, <1>3, <1>5
        DEF ListInv, OneOpenPost, Counted, Carries, LoadingEnds, Closed

\* Every step keeps the invariant.
LEMMA NextSound == ListInv /\ [Next]_vars => ListInv'
<1> SUFFICES ASSUME ListInv, [Next]_vars PROVE ListInv'
  OBVIOUS
<1>1. CASE Dialogs
  BY <1>1, CreateOpensStep, OpenersStep, ClosersStep, SaveStep, AnswerStep, TimesOutStep
     DEF Dialogs
<1>2. CASE UNCHANGED vars
  BY <1>2 DEF vars, controls, table, ListInv, ListTypeOK, OneOpenPost, Counted, Waits, Carries,
              LoadingEnds
<1> QED BY <1>1, <1>2, ControlStep, ReplyStep, ServerStep DEF Next

\* The pages, their dialogs and their history keep the invariant, for every
\* number of rows, loads and submissions.
THEOREM ListPagesAreSound == Spec => []ListInv
  BY InitSound, NextSound, PTL DEF Spec

\* The loading bar of the three list pages never stays on by itself.
THEOREM LoadingBarsEnd == Spec => []LoadingEnds
<1>1. ListInv => LoadingEnds
  BY DEF ListInv
<1> QED BY <1>1, ListPagesAreSound, PTL

\* However often Save is clicked, a form makes one row, and one more only for
\* each answer that was lost.
THEOREM FormsMakeOneRow == Spec => []OneRowPerForm
<1>1. ListInv => OneRowPerForm
  BY DEF ListInv, Counted, OneRowPerForm
<1> QED BY <1>1, ListPagesAreSound, PTL

-----------------------------------------------------------------------------
\* A strict total order R on the set S, as a set of pairs.
Orders(R, S) ==
  /\ \A x \in S : <<x, x>> \notin R
  /\ \A x, y, z \in S : <<x, y>> \in R /\ <<y, z>> \in R => <<x, z>> \in R
  /\ \A x, y \in S : x = y \/ <<x, y>> \in R \/ <<y, x>> \in R
Below(R, S, x) == {y \in S : <<y, x>> \in R}

\* A non-empty part of a finite ordered set has a first element.
LEMMA FirstElement ==
  ASSUME NEW S, IsFiniteSet(S), NEW R, Orders(R, S), NEW U \in SUBSET S, U # {}
  PROVE  \E u \in U : Below(R, U, u) = {}
<1> DEFINE C == {Cardinality(Below(R, U, u)) : u \in U}
<1>1. IsFiniteSet(U)
  BY FS_Subset
<1>2. \A u \in U : IsFiniteSet(Below(R, U, u)) /\ Cardinality(Below(R, U, u)) \in Nat
  BY <1>1, FS_Subset, FS_CardinalityType DEF Below
<1>3. C \in SUBSET Nat /\ C # {}
  BY <1>2
<1>4. PICK u \in U : \A v \in U : Cardinality(Below(R, U, u)) <= Cardinality(Below(R, U, v))
  <2> HIDE DEF C
  <2>1. PICK n \in C : \A m \in C : n <= m
    BY <1>3, LeastNatural
  <2> QED BY <2>1 DEF C
<1>5. ASSUME NEW v \in Below(R, U, u)
      PROVE  FALSE
  <2>1. v \in U /\ v \in S /\ u \in S /\ <<v, u>> \in R
    BY <1>5 DEF Below
  <2>2. Below(R, U, v) \subseteq Below(R, U, u) /\ v \notin Below(R, U, v)
    BY <2>1 DEF Below, Orders
  <2>3. Cardinality(Below(R, U, v)) < Cardinality(Below(R, U, u))
    BY <2>1, <2>2, <1>2, <1>5, FS_Subset
  <2> QED BY <2>1, <2>3, <1>2, <1>4
<1> QED BY <1>5

\* In a finite ordered set there is an element of every rank.
LEMMA RankExists ==
  ASSUME NEW S, IsFiniteSet(S), NEW R, Orders(R, S), NEW k \in Nat, k < Cardinality(S)
  PROVE  \E x \in S : Cardinality(Below(R, S, x)) = k
<1> DEFINE Ranks == {Cardinality(Below(R, S, x)) : x \in S}
           Bad == {n \in Nat : n < Cardinality(S) /\ n \notin Ranks}
<1> SUFFICES ASSUME Bad # {} PROVE FALSE
  OBVIOUS
<1>1. PICK n \in Bad : \A m \in Bad : n <= m
  BY LeastNatural
<1>2. Cardinality(S) \in Nat
  BY FS_CardinalityType
<1>3. \A x \in S : IsFiniteSet(Below(R, S, x)) /\ Cardinality(Below(R, S, x)) \in Nat
  BY FS_Subset, FS_CardinalityType DEF Below
<1>4. CASE n = 0
  <2>1. S # {}
    BY <1>1, <1>2, <1>4, FS_EmptySet
  <2>2. PICK x \in S : Below(R, S, x) = {}
    BY <2>1, FirstElement
  <2>3. 0 \in Ranks
    BY <2>2, FS_EmptySet
  <2> QED BY <2>3, <1>1, <1>4
<1>5. CASE n # 0
  <2>1. n - 1 \in Nat /\ n - 1 < Cardinality(S) /\ n - 1 \notin Bad
    BY <1>1, <1>2, <1>5
  <2>2. PICK x \in S : Cardinality(Below(R, S, x)) = n - 1
    BY <2>1
  <2> DEFINE Above == {y \in S : <<x, y>> \in R}
             Upto == Below(R, S, x) \cup {x}
  <2>3. x \notin Below(R, S, x)
    BY DEF Below, Orders
  <2>4. IsFiniteSet(Upto) /\ Cardinality(Upto) = n
    <3>1. IsFiniteSet(Upto) /\ Cardinality(Upto) = Cardinality(Below(R, S, x)) + 1
      BY <1>3, <2>3, FS_AddElement
    <3> QED BY <3>1, <2>2, <1>1
  <2>5. Above # {}
    <3>1. ASSUME Above = {}
          PROVE  FALSE
      <4>1. S = Upto
        BY <3>1 DEF Below, Orders
      <4> QED BY <4>1, <2>4, <1>1
    <3> QED BY <3>1
  <2>6. PICK u \in Above : Below(R, Above, u) = {}
    BY <2>5, FirstElement
  <2>7. u \in S /\ <<x, u>> \in R
    BY <2>6
  <2>8. Below(R, S, u) \subseteq Upto
    <3>1. ASSUME NEW y \in S, <<y, u>> \in R
          PROVE  y \in Upto
      <4>1. y \notin Above
        BY <2>6, <3>1 DEF Below
      <4>2. y = x \/ <<y, x>> \in R
        BY <4>1 DEF Orders
      <4> QED BY <4>2 DEF Below
    <3> QED BY <3>1 DEF Below
  <2>9. Upto \subseteq Below(R, S, u)
    BY <2>7 DEF Below, Orders
  <2>a. Below(R, S, u) = Upto
    BY <2>8, <2>9
  <2> QED BY <2>4, <2>7, <2>a, <1>1
<1> QED BY <1>4, <1>5

-----------------------------------------------------------------------------
\* The fields of the query the controls stand for, and when two queries are one.
LEMMA QueryFields ==
  ListTypeOK =>
    /\ Query.search = search /\ Query.index = pageIndex /\ Query.size = pageSize
    /\ Query.sort = sort
    /\ Query.filter = IF page = "organizations" THEN Every ELSE filter
  BY DEF ListTypeOK, Query, TicketQuery, UserQuery, OrganizationQuery, Pages
LEMMA SameQuery ==
  ASSUME NEW q \in Queries, NEW r \in Queries, q.search = r.search, q.filter = r.filter,
         q.index = r.index, q.size = r.size, q.sort = r.sort
  PROVE  q = r
  BY DEF Queries

\* A page has a row or more.
LEMMA PageSizes ==
  ASSUME NEW q \in Queries
  PROVE  q.size \in Nat \ {0}
<1>1. q.size \in 1 .. 100
  BY ListAssumption DEF Queries
<1> QED BY <1>1

\* The rows a query selects depend on its text and its filter only.
LEMMA WhereDepends ==
  ASSUME ListTypeOK
  PROVE  \A q, r \in Queries : q.search = r.search /\ q.filter = r.filter => Where(q) = Where(r)
  BY DEF ListTypeOK, Where, TicketsWhere, UsersWhere, OrganizationsWhere, Pages

\* The rows a query selects are finitely many.
RowsFinite == \A q \in Queries : /\ Where(q) \in SUBSET Rows /\ IsFiniteSet(Where(q))
                                /\ Cardinality(Where(q)) \in Nat
LEMMA WhereFinite == ListTypeOK => RowsFinite
<1> SUFFICES ASSUME ListTypeOK, NEW q \in Queries
             PROVE  /\ Where(q) \in SUBSET Rows /\ IsFiniteSet(Where(q))
                    /\ Cardinality(Where(q)) \in Nat
  BY DEF RowsFinite
<1>1. Where(q) \in SUBSET Rows
  BY DEF Where, TicketsWhere, UsersWhere, OrganizationsWhere, Live, ListTypeOK, Pages
<1> QED BY <1>1, ListAssumption, FS_Subset, FS_CardinalityType

\* Answers depend on the page and the rows only.
LEMMA SameAnswers ==
  ASSUME UNCHANGED <<page, rows>>
  PROVE  /\ \A q : Items(q)' = Items(q)
         /\ \A q : Where(q)' = Where(q)
<1>1. \A q : Where(q)' = Where(q)
  BY DEF Where, TicketsWhere, UsersWhere, OrganizationsWhere, Live
<1>2. \A q : Slice(q)' = Slice(q)
  BY <1>1 DEF Slice, Before
<1> QED BY <1>1, <1>2 DEF Items

\* A page that starts before the last row has a row.
LEMMA SliceHasRows ==
  ASSUME ListTypeOK, NEW q \in Queries, q.index \in Nat,
         q.index * q.size < Cardinality(Where(q))
  PROVE  DOMAIN Items(q) # {}
<1> DEFINE W == Where(q)
           R == {p \in Rows \X Rows : Before(q, p[1], p[2])}
           k == q.index * q.size
<1>1. W \in SUBSET Rows /\ IsFiniteSet(W)
  BY WhereFinite DEF RowsFinite
<1>2. W \subseteq Nat
  BY <1>1, ListAssumption
<1>3. Orders(R, W)
  <2>1. \A r, s \in W : <<r, s>> \in R <=> IF q.sort = "asc" THEN r < s ELSE r > s
    BY <1>1 DEF Before
  <2> HIDE DEF R, W
  <2>2. CASE q.sort = "asc"
    BY <2>1, <2>2, <1>2 DEF Orders
  <2>3. CASE q.sort # "asc"
    BY <2>1, <2>3, <1>2 DEF Orders
  <2> QED BY <2>2, <2>3
<1>4. q.size \in 1 .. 100
  BY ListAssumption DEF Queries
<1>5. k \in Nat /\ k < (q.index + 1) * q.size
  BY <1>4
<1>6. PICK r \in W : Cardinality(Below(R, W, r)) = k
  <2> HIDE DEF W, R, k
  <2>1. k < Cardinality(W)
    BY DEF W, k
  <2> QED BY <2>1, <1>1, <1>3, <1>5, RankExists
<1>7. Below(R, W, r) = {s \in W : Before(q, s, r)}
  BY <1>1 DEF Below
<1>8. r \in Slice(q)
  <2> DEFINE rank(x) == Cardinality({s \in W : Before(q, s, x)})
             next == (q.index + 1) * q.size
  <2>1. rank(r) = k
    BY <1>6, <1>7
  <2>a. k \in Nat /\ k < next
    BY <1>5
  <2>2. Slice(q) = {x \in W : k <= rank(x) /\ rank(x) < next}
    BY DEF Slice
  <2> HIDE DEF W, k, rank, next
  <2> QED BY <2>1, <2>a, <2>2
<1> QED BY <1>8 DEF Items

-----------------------------------------------------------------------------
(* The table.                                                                *)

\* The text the page's index was chosen under: the one last emitted.
Settled == IF emitted = Null THEN Blank ELSE emitted
Within(q) == q.index \in Nat /\ (q.index = 0 \/ q.index * q.size < Cardinality(Where(q)))

\* The newest load is in flight until it is answered or fails.
NewestInFlight == hist.newest \in Loads => loads[hist.newest] # Null

\* The server reads the rows, then counts them.
RowsFirst ==
  \A s \in Loads : loads[s] # Null /\ loads[s].items = Null => loads[s].total = Null

\* With nothing untold, the newest load asks what the controls stand for, and
\* what it has been answered is what the server would answer now.
NewestAsked ==
  hist.newest \in Loads /\ hist.drift = {} =>
    /\ ~timer => loads[hist.newest].q = Query
    /\ loads[hist.newest].items # Null => loads[hist.newest].items = Items(loads[hist.newest].q)
    /\ loads[hist.newest].total # Null =>
         loads[hist.newest].total = Cardinality(Where(loads[hist.newest].q))
ShownAsked ==
  hist.newest = "shown" /\ hist.drift = {} =>
    /\ shown.q \in Queries
    /\ ~timer => shown.q = Query
    /\ shown.items = Items(shown.q)
    /\ shown.total = Cardinality(Where(shown.q))

\* Unless the page may have lost its rows, it starts before the last row of the
\* emitted text, and so does the newest load.
TextEmitted == emitted \in Texts \cup {Null} /\ (~timer => search = Settled)
SettledQuery == [Query EXCEPT !.search = Settled]
PageWithin == ~hist.overrun => Within(SettledQuery)
LoadWithin ==
  hist.newest \in Loads /\ ~hist.overrun =>
    /\ loads[hist.newest].items = Null => Within(loads[hist.newest].q)
    /\ loads[hist.newest].items # Null /\ loads[hist.newest].total = Null =>
         /\ Within(loads[hist.newest].q)
         /\ loads[hist.newest].items = Items(loads[hist.newest].q)
    /\ loads[hist.newest].total # Null /\ loads[hist.newest].total > 0 =>
         DOMAIN loads[hist.newest].items # {}
ShownWithin ==
  hist.newest = "shown" /\ ~hist.overrun /\ shown.total > 0 => DOMAIN shown.items # {}

TableInv == /\ NewestInFlight /\ RowsFirst /\ NewestAsked /\ ShownAsked
            /\ TextEmitted /\ PageWithin /\ LoadWithin /\ ShownWithin

\* A new request waits for its rows.
LEMMA RequestFields ==
  ASSUME NEW q
  PROVE  Request(q).q = q /\ Request(q).items = Null /\ Request(q).total = Null
  BY DEF Request

\* A query that differs in its text stays within the same bounds.
LEMMA WithinDepends ==
  ASSUME ListTypeOK, NEW q \in Queries, NEW r \in Queries, q.search = r.search,
         q.filter = r.filter, q.index = r.index, q.size = r.size, Within(q)
  PROVE  Within(r)
<1>1. Where(q) = Where(r)
  BY WhereDepends
<1>2. q.index * q.size = r.index * r.size
  OBVIOUS
<1> QED BY <1>1, <1>2, Zenon DEF Within

\* load(): the newest load asks what the controls now stand for.
LEMMA LoadStep ==
  ASSUME ListInv, ListInv', TableInv, NEW s \in Loads, NEW q \in Queries, Load(s, q),
         UNCHANGED <<page, rows>>, hist'.newest = s, q = Query',
         TextEmitted', PageWithin', ~hist'.overrun => Within(q)
  PROVE  TableInv'
<1>1. loads' = [loads EXCEPT ![s] = Request(q)]
  BY DEF Load
<1>2. /\ loads'[s].q = q /\ loads'[s].items = Null /\ loads'[s].total = Null
      /\ loads'[s] # Null
  BY <1>1, RequestFields, RequestType DEF ListInv, ListTypeOK
<1>3. s # "shown"
  BY ListAssumption
<1>4. Within(q)' <=> Within(q)
  BY SameAnswers DEF Within
<1>8. RowsFirst'
  BY <1>1, <1>2 DEF ListInv, ListTypeOK, TableInv, RowsFirst
<1>5. NewestInFlight' /\ NewestAsked' /\ ShownAsked'
  BY <1>2, <1>3 DEF NewestInFlight, NewestAsked, ShownAsked
<1>6. LoadWithin'
  <2>1. ~hist'.overrun => Within(loads[s].q)'
    BY <1>2, <1>4
  <2> QED BY <1>2, <2>1 DEF LoadWithin
<1>7. ShownWithin'
  BY <1>3 DEF ShownWithin
<1> QED BY <1>5, <1>6, <1>7, <1>8 DEF TableInv

\* The query of the emitted text differs from the one of the field in its text.
SettledIs == /\ SettledQuery \in Queries /\ SettledQuery.search = Settled
             /\ SettledQuery.filter = IF page = "organizations" THEN Every ELSE filter
             /\ SettledQuery.index = pageIndex /\ SettledQuery.size = pageSize
LEMMA SettledFields == ListTypeOK /\ TextEmitted => SettledIs
<1> SUFFICES ASSUME ListTypeOK, TextEmitted PROVE SettledIs
  OBVIOUS
<1>1. Settled \in Texts
  BY ListAssumption DEF Settled, TextEmitted
<1>2. \A q \in Queries : /\ [q EXCEPT !.search = Settled] \in Queries
                         /\ [q EXCEPT !.search = Settled].search = Settled
                         /\ [q EXCEPT !.search = Settled].filter = q.filter
                         /\ [q EXCEPT !.search = Settled].index = q.index
                         /\ [q EXCEPT !.search = Settled].size = q.size
  BY <1>1 DEF Queries
<1> QED BY <1>2, QueryType, QueryFields DEF SettledQuery, SettledIs

\* While the rows stay, so does what is within the page.
LEMMA SameWithin ==
  ASSUME UNCHANGED <<page, rows>>
  PROVE  \A q : Within(q)' <=> Within(q)
  BY SameAnswers DEF Within

\* A step that keeps the page, its filter and the emitted text keeps it within.
LEMMA PageKept ==
  ASSUME ListTypeOK, ListTypeOK', TextEmitted, TextEmitted', PageWithin,
         UNCHANGED <<page, rows, emitted, filter, pageIndex, pageSize>>,
         hist.overrun => hist'.overrun
  PROVE  PageWithin'
<1> SUFFICES ASSUME ~hist'.overrun PROVE Within(SettledQuery)'
  BY DEF PageWithin
<1>1. Within(SettledQuery)
  BY DEF PageWithin
<1>2. SettledIs
  BY SettledFields
<1>3. (ListTypeOK /\ TextEmitted => SettledIs)'
  BY SettledFields, PTL
<1>4. Settled' = Settled
  BY DEF Settled
<1>5. Within(SettledQuery')
  BY <1>1, <1>2, <1>3, <1>4, WithinDepends DEF SettledIs
<1> QED BY <1>5, SameWithin

\* The first page is within.
LEMMA FirstPageWithin ==
  ASSUME ListTypeOK', TextEmitted', pageIndex' = 0
  PROVE  PageWithin'
<1>1. (ListTypeOK /\ TextEmitted => SettledIs)'
  BY SettledFields, PTL
<1> QED BY <1>1 DEF SettledIs, PageWithin, Within

\* A step that neither loads nor answers nor changes a row keeps what is known,
\* as long as it does not end the debounce in silence.
LEMMA StillStep ==
  ASSUME ListInv, ListInv', TableInv, UNCHANGED <<page, rows, loads, shown>>,
         hist'.newest = hist.newest, hist.overrun => hist'.overrun,
         \/ hist'.drift # {}
         \/ hist'.drift = hist.drift /\ (timer' \/ (timer' = timer /\ Query' = Query)),
         TextEmitted', PageWithin'
  PROVE  TableInv'
<1>1. /\ \A q : Items(q)' = Items(q)
      /\ \A q : Where(q)' = Where(q)
      /\ \A q : Within(q)' <=> Within(q)
  BY SameAnswers, SameWithin
<1>2. NewestInFlight' /\ RowsFirst'
  BY DEF TableInv, NewestInFlight, RowsFirst
<1>3. NewestAsked'
  BY <1>1 DEF TableInv, NewestAsked
<1>4. ShownAsked'
  BY <1>1 DEF TableInv, ShownAsked
<1>5. LoadWithin'
  BY <1>1 DEF TableInv, LoadWithin
<1>6. ShownWithin'
  BY DEF TableInv, ShownWithin
<1> QED BY <1>2, <1>3, <1>4, <1>5, <1>6 DEF TableInv

\* A query with the fields the controls now have is theirs.
LEMMA IsQueryNext ==
  ASSUME ListTypeOK', NEW q \in Queries, q.search = search',
         q.filter = IF page' = "organizations" THEN Every ELSE filter',
         q.index = pageIndex', q.size = pageSize', q.sort = sort'
  PROVE  q = Query'
<1>1. (ListTypeOK =>
        /\ Query.search = search /\ Query.index = pageIndex /\ Query.size = pageSize
        /\ Query.sort = sort
        /\ Query.filter = IF page = "organizations" THEN Every ELSE filter)'
  BY QueryFields, PTL
<1>2. (ListTypeOK => Query \in Queries)'
  BY QueryType, PTL
<1> QED BY <1>1, <1>2, SameQuery

\* resetAndLoad()
LEMMA FirstPageStep ==
  ASSUME ListInv, ListInv', TableInv, NEW s \in Loads, NEW q \in Queries,
         Load(s, [q EXCEPT !.index = 0]), pageIndex' = 0, UNCHANGED <<page, rows>>,
         hist' = SentFirstPage(s, hist), TextEmitted',
         q.search = search', q.filter = IF page' = "organizations" THEN Every ELSE filter',
         q.size = pageSize', q.sort = sort'
  PROVE  TableInv'
<1> DEFINE first == [q EXCEPT !.index = 0]
<1>1. /\ first \in Queries /\ first.index = 0 /\ first.search = q.search
      /\ first.filter = q.filter /\ first.size = q.size /\ first.sort = q.sort
  BY DEF Queries
<1> HIDE DEF first
<1>2. first = Query'
  BY <1>1, IsQueryNext DEF ListInv
<1>3. PageWithin'
  BY FirstPageWithin DEF ListInv
<1>4. hist'.newest = s
  BY SentFields DEF ListInv, ListTypeOK
<1>5. Within(first)
  BY <1>1 DEF Within
<1> QED BY <1>1, <1>2, <1>3, <1>4, <1>5, LoadStep DEF first

\* A load that keeps the page, with no text being typed.
LEMMA SamePageStep ==
  ASSUME ListInv, ListInv', TableInv, NEW s \in Loads, NEW q \in Queries,
         Load(s, q), UNCHANGED <<page, rows, search, emitted, timer, filter, pageIndex, pageSize>>,
         hist' = SentSamePage(s, hist),
         q.search = search', q.filter = IF page' = "organizations" THEN Every ELSE filter',
         q.index = pageIndex', q.size = pageSize', q.sort = sort'
  PROVE  TableInv'
<1>1. q = Query'
  BY IsQueryNext DEF ListInv
<1>2. hist'.newest = s /\ (hist'.overrun <=> (hist.overrun \/ timer))
  <2>1. hist \in Histories
    BY DEF ListInv, ListTypeOK
  <2>2. /\ SentSamePage(s, hist).newest = s
        /\ SentSamePage(s, hist).overrun <=> (hist.overrun \/ timer)
    BY <2>1, SentFields
  <2> QED BY <2>2
<1>3. TextEmitted'
  BY DEF TableInv, TextEmitted, Settled
<1>4. PageWithin'
  BY <1>2, <1>3, PageKept DEF ListInv, TableInv
<1>5. ASSUME ~hist'.overrun
      PROVE  Within(q)
  <2>1. ~timer /\ ~hist.overrun
    BY <1>2, <1>5
  <2>2. Within(SettledQuery) /\ search = Settled
    BY <2>1 DEF TableInv, PageWithin, TextEmitted
  <2>3. SettledIs
    BY SettledFields DEF ListInv, TableInv
  <2> QED BY <2>2, <2>3, WithinDepends DEF SettledIs, ListInv
<1>6. UNCHANGED <<page, rows>> /\ hist'.newest = s /\ (~hist'.overrun => Within(q))
  BY <1>2, <1>5
<1> QED BY <1>1, <1>3, <1>4, <1>6, LoadStep

\* Whole division does not exceed, and products grow with their factors.
LEMMA Division ==
  ASSUME NEW a \in Nat, NEW n \in Nat \ {0}
  PROVE  (a \div n) \in Nat /\ (a \div n) * n <= a
  OBVIOUS
LEMMA Products ==
  ASSUME NEW a \in Nat, NEW b \in Nat, a <= b, NEW n \in Nat
  PROVE  a * n <= b * n
  OBVIOUS

\* The paginator: a turned page starts before the last of the t rows, ...
LEMMA TurnWithin ==
  ASSUME NEW t \in Nat, NEW n \in Nat \ {0}, NEW p \in Nat, p = 0 \/ p * n < t, NEW i \in Nat,
         \/ p > 0 /\ i \in {0, p - 1}
         \/ /\ p < (t + n - 1) \div n - 1
            /\ i \in {p + 1, (t + n - 1) \div n - 1}
  PROVE  i = 0 \/ i * n < t
<1> DEFINE c == (t + n - 1) \div n
<1>1. CASE p > 0 /\ i \in {0, p - 1}
  <2>1. i <= p /\ p * n < t
    BY <1>1
  <2>2. i * n <= p * n
    BY <2>1, Products
  <2>3. i * n \in Nat /\ p * n \in Nat
    OBVIOUS
  <2> QED BY <2>1, <2>2, <2>3
<1>2. CASE p < c - 1 /\ i \in {p + 1, c - 1}
  <2>1. t + n - 1 \in Nat
    OBVIOUS
  <2>2. c \in Nat /\ c * n <= t + n - 1
    BY <2>1, Division
  <2> HIDE DEF c
  <2>3. i <= c - 1 /\ c - 1 \in Nat
    BY <1>2, <2>2
  <2>4. i * n <= (c - 1) * n
    BY <2>3, Products
  <2>5. (c - 1) * n = c * n - n
    BY <2>2
  <2>6. i * n \in Nat /\ (c - 1) * n \in Nat /\ c * n \in Nat
    BY <2>2, <2>3
  <2> QED BY <2>2, <2>4, <2>5, <2>6
<1> QED BY <1>1, <1>2

\* ... and another page size keeps the first row of the page in sight.
LEMMA ResizeWithin ==
  ASSUME NEW t \in Nat, NEW n \in Nat \ {0}, NEW m \in Nat, NEW p \in Nat, p = 0 \/ p * m < t,
         NEW i \in Nat, i = (p * m) \div n
  PROVE  i = 0 \/ i * n < t
<1>1. p * m \in Nat
  OBVIOUS
<1>2. i * n <= p * m
  BY <1>1, Division
<1>3. i * n \in Nat
  OBVIOUS
<1>4. CASE p = 0
  <2>1. p * m = 0
    BY <1>4
  <2> HIDE <1>1
  <2>2. i = 0 \div n
    BY <2>1
  <2> QED BY <2>2
<1> QED BY <1>1, <1>2, <1>3, <1>4

\* A query turned to another page and size differs in them only.
Turn(r, j, m) == [r EXCEPT !.index = j, !.size = m]
LEMMA TurnedFields ==
  ASSUME NEW r \in Queries, NEW j \in Int, NEW m \in Sizes
  PROVE  /\ Turn(r, j, m) \in Queries
         /\ Turn(r, j, m).index = j /\ Turn(r, j, m).size = m
         /\ Turn(r, j, m).search = r.search /\ Turn(r, j, m).filter = r.filter
         /\ Turn(r, j, m).sort = r.sort
  BY PageChanges DEF Queries, Turn

\* onPage
LEMMA TurnStep ==
  ASSUME ListInv, ListInv', TableInv, NEW s \in Loads, NEW i \in 0 .. Cardinality(Rows),
         NEW n \in Sizes, Page(i, n, s)
  PROVE  TableInv'
<1> DEFINE q == Turn(Query, i, n)
<1> USE DEF ListInv
<1>1. /\ UNCHANGED <<page, rows, search, emitted, timer, filter, sort>>
      /\ pageIndex' = i /\ pageSize' = n /\ Load(s, q)
      /\ (n = pageSize /\ Turned(i)) \/ (n # pageSize /\ i = (pageIndex * pageSize) \div n)
  BY DEF Page, Turn
<1>2. /\ q \in Queries /\ q.index = i /\ q.size = n /\ q.search = search
      /\ q.filter = IF page = "organizations" THEN Every ELSE filter
      /\ q.sort = sort
  <2>1. i \in Int
    OBVIOUS
  <2>3. Query \in Queries
    BY QueryType
  <2>4. /\ q.index = i /\ q.size = n /\ q.search = Query.search
        /\ q.filter = Query.filter /\ q.sort = Query.sort
    BY <2>1, <2>3, TurnedFields
  <2>5. q \in Queries
    BY <2>1, <2>3, TurnedFields
  <2> HIDE DEF q
  <2> QED BY <2>4, <2>5, QueryFields
<1> HIDE DEF q
<1>3. q = Query'
  BY <1>1, <1>2, IsQueryNext
<1>4. hist'.newest = s /\ (hist'.overrun <=> (hist.overrun \/ timer \/ TotalIsStale))
  <2> DEFINE h == SentSamePage(s, hist)
  <2>1. h \in Histories /\ h.newest = s /\ (h.overrun <=> (hist.overrun \/ timer))
    BY SentFields DEF ListTypeOK
  <2>2. hist' = [h EXCEPT !.overrun = h.overrun \/ TotalIsStale]
    BY DEF Page
  <2>3. \A g \in Histories : \A c \in BOOLEAN :
          [g EXCEPT !.overrun = c].newest = g.newest /\ [g EXCEPT !.overrun = c].overrun = c
    BY DEF Histories
  <2>4. (h.overrun \/ TotalIsStale) \in BOOLEAN
    OBVIOUS
  <2> HIDE DEF h
  <2> QED BY <2>1, <2>2, <2>3, <2>4
<1>5. TextEmitted'
  BY <1>1 DEF TableInv, TextEmitted, Settled
<1>6. ASSUME ~hist'.overrun
      PROVE  Within(q)
  <2> DEFINE t == Cardinality(Where(Query))
  <2>1. ~hist.overrun /\ ~timer /\ ~TotalIsStale
    BY <1>4, <1>6
  <2>2. shown.total = t /\ t \in Nat
    <3>1. /\ shown.q \in Queries /\ shown.total = Cardinality(Where(shown.q))
          /\ shown.q.search = search /\ shown.q.filter = filter
          /\ shown.q = Query
      BY <2>1 DEF TotalIsStale, TableInv, ShownAsked
    <3> QED BY <3>1, WhereFinite, QueryType DEF RowsFinite
  <2>3. Where(q) = Where(Query)
    BY <1>2, QueryType, QueryFields, WhereDepends
  <2>4. pageIndex \in Nat /\ (pageIndex = 0 \/ pageIndex * pageSize < t)
    <3>1. Within(SettledQuery) /\ search = Settled
      BY <2>1 DEF TableInv, PageWithin, TextEmitted
    <3>2. SettledIs
      BY SettledFields DEF TableInv
    <3>3. Where(SettledQuery) = Where(Query)
      BY <3>1, <3>2, QueryType, QueryFields, WhereDepends DEF SettledIs
    <3> QED BY <3>1, <3>2, <3>3 DEF SettledIs, Within
  <2> HIDE DEF t
  <2>5. i \in Nat /\ n \in Nat \ {0} /\ pageSize \in Nat \ {0}
    BY ListAssumption DEF ListTypeOK
  <2>6. i = 0 \/ i * n < t
    <3>1. CASE n = pageSize /\ Turned(i)
      BY <3>1, <2>2, <2>4, <2>5, TurnWithin DEF Turned, PageCount
    <3>2. CASE i = (pageIndex * pageSize) \div n
      BY <3>2, <2>2, <2>4, <2>5, ResizeWithin
    <3> QED BY <3>1, <3>2, <1>1
  <2> QED BY <1>2, <2>3, <2>5, <2>6 DEF Within, t
<1>7. PageWithin'
  <2> SUFFICES ASSUME ~hist'.overrun PROVE Within(SettledQuery)'
    BY DEF PageWithin
  <2>1. (ListTypeOK /\ TextEmitted => SettledIs)'
    BY SettledFields, PTL
  <2>2. search = Settled /\ Settled' = Settled
    BY <1>1, <1>4 DEF TableInv, TextEmitted, Settled
  <2>3. Within(SettledQuery')
    BY <1>1, <1>2, <1>5, <1>6, <2>1, <2>2, WithinDepends DEF SettledIs
  <2> QED BY <1>1, <2>3, SameWithin
<1>8. UNCHANGED <<page, rows>> /\ hist'.newest = s /\ (~hist'.overrun => Within(q))
  BY <1>1, <1>4, <1>6
<1> QED BY <1>1, <1>2, <1>3, <1>5, <1>7, <1>8, LoadStep

\* The controls keep the table: whatever selects other rows loads them.
LEMMA ControlKeepsTable ==
  ASSUME ListInv, ListInv', TableInv, Control
  PROVE  TableInv'
<1> USE DEF ListInv
<1>1. ASSUME NEW t \in Texts, Type(t)
      PROVE  TableInv'
  <2>1. /\ UNCHANGED <<page, rows, loads, shown, hist, emitted, filter, pageIndex, pageSize>>
        /\ timer'
    BY <1>1 DEF Type, table
  <2>2. TextEmitted'
    BY <2>1 DEF TableInv, TextEmitted
  <2>3. PageWithin'
    BY <2>1, <2>2, PageKept DEF TableInv
  <2> QED BY <2>1, <2>2, <2>3, StillStep
<1>2. CASE DebounceSuppressed
  <2>1. /\ UNCHANGED <<page, rows, loads, shown, emitted, filter, pageIndex, pageSize>>
        /\ search' = search /\ search = emitted
    BY <1>2 DEF DebounceSuppressed, table
  <2>2. hist'.newest = hist.newest /\ hist'.overrun = hist.overrun /\ hist'.drift # {}
    BY <1>2 DEF DebounceSuppressed, Missing, ListTypeOK, Histories
  <2>3. TextEmitted'
    BY <2>1, ListAssumption DEF TableInv, TextEmitted, Settled, ListTypeOK
  <2>4. PageWithin'
    BY <2>1, <2>2, <2>3, PageKept DEF TableInv
  <2> QED BY <2>1, <2>2, <2>3, <2>4, StillStep
<1>3. ASSUME NEW s \in Loads, DebounceFires(s)
      PROVE  TableInv'
  <2>1. /\ UNCHANGED <<page, rows, search, filter, pageSize, sort>>
        /\ emitted' = search /\ ~timer' /\ pageIndex' = 0
        /\ Load(s, [Query EXCEPT !.index = 0]) /\ hist' = SentFirstPage(s, hist)
    BY <1>3 DEF DebounceFires, ResetAndLoad
  <2>2. TextEmitted'
    BY <2>1, ListAssumption DEF TextEmitted, Settled, ListTypeOK
  <2>3. Query \in Queries
    BY QueryType
  <2>4. /\ Query.search = search' /\ Query.size = pageSize' /\ Query.sort = sort'
        /\ Query.filter = IF page' = "organizations" THEN Every ELSE filter'
    BY <2>1, QueryFields
  <2> QED BY <2>1, <2>2, <2>3, <2>4, FirstPageStep
<1>4. ASSUME NEW s \in Loads, NEW f \in Kinds \cup {Every}, ChangeFilter(f, s)
      PROVE  TableInv'
  <2> DEFINE q == [Query EXCEPT !.filter = f]
  <2>1. /\ UNCHANGED <<page, rows, search, emitted, timer, pageSize, sort>>
        /\ filter' = f /\ pageIndex' = 0 /\ page # "organizations"
        /\ Load(s, [q EXCEPT !.index = 0]) /\ hist' = SentFirstPage(s, hist)
    BY <1>4 DEF ChangeFilter, ResetAndLoad
  <2>2. TextEmitted'
    BY <2>1 DEF TableInv, TextEmitted, Settled
  <2>3. /\ q \in Queries /\ q.filter = f /\ q.search = Query.search /\ q.size = Query.size
        /\ q.sort = Query.sort
    BY QueryType DEF Queries
  <2> HIDE DEF q
  <2>4. /\ q.search = search' /\ q.size = pageSize' /\ q.sort = sort'
        /\ q.filter = IF page' = "organizations" THEN Every ELSE filter'
    BY <2>1, <2>3, QueryFields
  <2> QED BY <2>1, <2>2, <2>3, <2>4, FirstPageStep
<1>5. ASSUME NEW s \in Loads, NEW d \in Directions, Sort(d, s)
      PROVE  TableInv'
  <2> DEFINE q == [Query EXCEPT !.sort = d]
  <2>1. /\ UNCHANGED <<page, rows, search, emitted, timer, filter, pageIndex, pageSize>>
        /\ sort' = d /\ Load(s, q) /\ hist' = SentSamePage(s, hist)
    BY <1>5 DEF Sort
  <2>2. /\ q \in Queries /\ q.filter = Query.filter /\ q.search = Query.search
        /\ q.size = Query.size /\ q.index = Query.index /\ q.sort = d
    BY QueryType DEF Queries
  <2> HIDE DEF q
  <2>3. /\ q.search = search' /\ q.size = pageSize' /\ q.sort = sort' /\ q.index = pageIndex'
        /\ q.filter = IF page' = "organizations" THEN Every ELSE filter'
    BY <2>1, <2>2, QueryFields
  <2> QED BY <2>1, <2>2, <2>3, SamePageStep
<1> QED BY <1>1, <1>2, <1>3, <1>4, <1>5, TurnStep DEF Control

\* The answers: each part of an answer is what the server has, and an answer that
\* is not the newest, or none, tells nothing of the table.
LEMMA ReplyKeepsTable ==
  ASSUME ListInv, ListInv', TableInv, Reply
  PROVE  TableInv'
<1> USE DEF ListInv
<1> SUFFICES ASSUME NEW s \in Loads, FindMany(s) \/ Count(s) \/ Answer(s) \/ LoadFails(s)
             PROVE  TableInv'
  BY DEF Reply
<1>1. /\ UNCHANGED <<page, rows, search, emitted, timer, filter, pageIndex, pageSize, sort>>
      /\ Query' = Query
  BY DEF FindMany, Count, Answer, LoadFails, controls, Query, TicketQuery, UserQuery,
         OrganizationQuery
<1>2. /\ \A q : Items(q)' = Items(q)
      /\ \A q : Where(q)' = Where(q)
      /\ \A q : Within(q)' <=> Within(q)
  BY <1>1, SameAnswers, SameWithin
<1>3. TextEmitted'
  BY <1>1 DEF TableInv, TextEmitted, Settled
<1>4. hist'.overrun = hist.overrun /\ hist'.drift = hist.drift
  BY DEF FindMany, Count, Answer, LoadFails, ListTypeOK, Histories
<1>5. PageWithin'
  BY <1>1, <1>3, <1>4, PageKept DEF TableInv
<1>6. s # "shown" /\ s # "missed"
  BY ListAssumption
<1>7. /\ loads[s] # Null /\ loads[s] \in LoadRecords /\ loads[s].q \in Queries
  BY DEF FindMany, Count, Answer, LoadFails, ListTypeOK, LoadRecords
<1>8. CASE FindMany(s)
  <2>1. UNCHANGED <<shown, hist>>
    BY <1>8 DEF FindMany
  <2>2. /\ \A l \in Loads \ {s} : loads'[l] = loads[l]
        /\ loads'[s].q = loads[s].q /\ loads'[s].items = Items(loads[s].q)
        /\ loads'[s].total = loads[s].total /\ loads'[s] # Null
        /\ loads[s].items = Null
    <3>1. /\ loads' = [loads EXCEPT ![s] = [loads[s] EXCEPT !.items = Items(loads[s].q)]]
          /\ loads[s].items = Null
      BY <1>8 DEF FindMany
    <3>2. [loads[s] EXCEPT !.items = Items(loads[s].q)] \in LoadRecords
      BY <1>7, ItemsType DEF LoadRecords
    <3> QED BY <1>7, <3>1, <3>2, ListAssumption DEF ListTypeOK, LoadRecords
  <2>3. NewestInFlight' /\ RowsFirst'
    <3>1. loads'[s].total = Null
      BY <1>7, <2>2 DEF TableInv, RowsFirst
    <3> QED BY <2>1, <2>2, <3>1 DEF TableInv, NewestInFlight, RowsFirst
  <2>4. NewestAsked' /\ ShownAsked' /\ ShownWithin'
    BY <1>1, <1>2, <2>1, <2>2 DEF TableInv, NewestAsked, ShownAsked, ShownWithin
  <2>5. LoadWithin'
    <3> SUFFICES ASSUME hist.newest \in Loads, ~hist.overrun
                 PROVE  LoadWithin'
      BY <2>1 DEF LoadWithin
    <3>1. CASE hist.newest = s
      <4>1. loads[s].total = Null /\ Within(loads[s].q)
        BY <1>7, <2>2, <3>1 DEF TableInv, LoadWithin, RowsFirst
      <4> QED BY <1>2, <2>1, <2>2, <3>1, <4>1 DEF LoadWithin
    <3>2. CASE hist.newest # s
      BY <1>2, <2>1, <2>2, <3>2 DEF TableInv, LoadWithin
    <3> QED BY <3>1, <3>2
  <2> QED BY <1>3, <1>5, <2>3, <2>4, <2>5 DEF TableInv
<1>9. CASE Count(s)
  <2> DEFINE n == Cardinality(Where(loads[s].q))
  <2>1. UNCHANGED <<shown, hist>> /\ loads[s].items # Null /\ loads[s].total = Null
    BY <1>9 DEF Count
  <2>2. /\ \A l \in Loads \ {s} : loads'[l] = loads[l]
        /\ loads'[s].q = loads[s].q /\ loads'[s].items = loads[s].items
        /\ loads'[s].total = n /\ loads'[s] # Null
    <3>1. loads' = [loads EXCEPT ![s] = [loads[s] EXCEPT !.total = n]]
      BY <1>9 DEF Count
    <3>2. [loads[s] EXCEPT !.total = n] \in LoadRecords
      BY <1>7, TotalType DEF LoadRecords
    <3> HIDE DEF n
    <3> QED BY <1>7, <3>1, <3>2, ListAssumption DEF ListTypeOK, LoadRecords
  <2>3. NewestInFlight' /\ RowsFirst'
    BY <2>1, <2>2 DEF TableInv, NewestInFlight, RowsFirst
  <2>4. NewestAsked' /\ ShownAsked' /\ ShownWithin'
    BY <1>1, <1>2, <2>1, <2>2 DEF TableInv, NewestAsked, ShownAsked, ShownWithin
  <2>5. LoadWithin'
    <3> SUFFICES ASSUME hist.newest \in Loads, ~hist.overrun
                 PROVE  LoadWithin'
      BY <2>1 DEF LoadWithin
    <3>1. CASE hist.newest = s
      <4>1. Within(loads[s].q) /\ loads[s].items = Items(loads[s].q)
        BY <2>1, <3>1 DEF TableInv, LoadWithin
      <4>2. ASSUME n > 0
            PROVE  DOMAIN loads[s].items # {}
        <5>1. loads[s].q.index \in Nat
          BY <4>1 DEF Within
        <5>a. loads[s].q.size \in Nat
          BY <1>7, PageSizes
        <5>b. loads[s].q.index = 0 => loads[s].q.index * loads[s].q.size = 0
          BY <5>a
        <5>2. loads[s].q.index * loads[s].q.size < n
          BY <4>1, <4>2, <5>b DEF Within
        <5> QED BY <1>7, <4>1, <5>1, <5>2, SliceHasRows
      <4> HIDE DEF n
      <4> QED BY <1>2, <2>1, <2>2, <3>1, <4>1, <4>2 DEF LoadWithin
    <3>2. CASE hist.newest # s
      BY <1>2, <2>1, <2>2, <3>2 DEF TableInv, LoadWithin
    <3> QED BY <3>1, <3>2
  <2> QED BY <1>3, <1>5, <2>3, <2>4, <2>5 DEF TableInv
<1>a. CASE Answer(s)
  <2>1. /\ loads' = [loads EXCEPT ![s] = Null] /\ loads[s].total # Null
        /\ shown' = [items |-> loads[s].items, total |-> loads[s].total, q |-> loads[s].q]
        /\ hist' = [hist EXCEPT !.newest = CASE hist.newest = s -> "shown"
                                           [] hist.newest = "shown" -> "missed"
                                           [] OTHER -> hist.newest]
    BY <1>a DEF Answer
  <2>2. /\ shown'.items = loads[s].items /\ shown'.total = loads[s].total
        /\ shown'.q = loads[s].q
    BY <2>1
  <2>3. /\ \A l \in Loads \ {s} : loads'[l] = loads[l]
        /\ loads'[s] = Null
    BY <2>1 DEF ListTypeOK
  <2>4. /\ hist.newest = s => hist'.newest = "shown"
        /\ hist.newest = "shown" => hist'.newest = "missed"
        /\ hist.newest # s /\ hist.newest # "shown" => hist'.newest = hist.newest
    BY <1>6, <2>1 DEF ListTypeOK, Histories
  <2>5. hist'.newest \in Loads => hist'.newest = hist.newest /\ hist.newest # s
    BY <1>6, <2>4, ListAssumption
  <2>6. hist'.newest = "shown" => hist.newest = s
    BY <2>4
  <2>7. loads[s].items # Null
    BY <1>7, <2>1 DEF TableInv, RowsFirst
  <2>8. NewestInFlight' /\ RowsFirst'
    BY <2>3, <2>5 DEF TableInv, NewestInFlight, RowsFirst
  <2>9. NewestAsked'
    BY <1>1, <1>2, <1>4, <2>3, <2>5 DEF TableInv, NewestAsked
  <2>a. ShownAsked'
    BY <1>1, <1>2, <1>4, <1>7, <2>1, <2>2, <2>6, <2>7 DEF TableInv, NewestAsked, ShownAsked
  <2>b. LoadWithin'
    BY <1>2, <1>4, <2>3, <2>5 DEF TableInv, LoadWithin
  <2>c. ShownWithin'
    BY <1>4, <2>1, <2>2, <2>6 DEF TableInv, LoadWithin, ShownWithin
  <2> QED BY <1>3, <1>5, <2>8, <2>9, <2>a, <2>b, <2>c DEF TableInv
<1>b. CASE LoadFails(s)
  <2>1. /\ loads' = [loads EXCEPT ![s] = Null] /\ UNCHANGED shown
        /\ hist' = [hist EXCEPT !.newest = IF hist.newest = s THEN "missed" ELSE hist.newest]
    BY <1>b DEF LoadFails
  <2>2. /\ \A l \in Loads \ {s} : loads'[l] = loads[l]
        /\ loads'[s] = Null
    BY <2>1 DEF ListTypeOK
  <2>3. hist'.newest = IF hist.newest = s THEN "missed" ELSE hist.newest
    BY <2>1 DEF ListTypeOK, Histories
  <2>4. hist'.newest \in Loads => hist'.newest = hist.newest /\ hist.newest # s
    BY <2>3, ListAssumption
  <2>5. hist'.newest = "shown" => hist.newest = "shown"
    BY <2>3
  <2>6. NewestInFlight' /\ RowsFirst'
    BY <2>2, <2>4 DEF TableInv, NewestInFlight, RowsFirst
  <2>7. NewestAsked' /\ ShownAsked'
    BY <1>1, <1>2, <1>4, <2>1, <2>2, <2>4, <2>5 DEF TableInv, NewestAsked, ShownAsked
  <2>8. LoadWithin' /\ ShownWithin'
    BY <1>2, <1>4, <2>1, <2>2, <2>4, <2>5 DEF TableInv, LoadWithin, ShownWithin
  <2> QED BY <1>3, <1>5, <2>6, <2>7, <2>8 DEF TableInv
<1> QED BY <1>8, <1>9, <1>a, <1>b

\* A change of the table that the page has not been told: unless it takes rows from
\* the page, the rows every query selects stay or grow, and no count is under way.
LEMMA RowsStep ==
  ASSUME ListInv, ListInv', TableInv,
         UNCHANGED <<page, search, emitted, timer, filter, pageIndex, pageSize, sort, loads, shown>>,
         hist'.newest = hist.newest, hist'.drift # {},
         ~hist'.overrun =>
           /\ ~hist.overrun
           /\ \A l \in Loads : loads[l] # Null /\ loads[l].items # Null => loads[l].total # Null
           /\ \A q \in Queries : Where(q) \subseteq Where(q)'
  PROVE  TableInv'
<1> USE DEF ListInv
<1>1. TextEmitted'
  BY DEF TableInv, TextEmitted, Settled
<1>2. NewestInFlight' /\ RowsFirst' /\ NewestAsked' /\ ShownAsked'
  BY DEF TableInv, NewestInFlight, RowsFirst, NewestAsked, ShownAsked
<1>3. ShownWithin'
  BY DEF TableInv, ShownWithin
<1>4. ASSUME ~hist'.overrun, NEW q \in Queries, Within(q)
      PROVE  Within(q)'
  <2>1. IsFiniteSet(Where(q)) /\ Cardinality(Where(q)) \in Nat
    BY WhereFinite DEF RowsFinite
  <2>a. (ListTypeOK => RowsFinite)'
    BY WhereFinite, PTL
  <2>2. IsFiniteSet(Where(q)') /\ Cardinality(Where(q)') \in Nat
    BY <2>a DEF RowsFinite
  <2>3. Cardinality(Where(q)) <= Cardinality(Where(q)')
    <3>1. Where(q) \in SUBSET Where(q)' /\ IsFiniteSet(Where(q)')
      BY <1>4, <2>2
    <3> QED BY <3>1, FS_Subset
  <2>4. CASE q.index = 0
    BY <2>4 DEF Within
  <2>5. CASE q.index # 0
    <3>1. q.index * q.size < Cardinality(Where(q)) /\ q.index \in Nat
      BY <1>4, <2>5 DEF Within
    <3>2. q.size \in Nat
      BY PageSizes
    <3>3. q.index * q.size \in Nat
      BY <3>1, <3>2
    <3>4. q.index * q.size < Cardinality(Where(q)')
      BY <2>1, <2>2, <2>3, <3>1, <3>3
    <3> QED BY <3>1, <3>4 DEF Within
  <2> QED BY <2>4, <2>5
<1>5. PageWithin'
  <2>1. Query' = Query /\ Settled' = Settled
    BY DEF Query, TicketQuery, UserQuery, OrganizationQuery, Settled
  <2>2. SettledQuery' = SettledQuery
    BY <2>1 DEF SettledQuery
  <2>3. SettledIs
    BY SettledFields DEF TableInv
  <2> QED BY <1>4, <2>2, <2>3 DEF TableInv, PageWithin, SettledIs
<1>6. LoadWithin'
  <2> SUFFICES ASSUME hist.newest \in Loads, ~hist'.overrun
               PROVE  LoadWithin'
    BY DEF LoadWithin
  <2> DEFINE l == hist.newest
  <2>1. loads[l] # Null /\ loads[l] \in LoadRecords /\ loads[l].q \in Queries
    BY DEF TableInv, NewestInFlight, ListTypeOK, LoadRecords
  <2>2. loads[l].items # Null => loads[l].total # Null
    BY <2>1
  <2>3. loads[l].items = Null => Within(loads[l].q)'
    <3>1. Within(loads[l].q) => Within(loads[l].q)'
      BY <1>4, <2>1
    <3> QED BY <3>1 DEF TableInv, LoadWithin
  <2> QED BY <2>2, <2>3 DEF TableInv, LoadWithin
<1> QED BY <1>1, <1>2, <1>3, <1>5, <1>6 DEF TableInv

\* What a change of the table writes into the history.
Counting == \E l \in Loads : loads[l] # Null /\ loads[l].items # Null /\ loads[l].total = Null
LEMMA UnseenFields ==
  ASSUME ListTypeOK, NEW b \in BOOLEAN,
         NEW what \in {"suppressed", "unanswered", "removed", "elsewhere"}
  PROVE  /\ Unseen(what, b).newest = hist.newest /\ Unseen(what, b).drift # {}
         /\ Unseen(what, b).overrun <=> hist.overrun \/ b \/ Counting
<1>1. \A c \in BOOLEAN :
        /\ [hist EXCEPT !.drift = @ \cup {what}, !.overrun = c].newest = hist.newest
        /\ [hist EXCEPT !.drift = @ \cup {what}, !.overrun = c].drift = hist.drift \cup {what}
        /\ [hist EXCEPT !.drift = @ \cup {what}, !.overrun = c].overrun = c
  BY DEF ListTypeOK, Histories
<1>2. (hist.overrun \/ b \/ Counting) \in BOOLEAN
  OBVIOUS
<1>3. Unseen(what, b) = [hist EXCEPT !.drift = @ \cup {what},
                                     !.overrun = hist.overrun \/ b \/ Counting]
  BY DEF Unseen, Counting
<1>4. hist.drift \cup {what} # {}
  OBVIOUS
<1> HIDE DEF Counting
<1> QED BY <1>1, <1>2, <1>3, <1>4

\* Rows that stay, with their kind, are still selected.
LEMMA RowsGrow ==
  ASSUME ListTypeOK, UNCHANGED page,
         \A r \in Rows : rows[r] # Null => rows'[r] # Null /\ rows'[r].kind = rows[r].kind
  PROVE  \A q \in Queries : Where(q) \subseteq Where(q)'
  BY DEF ListTypeOK, Where, TicketsWhere, UsersWhere, OrganizationsWhere, Live, Pages

\* The API and the other users: a change of the table is told, or takes a load.
LEMMA ServerKeepsTable ==
  ASSUME ListInv, ListInv', TableInv, Server
  PROVE  TableInv'
<1> USE DEF ListInv
<1> DEFINE Still == UNCHANGED <<page, search, emitted, timer, filter, pageIndex, pageSize, sort,
                                loads, shown>>
           Told(b) == /\ hist'.newest = hist.newest /\ hist'.drift # {}
                      /\ hist'.overrun <=> hist.overrun \/ b \/ Counting
           Grown == \A r \in Rows : rows[r] # Null =>
                      rows'[r] # Null /\ rows'[r].kind = rows[r].kind
<1>1. ASSUME NEW b \in BOOLEAN, Still, Told(b), ~b => Grown
      PROVE  TableInv'
  <2>1. ~hist'.overrun => \A q \in Queries : Where(q) \subseteq Where(q)'
    BY <1>1, RowsGrow
  <2> QED BY <1>1, <2>1, RowsStep DEF Counting
<1>2. ASSUME NEW p \in Posts, NEW r \in Rows, CreateRow(p, r)
      PROVE  TableInv'
  <2>1. Still /\ rows' = [rows EXCEPT ![r] = posts[p].value] /\ Fresh(r)
    BY <1>2 DEF CreateRow, controls, table
  <2>2. Told(FALSE)
    <3> DEFINE h == Unseen("unanswered", FALSE)
    <3>1. h \in Histories /\ h.newest = hist.newest /\ h.drift # {}
          /\ (h.overrun <=> hist.overrun \/ FALSE \/ Counting)
      BY UnseenType, UnseenFields
    <3>2. hist' = [h EXCEPT !.made = IF posts[p].open THEN @ + 1 ELSE @]
      BY <1>2 DEF CreateRow
    <3> HIDE DEF h, Counting
    <3>3. hist'.newest = h.newest /\ hist'.drift = h.drift /\ hist'.overrun = h.overrun
      BY <3>1, <3>2 DEF Histories
    <3> QED BY <3>1, <3>3
  <2>3. Grown
    <3>1. r \notin Live
      BY <2>1, ListAssumption DEF Fresh
    <3> QED BY <2>1, <3>1 DEF Live, ListTypeOK
  <2> HIDE DEF Still, Told, Grown
  <2> QED BY <1>1, <2>1, <2>2, <2>3
<1>3. ASSUME NEW p \in Posts, UpdateUser(p) \/ UpdateOrganization(p) \/ RemoveOrganization(p)
      PROVE  TableInv'
  <2>1. Still
    BY <1>3 DEF UpdateUser, UpdateOrganization, RemoveOrganization, controls, table
  <2>2. Told(TRUE)
    <3>1. PICK what \in {"suppressed", "unanswered", "removed", "elsewhere"} :
            hist' = Unseen(what, TRUE)
      BY <1>3 DEF UpdateUser, UpdateOrganization, RemoveOrganization
    <3> HIDE DEF Counting
    <3> QED BY <3>1, UnseenFields
  <2> HIDE DEF Still, Told, Grown
  <2> QED BY <1>1, <2>1, <2>2
<1>4. ASSUME NEW p \in Posts, DeactivateUser(p)
      PROVE  TableInv'
  <2>1. /\ Still /\ rows[posts[p].row] # Null
        /\ rows' = [rows EXCEPT ![posts[p].row] = [rows[posts[p].row] EXCEPT !.active = FALSE]]
    BY <1>4 DEF DeactivateUser, controls, table
  <2>2. Told(FALSE)
    <3>1. hist' = Unseen("removed", FALSE)
      BY <1>4 DEF DeactivateUser
    <3> HIDE DEF Counting
    <3> QED BY <3>1, UnseenFields
  <2>3. Grown
    <3>1. \A c \in Contents : /\ [c EXCEPT !.active = FALSE] \in Contents
                             /\ [c EXCEPT !.active = FALSE].kind = c.kind
      BY DEF Contents
    <3>2. ASSUME NEW r \in Rows, rows[r] # Null, r = posts[p].row
          PROVE  rows'[r] # Null /\ rows'[r].kind = rows[r].kind
      <4>1. rows[r] \in Contents /\ rows'[r] = [rows[r] EXCEPT !.active = FALSE]
        BY <2>1, <3>2 DEF ListTypeOK
      <4> QED BY <3>1, <4>1, ListAssumption
    <3>3. ASSUME NEW r \in Rows, r # posts[p].row
          PROVE  rows'[r] = rows[r]
      BY <2>1, <3>3 DEF ListTypeOK
    <3> QED BY <3>2, <3>3
  <2> HIDE DEF Still, Told, Grown
  <2> QED BY <1>1, <2>1, <2>2, <2>3
<1>5. ASSUME NEW p \in Posts, Refuse(p)
      PROVE  TableInv'
  <2>1. Still /\ UNCHANGED <<rows, hist>>
    BY <1>5 DEF Refuse, controls, table
  <2>2. Query' = Query
    BY <2>1 DEF Query, TicketQuery, UserQuery, OrganizationQuery
  <2>3. TextEmitted'
    BY <2>1 DEF TableInv, TextEmitted, Settled
  <2>4. PageWithin'
    BY <2>1, <2>3, PageKept DEF TableInv
  <2> QED BY <2>1, <2>2, <2>3, <2>4, StillStep
<1>6. ASSUME NEW r \in Rows, NEW v \in Inputs \cup {Null}, Elsewhere(r, v)
      PROVE  TableInv'
  <2>1. Still /\ rows' = [rows EXCEPT ![r] = v]
    BY <1>6 DEF Elsewhere, controls, table
  <2>2. Told(rows[r] # Null)
    <3>1. hist' = Unseen("elsewhere", rows[r] # Null) /\ (rows[r] # Null) \in BOOLEAN
      BY <1>6 DEF Elsewhere
    <3> HIDE DEF Counting
    <3> QED BY <3>1, UnseenFields
  <2>3. ~(rows[r] # Null) => Grown
    BY <2>1 DEF ListTypeOK
  <2>4. (rows[r] # Null) \in BOOLEAN
    OBVIOUS
  <2> HIDE DEF Still, Told, Grown
  <2> QED BY <1>1, <2>1, <2>2, <2>3, <2>4
<1> QED BY <1>2, <1>3, <1>4, <1>5, <1>6 DEF Server

\* The dialogs: only an answered save touches the table, and it loads.
LEMMA DialogsKeepTable ==
  ASSUME ListInv, ListInv', TableInv, Dialogs
  PROVE  TableInv'
<1> USE DEF ListInv
<1> DEFINE Still == UNCHANGED <<page, rows, search, emitted, timer, filter, pageIndex, pageSize,
                                sort, loads, shown>>
<1>1. ASSUME Still, hist'.newest = hist.newest, hist'.overrun = hist.overrun,
             hist'.drift = hist.drift \/ hist'.drift # {}
      PROVE  TableInv'
  <2>1. Query' = Query
    BY <1>1 DEF Query, TicketQuery, UserQuery, OrganizationQuery
  <2>2. TextEmitted'
    BY <1>1 DEF TableInv, TextEmitted, Settled
  <2>3. PageWithin'
    BY <1>1, <2>2, PageKept DEF TableInv
  <2> QED BY <1>1, <2>1, <2>2, <2>3, StillStep
<1>2. CASE OpenCreate
  <2>1. Still
    BY <1>2 DEF OpenCreate, controls, table
  <2>2. /\ hist'.newest = hist.newest /\ hist'.overrun = hist.overrun
        /\ hist'.drift = hist.drift
    BY <1>2 DEF OpenCreate, ListTypeOK, Histories
  <2> QED BY <1>1, <2>1, <2>2
<1>3. ASSUME NEW p \in Posts, SubmissionFails(p)
      PROVE  TableInv'
  <2>1. Still
    BY <1>3 DEF SubmissionFails, controls, table
  <2>2. CASE hist' = hist
    BY <1>1, <2>1, <2>2
  <2>3. CASE hist' # hist
    <3> DEFINE h == [hist EXCEPT !.drift = @ \cup {"unanswered"}]
    <3>1. hist' = [h EXCEPT !.lost = IF posts[p].open THEN @ + 1 ELSE @]
      BY <1>3, <2>3 DEF SubmissionFails, Missing
    <3>2. /\ h \in Histories /\ h.newest = hist.newest /\ h.overrun = hist.overrun
          /\ h.drift = hist.drift \cup {"unanswered"}
      BY DEF ListTypeOK, Histories
    <3> HIDE DEF h
    <3>3. /\ hist'.newest = h.newest /\ hist'.overrun = h.overrun /\ hist'.drift = h.drift
      BY <3>1, <3>2 DEF Histories
    <3> QED BY <1>1, <2>1, <3>2, <3>3
  <2> QED BY <2>2, <2>3
<1>4. ASSUME NEW p \in Posts, NEW s \in Loads, Saved(p, s)
      PROVE  TableInv'
  <2>1. UNCHANGED <<page, rows, search, emitted, timer, filter, pageSize, sort>>
    BY <1>4 DEF Saved
  <2>2. Query \in Queries
    BY QueryType
  <2>3. /\ Query.search = search' /\ Query.size = pageSize' /\ Query.sort = sort'
        /\ Query.filter = IF page' = "organizations" THEN Every ELSE filter'
    BY <2>1, QueryFields
  <2>4. TextEmitted'
    BY <2>1 DEF TableInv, TextEmitted, Settled
  <2>5. CASE posts[p].kind = "create" /\ ResetAndLoad(s, Query) /\ hist' = SentFirstPage(s, hist)
    BY <2>1, <2>2, <2>3, <2>4, <2>5, FirstPageStep DEF ResetAndLoad
  <2>6. CASE Load(s, Query) /\ hist' = SentSamePage(s, hist) /\ UNCHANGED pageIndex
    <3>1. Query.index = pageIndex'
      BY <2>6, QueryFields
    <3> QED BY <2>1, <2>2, <2>3, <2>6, <3>1, SamePageStep
  <2> QED BY <1>4, <2>5, <2>6 DEF Saved
<1>5. ASSUME UNCHANGED <<page, rows, controls, table, hist>>
      PROVE  TableInv'
  BY <1>1, <1>5 DEF controls, table
<1>6. ASSUME NEW r \in Rows, OpenEdit(r) \/ AskRemoval(r)
      PROVE  TableInv'
  BY <1>5, <1>6 DEF OpenEdit, AskRemoval
<1>7. ASSUME NEW p \in Posts, NEW v \in Inputs, Save(p, v)
      PROVE  TableInv'
  BY <1>5, <1>7 DEF Save
<1>8. ASSUME NEW p \in Posts, \/ Confirm(p) \/ SavedUnseen(p) \/ RemovalAnswered(p)
                              \/ SubmissionTimesOut(p)
      PROVE  TableInv'
  BY <1>5, <1>8 DEF Confirm, SavedUnseen, RemovalAnswered, SubmissionTimesOut
<1>9. CASE Dismiss
  BY <1>5, <1>9 DEF Dismiss
<1> QED BY <1>2, <1>3, <1>4, <1>6, <1>7, <1>8, <1>9 DEF Dialogs

\* The first load asks for the first page.
LEMMA TableInit == Init => TableInv
<1> SUFFICES ASSUME Init PROVE TableInv
  OBVIOUS
<1> USE DEF Init
<1>1. ListInv
  BY InitSound
<1> USE <1>1 DEF ListInv
<1>2. PICK s \in Loads :
        /\ loads = [l \in Loads |-> IF l = s THEN Request(FirstQuery) ELSE Null]
        /\ hist = [newest |-> s, drift |-> {}, overrun |-> FALSE, made |-> 0, lost |-> 0]
  BY DEF FirstLoad
<1>3. hist.newest = s /\ s # "shown" /\ ~hist.overrun
  BY <1>2, ListAssumption
<1>4. loads[s] = Request(FirstQuery) /\ \A l \in Loads \ {s} : loads[l] = Null
  BY <1>2
<1>5. /\ loads[s].q = FirstQuery /\ loads[s].items = Null /\ loads[s].total = Null
      /\ loads[s] # Null
  BY <1>4, FirstQueryType, RequestFields, RequestType
<1>6. Query = FirstQuery
  BY DEF Query, TicketQuery, UserQuery, OrganizationQuery, FirstQuery, Pages
<1>7. FirstQuery.index = 0
  BY DEF FirstQuery
<1>8. NewestInFlight /\ RowsFirst /\ NewestAsked /\ ShownAsked /\ ShownWithin
  BY <1>3, <1>4, <1>5, <1>6
     DEF NewestInFlight, RowsFirst, NewestAsked, ShownAsked, ShownWithin
<1>9. TextEmitted
  BY DEF TextEmitted, Settled
<1>a. PageWithin
  BY <1>9, SettledFields DEF SettledIs, PageWithin, Within
<1>b. LoadWithin
  BY <1>3, <1>5, <1>7 DEF LoadWithin, Within
<1> QED BY <1>8, <1>9, <1>a, <1>b DEF TableInv

\* Every step keeps the table.
LEMMA TableNext == ListInv /\ ListInv' /\ TableInv /\ [Next]_vars => TableInv'
<1> SUFFICES ASSUME ListInv, ListInv', TableInv, [Next]_vars PROVE TableInv'
  OBVIOUS
<1>1. CASE UNCHANGED vars
  <2>1. UNCHANGED <<page, rows, search, emitted, timer, filter, pageIndex, pageSize, sort, loads,
                    shown, hist>>
    BY <1>1 DEF vars, controls, table
  <2>2. Query' = Query
    BY <2>1 DEF Query, TicketQuery, UserQuery, OrganizationQuery
  <2>3. TextEmitted'
    BY <2>1 DEF TableInv, TextEmitted, Settled
  <2>4. PageWithin'
    BY <2>1, <2>3, PageKept DEF ListInv, TableInv
  <2> QED BY <2>1, <2>2, <2>3, <2>4, StillStep
<1> QED BY <1>1, ControlKeepsTable, ReplyKeepsTable, DialogsKeepTable, ServerKeepsTable DEF Next

\* The invariant of the table, for every number of rows, loads and submissions.
THEOREM TablesAreSound == Spec => []TableInv
<1>1. ListInv /\ ListInv' /\ TableInv /\ [Next]_vars => TableInv'
  BY TableNext
<1> QED BY <1>1, TableInit, ListPagesAreSound, PTL DEF Spec

\* Once nothing is pending the table shows the rows of the server that the
\* controls select, but for the exceptions the history names.
THEOREM TablesAreCurrent == Spec => []TableIsCurrent
<1>1. TableInv => TableIsCurrent
  <2> SUFFICES ASSUME TableInv, Quiet, hist.newest = "shown", hist.drift = {}
               PROVE  AsStored
    BY DEF TableIsCurrent
  <2>1. /\ shown.q = Query /\ shown.items = Items(shown.q)
        /\ shown.total = Cardinality(Where(shown.q))
    BY DEF TableInv, ShownAsked, Quiet
  <2> QED BY <2>1 DEF AsStored
<1> QED BY <1>1, TablesAreSound, PTL

\* No page is empty beside a total that is not zero, but for the exceptions the
\* history names.
THEOREM PagesAreNotEmpty == Spec => []NoEmptyPage
<1>1. TableInv => NoEmptyPage
  BY DEF TableInv, ShownWithin, NoEmptyPage
<1> QED BY <1>1, TablesAreSound, PTL
=============================================================================
