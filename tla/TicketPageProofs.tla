-------------------------- MODULE TicketPageProofs --------------------------
(***************************************************************************)
(* For every number of tickets, of notifications and of requests in        *)
(* flight: what is busy ends, a text is stored once, the page shows what   *)
(* the database has and the badge what is unread, unless it was not told.  *)
(***************************************************************************)
EXTENDS TicketPage, FiniteSetTheorems, SequenceTheorems, WellFoundedInduction, TLAPS

(* A write is answered with its row.                                       *)
Asked ==
    {r \in PageRequests \cup MenuRequests : r.kind \in Writes /\ r.got # Null => r.row # Null}

Histories ==
    [drift: SUBSET {"unheard", "late", "others"}, gap: SUBSET {"unheard", "limit", "others"},
     last: Slots \cup {"shown", Null}, drafts: Nat, lost: SUBSET Nat,
     miscounts: SUBSET {"arrived", "crossed", "twice", "lost"}]

PageTypeOK ==
    /\ rows \in [Tickets -> Rows]
    /\ comments \in [Tickets -> Seq(Drafts)]
    /\ inbox \in [Notes -> {"none", "unread", "read"}]
    /\ url \in Tickets \cup {Null}
    /\ ticket \in Views \cup {Null}
    /\ loading \in BOOLEAN /\ posting \in BOOLEAN
    /\ draft \in Nat
    /\ dialog \in {"none", "open", "saving"}
    /\ dialog # "none" => ticket # Null
    /\ requests \in [Slots -> Asked \cup {Null}]
    /\ hist \in Histories

(* A live request of a kind, and a comment the API is still to store.      *)
Live(s, kind) == requests[s] # Null /\ requests[s].live /\ requests[s].kind = kind
ToStore(s) == Waiting(s, "comment")

(* The page waits for one answer of a kind at a time, it writes the ticket *)
(* that it shows, and away from it nobody waits.                           *)
OneAtATime ==
    /\ \A k \in {"load", "comment", "edit"}, s, r \in Slots :
          Live(s, k) /\ Live(r, k) => s = r
    /\ ticket = Null => \A s \in Slots, k \in Writes : ~Live(s, k)
    /\ url = Null =>
          /\ ~loading /\ ~posting /\ dialog = "none"
          /\ \A s \in Slots, k \in PageKinds : ~Live(s, k)

(* Drafts are numbered, and the form holds the newest.                     *)
Stored(d) == \E t \in Tickets : \E i \in DOMAIN comments[t] : comments[t][i].draft = d
Numbered ==
    /\ url # Null => draft = hist.drafts /\ draft > 0
    /\ \A t \in Tickets : \A i \in DOMAIN comments[t] : comments[t][i].draft <= hist.drafts
    /\ \A s \in Slots : requests[s] # Null /\ requests[s].kind = "comment" =>
          /\ requests[s].arg.draft \in 1 .. hist.drafts
          /\ requests[s].live => requests[s].arg.draft = draft

(* A draft that is still to be stored has not been, nor will it be by      *)
(* another request, unless an answer got lost.                             *)
ToStoreOnce ==
    /\ \A s \in Slots : ToStore(s) /\ requests[s].arg.draft \notin hist.lost =>
          /\ ~Stored(requests[s].arg.draft)
          /\ \A r \in Slots : ToStore(r) /\ requests[r].arg.draft = requests[s].arg.draft
                => r = s
    /\ url # Null /\ ~posting /\ draft \notin hist.lost =>
          /\ ~Stored(draft)
          /\ \A s \in Slots : ToStore(s) => requests[s].arg.draft # draft

PageInv ==
    /\ PageTypeOK
    /\ BusyEnds
    /\ OneAtATime
    /\ Numbered
    /\ ToStoreOnce
    /\ OneCommentPerDraft

-----------------------------------------------------------------------------

(* What is known of a request by its kind.                                 *)
LEMMA AskedFacts ==
    ASSUME NEW r \in Asked
    PROVE  /\ r # Null /\ r.live \in BOOLEAN
           /\ r.kind \in PageKinds \cup Readings \cup {"count", "list"}
           /\ r.kind \in PageKinds => r.to \in Tickets
           /\ r.kind = "status" => r.arg \in Statuses
           /\ r.kind = "assign" => r.arg \in Staff
           /\ r.kind = "edit" => r.arg \in Texts
           /\ r.kind = "comment" => r.arg \in Drafts
           /\ r.kind \in {"load"} \cup Writes => r.row \in Rows \cup {Null}
           /\ r.kind \in Writes /\ r.got # Null => r.row # Null
           /\ r.kind = "load" => r.got \in (SUBSET Nat) \cup {Null}
           /\ r.kind = "read" => r.to \in Notes
  BY TicketPageAssumption
  DEF Asked, PageRequests, MenuRequests, Asking, PageKinds, Writes, Readings

(* What the page and the menu send.                                        *)
LEMMA SentFacts ==
    ASSUME NEW kind, NEW to, NEW arg
    PROVE  /\ Request(kind, to, arg).kind = kind /\ Request(kind, to, arg).to = to
           /\ Request(kind, to, arg).arg = arg /\ Request(kind, to, arg).live
           /\ Request(kind, to, arg).got = Null
  BY DEF Request

(* All of it is what the model says a request may be.                    *)
LEMMA SentAsked ==
    /\ \A t \in Tickets :
          /\ Request("load", t, Null) \in Asked
          /\ \A x \in Statuses : Request("status", t, x) \in Asked
          /\ \A x \in Staff : Request("assign", t, x) \in Asked
          /\ \A x \in Texts : Request("edit", t, x) \in Asked
          /\ \A x \in Drafts : Request("comment", t, x) \in Asked
    /\ Request("count", Null, Null) \in Asked
    /\ Request("list", Null, Null) \in Asked
    /\ \A n \in Notes : Request("read", n, Null) \in Asked
    /\ Request("readall", Null, Null) \in Asked
<1>1. ASSUME NEW t \in Tickets
      PROVE  /\ Request("load", t, Null) \in PageRequests
             /\ \A x \in Statuses : Request("status", t, x) \in PageRequests
             /\ \A x \in Staff : Request("assign", t, x) \in PageRequests
             /\ \A x \in Texts : Request("edit", t, x) \in PageRequests
             /\ \A x \in Drafts : Request("comment", t, x) \in PageRequests
  BY DEF Request, PageRequests, Asking
<1>2. /\ Request("count", Null, Null) \in MenuRequests
      /\ Request("list", Null, Null) \in MenuRequests
      /\ \A n \in Notes : Request("read", n, Null) \in MenuRequests
      /\ Request("readall", Null, Null) \in MenuRequests
  BY DEF Request, MenuRequests, Asking
<1> QED BY <1>1, <1>2, SentFacts DEF Asked

(* A request stays what it is while it is served or left behind.           *)
LEMMA Orphaning ==
    ASSUME NEW r \in Asked
    PROVE  /\ [r EXCEPT !.live = FALSE] \in Asked
           /\ [r EXCEPT !.live = FALSE].kind = r.kind
           /\ [r EXCEPT !.live = FALSE].arg = r.arg
           /\ [r EXCEPT !.live = FALSE].got = r.got
           /\ ~[r EXCEPT !.live = FALSE].live
  BY DEF Asked, PageRequests, MenuRequests, Asking, Writes

(* A request to load is still one with the row in it.                    *)
LEMMA RowRead ==
    ASSUME NEW r \in Asked, r.kind = "load", NEW row \in Rows
    PROVE  /\ [r EXCEPT !.row = row] \in Asked
           /\ [r EXCEPT !.row = row].kind = r.kind
           /\ [r EXCEPT !.row = row].live = r.live
  BY DEF Asked, PageRequests, MenuRequests, Asking, Writes

(* An answer that belongs to a request leaves it one.                    *)
LEMMA Serving ==
    ASSUME NEW r \in Asked, NEW x,
           \/ r.kind = "load" /\ x \in SUBSET Nat
           \/ r.kind = "comment" /\ x \in References
           \/ r.kind = "count" /\ x \in Nat
           \/ r.kind = "list" /\ x \in UNION {[S -> {"unread", "read"}] : S \in SUBSET Notes}
           \/ r.kind \in Readings /\ x = TRUE
    PROVE  /\ [r EXCEPT !.got = x] \in Asked
           /\ [r EXCEPT !.got = x].kind = r.kind
           /\ [r EXCEPT !.got = x].arg = r.arg
           /\ [r EXCEPT !.got = x].live = r.live
           /\ [r EXCEPT !.got = x].got = x
<1>1. CASE r.kind = "load"
  <2> DEFINE Own == Asking("load", Tickets, {Null}, Rows, SUBSET Nat)
  <2>1. r \in Own /\ x \in SUBSET Nat
    BY <1>1 DEF Asked, PageRequests, MenuRequests, Asking, Readings, Writes
  <2>2. [r EXCEPT !.got = x] \in Own
    BY <2>1 DEF Asking
  <2>3. Own \subseteq Asked
    BY DEF Asked, PageRequests, Asking, Writes
  <2> QED BY <2>1, <2>2, <2>3 DEF Asking
<1>2. CASE r.kind = "comment"
  <2> DEFINE Own == Asking("comment", Tickets, Drafts, {}, References)
  <2>1. r \in Own /\ x \in References
    BY <1>2 DEF Asked, PageRequests, MenuRequests, Asking, Readings, Writes
  <2>2. [r EXCEPT !.got = x] \in Own
    BY <2>1 DEF Asking
  <2>3. Own \subseteq Asked
    BY DEF Asked, PageRequests, Asking, Writes
  <2> QED BY <2>1, <2>2, <2>3 DEF Asking
<1>3. CASE r.kind = "count"
  <2> DEFINE Own == Asking("count", {Null}, {Null}, {}, Nat)
  <2>1. r \in Own /\ x \in Nat
    BY <1>3 DEF Asked, PageRequests, MenuRequests, Asking, Readings, Writes
  <2>2. [r EXCEPT !.got = x] \in Own
    BY <2>1 DEF Asking
  <2>3. Own \subseteq Asked
    BY DEF Asked, MenuRequests, Asking, Writes
  <2> QED BY <2>1, <2>2, <2>3 DEF Asking
<1>4. CASE r.kind = "list"
  <2> DEFINE Own == Asking("list", {Null}, {Null}, {},
                           UNION {[S -> {"unread", "read"}] : S \in SUBSET Notes})
  <2>1. r \in Own /\ x \in UNION {[S -> {"unread", "read"}] : S \in SUBSET Notes}
    BY <1>4 DEF Asked, PageRequests, MenuRequests, Asking, Readings, Writes
  <2>2. [r EXCEPT !.got = x] \in Own
    BY <2>1 DEF Asking
  <2>3. Own \subseteq Asked
    BY DEF Asked, MenuRequests, Asking, Writes
  <2> QED BY <2>1, <2>2, <2>3 DEF Asking
<1>5. CASE r.kind \in Readings
  BY <1>5 DEF Asked, PageRequests, MenuRequests, Asking, Readings, Writes
<1> QED BY <1>1, <1>2, <1>3, <1>4, <1>5

(* A write is answered with a row.                                       *)
LEMMA Writing ==
    ASSUME NEW r \in Asked, r.kind \in Writes, NEW row \in Rows
    PROVE  /\ [[r EXCEPT !.row = row] EXCEPT !.got = TRUE] \in Asked
           /\ [[r EXCEPT !.row = row] EXCEPT !.got = TRUE].kind = r.kind
           /\ [[r EXCEPT !.row = row] EXCEPT !.got = TRUE].live = r.live
           /\ Written(r, row) \in Rows
<1>1. Written(r, row) \in Rows
  BY AskedFacts, TicketPageAssumption DEF Written, Writes, Rows
<1>2. /\ [r EXCEPT !.row = row] \in Asked
      /\ [r EXCEPT !.row = row].kind = r.kind
      /\ [r EXCEPT !.row = row].live = r.live
      /\ [r EXCEPT !.row = row].row # Null
  BY TicketPageAssumption DEF Asked, PageRequests, MenuRequests, Asking, Writes
<1>3. \A q \in Asked : q.kind \in Writes /\ q.row # Null =>
        /\ [q EXCEPT !.got = TRUE] \in Asked
        /\ [q EXCEPT !.got = TRUE].kind = q.kind
        /\ [q EXCEPT !.got = TRUE].live = q.live
  BY DEF Asked, PageRequests, MenuRequests, Asking, Writes
<1> QED BY <1>1, <1>2, <1>3

-----------------------------------------------------------------------------

(* Who is busy, slot by slot.                                              *)
LEMMA BusySlots ==
    /\ \A k : InFlight({k}) # {} <=> \E s \in Slots : Live(s, k)
    /\ \A s, ks : s \in InFlight(ks) <=> s \in Slots /\ \E k \in ks : Live(s, k)
  BY DEF InFlight, Live

(* The same of the next state.                                           *)
LEMMA BusyThen ==
    BusyEnds' <=> /\ loading' <=> \E s \in Slots : Live(s, "load")'
                  /\ posting' <=> \E s \in Slots : Live(s, "comment")'
                  /\ dialog' = "saving" <=> \E s \in Slots : Live(s, "edit")'
  BY DEF BusyEnds, InFlight, Live

(* The same of this state.                                               *)
LEMMA BusyNow ==
    BusyEnds <=> /\ loading <=> \E s \in Slots : Live(s, "load")
                 /\ posting <=> \E s \in Slots : Live(s, "comment")
                 /\ dialog = "saving" <=> \E s \in Slots : Live(s, "edit")
  BY DEF BusyEnds, InFlight, Live

(* The comment requests are those there were, or fewer.                    *)
NoNewComment ==
    \A s \in Slots : requests'[s] # Null /\ requests'[s].kind = "comment" =>
        /\ requests[s] # Null /\ requests[s].kind = "comment"
        /\ requests'[s].arg = requests[s].arg
        /\ requests'[s].live => requests[s].live
        /\ requests'[s].got = Null => requests[s].got = Null

(* What leaves the forms of the page and the stored comments alone keeps   *)
(* the invariant.                                                          *)
LEMMA Kept ==
    ASSUME PageInv, PageTypeOK', NoNewComment,
           url' = Null <=> url = Null,
           UNCHANGED <<ticket, loading, posting, draft, dialog, comments>>,
           hist'.drafts = hist.drafts, hist'.lost = hist.lost,
           \A s \in Slots, k \in {"load", "comment", "edit"} : Live(s, k)' <=> Live(s, k),
           \A s \in Slots, k \in PageKinds :
              Live(s, k)' => Live(s, k) \/ (url # Null /\ ticket # Null)
    PROVE  PageInv'
<1> USE DEF PageInv
<1>1. BusyEnds'
  BY BusyNow, BusyThen
<1>2. OneAtATime'
  BY DEF OneAtATime, PageKinds, Writes
<1>3. Numbered'
  BY DEF Numbered, NoNewComment
<1>4. \A s \in Slots : ToStore(s)' => ToStore(s) /\ requests'[s].arg = requests[s].arg
  BY DEF ToStore, Waiting, NoNewComment
<1>5. \A d : Stored(d)' <=> Stored(d)
  BY DEF Stored
<1>6. ToStoreOnce'
  BY <1>4, <1>5 DEF ToStoreOnce
<1>7. OneCommentPerDraft'
  BY DEF OneCommentPerDraft
<1> QED BY <1>1, <1>2, <1>3, <1>6, <1>7

(* One slot changes.                                                       *)
LEMMA SentSlot ==
    ASSUME PageInv, NEW s \in Slots, NEW r \in Asked, Send(s, r), r.kind # "comment"
    PROVE  /\ requests' \in [Slots -> Asked \cup {Null}] /\ NoNewComment
           /\ \A q \in Slots : \A k : Live(q, k)' <=> IF q = s THEN r.live /\ r.kind = k ELSE Live(q, k)
           /\ \A k : ~Live(s, k)
<1>1. requests' = [requests EXCEPT ![s] = r] /\ requests[s] = Null
  BY DEF Send
<1>2. r # Null
  BY AskedFacts
<1>3. requests'[s] = r /\ \A q \in Slots \ {s} : requests'[q] = requests[q]
  BY <1>1 DEF PageInv, PageTypeOK
<1> QED BY <1>1, <1>2, <1>3 DEF Live, PageInv, PageTypeOK, NoNewComment

(* One slot is emptied.                                                  *)
LEMMA DoneSlot ==
    ASSUME PageInv, NEW s \in Slots, requests' = [requests EXCEPT ![s] = Null]
    PROVE  /\ requests' \in [Slots -> Asked \cup {Null}] /\ NoNewComment
           /\ requests'[s] = Null /\ \A q \in Slots \ {s} : requests'[q] = requests[q]
           /\ \A q \in Slots : \A k : Live(q, k)' <=> q # s /\ Live(q, k)
<1>1. requests'[s] = Null /\ \A q \in Slots \ {s} : requests'[q] = requests[q]
  BY DEF PageInv, PageTypeOK
<1> QED BY <1>1 DEF Live, PageInv, PageTypeOK, NoNewComment

(* One slot gets its answer, or part of it.                              *)
LEMMA ServedSlot ==
    ASSUME PageInv, NEW s \in Slots, NEW r \in Asked, requests[s] # Null,
           requests' = [requests EXCEPT ![s] = r],
           r.kind = requests[s].kind, r.live = requests[s].live, r.arg = requests[s].arg,
           r.got = Null => requests[s].got = Null
    PROVE  /\ requests' \in [Slots -> Asked \cup {Null}] /\ NoNewComment
           /\ requests'[s] = r /\ \A q \in Slots \ {s} : requests'[q] = requests[q]
           /\ \A q \in Slots : \A k : Live(q, k)' <=> Live(q, k)
<1>1. requests'[s] = r /\ \A q \in Slots \ {s} : requests'[q] = requests[q]
  BY DEF PageInv, PageTypeOK
<1>2. r # Null
  BY AskedFacts
<1> QED BY <1>1, <1>2 DEF Live, PageInv, PageTypeOK, NoNewComment

-----------------------------------------------------------------------------
(* The menu.                                                               *)

(* A reason why the badge may be off changes nothing else.               *)
LEMMA MissesType ==
    ASSUME NEW h \in Histories, NEW m \in SUBSET {"arrived", "crossed", "twice", "lost"}
    PROVE  /\ [h EXCEPT !.miscounts = m] \in Histories
           /\ [h EXCEPT !.miscounts = m].drafts = h.drafts
           /\ [h EXCEPT !.miscounts = m].lost = h.lost
  BY DEF Histories

(* A step of the menu or of the worker that stays on the page.             *)
LEMMA MenuKept ==
    ASSUME PageInv, NoNewComment,
           requests' \in [Slots -> Asked \cup {Null}],
           \A s \in Slots, k \in PageKinds : Live(s, k)' <=> Live(s, k),
           UNCHANGED <<rows, comments, place, page>>,
           inbox' \in [Notes -> {"none", "unread", "read"}],
           \/ hist' = hist
           \/ \E m \in SUBSET {"arrived", "crossed", "twice", "lost"} :
                 hist' = [hist EXCEPT !.miscounts = m]
    PROVE  PageInv'
<1>0. hist \in Histories
  BY DEF PageInv, PageTypeOK
<1>1. /\ hist' \in Histories /\ hist'.drafts = hist.drafts /\ hist'.lost = hist.lost
  <2>1. ASSUME NEW m \in SUBSET {"arrived", "crossed", "twice", "lost"},
               hist' = [hist EXCEPT !.miscounts = m]
        PROVE  /\ hist' \in Histories /\ hist'.drafts = hist.drafts /\ hist'.lost = hist.lost
    BY <1>0, <2>1, MissesType, Zenon
  <2> QED BY <1>0, <2>1, Zenon
<1>2. PageTypeOK'
  BY <1>1 DEF PageInv, PageTypeOK, place, page
<1>3. {"load", "comment", "edit"} \subseteq PageKinds
  BY DEF PageKinds
<1>4. UNCHANGED <<ticket, loading, posting, draft, dialog, comments>> /\ url' = url
  BY DEF place, page
<1>5. /\ \A s \in Slots, k \in {"load", "comment", "edit"} : Live(s, k)' <=> Live(s, k)
      /\ \A s \in Slots, k \in PageKinds :
            Live(s, k)' => Live(s, k) \/ (url # Null /\ ticket # Null)
  BY <1>3
<1> QED BY <1>1, <1>2, <1>4, <1>5, Kept

(* OpenMenu, MarkAllRead and OpenUnread only ask for something of the    *)
(* menu.                                                                 *)
LEMMA MenuSends ==
    ASSUME PageInv, NEW s \in Slots,
           OpenMenu(s) \/ MarkAllRead(s) \/ \E n \in Notes : OpenUnread(s, n)
    PROVE  PageInv'
<1>1. PICK r \in Asked : Send(s, r) /\ r.kind \notin PageKinds
  BY SentAsked, SentFacts DEF OpenMenu, MarkAllRead, OpenUnread, PageKinds
<1>2. UNCHANGED <<database, place, page, hist>>
  BY DEF OpenMenu, MarkAllRead, OpenUnread, layout
<1>3. r.kind # "comment"
  BY <1>1 DEF PageKinds
<1> QED BY <1>1, <1>2, <1>3, SentSlot, MenuKept DEF database, PageInv, PageTypeOK

(* The API serves the menu.                                              *)
LEMMA MenuServed ==
    ASSUME PageInv, NEW s \in Slots,
           ServeCount(s) \/ ServeList(s) \/ ServeRead(s) \/ ServeReadAll(s)
    PROVE  PageInv'
<1>1. requests[s] # Null /\ requests[s] \in Asked
  BY DEF ServeCount, ServeList, ServeRead, ServeReadAll, Waiting, PageInv, PageTypeOK
<1>2. PICK x : /\ requests' = [requests EXCEPT ![s] = [requests[s] EXCEPT !.got = x]]
               /\ \/ requests[s].kind = "count" /\ x \in Nat
                  \/ /\ requests[s].kind = "list"
                     /\ x \in UNION {[S -> {"unread", "read"}] : S \in SUBSET Notes}
                  \/ requests[s].kind \in Readings /\ x = TRUE
  <2>1. CASE ServeCount(s)
    <3>1. Cardinality(Unread) \in Nat
      BY TicketPageAssumption, FS_Subset, FS_CardinalityType DEF Unread
    <3> QED BY <2>1, <3>1 DEF ServeCount, Waiting
  <2>2. CASE ServeList(s)
    <3>1. \A n \in Newest : inbox[n] \in {"unread", "read"}
      BY DEF Newest, Existing, PageInv, PageTypeOK
    <3> DEFINE x == [n \in Newest |-> inbox[n]]
    <3>2. x \in [Newest -> {"unread", "read"}]
      BY <3>1
    <3>3. Newest \in SUBSET Notes
      BY DEF Newest, Existing
    <3>4. x \in UNION {[S -> {"unread", "read"}] : S \in SUBSET Notes}
      BY <3>2, <3>3
    <3>5. /\ requests[s].kind = "list"
          /\ requests' = [requests EXCEPT ![s] = [requests[s] EXCEPT !.got = x]]
      BY <2>2 DEF ServeList, Waiting
    <3> HIDE DEF x
    <3> QED BY <3>4, <3>5
  <2>3. CASE ServeRead(s) \/ ServeReadAll(s)
    BY <2>3 DEF ServeRead, ServeReadAll, Waiting, Readings
  <2> QED BY <2>1, <2>2, <2>3
<1>3. requests[s].got = Null
  BY DEF ServeCount, ServeList, ServeRead, ServeReadAll, Waiting
<1>4. /\ requests' \in [Slots -> Asked \cup {Null}] /\ NoNewComment
      /\ \A q \in Slots : \A k : Live(q, k)' <=> Live(q, k)
  <2> DEFINE r == [requests[s] EXCEPT !.got = x]
  <2>1. /\ r \in Asked /\ r.kind = requests[s].kind
        /\ r.arg = requests[s].arg /\ r.live = requests[s].live
    BY <1>1, <1>2, Serving
  <2>2. requests' = [requests EXCEPT ![s] = r]
    BY <1>2
  <2> HIDE DEF r
  <2> QED BY <1>1, <1>3, <2>1, <2>2, ServedSlot
<1>5. UNCHANGED <<rows, comments, place, page>>
  <2>1. CASE ServeCount(s) \/ ServeList(s)
    BY <2>1 DEF ServeCount, ServeList, database
  <2>2. CASE ServeRead(s) \/ ServeReadAll(s)
    BY <2>2 DEF ServeRead, ServeReadAll
  <2> QED BY <2>1, <2>2
<1>6. inbox' \in [Notes -> {"none", "unread", "read"}]
  BY DEF ServeCount, ServeList, ServeRead, ServeReadAll, database, Unread, PageInv, PageTypeOK
<1>7. \/ hist' = hist
      \/ \E m \in SUBSET {"arrived", "crossed", "twice", "lost"} :
            hist' = [hist EXCEPT !.miscounts = m]
  <2>1. hist.miscounts \in SUBSET {"arrived", "crossed", "twice", "lost"}
    BY DEF PageInv, PageTypeOK, Histories
  <2> QED BY <2>1 DEF ServeCount, ServeList, ServeRead, ServeReadAll
<1> QED BY <1>4, <1>5, <1>6, <1>7, MenuKept

(* The menu gets its answer, or none.                                    *)
LEMMA MenuAnswered ==
    ASSUME PageInv, NEW s \in Slots,
           AnswerCount(s) \/ AnswerList(s) \/ AnswerReadAll(s) \/ LayoutFails(s)
    PROVE  PageInv'
<1>1. /\ requests' = [requests EXCEPT ![s] = Null]
      /\ UNCHANGED <<database, place, page>>
  BY DEF AnswerCount, AnswerList, AnswerReadAll, LayoutFails, Done
<1>2. \A k \in PageKinds : ~Live(s, k)
  BY DEF AnswerCount, AnswerList, AnswerReadAll, LayoutFails, Answered, Handled, Live, PageKinds
<1>3. \/ hist' = hist
      \/ \E m \in SUBSET {"arrived", "crossed", "twice", "lost"} :
            hist' = [hist EXCEPT !.miscounts = m]
  <2>1. hist.miscounts \in SUBSET {"arrived", "crossed", "twice", "lost"}
    BY DEF PageInv, PageTypeOK, Histories
  <2> QED BY <2>1 DEF AnswerCount, AnswerList, AnswerReadAll, LayoutFails, Crossing
<1> QED BY <1>1, <1>2, <1>3, DoneSlot, MenuKept DEF database, PageInv, PageTypeOK

(* The menu closes; the worker stores a notification.                    *)
LEMMA OthersElsewhere ==
    ASSUME PageInv, CloseMenu \/ \E n \in Notes : Arrives(n)
    PROVE  PageInv'
<1>1. UNCHANGED <<rows, comments, place, page, requests>>
  BY DEF CloseMenu, Arrives, database
<1>2. inbox' \in [Notes -> {"none", "unread", "read"}]
  BY DEF CloseMenu, Arrives, database, PageInv, PageTypeOK
<1>3. \/ hist' = hist
      \/ \E m \in SUBSET {"arrived", "crossed", "twice", "lost"} :
            hist' = [hist EXCEPT !.miscounts = m]
  <2>1. hist.miscounts \in SUBSET {"arrived", "crossed", "twice", "lost"}
    BY DEF PageInv, PageTypeOK, Histories
  <2> QED BY <2>1 DEF CloseMenu, Arrives
<1> QED BY <1>1, <1>2, <1>3, MenuKept DEF NoNewComment, Live, PageInv, PageTypeOK

-----------------------------------------------------------------------------
(* Getting to the page and away from it.                                   *)

(* What is stored has a number.                                            *)
LEMMA StoredFacts ==
    ASSUME PageTypeOK
    PROVE  \A u \in Tickets : \A i \in DOMAIN comments[u] :
              comments[u][i].internal \in BOOLEAN /\ comments[u][i].draft \in Nat
<1>1. ASSUME NEW u \in Tickets, NEW i \in DOMAIN comments[u]
      PROVE  comments[u][i] \in Drafts
  BY <1>1, ElementOfSeq, LenProperties DEF PageTypeOK
<1> QED BY <1>1 DEF Drafts

(* What is left of the requests when one of them may have been answered.   *)
Left(pending) ==
    /\ pending \in [Slots -> Asked \cup {Null}]
    /\ \A q \in Slots : \/ pending[q] = requests[q]
                        \/ /\ pending[q] = Null /\ requests[q] # Null
                           /\ requests[q].kind = "read"

(* The page opens with a request of its own and a new, unused draft.     *)
LEMMA OpenStep ==
    ASSUME PageInv, url = Null, NEW s \in Slots, NEW t \in Tickets, NEW pending, NEW h,
           Open(s, t, pending, h), Left(pending),
           h \in Histories, h.drafts = hist.drafts, h.lost = hist.lost,
           UNCHANGED database
    PROVE  PageInv'
<1> USE DEF PageInv
<1>1. /\ url' = t /\ ticket' = Null /\ posting' = FALSE /\ dialog' = "none"
      /\ draft' = hist.drafts + 1 /\ loading' = TRUE
      /\ requests' = [pending EXCEPT ![s] = Request("load", t, Null)]
      /\ UNCHANGED <<rows, comments, inbox>>
  BY DEF Open, Blank, database
<1>2. /\ hist' \in Histories /\ hist'.lost = hist.lost /\ hist'.drafts = hist.drafts + 1
      /\ hist.drafts \in Nat
  <2> DEFINE f == [h EXCEPT !.drift = {}, !.gap = {}]
             g == [f EXCEPT !.last = Null]
  <2>1. hist' = [g EXCEPT !.drafts = @ + 1]
    BY DEF Open
  <2>2. f \in Histories /\ f.drafts = h.drafts /\ f.lost = h.lost
    BY DEF Histories
  <2> HIDE DEF f
  <2>3. g \in Histories /\ g.drafts = h.drafts /\ g.lost = h.lost
    BY <2>2 DEF Histories
  <2> HIDE DEF g
  <2> QED BY <2>1, <2>3 DEF Histories
<1>3. /\ requests' \in [Slots -> Asked \cup {Null}]
      /\ requests'[s] = Request("load", t, Null) /\ requests'[s] # Null
      /\ \A q \in Slots \ {s} : requests'[q] = pending[q]
  BY <1>1, SentAsked, AskedFacts DEF Left
<1>4. PageTypeOK'
  <2>1. draft' \in Nat
    BY <1>1, <1>2
  <2> QED BY <1>1, <1>2, <1>3, <2>1 DEF PageTypeOK
<1>5. \A q \in Slots, k \in PageKinds : Live(q, k)' <=> q = s /\ k = "load"
  <2>1. \A q \in Slots, k \in PageKinds : ~Live(q, k)
    BY DEF OneAtATime
  <2> QED BY <1>3, <2>1, SentFacts DEF Live, Left
<1>6. BusyEnds'
  BY <1>1, <1>5, BusyThen DEF PageKinds
<1>7. OneAtATime'
  BY <1>1, <1>5, TicketPageAssumption DEF OneAtATime, PageKinds, Writes
<1>8. \A q \in Slots : requests'[q] # Null /\ requests'[q].kind = "comment" =>
         /\ requests[q] # Null /\ requests'[q] = requests[q] /\ ~requests'[q].live
  BY <1>3, <1>5, SentFacts DEF Left, Live, PageKinds
<1>9. Numbered'
  <2>1. \A u \in Tickets : \A i \in DOMAIN comments[u] :
           comments[u][i].draft \in Nat /\ comments[u][i].draft <= hist.drafts
    BY StoredFacts DEF Numbered
  <2>2. \A q \in Slots : requests'[q] # Null /\ requests'[q].kind = "comment" =>
           requests'[q].arg.draft \in 1 .. hist.drafts /\ ~requests'[q].live
    BY <1>8 DEF Numbered
  <2>3. url' # Null => draft' = hist'.drafts /\ draft' > 0
    BY <1>1, <1>2
  <2>4. \A u \in Tickets : \A i \in DOMAIN comments'[u] : comments'[u][i].draft <= hist'.drafts
    BY <1>1, <1>2, <2>1
  <2>5. \A q \in Slots : requests'[q] # Null /\ requests'[q].kind = "comment" =>
           /\ requests'[q].arg.draft \in 1 .. hist'.drafts
           /\ requests'[q].live => requests'[q].arg.draft = draft'
    BY <1>2, <2>2
  <2> QED BY <2>3, <2>4, <2>5 DEF Numbered
<1>10. \A d : Stored(d)' <=> Stored(d)
  BY <1>1 DEF Stored
<1>11. \A q \in Slots : ToStore(q)' =>
         ToStore(q) /\ requests'[q].arg = requests[q].arg /\ requests[q].arg.draft # draft'
  BY <1>1, <1>2, <1>8 DEF ToStore, Waiting, Numbered
<1>12. ~Stored(draft')
  BY <1>1, <1>2, StoredFacts DEF Stored, Numbered
<1>13. ToStoreOnce'
  BY <1>2, <1>10, <1>11, <1>12 DEF ToStoreOnce
<1>14. OneCommentPerDraft'
  BY <1>1, <1>2 DEF OneCommentPerDraft
<1> QED BY <1>4, <1>6, <1>7, <1>9, <1>13, <1>14

(* A notification leads to the page, or only changes the id in the URL.  *)
LEMMA FollowStep ==
    ASSUME PageInv, NEW s \in Slots, NEW n \in Notes, NEW pending, NEW h,
           Follow(s, n, pending, h), Left(pending),
           h \in Histories, h.drafts = hist.drafts, h.lost = hist.lost,
           UNCHANGED database
    PROVE  PageInv'
<1>1. CASE TicketOf[n] # Null /\ url = Null
  <2>1. TicketOf[n] \in Tickets
    BY <1>1, TicketPageAssumption
  <2> QED BY <1>1, <2>1, OpenStep DEF Follow, GoTo
<1>2. CASE TicketOf[n] = Null \/ url # Null
  <2>1. /\ requests' = pending /\ hist' = h /\ UNCHANGED page
        /\ url' \in Tickets \cup {Null} /\ (url' = Null <=> url = Null)
    BY <1>2, TicketPageAssumption DEF Follow, GoTo, place, page, PageInv, PageTypeOK
  <2>2. PageTypeOK'
    BY <2>1 DEF page, database, Left, PageInv, PageTypeOK
  <2>3. NoNewComment /\ \A q \in Slots, k \in PageKinds : Live(q, k)' <=> Live(q, k)
    BY <2>1 DEF Left, NoNewComment, Live, PageKinds
  <2>4. {"load", "comment", "edit"} \subseteq PageKinds
    BY DEF PageKinds
  <2>5. UNCHANGED <<ticket, loading, posting, draft, dialog, comments>>
    BY <2>1 DEF page, database
  <2>6. /\ \A q \in Slots, k \in {"load", "comment", "edit"} : Live(q, k)' <=> Live(q, k)
        /\ \A q \in Slots, k \in PageKinds :
              Live(q, k)' => Live(q, k) \/ (url # Null /\ ticket # Null)
    BY <2>3, <2>4
  <2> QED BY <2>1, <2>2, <2>3, <2>5, <2>6, Kept
<1> QED BY <1>1, <1>2

(* The steps that may open the page.                                     *)
LEMMA Arrivals ==
    ASSUME PageInv, NEW s \in Slots,
           \/ \E t \in Tickets : OpenTicket(s, t)
           \/ \E n \in Notes : OpenRead(s, n)
           \/ AnswerRead(s) \/ ReadFails(s)
    PROVE  PageInv'
<1>1. hist \in Histories /\ Left(requests)
  BY DEF PageInv, PageTypeOK, Left
<1>2. CASE \E t \in Tickets : OpenTicket(s, t)
  BY <1>1, <1>2, OpenStep DEF OpenTicket
<1>3. CASE \E n \in Notes : OpenRead(s, n)
  BY <1>1, <1>3, FollowStep DEF OpenRead
<1>4. CASE AnswerRead(s) \/ ReadFails(s)
  <2>1. /\ requests[s] # Null /\ requests[s].kind = "read" /\ requests[s].to \in Notes
        /\ UNCHANGED database
    BY <1>4, AskedFacts DEF AnswerRead, ReadFails, Answered, Handled, PageInv, PageTypeOK
  <2>2. Left([requests EXCEPT ![s] = Null])
    BY <2>1, <1>1 DEF Left
  <2>3. \A m \in SUBSET {"arrived", "crossed", "twice", "lost"} :
           /\ [hist EXCEPT !.miscounts = m] \in Histories
           /\ [hist EXCEPT !.miscounts = m].drafts = hist.drafts
           /\ [hist EXCEPT !.miscounts = m].lost = hist.lost
    BY <1>1, MissesType
  <2>4. /\ Crossing \in SUBSET {"arrived", "crossed", "twice", "lost"}
        /\ hist.miscounts \cup {"lost"} \in SUBSET {"arrived", "crossed", "twice", "lost"}
    BY <1>1 DEF Crossing, Histories
  <2>5. CASE AnswerRead(s)
    BY <2>1, <2>2, <2>3, <2>4, <2>5, FollowStep DEF AnswerRead
  <2>6. CASE ReadFails(s)
    <3> DEFINE h == IF Handled(s) THEN [hist EXCEPT !.miscounts = @ \cup {"lost"}] ELSE hist
    <3>1. h \in Histories /\ h.drafts = hist.drafts /\ h.lost = hist.lost
      BY <1>1, <2>3, <2>4
    <3>2. Follow(s, requests[s].to, [requests EXCEPT ![s] = Null], h)
      BY <2>6 DEF ReadFails
    <3> HIDE DEF h
    <3> QED BY <2>1, <2>2, <3>1, <3>2, FollowStep
  <2> QED BY <1>4, <2>5, <2>6
<1> QED BY <1>2, <1>3, <1>4

-----------------------------------------------------------------------------
(* What the user does on the page.                                         *)

(* Nobody waits any more for answers of some kinds.                      *)
LEMMA OrphanSlots ==
    ASSUME PageInv, NEW ks, requests' = Orphaned(ks)
    PROVE  /\ requests' \in [Slots -> Asked \cup {Null}] /\ NoNewComment
           /\ \A s \in Slots : \A k : Live(s, k)' <=> Live(s, k) /\ k \notin ks
<1>1. ASSUME NEW s \in Slots, s \in InFlight(ks)
      PROVE  /\ requests[s] \in Asked /\ requests[s] # Null /\ requests[s].live
             /\ requests[s].kind \in ks
             /\ requests'[s] = [requests[s] EXCEPT !.live = FALSE] /\ requests'[s] # Null
  BY <1>1, Orphaning, AskedFacts DEF InFlight, Orphaned, PageInv, PageTypeOK
<1>2. ASSUME NEW s \in Slots, s \notin InFlight(ks)
      PROVE  /\ requests'[s] = requests[s] /\ requests[s] \in Asked \cup {Null}
             /\ requests[s] = Null \/ ~requests[s].live \/ requests[s].kind \notin ks
  BY <1>2 DEF InFlight, Orphaned, PageInv, PageTypeOK
<1>3. \A s \in Slots : requests'[s] \in Asked \cup {Null}
  BY <1>1, <1>2, Orphaning
<1>4. requests' \in [Slots -> Asked \cup {Null}]
  BY <1>3 DEF Orphaned
<1>5. NoNewComment
  BY <1>1, <1>2, Orphaning DEF NoNewComment
<1>6. \A s \in Slots : \A k : Live(s, k)' <=> Live(s, k) /\ k \notin ks
  BY <1>1, <1>2, Orphaning DEF Live
<1> QED BY <1>4, <1>5, <1>6

(* What still is to be stored was before.                                  *)
LEMMA LessToStore ==
    ASSUME NoNewComment
    PROVE  \A s \in Slots : ToStore(s)' => ToStore(s) /\ requests'[s].arg = requests[s].arg
  BY DEF ToStore, Waiting, NoNewComment

(* The page is left: nobody waits for its requests.                      *)
LEMMA BackStep ==
    ASSUME PageInv, Back
    PROVE  PageInv'
<1> USE DEF PageInv
<1>1. /\ url' = Null /\ ticket' = Null /\ loading' = FALSE /\ posting' = FALSE
      /\ draft' = 0 /\ dialog' = "none" /\ requests' = Orphaned(PageKinds)
      /\ UNCHANGED <<rows, comments, inbox, hist>>
  BY DEF Back, database
<1>2. /\ requests' \in [Slots -> Asked \cup {Null}] /\ NoNewComment
      /\ \A s \in Slots, k \in PageKinds : ~Live(s, k)'
  BY <1>1, OrphanSlots
<1>3. PageTypeOK'
  BY <1>1, <1>2 DEF PageTypeOK
<1>4. {"load", "comment", "edit"} \cup Writes \subseteq PageKinds
  BY DEF PageKinds, Writes
<1>5. BusyEnds' /\ OneAtATime'
  BY <1>1, <1>2, <1>4, BusyThen DEF OneAtATime
<1>6. \A s \in Slots : requests'[s] # Null /\ requests'[s].kind = "comment" => ~requests'[s].live
  BY <1>2, <1>4 DEF Live
<1>7. Numbered'
  BY <1>1, <1>2, <1>6 DEF Numbered, NoNewComment
<1>8. ToStoreOnce'
  BY <1>1, <1>2, LessToStore DEF ToStoreOnce, Stored
<1>9. OneCommentPerDraft'
  BY <1>1 DEF OneCommentPerDraft
<1> QED BY <1>3, <1>5, <1>7, <1>8, <1>9

(* ChangeStatus and Assign only ask.                                     *)
LEMMA PageSends ==
    ASSUME PageInv, NEW s \in Slots,
           \/ \E status \in Statuses : ChangeStatus(s, status)
           \/ \E u \in Staff : Assign(s, u)
    PROVE  PageInv'
<1>1. url # Null /\ ticket # Null /\ ticket.id \in Tickets
  BY DEF ChangeStatus, Assign, AtPage, PageInv, PageTypeOK, Views
<1>2. PICK r \in Asked : Send(s, r) /\ r.kind \in {"status", "assign"}
  BY <1>1, SentAsked, SentFacts DEF ChangeStatus, Assign
<1>3. UNCHANGED <<database, place, page, hist>>
  BY DEF ChangeStatus, Assign
<1>4. /\ requests' \in [Slots -> Asked \cup {Null}] /\ NoNewComment
      /\ \A q \in Slots : \A k : Live(q, k)' <=> IF q = s THEN r.live /\ r.kind = k ELSE Live(q, k)
      /\ \A k : ~Live(s, k)
  BY <1>2, SentSlot
<1>5. PageTypeOK'
  BY <1>3, <1>4 DEF database, place, page, PageInv, PageTypeOK
<1>6. \A q \in Slots, k \in {"load", "comment", "edit"} : Live(q, k)' <=> Live(q, k)
  BY <1>2, <1>4
<1> QED BY <1>1, <1>3, <1>4, <1>5, <1>6, Kept DEF database, place, page

(* The dialog opens.                                                     *)
LEMMA EditStep ==
    ASSUME PageInv, Edit
    PROVE  PageInv'
<1> USE DEF PageInv
<1>1. /\ url # Null /\ dialog = "none" /\ dialog' = "open"
      /\ UNCHANGED <<rows, comments, inbox, url, ticket, loading, posting, draft, requests, hist>>
  BY DEF Edit, AtPage, database, place
<1>2. \A s, k : Live(s, k)' <=> Live(s, k)
  BY <1>1 DEF Live
<1>3. PageTypeOK'
  BY <1>1 DEF PageTypeOK, Edit, AtPage
<1>4. BusyEnds'
  BY <1>1, <1>2, BusyNow, BusyThen
<1>5. OneAtATime'
  BY <1>1, <1>2 DEF OneAtATime
<1>6. Numbered' /\ ToStoreOnce' /\ OneCommentPerDraft'
  BY <1>1 DEF Numbered, ToStoreOnce, OneCommentPerDraft, Stored, ToStore, Waiting
<1> QED BY <1>3, <1>4, <1>5, <1>6

(* The dialog asks, once.                                                *)
LEMMA SaveStep ==
    ASSUME PageInv, NEW s \in Slots, NEW text \in Texts, Save(s, text)
    PROVE  PageInv'
<1> USE DEF PageInv
<1>1. /\ dialog = "open" /\ dialog' = "saving"
      /\ Send(s, Request("edit", ticket.id, text))
      /\ UNCHANGED <<rows, comments, inbox, url, ticket, loading, posting, draft, hist>>
  BY DEF Save, database, place
<1>2. url # Null /\ ticket # Null
  BY <1>1 DEF OneAtATime, PageTypeOK
<1>3. ticket.id \in Tickets
  BY <1>1 DEF PageTypeOK, Views
<1>4. Request("edit", ticket.id, text) \in Asked
  BY <1>3, SentAsked
<1>5. /\ requests' \in [Slots -> Asked \cup {Null}] /\ NoNewComment
      /\ \A q \in Slots : \A k : Live(q, k)' <=> IF q = s THEN k = "edit" ELSE Live(q, k)
      /\ \A k : ~Live(s, k)
  BY <1>1, <1>4, SentSlot, SentFacts
<1>6. \A q \in Slots : ~Live(q, "edit")
  BY <1>1, BusyNow
<1>7. PageTypeOK'
  BY <1>1, <1>5 DEF PageTypeOK
<1>8. BusyEnds'
  BY <1>1, <1>5, <1>6, BusyNow, BusyThen
<1>9. OneAtATime'
  BY <1>1, <1>2, <1>5, <1>6 DEF OneAtATime
<1>10. Numbered' /\ ToStoreOnce' /\ OneCommentPerDraft'
  BY <1>1, <1>2, <1>5, LessToStore
  DEF Numbered, NoNewComment, ToStoreOnce, OneCommentPerDraft, Stored
<1> QED BY <1>7, <1>8, <1>9, <1>10

(* The dialog goes away with its request.                                *)
LEMMA DismissStep ==
    ASSUME PageInv, Dismiss
    PROVE  PageInv'
<1> USE DEF PageInv
<1>1. /\ dialog' = "none" /\ requests' = Orphaned({"edit"})
      /\ UNCHANGED <<rows, comments, inbox, url, ticket, loading, posting, draft>>
  BY DEF Dismiss, database, place
<1>2. hist' \in Histories /\ hist'.drafts = hist.drafts /\ hist'.lost = hist.lost
  BY DEF Dismiss, PageTypeOK, Histories
<1>3. /\ requests' \in [Slots -> Asked \cup {Null}] /\ NoNewComment
      /\ \A s \in Slots : \A k : Live(s, k)' <=> Live(s, k) /\ k # "edit"
  BY <1>1, OrphanSlots
<1>4. PageTypeOK'
  BY <1>1, <1>2, <1>3 DEF PageTypeOK
<1>5. BusyEnds' /\ OneAtATime'
  BY <1>1, <1>3, BusyNow, BusyThen DEF OneAtATime
<1>6. Numbered' /\ ToStoreOnce' /\ OneCommentPerDraft'
  BY <1>1, <1>2, <1>3, LessToStore
  DEF Numbered, NoNewComment, ToStoreOnce, OneCommentPerDraft, Stored
<1> QED BY <1>4, <1>5, <1>6

(* The form asks to store its draft, which is not stored and nobody else *)
(* stores.                                                               *)
LEMMA AddCommentStep ==
    ASSUME PageInv, NEW s \in Slots, NEW internal \in BOOLEAN, AddComment(s, internal)
    PROVE  PageInv'
<1> USE DEF PageInv
<1> DEFINE text == [internal |-> internal, draft |-> draft]
           r == Request("comment", ticket.id, text)
<1>1. /\ url # Null /\ ticket # Null /\ ~posting /\ posting'
      /\ requests[s] = Null /\ requests' = [requests EXCEPT ![s] = r]
      /\ UNCHANGED <<rows, comments, inbox, url, ticket, loading, draft, dialog, hist>>
  BY DEF AddComment, AtPage, Send, database, place
<1>2. /\ r \in Asked /\ r # Null /\ r.kind = "comment" /\ r.live /\ r.got = Null
      /\ r.arg.draft = draft
  <2>1. ticket.id \in Tickets /\ text \in Drafts /\ text.draft = draft
    BY <1>1 DEF PageTypeOK, Views, Drafts
  <2> QED BY <2>1, SentAsked, SentFacts, AskedFacts
<1> HIDE DEF r, text
<1>3. /\ requests' \in [Slots -> Asked \cup {Null}] /\ requests'[s] = r
      /\ \A q \in Slots \ {s} : requests'[q] = requests[q]
  BY <1>1, <1>2 DEF PageTypeOK
<1>4. \A q \in Slots : \A k : Live(q, k)' <=> IF q = s THEN k = "comment" ELSE Live(q, k)
  BY <1>2, <1>3 DEF Live
<1>5. (\A q \in Slots : ~Live(q, "comment")) /\ \A k : ~Live(s, k)
  BY <1>1, BusyNow DEF Live
<1>6. PageTypeOK'
  BY <1>1, <1>3 DEF PageTypeOK
<1>7. BusyEnds' /\ OneAtATime'
  BY <1>1, <1>4, <1>5, BusyNow, BusyThen DEF OneAtATime
<1>8. Numbered'
  <2>1. draft \in 1 .. hist.drafts
    BY <1>1 DEF Numbered, PageTypeOK, Histories
  <2> QED BY <1>1, <1>2, <1>3, <2>1 DEF Numbered
<1>9. \A q \in Slots : ToStore(q)' <=> q = s \/ ToStore(q)
  BY <1>1, <1>2, <1>3 DEF ToStore, Waiting
<1>10. \A d : Stored(d)' <=> Stored(d)
  BY <1>1 DEF Stored
<1>11. ~ToStore(s)
  BY <1>1 DEF ToStore, Waiting
<1>12. ToStoreOnce'
  BY <1>1, <1>2, <1>3, <1>9, <1>10, <1>11 DEF ToStoreOnce
<1>13. OneCommentPerDraft'
  BY <1>1 DEF OneCommentPerDraft
<1> QED BY <1>6, <1>7, <1>8, <1>12, <1>13

-----------------------------------------------------------------------------
(* The API's side, and the colleagues.                                     *)

(* A reason why the ticket may be behind changes nothing else.           *)
LEMMA ReasonsType ==
    ASSUME NEW h \in Histories,
           NEW d \in SUBSET {"unheard", "late", "others"}, NEW l \in Slots \cup {"shown", Null}
    PROVE  /\ [h EXCEPT !.drift = d] \in Histories
           /\ [h EXCEPT !.drift = d].drafts = h.drafts /\ [h EXCEPT !.drift = d].lost = h.lost
           /\ [h EXCEPT !.last = l, !.drift = d] \in Histories
           /\ [h EXCEPT !.last = l, !.drift = d].drafts = h.drafts
           /\ [h EXCEPT !.last = l, !.drift = d].lost = h.lost
  BY DEF Histories

(* Nor does a reason why the comments may be.                            *)
LEMMA GapType ==
    ASSUME NEW h \in Histories, NEW g \in SUBSET {"unheard", "limit", "others"}
    PROVE  /\ [h EXCEPT !.gap = g] \in Histories
           /\ [h EXCEPT !.gap = g].drafts = h.drafts /\ [h EXCEPT !.gap = g].lost = h.lost
  BY DEF Histories

(* The reasons are those there are.                                      *)
LEMMA MissedTypes ==
    ASSUME PageInv, NEW t
    PROVE  /\ \A why \in {"unheard", "late", "others"} :
                 MissedRow(t, why) \in SUBSET {"unheard", "late", "others"}
           /\ \A why \in {"unheard", "limit", "others"} :
                 MissedComment(t, why) \in SUBSET {"unheard", "limit", "others"}
  BY DEF MissedRow, MissedComment, PageInv, PageTypeOK, Histories

(* Rows are read or written, and requests served.                          *)
LEMMA RowsKept ==
    ASSUME PageInv, NoNewComment,
           requests' \in [Slots -> Asked \cup {Null}],
           \A s \in Slots, k \in PageKinds : Live(s, k)' <=> Live(s, k),
           UNCHANGED <<comments, inbox, place, page>>,
           rows' \in [Tickets -> Rows],
           hist' \in Histories, hist'.drafts = hist.drafts, hist'.lost = hist.lost
    PROVE  PageInv'
<1>1. PageTypeOK'
  BY DEF PageInv, PageTypeOK, place, page
<1>2. {"load", "comment", "edit"} \subseteq PageKinds
  BY DEF PageKinds
<1>4. UNCHANGED <<ticket, loading, posting, draft, dialog, comments>> /\ url' = url
  BY DEF place, page
<1>5. /\ \A s \in Slots, k \in {"load", "comment", "edit"} : Live(s, k)' <=> Live(s, k)
      /\ \A s \in Slots, k \in PageKinds :
            Live(s, k)' => Live(s, k) \/ (url # Null /\ ticket # Null)
  BY <1>2
<1> QED BY <1>1, <1>4, <1>5, Kept

(* The API reads the ticket, or its comments.                            *)
LEMMA ReadSteps ==
    ASSUME PageInv, NEW s \in Slots, ReadTicket(s) \/ ReadComments(s)
    PROVE  PageInv'
<1>1. /\ requests[s] \in Asked /\ requests[s] # Null /\ requests[s].kind = "load"
      /\ requests[s].to \in Tickets
      /\ UNCHANGED <<rows, comments, inbox, place, page>>
  BY AskedFacts DEF ReadTicket, ReadComments, Waiting, database, PageInv, PageTypeOK, PageKinds
<1>2. CASE ReadTicket(s)
  <2> DEFINE r == [requests[s] EXCEPT !.row = rows[requests[s].to]]
  <2>1. requests' = [requests EXCEPT ![s] = r] /\ hist' = hist
    BY <1>2 DEF ReadTicket
  <2>2. rows[requests[s].to] \in Rows
    BY <1>1 DEF PageInv, PageTypeOK
  <2>3. r \in Asked /\ r.kind = requests[s].kind /\ r.live = requests[s].live
    BY <1>1, <2>2, RowRead
  <2>4. r.arg = requests[s].arg /\ r.got = requests[s].got
    BY <1>1 DEF Asked, PageRequests, MenuRequests, Asking, Writes
  <2> HIDE DEF r
  <2> QED BY <1>1, <2>1, <2>3, <2>4, ServedSlot, RowsKept DEF PageInv, PageTypeOK
<1>3. CASE ReadComments(s)
  <2> DEFINE x == FirstComments(requests[s].to)
             r == [requests[s] EXCEPT !.got = x]
  <2>1. requests' = [requests EXCEPT ![s] = r] /\ requests[s].got = Null
    BY <1>3 DEF ReadComments, Waiting
  <2>2. x \in SUBSET Nat
    BY <1>1, LenProperties DEF FirstComments, Visible, PageInv, PageTypeOK
  <2>3. /\ r \in Asked /\ r.kind = requests[s].kind /\ r.live = requests[s].live
        /\ r.arg = requests[s].arg
    BY <1>1, <2>2, Serving
  <2>4. \E g \in SUBSET {"unheard", "limit", "others"} : hist' = [hist EXCEPT !.gap = g]
    BY <1>3 DEF ReadComments, PageInv, PageTypeOK, Histories
  <2>5. hist' \in Histories /\ hist'.drafts = hist.drafts /\ hist'.lost = hist.lost
    BY <2>4 DEF PageInv, PageTypeOK, Histories
  <2> HIDE DEF r
  <2> QED BY <1>1, <2>1, <2>3, <2>5, ServedSlot, RowsKept DEF PageInv, PageTypeOK
<1> QED BY <1>2, <1>3

(* The API writes the ticket.                                            *)
LEMMA ServeWriteStep ==
    ASSUME PageInv, NEW s \in Slots, ServeWrite(s)
    PROVE  PageInv'
<1> DEFINE row == Written(requests[s], rows[requests[s].to])
           r == [[requests[s] EXCEPT !.row = row] EXCEPT !.got = TRUE]
<1>1. /\ requests[s] \in Asked /\ requests[s] # Null /\ requests[s].kind \in Writes
      /\ requests[s].got = Null /\ requests[s].to \in Tickets
  BY AskedFacts DEF ServeWrite, Waiting, PageInv, PageTypeOK, PageKinds, Writes
<1>2. /\ rows' = [rows EXCEPT ![requests[s].to] = row]
      /\ requests' = [requests EXCEPT ![s] = r]
      /\ UNCHANGED <<comments, inbox, place, page>>
  BY DEF ServeWrite
<1>3. rows[requests[s].to] \in Rows
  BY <1>1 DEF PageInv, PageTypeOK
<1>4. row \in Rows
  BY <1>1, <1>3, Writing
<1>5. r \in Asked /\ r.kind = requests[s].kind /\ r.live = requests[s].live
  BY <1>1, <1>4, Writing
<1>6. r.arg = requests[s].arg
  BY <1>1 DEF Asked, PageRequests, MenuRequests, Asking, Writes
<1>7. hist' \in Histories /\ hist'.drafts = hist.drafts /\ hist'.lost = hist.lost
  <2>1. \/ hist' = [hist EXCEPT !.last = s, !.drift = {}]
        \/ hist' = [hist EXCEPT !.drift = MissedRow(requests[s].to, "unheard")]
    BY DEF ServeWrite
  <2>2. MissedRow(requests[s].to, "unheard") \in SUBSET {"unheard", "late", "others"}
    BY MissedTypes
  <2>3. hist \in Histories
    BY DEF PageInv, PageTypeOK
  <2>4. CASE hist' = [hist EXCEPT !.last = s, !.drift = {}]
    <3>1. s \in Slots \cup {"shown", Null} /\ {} \in SUBSET {"unheard", "late", "others"}
      OBVIOUS
    <3> QED BY <2>3, <2>4, <3>1, ReasonsType, Zenon
  <2>5. CASE hist' = [hist EXCEPT !.drift = MissedRow(requests[s].to, "unheard")]
    BY <2>2, <2>3, <2>5, ReasonsType
  <2> QED BY <2>1, <2>4, <2>5
<1> HIDE DEF r, row
<1>8. rows' \in [Tickets -> Rows]
  BY <1>1, <1>2, <1>4 DEF PageInv, PageTypeOK
<1> QED BY <1>1, <1>2, <1>5, <1>6, <1>7, <1>8, ServedSlot, RowsKept

(* A colleague writes it.                                                *)
LEMMA OthersWriteStep ==
    ASSUME PageInv, NEW t \in Tickets, NEW status \in Statuses, OthersWrite(t, status)
    PROVE  PageInv'
<1>1. UNCHANGED <<comments, inbox, place, page, requests>>
  BY DEF OthersWrite
<1>2. rows' \in [Tickets -> Rows]
  BY DEF OthersWrite, PageInv, PageTypeOK, Rows
<1>3. hist' = [hist EXCEPT !.drift = MissedRow(t, "others")]
  BY DEF OthersWrite
<1>4. MissedRow(t, "others") \in SUBSET {"unheard", "late", "others"}
  BY MissedTypes
<1>5. hist' \in Histories /\ hist'.drafts = hist.drafts /\ hist'.lost = hist.lost
  BY <1>3, <1>4, ReasonsType DEF PageInv, PageTypeOK
<1> QED BY <1>1, <1>2, <1>5, RowsKept DEF NoNewComment, Live, PageInv, PageTypeOK

(* A comment is stored at the end.                                         *)
LEMMA StoredAtEnd ==
    ASSUME PageTypeOK, NEW t \in Tickets, NEW c \in Drafts,
           comments' = [comments EXCEPT ![t] = Append(@, c)]
    PROVE  /\ comments' \in [Tickets -> Seq(Drafts)]
           /\ \A u \in Tickets \ {t} : comments'[u] = comments[u]
           /\ DOMAIN comments'[t] = DOMAIN comments[t] \cup {Len(comments[t]) + 1}
           /\ Len(comments[t]) + 1 \notin DOMAIN comments[t]
           /\ comments'[t][Len(comments[t]) + 1] = c
           /\ \A i \in DOMAIN comments[t] : comments'[t][i] = comments[t][i]
<1>1. comments[t] \in Seq(Drafts)
  BY DEF PageTypeOK
<1>2. comments'[t] = Append(comments[t], c) /\ \A u \in Tickets \ {t} : comments'[u] = comments[u]
  BY DEF PageTypeOK
<1>3. /\ Append(comments[t], c) \in Seq(Drafts)
      /\ Len(Append(comments[t], c)) = Len(comments[t]) + 1
      /\ \A i \in 1 .. Len(comments[t]) : Append(comments[t], c)[i] = comments[t][i]
      /\ Append(comments[t], c)[Len(comments[t]) + 1] = c
  BY <1>1, AppendProperties
<1>4. /\ Len(comments[t]) \in Nat /\ DOMAIN comments[t] = 1 .. Len(comments[t])
      /\ DOMAIN comments'[t] = 1 .. Len(comments[t]) + 1
  BY <1>1, <1>2, <1>3, LenProperties
<1>5. comments' \in [Tickets -> Seq(Drafts)]
  BY <1>2, <1>3 DEF PageTypeOK
<1> QED BY <1>2, <1>3, <1>4, <1>5

(* One more draft is stored, twice only if its first answer was lost.    *)
LEMMA StoredSplits ==
    ASSUME PageTypeOK, NEW t \in Tickets, NEW c \in Drafts,
           comments' = [comments EXCEPT ![t] = Append(@, c)]
    PROVE  /\ \A d : Stored(d)' <=> Stored(d) \/ d = c.draft
           /\ (\A u \in Tickets : \A i \in DOMAIN comments[u] : comments[u][i].draft <= hist.drafts)
              /\ c.draft <= hist.drafts
              => \A u \in Tickets : \A i \in DOMAIN comments'[u] :
                    comments'[u][i].draft <= hist.drafts
           /\ OneCommentPerDraft /\ (c.draft \notin hist.lost \cup {0} => ~Stored(c.draft))
              => \A u \in Tickets : \A i, j \in DOMAIN comments'[u] :
                    i # j /\ comments'[u][i].draft = comments'[u][j].draft
                    => comments'[u][i].draft \in hist.lost \cup {0}
<1> USE StoredAtEnd
<1>1. \A d : Stored(d)' <=> Stored(d) \/ d = c.draft
  <2>1. ASSUME NEW d, Stored(d)'
        PROVE  Stored(d) \/ d = c.draft
    <3>0. PICK u \in Tickets : \E i \in DOMAIN comments'[u] : comments'[u][i].draft = d
      BY <2>1 DEF Stored
    <3>1. PICK i \in DOMAIN comments'[u] : comments'[u][i].draft = d
      BY <3>0
    <3>2. CASE u = t /\ i \notin DOMAIN comments[t]
      BY <3>1, <3>2
    <3>3. CASE u # t \/ i \in DOMAIN comments[t]
      <4>1. i \in DOMAIN comments[u] /\ comments[u][i].draft = d
        BY <3>1, <3>3
      <4> QED BY <4>1 DEF Stored
    <3> QED BY <3>2, <3>3
  <2>2. ASSUME NEW d, Stored(d)
        PROVE  Stored(d)'
    <3>0. PICK u \in Tickets : \E i \in DOMAIN comments[u] : comments[u][i].draft = d
      BY <2>2 DEF Stored
    <3>1. PICK i \in DOMAIN comments[u] : comments[u][i].draft = d
      BY <3>0
    <3>2. i \in DOMAIN comments'[u] /\ comments'[u][i].draft = d
      BY <3>1
    <3> QED BY <3>2 DEF Stored
  <2>3. Stored(c.draft)'
    <3> DEFINE n == Len(comments[t]) + 1
    <3>1. n \in DOMAIN comments'[t] /\ comments'[t][n] = c
      OBVIOUS
    <3> HIDE DEF n
    <3> QED BY <3>1 DEF Stored
  <2> QED BY <2>1, <2>2, <2>3
<1>2. ASSUME \A u \in Tickets : \A i \in DOMAIN comments[u] : comments[u][i].draft <= hist.drafts,
             c.draft <= hist.drafts
      PROVE  \A u \in Tickets : \A i \in DOMAIN comments'[u] : comments'[u][i].draft <= hist.drafts
  BY <1>2
<1>3. ASSUME OneCommentPerDraft, c.draft \notin hist.lost \cup {0} => ~Stored(c.draft),
             NEW u \in Tickets, NEW i \in DOMAIN comments'[u], NEW j \in DOMAIN comments'[u],
             i # j, comments'[u][i].draft = comments'[u][j].draft
      PROVE  comments'[u][i].draft \in hist.lost \cup {0}
  <2>1. CASE u # t
    BY <1>3, <2>1 DEF OneCommentPerDraft
  <2>2. CASE u = t /\ i \in DOMAIN comments[t] /\ j \in DOMAIN comments[t]
    BY <1>3, <2>2 DEF OneCommentPerDraft
  <2>3. CASE u = t /\ ~(i \in DOMAIN comments[t] /\ j \in DOMAIN comments[t])
    <3>1. \/ i = Len(comments[t]) + 1 /\ j \in DOMAIN comments[t]
          \/ j = Len(comments[t]) + 1 /\ i \in DOMAIN comments[t]
      BY <1>3, <2>3
    <3>2. comments'[u][i].draft = c.draft /\ Stored(c.draft)
      BY <1>3, <2>3, <3>1 DEF Stored
    <3> QED BY <1>3, <3>2
  <2> QED BY <2>1, <2>2, <2>3
<1> QED BY <1>1, <1>2, <1>3

(* The API stores a comment of the page, whose draft was not stored      *)
(* before.                                                               *)
LEMMA ServeCommentStep ==
    ASSUME PageInv, NEW s \in Slots, ServeComment(s)
    PROVE  PageInv'
<1> USE DEF PageInv
<1> DEFINE t == requests[s].to
           c == [requests[s].arg EXCEPT !.internal = @ /\ IsStaff]
           x == [ticket |-> t, number |-> Len(comments[t]) + 1]
           r == [requests[s] EXCEPT !.got = x]
<1>1. /\ requests[s] \in Asked /\ requests[s] # Null /\ requests[s].kind = "comment"
      /\ requests[s].got = Null /\ t \in Tickets /\ requests[s].arg \in Drafts
  BY AskedFacts DEF ServeComment, Waiting, PageTypeOK, PageKinds
<1>2. /\ comments' = [comments EXCEPT ![t] = Append(@, c)]
      /\ requests' = [requests EXCEPT ![s] = r]
      /\ UNCHANGED <<rows, inbox, place, page>>
  BY DEF ServeComment
<1>3. c \in Drafts /\ c.draft = requests[s].arg.draft
  BY <1>1 DEF Drafts, IsStaff
<1>4. x \in References /\ x # Null
  <2>1. x \in References
    BY <1>1, LenProperties DEF References, PageTypeOK
  <2> QED BY <2>1, TicketPageAssumption
<1>5. /\ r \in Asked /\ r.kind = requests[s].kind /\ r.live = requests[s].live
      /\ r.arg = requests[s].arg /\ r.got = x
  BY <1>1, <1>4, Serving
<1> HIDE DEF r, x, c
<1>6. /\ requests' \in [Slots -> Asked \cup {Null}] /\ NoNewComment
      /\ requests'[s] = r /\ \A q \in Slots \ {s} : requests'[q] = requests[q]
      /\ \A q \in Slots : \A k : Live(q, k)' <=> Live(q, k)
  BY <1>1, <1>2, <1>4, <1>5, ServedSlot
<1>7. hist' \in Histories /\ hist'.drafts = hist.drafts /\ hist'.lost = hist.lost
  <2>1. \/ hist' = hist
        \/ hist' = [hist EXCEPT !.gap = MissedComment(t, "unheard")]
    BY DEF ServeComment
  <2>2. MissedComment(t, "unheard") \in SUBSET {"unheard", "limit", "others"}
    BY MissedTypes
  <2>3. hist \in Histories
    BY DEF PageTypeOK
  <2> QED BY <2>1, <2>2, <2>3, GapType, Zenon
<1>8. comments' \in [Tickets -> Seq(Drafts)]
  BY <1>1, <1>2, <1>3, StoredAtEnd
<1>9. PageTypeOK'
  BY <1>2, <1>6, <1>7, <1>8 DEF PageTypeOK, place, page
<1>10. BusyEnds' /\ OneAtATime'
  BY <1>2, <1>6, BusyNow, BusyThen DEF OneAtATime, place, page
<1>11. ToStore(s) /\ c.draft \in 1 .. hist.drafts
  BY <1>1, <1>3 DEF ToStore, Waiting, Numbered
<1>12. /\ \A d : Stored(d)' <=> Stored(d) \/ d = c.draft
       /\ \A u \in Tickets : \A i \in DOMAIN comments'[u] : comments'[u][i].draft <= hist.drafts
  <2>1. PageTypeOK /\ c.draft <= hist.drafts
    BY <1>11 DEF PageTypeOK, Histories
  <2>2. \A u \in Tickets : \A i \in DOMAIN comments[u] : comments[u][i].draft <= hist.drafts
    BY DEF Numbered
  <2> QED BY <1>1, <1>2, <1>3, <2>1, <2>2, StoredSplits, Zenon
<1>13. c.draft \notin hist.lost => ~Stored(c.draft)
  BY <1>3, <1>11 DEF ToStoreOnce
<1>14. OneCommentPerDraft'
  BY <1>1, <1>2, <1>3, <1>7, <1>13, StoredSplits DEF OneCommentPerDraft
<1>15. Numbered'
  BY <1>2, <1>6, <1>7, <1>12 DEF Numbered, NoNewComment, place, page
<1>16. \A q \in Slots : ToStore(q)' =>
          q # s /\ ToStore(q) /\ requests'[q].arg = requests[q].arg
  BY <1>4, <1>5, <1>6 DEF ToStore, Waiting
<1>17. ToStoreOnce'
  BY <1>2, <1>3, <1>7, <1>11, <1>12, <1>16 DEF ToStoreOnce, place, page
<1> QED BY <1>9, <1>10, <1>14, <1>15, <1>17

(* A colleague's comment is of no draft.                                 *)
LEMMA OthersCommentStep ==
    ASSUME PageInv, NEW t \in Tickets, NEW internal \in BOOLEAN, OthersComment(t, internal)
    PROVE  PageInv'
<1> USE DEF PageInv
<1> DEFINE c == [internal |-> internal, draft |-> 0]
<1>1. /\ comments' = [comments EXCEPT ![t] = Append(@, c)]
      /\ UNCHANGED <<rows, inbox, url, ticket, loading, posting, draft, dialog, requests>>
  BY DEF OthersComment, place, page
<1>2. c \in Drafts /\ c.draft = 0
  BY DEF Drafts
<1> HIDE DEF c
<1>3. hist' \in Histories /\ hist'.drafts = hist.drafts /\ hist'.lost = hist.lost
  <2> DEFINE g == IF internal => IsStaff THEN MissedComment(t, "others") ELSE hist.gap
  <2>1. hist' = [hist EXCEPT !.gap = g]
    BY DEF OthersComment
  <2>2. MissedComment(t, "others") \in SUBSET {"unheard", "limit", "others"}
    BY MissedTypes
  <2>3. hist.gap \in SUBSET {"unheard", "limit", "others"} /\ hist \in Histories
    BY DEF PageTypeOK, Histories
  <2>4. g \in SUBSET {"unheard", "limit", "others"}
    BY <2>2, <2>3
  <2> HIDE DEF g
  <2> QED BY <2>1, <2>3, <2>4, GapType, Zenon
<1>4. comments' \in [Tickets -> Seq(Drafts)]
  BY <1>1, <1>2, StoredAtEnd
<1>5. PageTypeOK'
  BY <1>1, <1>3, <1>4 DEF PageTypeOK
<1>6. \A s, k : Live(s, k)' <=> Live(s, k)
  BY <1>1 DEF Live
<1>7. BusyEnds' /\ OneAtATime'
  BY <1>1, <1>6, BusyNow, BusyThen DEF OneAtATime
<1>8. hist.drafts \in Nat
  BY DEF PageTypeOK, Histories
<1>9. /\ \A d : Stored(d)' <=> Stored(d) \/ d = 0
      /\ \A u \in Tickets : \A i \in DOMAIN comments'[u] : comments'[u][i].draft <= hist.drafts
  <2>1. PageTypeOK /\ c.draft <= hist.drafts
    BY <1>2, <1>8
  <2>2. \A u \in Tickets : \A i \in DOMAIN comments[u] : comments[u][i].draft <= hist.drafts
    BY DEF Numbered
  <2>3. \A d : Stored(d)' <=> Stored(d) \/ d = c.draft
    BY <1>1, <1>2, StoredSplits
  <2> QED BY <1>1, <1>2, <2>1, <2>2, <2>3, StoredSplits
<1>10. OneCommentPerDraft'
  BY <1>1, <1>2, <1>3, StoredSplits DEF OneCommentPerDraft
<1>11. Numbered'
  BY <1>1, <1>3, <1>9 DEF Numbered
<1>12. \A s : ToStore(s)' <=> ToStore(s)
  BY <1>1 DEF ToStore, Waiting
<1>13. \A s \in Slots : ToStore(s) => requests[s].arg.draft # 0
  BY DEF ToStore, Waiting, Numbered
<1>14. url # Null => draft # 0
  BY DEF Numbered, PageTypeOK
<1>15. ToStoreOnce'
  BY <1>1, <1>3, <1>9, <1>12, <1>13, <1>14 DEF ToStoreOnce
<1> QED BY <1>5, <1>7, <1>10, <1>11, <1>15

-----------------------------------------------------------------------------
(* The answers to the page.                                                *)

(* A request is over; an answer to a comment that is not seen is lost.     *)
LEMMA Finished ==
    ASSUME PageInv, NEW s \in Slots, requests' = [requests EXCEPT ![s] = Null],
           PageTypeOK', UNCHANGED <<url, comments, draft>>, ticket # Null => ticket' # Null,
           hist'.drafts = hist.drafts, hist.lost \subseteq hist'.lost,
           loading' <=> loading /\ ~Live(s, "load"),
           posting' <=> posting /\ ~Live(s, "comment"),
           dialog' = "saving" <=> dialog = "saving" /\ ~Live(s, "edit"),
           url = Null => dialog' = "none",
           Live(s, "comment") /\ ~ToStore(s) => requests[s].arg.draft \in hist'.lost
    PROVE  PageInv'
<1> USE DEF PageInv
<1>1. /\ NoNewComment /\ requests'[s] = Null
      /\ \A q \in Slots \ {s} : requests'[q] = requests[q]
      /\ \A q \in Slots : \A k : Live(q, k)' <=> q # s /\ Live(q, k)
  BY DoneSlot
<1>2. \A k \in {"load", "comment", "edit"} :
         Live(s, k) => \A q \in Slots : ~Live(q, k)'
  BY <1>1 DEF OneAtATime
<1>3. \A k : ~Live(s, k) => \A q \in Slots : Live(q, k)' <=> Live(q, k)
  BY <1>1
<1>4. BusyEnds'
  BY <1>2, <1>3, BusyNow, BusyThen
<1>5. OneAtATime'
  BY <1>1 DEF OneAtATime
<1>6. Numbered'
  BY <1>1 DEF Numbered, NoNewComment
<1>7. \A d : Stored(d)' <=> Stored(d)
  BY DEF Stored
<1>8. \A q \in Slots : ToStore(q)' =>
          q # s /\ ToStore(q) /\ requests'[q].arg = requests[q].arg
  BY <1>1, LessToStore DEF ToStore, Waiting
<1>9. /\ Live(s, "comment") => requests[s].arg.draft = draft
      /\ posting /\ ~posting' => Live(s, "comment")
  BY DEF Numbered, Live
<1>10. ToStoreOnce'
  BY <1>7, <1>8, <1>9 DEF ToStoreOnce
<1>11. OneCommentPerDraft'
  BY DEF OneCommentPerDraft
<1> QED BY <1>4, <1>5, <1>6, <1>10, <1>11

(* The page has its ticket.                                              *)
LEMMA AnswerLoadStep ==
    ASSUME PageInv, NEW s \in Slots, AnswerLoad(s)
    PROVE  PageInv'
<1> USE DEF PageInv
<1>1. /\ requests[s] \in Asked /\ requests[s] # Null /\ requests[s].kind = "load"
      /\ requests[s].live /\ requests[s].row # Null
      /\ requests' = [requests EXCEPT ![s] = Null]
  BY DEF AnswerLoad, Answered, Handled, Done, PageTypeOK
<1>2. /\ ticket' = [id |-> requests[s].to, row |-> requests[s].row]
      /\ loading' = FALSE
      /\ UNCHANGED <<rows, comments, inbox, url, posting, draft, dialog, hist>>
  BY DEF AnswerLoad, database, place
<1>3. requests[s].to \in Tickets /\ requests[s].row \in Rows
  BY <1>1, AskedFacts DEF PageKinds, Writes
<1>4. ticket' \in Views /\ ticket' # Null
  <2>1. ticket' \in Views
    BY <1>2, <1>3 DEF Views
  <2> QED BY <2>1, TicketPageAssumption
<1>5. requests' \in [Slots -> Asked \cup {Null}]
  BY <1>1, DoneSlot
<1>6. PageTypeOK'
  BY <1>2, <1>4, <1>5 DEF PageTypeOK
<1>7. /\ Live(s, "load") /\ ~Live(s, "comment") /\ ~Live(s, "edit")
      /\ url = Null => dialog = "none"
  BY <1>1 DEF Live, OneAtATime
<1> QED BY <1>1, <1>2, <1>4, <1>6, <1>7, Finished

(* The page shows the row its write left; the dialog closes.             *)
LEMMA AnswerWriteStep ==
    ASSUME PageInv, NEW s \in Slots, AnswerWrite(s)
    PROVE  PageInv'
<1> USE DEF PageInv
<1>1. /\ requests[s] \in Asked /\ requests[s] # Null /\ requests[s].kind \in Writes
      /\ requests[s].live
      /\ requests' = [requests EXCEPT ![s] = Null]
  BY DEF AnswerWrite, Answered, Handled, Done, PageTypeOK
<1>2. /\ ticket' = Shown(requests[s])
      /\ dialog' = IF requests[s].kind = "edit" THEN "none" ELSE dialog
      /\ UNCHANGED <<rows, comments, inbox, url, loading, posting, draft>>
  BY DEF AnswerWrite, database, place
<1>3. requests[s].row \in Rows /\ requests[s].got # Null
  BY <1>1, AskedFacts DEF AnswerWrite, Answered, Handled
<1>4. ticket # Null /\ Live(s, requests[s].kind)
  BY <1>1 DEF Live, OneAtATime
<1>5. ticket' \in Views /\ ticket' # Null
  <2>1. ticket \in Views
    BY <1>4 DEF PageTypeOK
  <2>2. ticket' \in Views
    BY <1>2, <1>3, <2>1 DEF Shown, Views
  <2> QED BY <2>2, TicketPageAssumption
<1>6. hist' \in Histories /\ hist'.drafts = hist.drafts /\ hist'.lost = hist.lost
  <2> DEFINE l == IF hist.last = s THEN "shown" ELSE hist.last
             d == IF hist.last = "shown" THEN hist.drift \cup {"late"} ELSE hist.drift
  <2>1. hist' = [hist EXCEPT !.last = l, !.drift = d]
    BY DEF AnswerWrite
  <2>2. /\ hist \in Histories /\ l \in Slots \cup {"shown", Null}
        /\ d \in SUBSET {"unheard", "late", "others"}
    BY DEF PageTypeOK, Histories
  <2> HIDE DEF l, d
  <2> QED BY <2>1, <2>2, ReasonsType, Zenon
<1>7. requests' \in [Slots -> Asked \cup {Null}]
  BY <1>1, DoneSlot
<1>8. PageTypeOK'
  BY <1>2, <1>5, <1>6, <1>7 DEF PageTypeOK
<1>9. /\ ~Live(s, "load") /\ ~Live(s, "comment")
      /\ Live(s, "edit") <=> requests[s].kind = "edit"
      /\ url = Null => dialog = "none"
  BY <1>1, <1>4 DEF Live, OneAtATime, Writes
<1> QED BY <1>1, <1>2, <1>5, <1>6, <1>8, <1>9, Finished

(* An answer nobody waits for.                                           *)
LEMMA UnseenStep ==
    ASSUME PageInv, NEW s \in Slots, Unseen(s)
    PROVE  PageInv'
<1> USE DEF PageInv
<1>1. /\ requests' = [requests EXCEPT ![s] = Null] /\ \A k : ~Live(s, k)
      /\ UNCHANGED <<rows, comments, inbox, url, ticket, loading, posting, draft, dialog, hist>>
  BY DEF Unseen, Done, Live, database, place, page
<1>2. requests' \in [Slots -> Asked \cup {Null}]
  BY <1>1, DoneSlot
<1>3. PageTypeOK'
  BY <1>1, <1>2 DEF PageTypeOK
<1>4. url = Null => dialog = "none"
  BY DEF OneAtATime
<1> QED BY <1>1, <1>3, <1>4, Finished

(* What a failure may have lost.                                           *)
Losing(h, d, g, l) == [h EXCEPT !.drift = d, !.gap = g, !.lost = l]

LEMMA LostType ==
    ASSUME NEW h \in Histories,
           NEW d \in SUBSET {"unheard", "late", "others"},
           NEW g \in SUBSET {"unheard", "limit", "others"}, NEW l \in SUBSET Nat
    PROVE  /\ Losing(h, d, g, l) \in Histories
           /\ Losing(h, d, g, l).drafts = h.drafts /\ Losing(h, d, g, l).lost = l
  BY DEF Losing, Histories

(* A request of the page fails; a draft may be stored all the same.      *)
LEMMA PageFailsStep ==
    ASSUME PageInv, NEW s \in Slots, PageFails(s)
    PROVE  PageInv'
<1> USE DEF PageInv
<1>1. /\ requests[s] \in Asked /\ requests[s] # Null /\ requests[s].kind \in PageKinds
      /\ requests[s].live
      /\ requests' = [requests EXCEPT ![s] = Null]
  BY DEF PageFails, InFlight, Done, PageTypeOK
<1>2. /\ loading' = IF requests[s].kind = "load" THEN FALSE ELSE loading
      /\ posting' = IF requests[s].kind = "comment" THEN FALSE ELSE posting
      /\ dialog' = IF requests[s].kind = "edit" THEN "open" ELSE dialog
      /\ UNCHANGED <<rows, comments, inbox, url, ticket, draft>>
  BY DEF PageFails, database, place
<1> DEFINE l == IF requests[s].kind = "comment" /\ Handled(s)
                THEN hist.lost \cup {requests[s].arg.draft} ELSE hist.lost
<1>3. hist' \in Histories /\ hist'.drafts = hist.drafts /\ hist'.lost = l
  <2> DEFINE d == IF requests[s].kind = "load" \/ (requests[s].kind \in Writes /\ Handled(s))
                  THEN hist.drift \cup {"unheard"} ELSE hist.drift
             g == IF requests[s].kind = "load" \/ (requests[s].kind = "comment" /\ Handled(s))
                  THEN hist.gap \cup {"unheard"} ELSE hist.gap
  <2>1. hist' = Losing(hist, d, g, l)
    BY DEF PageFails, Losing
  <2>2. /\ hist \in Histories /\ d \in SUBSET {"unheard", "late", "others"}
        /\ g \in SUBSET {"unheard", "limit", "others"}
    BY DEF PageTypeOK, Histories
  <2>3. l \in SUBSET Nat
    BY <1>1, AskedFacts DEF Drafts, PageTypeOK, Histories, PageKinds
  <2> HIDE DEF d, g, l
  <2> QED BY <2>1, <2>2, <2>3, LostType
<1>4. Live(s, requests[s].kind) /\ \A k : Live(s, k) <=> k = requests[s].kind
  BY <1>1 DEF Live
<1>5. /\ url # Null /\ (requests[s].kind = "edit" => ticket # Null)
      /\ requests[s].kind = "edit" => dialog = "saving"
  BY <1>1, <1>4, BusyNow DEF OneAtATime, Writes
<1>6. requests' \in [Slots -> Asked \cup {Null}]
  BY <1>1, DoneSlot
<1>7. PageTypeOK'
  BY <1>2, <1>3, <1>5, <1>6 DEF PageTypeOK
<1>8. /\ hist.lost \subseteq hist'.lost
      /\ Live(s, "comment") /\ ~ToStore(s) => requests[s].arg.draft \in hist'.lost
  BY <1>1, <1>3, <1>4 DEF ToStore, Waiting, Handled
<1>9. /\ loading' <=> loading /\ ~Live(s, "load")
      /\ posting' <=> posting /\ ~Live(s, "comment")
      /\ dialog' = "saving" <=> dialog = "saving" /\ ~Live(s, "edit")
  BY <1>2, <1>4 DEF PageTypeOK
<1> HIDE DEF l
<1> QED BY <1>1, <1>2, <1>3, <1>5, <1>7, <1>8, <1>9, Finished

(* The page stops waiting for one request.                               *)
LEMMA OrphanSlot ==
    ASSUME PageInv, NEW s \in Slots, requests[s] # Null,
           requests' = [requests EXCEPT ![s].live = FALSE]
    PROVE  /\ requests' \in [Slots -> Asked \cup {Null}] /\ NoNewComment
           /\ requests[s] \in Asked /\ requests'[s] = [requests[s] EXCEPT !.live = FALSE]
           /\ \A q \in Slots \ {s} : requests'[q] = requests[q]
           /\ \A q \in Slots : \A k : Live(q, k)' <=> q # s /\ Live(q, k)
<1>1. requests[s] \in Asked
  BY DEF PageInv, PageTypeOK
<1>2. /\ requests'[s] = [requests[s] EXCEPT !.live = FALSE]
      /\ \A q \in Slots \ {s} : requests'[q] = requests[q]
      /\ DOMAIN requests' = Slots /\ requests' = [q \in Slots |-> requests'[q]]
  BY DEF PageInv, PageTypeOK
<1>3. /\ requests'[s] \in Asked /\ requests'[s] # Null /\ ~requests'[s].live
      /\ requests'[s].kind = requests[s].kind /\ requests'[s].arg = requests[s].arg
      /\ requests'[s].got = requests[s].got
  BY <1>1, <1>2, Orphaning, AskedFacts
<1>4. requests' \in [Slots -> Asked \cup {Null}]
  <2>1. \A q \in Slots : requests'[q] \in Asked \cup {Null}
    BY <1>2, <1>3 DEF PageInv, PageTypeOK
  <2> QED BY <1>2, <2>1
<1>5. NoNewComment
  BY <1>2, <1>3 DEF NoNewComment
<1>6. \A q \in Slots : \A k : Live(q, k)' <=> q # s /\ Live(q, k)
  BY <1>2, <1>3 DEF Live
<1> QED BY <1>1, <1>2, <1>4, <1>5, <1>6

(* The proxy gives up; the draft may still be stored, which is noted.    *)
LEMMA TimesOutStep ==
    ASSUME PageInv, NEW s \in Slots, TimesOut(s)
    PROVE  PageInv'
<1> USE DEF PageInv
<1>1. /\ requests[s] # Null /\ requests[s].live /\ requests[s].kind \in Writes \cup {"comment"}
      /\ requests' = [requests EXCEPT ![s].live = FALSE]
      /\ posting' = IF requests[s].kind = "comment" THEN FALSE ELSE posting
      /\ dialog' = IF requests[s].kind = "edit" THEN "open" ELSE dialog
      /\ UNCHANGED <<rows, comments, inbox, url, ticket, loading, draft>>
  BY DEF TimesOut, InFlight, database, place
<1>2. /\ requests' \in [Slots -> Asked \cup {Null}] /\ NoNewComment
      /\ requests[s] \in Asked
      /\ \A q \in Slots : \A k : Live(q, k)' <=> q # s /\ Live(q, k)
  BY <1>1, OrphanSlot
<1> DEFINE l == IF requests[s].kind = "comment"
                THEN hist.lost \cup {requests[s].arg.draft} ELSE hist.lost
<1>3. hist' \in Histories /\ hist'.drafts = hist.drafts /\ hist'.lost = l
  <2>1. hist \in Histories /\ hist' = [hist EXCEPT !.lost = l]
    BY DEF TimesOut, PageTypeOK
  <2>2. l \in SUBSET Nat
    BY <1>2, AskedFacts DEF Drafts, PageTypeOK, Histories
  <2> HIDE DEF l
  <2> QED BY <2>1, <2>2 DEF Histories
<1>4. \A k : Live(s, k) <=> k = requests[s].kind
  BY <1>1 DEF Live
<1>5. url # Null /\ (requests[s].kind = "edit" => ticket # Null)
  BY <1>1, <1>4 DEF OneAtATime, PageKinds, Writes
<1>6. PageTypeOK'
  BY <1>1, <1>2, <1>3, <1>5 DEF PageTypeOK
<1>7. \A k \in {"comment", "edit"} : Live(s, k) => \A q \in Slots : ~Live(q, k)'
  BY <1>2 DEF OneAtATime
<1>8. \A k : ~Live(s, k) => \A q \in Slots : Live(q, k)' <=> Live(q, k)
  BY <1>2
<1>9. ~Live(s, "load")
  BY <1>1, <1>4 DEF Writes
<1>10. BusyEnds'
  BY <1>1, <1>4, <1>7, <1>8, <1>9, BusyNow, BusyThen
<1>11. OneAtATime'
  BY <1>1, <1>2, <1>5 DEF OneAtATime
<1>12. Numbered'
  BY <1>1, <1>2, <1>3 DEF Numbered, NoNewComment
<1>13. \A q \in Slots : ToStore(q)' => ToStore(q) /\ requests'[q].arg = requests[q].arg
  BY <1>2, LessToStore
<1>14. posting /\ ~posting' => draft \in hist'.lost
  BY <1>1, <1>3 DEF Numbered
<1>15. hist.lost \subseteq hist'.lost
  BY <1>3
<1>16. ToStoreOnce'
  BY <1>1, <1>13, <1>14, <1>15 DEF ToStoreOnce, Stored
<1>17. OneCommentPerDraft'
  BY <1>1, <1>15 DEF OneCommentPerDraft
<1> QED BY <1>6, <1>10, <1>11, <1>12, <1>16, <1>17

(* The comment is on the page, and the form has a new draft.             *)
LEMMA AnswerCommentStep ==
    ASSUME PageInv, NEW s \in Slots, AnswerComment(s)
    PROVE  PageInv'
<1> USE DEF PageInv
<1>1. /\ requests[s] # Null /\ requests[s].kind = "comment" /\ requests[s].live
      /\ requests' = [requests EXCEPT ![s] = Null]
      /\ posting' = FALSE /\ draft' = hist.drafts + 1
      /\ hist' = [hist EXCEPT !.drafts = @ + 1]
      /\ UNCHANGED <<rows, comments, inbox, url, ticket, loading, dialog>>
  BY DEF AnswerComment, Answered, Handled, Done, database, place
<1>2. /\ hist' \in Histories /\ hist'.drafts = hist.drafts + 1 /\ hist'.lost = hist.lost
      /\ hist.drafts \in Nat
  <2>1. hist \in Histories /\ hist' = [hist EXCEPT !.drafts = @ + 1]
    BY <1>1 DEF PageTypeOK
  <2> QED BY <2>1 DEF Histories
<1>3. /\ requests' \in [Slots -> Asked \cup {Null}] /\ NoNewComment
      /\ requests'[s] = Null /\ \A q \in Slots \ {s} : requests'[q] = requests[q]
      /\ \A q \in Slots : \A k : Live(q, k)' <=> q # s /\ Live(q, k)
  BY <1>1, DoneSlot
<1>4. PageTypeOK'
  <2>1. draft' \in Nat
    BY <1>1, <1>2
  <2> QED BY <1>1, <1>2, <1>3, <2>1 DEF PageTypeOK
<1>5. Live(s, "comment") /\ ~Live(s, "load") /\ ~Live(s, "edit")
  BY <1>1 DEF Live
<1>6. \A q \in Slots : ~Live(q, "comment")'
  BY <1>3, <1>5 DEF OneAtATime
<1>7. BusyEnds'
  BY <1>1, <1>3, <1>5, <1>6, BusyNow, BusyThen
<1>8. OneAtATime'
  BY <1>1, <1>3 DEF OneAtATime
<1>9. \A q \in Slots : requests'[q] # Null /\ requests'[q].kind = "comment" =>
         /\ requests[q] # Null /\ requests'[q] = requests[q] /\ ~requests'[q].live
  BY <1>3, <1>6 DEF Live
<1>10. Numbered'
  <2>1. \A u \in Tickets : \A i \in DOMAIN comments[u] :
           comments[u][i].draft \in Nat /\ comments[u][i].draft <= hist.drafts
    BY StoredFacts DEF Numbered
  <2>2. \A q \in Slots : requests'[q] # Null /\ requests'[q].kind = "comment" =>
           requests'[q].arg.draft \in 1 .. hist.drafts /\ ~requests'[q].live
    BY <1>9 DEF Numbered
  <2>3. draft' = hist'.drafts /\ draft' > 0
    BY <1>1, <1>2
  <2>4. \A u \in Tickets : \A i \in DOMAIN comments'[u] : comments'[u][i].draft <= hist'.drafts
    BY <1>1, <1>2, <2>1
  <2>5. \A q \in Slots : requests'[q] # Null /\ requests'[q].kind = "comment" =>
           /\ requests'[q].arg.draft \in 1 .. hist'.drafts
           /\ requests'[q].live => requests'[q].arg.draft = draft'
    BY <1>2, <2>2
  <2> QED BY <2>3, <2>4, <2>5 DEF Numbered
<1>11. \A d : Stored(d)' <=> Stored(d)
  BY <1>1 DEF Stored
<1>12. \A q \in Slots : ToStore(q)' =>
         ToStore(q) /\ requests'[q].arg = requests[q].arg /\ requests[q].arg.draft # draft'
  BY <1>1, <1>2, <1>9 DEF ToStore, Waiting, Numbered
<1>13. ~Stored(draft')
  BY <1>1, <1>2, StoredFacts DEF Stored, Numbered
<1>14. ToStoreOnce'
  BY <1>2, <1>11, <1>12, <1>13 DEF ToStoreOnce
<1>15. OneCommentPerDraft'
  BY <1>1, <1>2 DEF OneCommentPerDraft
<1> QED BY <1>4, <1>7, <1>8, <1>10, <1>14, <1>15

-----------------------------------------------------------------------------

(* The invariant holds at first.                                         *)
LEMMA PageInit == Init => PageInv
<1> SUFFICES ASSUME Init PROVE PageInv
  OBVIOUS
<1>1. PICK s \in Slots : requests = [r \in Slots |->
          IF r = s THEN Request("count", Null, Null) ELSE Null]
  BY DEF Init
<1>2. /\ requests \in [Slots -> Asked \cup {Null}]
      /\ \A r \in Slots : requests[r] # Null => requests[r].kind = "count"
  BY <1>1, SentAsked, SentFacts
<1>3. NewRow \in Rows
  BY TicketPageAssumption DEF NewRow, Rows
<1>4. comments \in [Tickets -> Seq(Drafts)] /\ \A t \in Tickets : comments[t] = <<>>
  BY EmptySeq DEF Init
<1>5. hist \in Histories /\ hist.drafts = 0
  BY DEF Init, Histories
<1>6. PageTypeOK
  BY <1>2, <1>3, <1>4, <1>5 DEF Init, PageTypeOK
<1>7. \A r \in Slots, k \in PageKinds : ~Live(r, k)
  BY <1>2 DEF Live, PageKinds
<1>8. BusyEnds
  BY <1>7, BusyNow DEF Init, PageKinds
<1>9. OneAtATime
  BY <1>7 DEF Init, OneAtATime, PageKinds, Writes
<1>10. \A d : ~Stored(d)
  BY <1>4 DEF Stored
<1>11. \A r \in Slots : ~ToStore(r)
  BY <1>2 DEF ToStore, Waiting
<1>12. Numbered
  BY <1>2, <1>4 DEF Init, Numbered
<1>13. ToStoreOnce /\ OneCommentPerDraft
  BY <1>4, <1>10, <1>11 DEF ToStoreOnce, OneCommentPerDraft
<1> QED BY <1>6, <1>8, <1>9, <1>12, <1>13 DEF PageInv

(* Every step keeps it.                                                  *)
LEMMA PageNext == PageInv /\ [Next]_vars => PageInv'
<1> SUFFICES ASSUME PageInv, [Next]_vars PROVE PageInv'
  OBVIOUS
<1>1. CASE UNCHANGED vars
  <2>1. UNCHANGED <<rows, comments, inbox, url, ticket, loading, posting, draft, dialog,
                    requests, hist>>
    BY <1>1 DEF vars, database, place, page
  <2>2. PageTypeOK' /\ Numbered' /\ OneCommentPerDraft'
    BY <2>1 DEF PageInv, PageTypeOK, Numbered, OneCommentPerDraft
  <2>3. \A s, k : Live(s, k)' <=> Live(s, k)
    BY <2>1 DEF Live
  <2>4. BusyEnds' /\ OneAtATime'
    BY <2>1, <2>3, BusyNow, BusyThen DEF PageInv, OneAtATime
  <2>5. ToStoreOnce'
    BY <2>1 DEF PageInv, ToStoreOnce, ToStore, Waiting, Stored
  <2> QED BY <2>2, <2>4, <2>5 DEF PageInv
<1>2. CASE Back
  BY <1>2, BackStep
<1>3. CASE Edit
  BY <1>3, EditStep
<1>4. CASE Dismiss
  BY <1>4, DismissStep
<1>5. CASE CloseMenu
  BY <1>5, OthersElsewhere
<1>6. CASE Others
  BY <1>6, OthersWriteStep, OthersCommentStep, OthersElsewhere DEF Others
<1>7. ASSUME NEW s \in Slots, User(s)
      PROVE  PageInv'
  BY <1>7, Arrivals, PageSends, AddCommentStep, SaveStep, MenuSends DEF User
<1>8. ASSUME NEW s \in Slots, API(s)
      PROVE  PageInv'
  BY <1>8, ReadSteps, ServeWriteStep, ServeCommentStep, MenuServed DEF API
<1>9. ASSUME NEW s \in Slots, Answers(s)
      PROVE  PageInv'
  BY <1>9, AnswerLoadStep, AnswerWriteStep, AnswerCommentStep, UnseenStep, PageFailsStep,
     TimesOutStep, MenuAnswered, Arrivals DEF Answers
<1> QED BY <1>1, <1>2, <1>3, <1>4, <1>5, <1>6, <1>7, <1>8, <1>9 DEF Next

(* What the page and the API store is typed, and the inductive invariant   *)
(* above holds, in every run.                                              *)
THEOREM TicketPageIsSound == Spec => []PageInv
<1> QED BY PageInit, PageNext, PTL DEF Spec

(* load(), addComment(), save() of the ticket form: the loading bar, the   *)
(* comment form and the dialog are busy only while an answer is to end it. *)
THEOREM BusyPagesAreAnswered == Spec => []BusyEnds
<1>1. PageInv => BusyEnds
  BY DEF PageInv
<1> QED BY <1>1, TicketPageIsSound, PTL

(* addComment(): a text is stored as two comments only if the answer to    *)
(* the first got lost.                                                     *)
THEOREM TextsAreStoredOnce == Spec => []OneCommentPerDraft
<1>1. PageInv => OneCommentPerDraft
  BY DEF PageInv
<1> QED BY <1>1, TicketPageIsSound, PTL

-----------------------------------------------------------------------------
(* Numbers in order.                                                       *)

(* A set of numbers that is not empty has a least one.                     *)
LEMMA LeastNatural ==
    ASSUME NEW T \in SUBSET Nat, T # {}
    PROVE  \E n \in T : \A m \in T : n <= m
<1> HIDE DEF OpToRel
<1>1. PICK n \in T : \A m \in T : ~ (<<m, n>> \in OpToRel(<, Nat))
  BY WFMin, NatLessThanWellFounded
<1>2. ASSUME NEW m \in T, m < n
      PROVE  FALSE
  <2>1. m \in Nat /\ n \in Nat
    OBVIOUS
  <2>2. <<m, n>> \in OpToRel(<, Nat)
    BY <2>1, <1>2 DEF OpToRel
  <2> QED BY <2>2, <1>1
<1> QED BY <1>2

Lower(S, n) == {m \in S : m < n}

(* What is lower than n in S.                                              *)
LEMMA LowerIs ==
    ASSUME NEW S \in SUBSET Nat, NEW n
    PROVE  \A m : m \in Lower(S, n) <=> m \in S /\ m \in Nat /\ m < n
  BY DEF Lower

(* A finite set has finitely many lower ones, and the more the higher.     *)
LEMMA LowerFacts ==
    ASSUME NEW S \in SUBSET Nat, IsFiniteSet(S)
    PROVE  /\ Cardinality(S) \in Nat
           /\ \A n : IsFiniteSet(Lower(S, n)) /\ Cardinality(Lower(S, n)) \in Nat
           /\ \A n, m \in S : n < m => Cardinality(Lower(S, n)) < Cardinality(Lower(S, m))
<1>1. /\ Cardinality(S) \in Nat
      /\ \A n : IsFiniteSet(Lower(S, n)) /\ Cardinality(Lower(S, n)) \in Nat
  BY FS_Subset, FS_CardinalityType DEF Lower
<1>2. ASSUME NEW n \in S, NEW m \in S, n < m
      PROVE  Cardinality(Lower(S, n)) < Cardinality(Lower(S, m))
  <2>1. /\ Lower(S, n) \subseteq Lower(S, m)
        /\ n \in Lower(S, m) /\ n \notin Lower(S, n)
    <3>1. n \in Nat /\ m \in Nat
      OBVIOUS
    <3>2. \A x \in Nat : x < n => x < m
      BY <1>2, <3>1
    <3> QED BY <1>2, <3>1, <3>2, LowerIs
  <2> QED BY <2>1, <1>1, FS_Subset
<1> QED BY <1>1, <1>2

(* Of finitely many numbers there is one of every rank.                    *)
LEMMA RankExists ==
    ASSUME NEW S \in SUBSET Nat, IsFiniteSet(S), NEW k \in Nat, k < Cardinality(S)
    PROVE  \E n \in S : Cardinality(Lower(S, n)) = k
<1> DEFINE Ranks == {Cardinality(Lower(S, n)) : n \in S}
           Bad == {i \in Nat : i < Cardinality(S) /\ i \notin Ranks}
<1> SUFFICES ASSUME Bad # {} PROVE FALSE
  OBVIOUS
<1>1. PICK i \in Bad : \A j \in Bad : i <= j
  BY LeastNatural
<1>2. Cardinality(S) \in Nat
  BY LowerFacts
<1>3. CASE i = 0
  <2>1. S # {}
    BY <1>1, <1>3, FS_EmptySet
  <2>2. PICK n \in S : \A m \in S : n <= m
    BY <2>1, LeastNatural
  <2>3. Lower(S, n) = {}
    <3>1. n \in Nat /\ \A m \in S : m \in Nat /\ ~ (m < n)
      BY <2>2
    <3> QED BY <3>1, LowerIs
  <2> QED BY <1>1, <1>3, <2>3, FS_EmptySet
<1>4. CASE i # 0
  <2>1. i - 1 \in Nat /\ i - 1 < Cardinality(S) /\ i - 1 \notin Bad
    BY <1>1, <1>2, <1>4
  <2>2. PICK n \in S : Cardinality(Lower(S, n)) = i - 1
    BY <2>1
  <2> DEFINE Upper == {m \in S : n < m}
             Upto == Lower(S, n) \cup {n}
  <2>3. IsFiniteSet(Upto) /\ Cardinality(Upto) = i
    <3>1. n \notin Lower(S, n) /\ IsFiniteSet(Lower(S, n))
      BY LowerFacts DEF Lower
    <3>2. IsFiniteSet(Upto) /\ Cardinality(Upto) = Cardinality(Lower(S, n)) + 1
      BY <3>1, FS_AddElement
    <3> QED BY <3>2, <2>2, <1>1
  <2>4. Upper # {}
    <3>1. ASSUME Upper = {}
          PROVE  FALSE
      <4>0. \A m \in S : m < n \/ m = n
        BY <3>1
      <4>1. \A m : m \in S <=> m \in Upto
        <5>1. \A m \in S : m \in Nat /\ m \in Upto
          BY <4>0, LowerIs
        <5>2. \A m \in Upto : m \in S
          BY LowerIs
        <5> QED BY <5>1, <5>2
      <4>2. S = Upto
        BY <4>1
      <4> QED BY <4>2, <2>3, <1>1
    <3> QED BY <3>1
  <2>5. PICK u \in Upper : \A m \in Upper : u <= m
    BY <2>4, LeastNatural
  <2>6. Lower(S, u) = Upto
    <3>0. u \in S /\ u \in Nat /\ n \in Nat /\ n < u
      BY <2>5
    <3>1. ASSUME NEW m \in S
          PROVE  m < u <=> m < n \/ m = n
      <4>1. m \in Nat /\ (n < m => u <= m)
        BY <2>5
      <4> QED BY <3>0, <4>1
    <3> HIDE DEF Upper
    <3>2. \A m : m \in Lower(S, u) <=> m \in Upto
      BY <3>0, <3>1, LowerIs
    <3> QED BY <3>2
  <2> QED BY <2>3, <2>5, <2>6, <1>1
<1> QED BY <1>3, <1>4

(* The i-th of some numbers, and its place in the list of comments.        *)
Nth(S, i) == CHOOSE n \in S : Cardinality({m \in S : m < n}) = i - 1

(* The i-th of a finite set is one of it and has i - 1 lower ones.         *)
LEMMA NthFacts ==
    ASSUME NEW S \in SUBSET Nat, IsFiniteSet(S), NEW i \in 1 .. Cardinality(S)
    PROVE  Nth(S, i) \in S /\ Cardinality(Lower(S, Nth(S, i))) = i - 1
<1>1. i - 1 \in Nat /\ i - 1 < Cardinality(S)
  BY LowerFacts
<1>2. \E n \in S : Cardinality(Lower(S, n)) = i - 1
  BY <1>1, RankExists
<1>3. \E n \in S : Cardinality({m \in S : m < n}) = i - 1
  BY <1>2 DEF Lower
<1> QED BY <1>3 DEF Nth, Lower

(* And no other has that many.                                             *)
LEMMA NthIsUnique ==
    ASSUME NEW S \in SUBSET Nat, IsFiniteSet(S), NEW i \in 1 .. Cardinality(S),
           NEW n \in S, Cardinality(Lower(S, n)) = i - 1
    PROVE  Nth(S, i) = n
<1> DEFINE m == Nth(S, i)
<1>1. m \in S /\ Cardinality(Lower(S, m)) = i - 1
  BY NthFacts
<1>2. m \in Nat /\ n \in Nat
  BY <1>1
<1> HIDE DEF m
<1>3. ~ (m < n) /\ ~ (n < m)
  BY <1>1, LowerFacts
<1>4. m = n
  BY <1>2, <1>3
<1> QED BY <1>4 DEF m

(* InOrder sends one comment for each number, the i-th at the i-th place.  *)
LEMMA InOrderFacts ==
    ASSUME NEW t, NEW S \in SUBSET Nat, IsFiniteSet(S)
    PROVE  /\ DOMAIN InOrder(t, S) = 1 .. Cardinality(S)
           /\ \A i \in 1 .. Cardinality(S) :
                 InOrder(t, S)[i] = [ticket |-> t, number |-> Nth(S, i)]
  BY DEF InOrder, Nth

(* What it sends is of the ticket asked for, from the numbers given, and   *)
(* in their order.                                                         *)
LEMMA InOrderGrows ==
    ASSUME NEW t, NEW S \in SUBSET Nat, IsFiniteSet(S),
           NEW i \in DOMAIN InOrder(t, S)
    PROVE  /\ InOrder(t, S)[i].ticket = t /\ InOrder(t, S)[i].number \in S
           /\ \A j \in DOMAIN InOrder(t, S) :
                 i < j => InOrder(t, S)[i].number < InOrder(t, S)[j].number
<1>1. i \in 1 .. Cardinality(S) /\ DOMAIN InOrder(t, S) = 1 .. Cardinality(S)
  BY InOrderFacts
<1>2. InOrder(t, S)[i] = [ticket |-> t, number |-> Nth(S, i)] /\ Nth(S, i) \in S
  BY <1>1, InOrderFacts, NthFacts
<1>3. ASSUME NEW j \in 1 .. Cardinality(S), i < j
      PROVE  Nth(S, i) < Nth(S, j) /\ InOrder(t, S)[j].number = Nth(S, j)
  <2>1. Nth(S, i) \in Nat /\ Nth(S, j) \in Nat /\ Nth(S, j) \in S
    BY <1>1, <1>2, NthFacts
  <2>2. /\ Cardinality(Lower(S, Nth(S, i))) = i - 1
        /\ Cardinality(Lower(S, Nth(S, j))) = j - 1
    BY <1>1, NthFacts
  <2>3. ~ (Nth(S, j) < Nth(S, i)) /\ Nth(S, i) # Nth(S, j)
    BY <1>1, <1>2, <1>3, <2>1, <2>2, LowerFacts
  <2>4. InOrder(t, S)[j] = [ticket |-> t, number |-> Nth(S, j)]
    BY InOrderFacts
  <2> QED BY <2>1, <2>3, <2>4
<1> QED BY <1>1, <1>2, <1>3

(* The newest number is the last.                                          *)
LEMMA InOrderAppends ==
    ASSUME NEW t, NEW S \in SUBSET Nat, IsFiniteSet(S), NEW n \in Nat,
           \A m \in S : m < n
    PROVE  InOrder(t, S \cup {n}) = Append(InOrder(t, S), [ticket |-> t, number |-> n])
<1> DEFINE T == S \cup {n}
           c == Cardinality(S)
           e == [ticket |-> t, number |-> n]
<1>1. /\ T \in SUBSET Nat /\ IsFiniteSet(T) /\ Cardinality(T) = c + 1 /\ c \in Nat
  <2>1. n \notin S
    OBVIOUS
  <2> QED BY <2>1, FS_AddElement, LowerFacts
<1>2. \A i \in 1 .. c : Nth(T, i) = Nth(S, i)
  <2>1. ASSUME NEW i \in 1 .. c
        PROVE  Nth(T, i) = Nth(S, i)
    <3> DEFINE x == Nth(S, i)
    <3>1. x \in S /\ Cardinality(Lower(S, x)) = i - 1
      BY <2>1, NthFacts
    <3>2. Lower(T, x) = Lower(S, x)
      <4>1. x \in Nat /\ ~ (n < x)
        <5> HIDE DEF x
        <5>1. x \in Nat /\ x < n
          BY <3>1
        <5> QED BY <5>1
      <4>2. \A m : m \in T <=> m \in S \/ m = n
        OBVIOUS
      <4> HIDE DEF x, T
      <4> QED BY <1>1, <4>1, <4>2, LowerIs
    <3>3. i \in 1 .. Cardinality(T)
      BY <1>1, <2>1
    <3> HIDE DEF x, T, c
    <3>4. x \in T
      BY <3>1 DEF T
    <3>5. Nth(T, i) = x
      BY <1>1, <3>1, <3>2, <3>3, <3>4, NthIsUnique
    <3> QED BY <3>5 DEF x
  <2> QED BY <2>1
<1>3. Nth(T, c + 1) = n
  <2>1. Lower(T, n) = S
    <3>0. ~ (n < n)
      OBVIOUS
    <3>1. \A m : (m \in T /\ m < n) <=> m \in S
      BY <3>0
    <3> HIDE DEF T
    <3> QED BY <1>1, <3>1, LowerIs
  <2>2. c + 1 \in 1 .. Cardinality(T) /\ Cardinality(Lower(T, n)) = (c + 1) - 1 /\ n \in T
    BY <1>1, <2>1
  <2> HIDE DEF T, c
  <2> QED BY <1>1, <2>2, NthIsUnique
<1>4. /\ InOrder(t, T) = [i \in 1 .. Cardinality(T) |-> [ticket |-> t, number |-> Nth(T, i)]]
      /\ InOrder(t, S) = [i \in 1 .. c |-> [ticket |-> t, number |-> Nth(S, i)]]
  BY DEF InOrder, Nth
<1> HIDE DEF T, c
<1>5. InOrder(t, S) \in Seq({InOrder(t, S)[i] : i \in 1 .. c}) /\ Len(InOrder(t, S)) = c
  BY <1>1, <1>4
<1>6. Append(InOrder(t, S), e) = [i \in 1 .. (c + 1) |-> IF i \in 1 .. c THEN InOrder(t, S)[i] ELSE e]
  BY <1>1, <1>5 
<1>7. InOrder(t, T) = [i \in 1 .. (c + 1) |-> [ticket |-> t, number |-> Nth(T, i)]]
  BY <1>1, <1>4
<1>8. ASSUME NEW i \in 1 .. (c + 1)
      PROVE  [ticket |-> t, number |-> Nth(T, i)]
                = IF i \in 1 .. c THEN InOrder(t, S)[i] ELSE e
  <2>1. CASE i \in 1 .. c
    BY <2>1, <1>2, <1>4
  <2>2. CASE i \notin 1 .. c
    <3>1. i = c + 1
      BY <2>2, <1>1
    <3> QED BY <3>1, <2>2, <1>3
  <2> QED BY <2>1, <2>2
<1>9. InOrder(t, T) = Append(InOrder(t, S), e)
  BY <1>6, <1>7, <1>8
<1> QED BY <1>9 DEF T

-----------------------------------------------------------------------------
(* What the page shows.                                                    *)

(* What is asked for the page is about the ticket it was opened with; it   *)
(* is empty until its load is answered.                                    *)
OnPage ==
    /\ opened \in Tickets \cup {Null}
    /\ url = Null <=> opened = Null
    /\ url = Null => ticket = Null
    /\ ticket = Null => list = <<>>
    /\ ticket # Null => ticket.id = opened
    /\ \A s \in Slots, k \in PageKinds : Live(s, k) =>
          requests[s].to = opened /\ (ticket = Null <=> k = "load")

(* With nothing missed, what is read for the page is the row, and the page *)
(* shows it unless the newest write the API served is still unanswered.    *)
LastWrite(s) ==
    /\ hist.last = s /\ requests[s] # Null /\ requests[s].live /\ requests[s].kind \in Writes
    /\ requests[s].got # Null /\ requests[s].row = rows[opened]
RowIsCurrent ==
    hist.drift = {} =>
        /\ \A s \in Slots : Live(s, "load") => requests[s].row \in {Null, rows[opened]}
        /\ ticket # Null =>
              \/ hist.last \in {Null, "shown"} /\ ticket.row = rows[opened]
              \/ \E s \in Slots : LastWrite(s)
NoWriteYet ==
    /\ opened # Null /\ ticket = Null => hist.last = Null
    /\ hist.last = Null => \A s \in Slots, k \in Writes : Live(s, k) => requests[s].got = Null

(* The comments are those of the ticket, and one that is coming is newer.  *)
ComingIn(s) == Live(s, "comment") /\ requests[s].got # Null
ListIsSound ==
    /\ list \in Seq(References)
    /\ \A i, j \in DOMAIN list : i < j => list[i].number < list[j].number
    /\ \A i \in DOMAIN list :
          /\ ticket # Null /\ list[i].ticket = ticket.id
          /\ list[i].number \in Visible(ticket.id)
    /\ \A s \in Slots : Live(s, "load") =>
          requests[s].got = Null \/ requests[s].got \subseteq Visible(requests[s].to)
    /\ \A s \in Slots : ComingIn(s) =>
          /\ requests[s].got.ticket = requests[s].to
          /\ requests[s].got.number \in Visible(requests[s].to)
          /\ \A i \in DOMAIN list : list[i].number < requests[s].got.number

(* With nothing missed, all of them are there but the one that is coming.  *)
Coming == {requests[s].got.number : s \in {q \in Slots : ComingIn(q)}}
WholeList == list = InOrder(opened, Visible(opened) \ Coming)
ListIsCurrent ==
    hist.gap = {} =>
        /\ \A s \in Slots : Live(s, "load") => requests[s].got \in {Null, Visible(opened)}
        /\ ticket # Null => WholeList
        /\ \A s \in Slots : ComingIn(s) =>
              \A n \in Visible(opened) : n <= requests[s].got.number

ShownInv == OnPage /\ RowIsCurrent /\ NoWriteYet /\ ListIsSound /\ ListIsCurrent

(* The reasons the page may be behind, and those the badge may be off.     *)
LEMMA HistoryFields ==
    ASSUME NEW h \in Histories
    PROVE  /\ \A d : /\ [h EXCEPT !.drift = d].drift = d /\ [h EXCEPT !.drift = d].gap = h.gap
                     /\ [h EXCEPT !.drift = d].last = h.last
                     /\ [h EXCEPT !.drift = d].miscounts = h.miscounts
           /\ \A g : /\ [h EXCEPT !.gap = g].drift = h.drift /\ [h EXCEPT !.gap = g].gap = g
                     /\ [h EXCEPT !.gap = g].last = h.last
                     /\ [h EXCEPT !.gap = g].miscounts = h.miscounts
           /\ \A m : /\ [h EXCEPT !.miscounts = m].drift = h.drift
                     /\ [h EXCEPT !.miscounts = m].gap = h.gap
                     /\ [h EXCEPT !.miscounts = m].last = h.last
                     /\ [h EXCEPT !.miscounts = m].miscounts = m
           /\ \A n : /\ [h EXCEPT !.drafts = n].drift = h.drift /\ [h EXCEPT !.drafts = n].gap = h.gap
                     /\ [h EXCEPT !.drafts = n].last = h.last
                     /\ [h EXCEPT !.drafts = n].miscounts = h.miscounts
           /\ \A l, d : /\ [h EXCEPT !.last = l, !.drift = d].drift = d
                        /\ [h EXCEPT !.last = l, !.drift = d].gap = h.gap
                        /\ [h EXCEPT !.last = l, !.drift = d].last = l
                        /\ [h EXCEPT !.last = l, !.drift = d].miscounts = h.miscounts
           /\ \A d, g, l : /\ Losing(h, d, g, l).drift = d /\ Losing(h, d, g, l).gap = g
                           /\ Losing(h, d, g, l).last = h.last
                           /\ Losing(h, d, g, l).miscounts = h.miscounts
  BY DEF Histories, Losing

(* Visible depends on the role and the comments of the ticket only.        *)
LEMMA VisibleFacts ==
    ASSUME PageTypeOK, NEW t \in Tickets
    PROVE  /\ Visible(t) \in SUBSET Nat /\ IsFiniteSet(Visible(t))
           /\ Visible(t) = {n \in 1 .. Len(comments[t]) : IsStaff \/ ~comments[t][n].internal}
           /\ FirstComments(t) \subseteq Visible(t)
           /\ Cardinality(Visible(t)) <= CommentLimit => FirstComments(t) = Visible(t)
<1>1. Len(comments[t]) \in Nat
  BY LenProperties DEF PageTypeOK
<1>2. Visible(t) \in SUBSET Nat /\ IsFiniteSet(Visible(t))
  <2>1. Visible(t) \subseteq 1 .. Len(comments[t])
    BY DEF Visible
  <2>2. IsFiniteSet(1 .. Len(comments[t])) /\ 1 .. Len(comments[t]) \subseteq Nat
    BY <1>1, FS_Interval
  <2> QED BY <2>1, <2>2, FS_Subset
<1>3. ASSUME Cardinality(Visible(t)) <= CommentLimit, NEW n \in Visible(t)
      PROVE  Cardinality({m \in Visible(t) : m < n}) < CommentLimit
  <2> DEFINE V == Visible(t)
  <2>1. Lower(V, n) \subseteq V /\ n \in V /\ n \notin Lower(V, n)
    <3>1. n \in Nat
      BY <1>2
    <3> HIDE DEF V
    <3>2. ~ (n < n)
      BY <3>1
    <3> QED BY <1>3, <3>2 DEF Lower, V
  <2>2. /\ Cardinality(Lower(V, n)) < Cardinality(V)
        /\ Cardinality(Lower(V, n)) \in Nat /\ Cardinality(V) \in Nat
    BY <1>2, <2>1, FS_Subset, LowerFacts
  <2>3. Cardinality(Lower(V, n)) < CommentLimit
    <3> HIDE DEF V
    <3>1. Cardinality(V) <= CommentLimit
      BY <1>3 DEF V
    <3> QED BY <2>2, <3>1, TicketPageAssumption
  <2> QED BY <2>3 DEF Lower
<1> QED BY <1>2, <1>3 DEF FirstComments, Visible

(* What happens beside the page: requests of it are sent, fail or are left *)
(* behind, which is noted where it matters.                                *)
Beside ==
    /\ UNCHANGED <<role, rows, comments, opened, ticket, list>>
    /\ url' = Null <=> url = Null
    /\ hist'.last = hist.last
    /\ hist'.drift = {} => hist.drift = {}
    /\ hist'.gap = {} => hist.gap = {}
    /\ \A s \in Slots, k \in PageKinds : Live(s, k)' =>
          \/ Live(s, k) /\ requests'[s] = requests[s]
          \/ /\ requests'[s].got = Null /\ requests'[s].to = opened
             /\ ticket # Null /\ k # "load"
    /\ \A s \in Slots, k \in PageKinds : Live(s, k) /\ requests[s].got # Null =>
          \/ requests'[s] = requests[s]
          \/ k \in Writes /\ hist'.drift # {}
          \/ k = "comment" /\ hist'.gap # {}
          \/ k = "load" /\ ticket = Null
(* A step beside the page keeps what it shows.                             *)
LEMMA ShownKept ==
    ASSUME ShownInv, Beside
    PROVE  ShownInv'
<1> USE DEF ShownInv, Beside
<1>0. /\ {"load", "comment"} \cup Writes \subseteq PageKinds
      /\ "load" \notin Writes /\ "comment" \notin Writes /\ "comment" # "load"
  BY DEF PageKinds, Writes
<1>1. OnPage'
  BY <1>0 DEF OnPage
<1>2. \A t : Visible(t)' = Visible(t)
  BY DEF Visible, IsStaff
<1>3. \A s \in Slots : Live(s, "load")' => Live(s, "load") /\ requests'[s] = requests[s]
  BY <1>0
<1>4. \A s \in Slots : ComingIn(s)' => ComingIn(s) /\ requests'[s] = requests[s]
  BY <1>0 DEF ComingIn
<1>5. hist'.gap = {} => /\ \A s \in Slots : ComingIn(s) => requests'[s] = requests[s]
                        /\ Coming' = Coming
  <2>1. ASSUME hist'.gap = {}, NEW s \in Slots, ComingIn(s)
        PROVE  requests'[s] = requests[s] /\ ComingIn(s)'
    <3>1. requests'[s] = requests[s]
      BY <1>0, <2>1 DEF ComingIn
    <3> QED BY <2>1, <3>1 DEF ComingIn, Live
  <2> QED BY <1>4, <2>1 DEF Coming
<1>6. ASSUME hist'.drift = {}, NEW s \in Slots, LastWrite(s)
      PROVE  LastWrite(s)'
  <2>1. Live(s, requests[s].kind) /\ requests[s].kind \in Writes
    BY <1>6 DEF LastWrite, Live
  <2>2. requests'[s] = requests[s]
    BY <1>0, <1>6, <2>1 DEF LastWrite
  <2> QED BY <1>0, <1>6, <2>2 DEF LastWrite
<1>7. RowIsCurrent'
  BY <1>0, <1>3, <1>6 DEF RowIsCurrent
<1>8. NoWriteYet'
  BY <1>0 DEF NoWriteYet
<1>9. ListIsSound'
  BY <1>2, <1>3, <1>4 DEF ListIsSound
<1>10. ListIsCurrent'
  <2>1. Visible(opened)' = Visible(opened)
    BY <1>0 DEF Visible, IsStaff
  <2>2. ASSUME hist'.gap = {}, ticket # Null
        PROVE  WholeList'
    <3>1. Coming' = Coming /\ WholeList
      BY <1>5, <2>2 DEF ListIsCurrent
    <3> QED BY <1>0, <2>1, <3>1 DEF WholeList, InOrder
  <2>3. ASSUME hist'.gap = {}, NEW s \in Slots, Live(s, "load")'
        PROVE  requests'[s].got \in {Null, Visible(opened)'}
    BY <1>0, <1>3, <2>1, <2>3 DEF ListIsCurrent
  <2>4. ASSUME hist'.gap = {}, NEW s \in Slots, ComingIn(s)'
        PROVE  \A n \in Visible(opened)' : n <= requests'[s].got.number
    BY <1>0, <1>4, <2>1, <2>4 DEF ListIsCurrent
  <2> QED BY <2>2, <2>3, <2>4 DEF ListIsCurrent
<1> QED BY <1>1, <1>7, <1>8, <1>9, <1>10

(* A reason why the badge may be off changes no other reason.              *)
LEMMA MissesFields ==
    ASSUME PageInv, hist' = hist \/ \E m : hist' = [hist EXCEPT !.miscounts = m]
    PROVE  hist'.drift = hist.drift /\ hist'.gap = hist.gap /\ hist'.last = hist.last
<1>1. hist \in Histories
  BY DEF PageInv, PageTypeOK
<1>2. ASSUME NEW m, hist' = [hist EXCEPT !.miscounts = m]
      PROVE  hist'.drift = hist.drift /\ hist'.gap = hist.gap /\ hist'.last = hist.last
  BY <1>1, <1>2, HistoryFields, Zenon
<1> QED BY <1>2, Zenon

(* A step of the menu, or of the worker.                                   *)
LEMMA MenuBeside ==
    ASSUME PageInv, ShownInv, NEW s \in Slots, NEW r \in Asked \cup {Null},
           requests' = [requests EXCEPT ![s] = r],
           requests[s] = Null \/ requests[s].kind \notin PageKinds,
           r = Null \/ r.kind \notin PageKinds,
           UNCHANGED <<role, rows, comments, opened, ticket, list>>,
           url' = Null <=> url = Null,
           hist' = hist \/ \E m : hist' = [hist EXCEPT !.miscounts = m]
    PROVE  ShownInv'
<1>1. requests'[s] = r /\ \A q \in Slots \ {s} : requests'[q] = requests[q]
  BY DEF PageInv, PageTypeOK
<1>2. \A q \in Slots, k \in PageKinds : Live(q, k) \/ Live(q, k)' => q # s
  BY <1>1 DEF Live
<1>3. hist'.drift = hist.drift /\ hist'.gap = hist.gap /\ hist'.last = hist.last
  BY MissesFields
<1>4. \A q \in Slots, k \in PageKinds :
         Live(q, k) \/ Live(q, k)' => requests'[q] = requests[q] /\ Live(q, k)
  BY <1>1, <1>2 DEF Live
<1>5. Beside
  BY <1>3, <1>4 DEF Beside
<1> QED BY <1>5, ShownKept

(* The menu and the API that serves it leave the page alone.               *)
LEMMA MenuShown ==
    ASSUME PageInv, ShownInv, NEW s \in Slots,
           \/ OpenMenu(s) \/ MarkAllRead(s) \/ \E n \in Notes : OpenUnread(s, n)
           \/ ServeCount(s) \/ ServeList(s) \/ ServeRead(s) \/ ServeReadAll(s)
           \/ AnswerCount(s) \/ AnswerList(s) \/ AnswerReadAll(s) \/ LayoutFails(s)
    PROVE  ShownInv'
<1>1. /\ UNCHANGED <<role, rows, comments, opened, ticket, list>>
      /\ url' = Null <=> url = Null
      /\ hist' = hist \/ \E m : hist' = [hist EXCEPT !.miscounts = m]
  BY DEF OpenMenu, MarkAllRead, OpenUnread, ServeCount, ServeList, ServeRead, ServeReadAll,
         AnswerCount, AnswerList, AnswerReadAll, LayoutFails, database, place, page, layout
<1>2. CASE OpenMenu(s) \/ MarkAllRead(s) \/ \E n \in Notes : OpenUnread(s, n)
  <2>1. PICK r \in Asked : Send(s, r) /\ r.kind \notin PageKinds
    BY <1>2, SentAsked, SentFacts DEF OpenMenu, MarkAllRead, OpenUnread, PageKinds
  <2> QED BY <1>1, <2>1, MenuBeside DEF Send
<1>3. CASE ServeCount(s) \/ ServeList(s) \/ ServeRead(s) \/ ServeReadAll(s)
  <2>1. requests[s] # Null /\ requests[s] \in Asked /\ requests[s].kind \notin PageKinds
    BY <1>3 DEF ServeCount, ServeList, ServeRead, ServeReadAll, Waiting, PageInv, PageTypeOK,
                PageKinds
  <2>2. PageTypeOK'
    BY <1>3, MenuServed DEF PageInv
  <2>3. PICK x : requests' = [requests EXCEPT ![s].got = x]
    BY <1>3 DEF ServeCount, ServeList, ServeRead, ServeReadAll
  <2> DEFINE r == [requests[s] EXCEPT !.got = x]
  <2>4. requests' = [requests EXCEPT ![s] = r] /\ requests'[s] = r
    BY <2>3 DEF PageInv, PageTypeOK
  <2>5. r \in Asked \cup {Null} /\ r.kind = requests[s].kind
    <3>1. r \in Asked \cup {Null}
      BY <2>2, <2>4 DEF PageTypeOK
    <3>2. r.kind = requests[s].kind
      BY <2>1 DEF Asked, PageRequests, MenuRequests, Asking
    <3> QED BY <3>1, <3>2
  <2> HIDE DEF r
  <2> QED BY <1>1, <2>1, <2>4, <2>5, MenuBeside
<1>4. CASE AnswerCount(s) \/ AnswerList(s) \/ AnswerReadAll(s) \/ LayoutFails(s)
  <2>1. requests' = [requests EXCEPT ![s] = Null] /\ requests[s].kind \notin PageKinds
    BY <1>4 DEF AnswerCount, AnswerList, AnswerReadAll, LayoutFails, Done, Answered, PageKinds
  <2> QED BY <1>1, <2>1, MenuBeside
<1> QED BY <1>2, <1>3, <1>4

(* The page asks about the ticket shown.                                   *)
LEMMA SendsShown ==
    ASSUME PageInv, ShownInv, NEW s \in Slots,
           \/ \E status \in Statuses : ChangeStatus(s, status)
           \/ \E u \in Staff : Assign(s, u)
           \/ \E internal \in BOOLEAN : AddComment(s, internal)
           \/ \E text \in Texts : Save(s, text)
    PROVE  ShownInv'
<1>1. /\ UNCHANGED <<role, rows, comments, opened, url, ticket, list, hist>>
      /\ requests[s] = Null
      /\ \E k \in PageKinds \ {"load"} : \E x :
            requests' = [requests EXCEPT ![s] = Request(k, ticket.id, x)]
  BY DEF ChangeStatus, Assign, AddComment, Save, Send, database, place, page, PageKinds
<1>2. ticket # Null
  BY DEF ChangeStatus, Assign, AddComment, Save, AtPage, PageInv, PageTypeOK
<1>3. ticket.id = opened
  BY <1>2 DEF ShownInv, OnPage
<1>4. PICK k \in PageKinds \ {"load"} :
         \E x : requests' = [requests EXCEPT ![s] = Request(k, opened, x)]
  BY <1>1, <1>3
<1>5. PICK x : requests' = [requests EXCEPT ![s] = Request(k, opened, x)]
  BY <1>4
<1>6. requests'[s] = Request(k, opened, x) /\ \A q \in Slots \ {s} : requests'[q] = requests[q]
  BY <1>5 DEF PageInv, PageTypeOK
<1>7. \A q \in Slots, j \in PageKinds : Live(q, j)' =>
         \/ Live(q, j) /\ requests'[q] = requests[q]
         \/ /\ requests'[q].got = Null /\ requests'[q].to = opened
            /\ ticket # Null /\ j # "load"
  <2>1. \A j : Live(s, j)' => j = k
    BY <1>6, SentFacts DEF Live
  <2>2. requests'[s].got = Null /\ requests'[s].to = opened
    BY <1>6, SentFacts
  <2>3. \A q \in Slots \ {s} : \A j : Live(q, j)' => Live(q, j) /\ requests'[q] = requests[q]
    BY <1>6 DEF Live
  <2> QED BY <1>2, <2>1, <2>2, <2>3
<1>8. \A q \in Slots, j \in PageKinds : Live(q, j) => requests'[q] = requests[q]
  BY <1>1, <1>6 DEF Live
<1>9. Beside
  BY <1>1, <1>7, <1>8 DEF Beside
<1> QED BY <1>9, ShownKept

(* A request is over without being shown, which is noted if it was served. *)
LEMMA FailsShown ==
    ASSUME PageInv, ShownInv, NEW s \in Slots, Unseen(s) \/ PageFails(s)
    PROVE  ShownInv'
<1>1. /\ UNCHANGED <<role, rows, comments, opened, url, ticket, list>>
      /\ requests[s] # Null /\ requests' = [requests EXCEPT ![s] = Null]
  BY DEF Unseen, PageFails, InFlight, Done, database, place, page
<1>2. requests'[s] = Null /\ \A q \in Slots \ {s} : requests'[q] = requests[q]
  BY <1>1 DEF PageInv, PageTypeOK
<1>3. \A q \in Slots : \A k : Live(q, k)' => q # s /\ Live(q, k) /\ requests'[q] = requests[q]
  BY <1>2 DEF Live
<1>4. /\ hist'.last = hist.last
      /\ hist'.drift = {} => hist.drift = {}
      /\ hist'.gap = {} => hist.gap = {}
      /\ \A k : Live(s, k) /\ requests[s].got # Null =>
            /\ k \in Writes => hist'.drift # {}
            /\ k = "comment" => hist'.gap # {}
  <2>0. hist \in Histories
    BY DEF PageInv, PageTypeOK
  <2>1. CASE Unseen(s)
    BY <2>1 DEF Unseen, Live
  <2>2. CASE PageFails(s)
    <3> DEFINE l == IF requests[s].kind = "comment" /\ Handled(s)
                    THEN hist.lost \cup {requests[s].arg.draft} ELSE hist.lost
               d == IF requests[s].kind = "load" \/ (requests[s].kind \in Writes /\ Handled(s))
                    THEN hist.drift \cup {"unheard"} ELSE hist.drift
               g == IF requests[s].kind = "load" \/ (requests[s].kind = "comment" /\ Handled(s))
                    THEN hist.gap \cup {"unheard"} ELSE hist.gap
    <3>1. hist' = Losing(hist, d, g, l)
      BY <2>2 DEF PageFails, Losing
    <3> HIDE DEF l
    <3>2. hist'.drift = d /\ hist'.gap = g /\ hist'.last = hist.last
      <4> HIDE DEF d, g
      <4> QED BY <2>0, <3>1, HistoryFields
    <3>3. \A k : Live(s, k) /\ requests[s].got # Null => k = requests[s].kind /\ Handled(s)
      BY <1>1 DEF Live, Handled
    <3> QED BY <3>2, <3>3
  <2> QED BY <2>1, <2>2
<1>5. \A k : Live(s, k) /\ k = "load" => ticket = Null
  BY DEF ShownInv, OnPage, PageKinds
<1>6. \A q \in Slots, k \in PageKinds : Live(q, k) /\ requests[q].got # Null =>
          \/ requests'[q] = requests[q]
          \/ k \in Writes /\ hist'.drift # {}
          \/ k = "comment" /\ hist'.gap # {}
          \/ k = "load" /\ ticket = Null
  <2>1. \A k \in PageKinds : k \in Writes \/ k = "comment" \/ k = "load"
    BY DEF PageKinds, Writes
  <2> QED BY <1>2, <1>4, <1>5, <2>1
<1>7. Beside
  BY <1>1, <1>3, <1>4, <1>6 DEF Beside
<1> QED BY <1>7, ShownKept

(* A request that is given up has no answer that the page would show.      *)
LEMMA TimesOutShown ==
    ASSUME PageInv, ShownInv, NEW s \in Slots, TimesOut(s)
    PROVE  ShownInv'
<1>1. /\ UNCHANGED <<role, rows, comments, opened, url, ticket, list>>
      /\ requests[s] # Null /\ requests[s].got = Null
      /\ requests' = [requests EXCEPT ![s].live = FALSE]
  BY DEF TimesOut, InFlight, Handled, database, place
<1>2. /\ \A q \in Slots \ {s} : requests'[q] = requests[q]
      /\ \A q \in Slots : \A k : Live(q, k)' <=> q # s /\ Live(q, k)
  BY <1>1, OrphanSlot
<1>3. hist'.last = hist.last /\ hist'.drift = hist.drift /\ hist'.gap = hist.gap
  <2> DEFINE l == IF requests[s].kind = "comment"
                  THEN hist.lost \cup {requests[s].arg.draft} ELSE hist.lost
  <2>1. hist \in Histories /\ hist' = [hist EXCEPT !.lost = l]
    BY DEF TimesOut, PageInv, PageTypeOK
  <2> HIDE DEF l
  <2> QED BY <2>1 DEF Histories
<1>4. Beside
  BY <1>1, <1>2, <1>3 DEF Beside
<1> QED BY <1>4, ShownKept

(* The dialog opens, or goes away with its request.                        *)
LEMMA DialogShown ==
    ASSUME PageInv, ShownInv, Edit \/ Dismiss
    PROVE  ShownInv'
<1>1. UNCHANGED <<role, rows, comments, opened, url, ticket, list>>
  BY DEF Edit, Dismiss, database, place
<1>2. CASE Edit
  <2>1. UNCHANGED <<requests, hist>>
    BY <1>2 DEF Edit
  <2>2. Beside
    BY <1>1, <2>1 DEF Beside, Live
  <2> QED BY <2>2, ShownKept
<1>3. CASE Dismiss
  <2>0. hist \in Histories
    BY DEF PageInv, PageTypeOK
  <2>1. requests' = Orphaned({"edit"})
    BY <1>3 DEF Dismiss
  <2>2. /\ hist'.last = hist.last /\ hist'.gap = hist.gap
        /\ hist'.drift = {} => hist.drift = {}
        /\ \A s \in Slots : Live(s, "edit") /\ requests[s].got # Null => hist'.drift # {}
    <3> DEFINE d == IF \E s \in InFlight({"edit"}) : Handled(s)
                    THEN hist.drift \cup {"unheard"} ELSE hist.drift
    <3>1. hist' = [hist EXCEPT !.drift = d]
      BY <1>3 DEF Dismiss
    <3>2. hist'.last = hist.last /\ hist'.gap = hist.gap /\ hist'.drift = d
      <4> HIDE DEF d
      <4> QED BY <2>0, <3>1, HistoryFields
    <3>3. \A s \in Slots : Live(s, "edit") /\ requests[s].got # Null =>
             s \in InFlight({"edit"}) /\ Handled(s)
      BY DEF Live, InFlight, Handled
    <3> QED BY <3>2, <3>3
  <2>3. \A s \in Slots : requests'[s] = IF Live(s, "edit") THEN [requests[s] EXCEPT !.live = FALSE]
                                        ELSE requests[s]
    BY <2>1 DEF Orphaned, InFlight, Live
  <2>4. \A s \in Slots : \A k : Live(s, k)' <=> Live(s, k) /\ k # "edit"
    BY <2>1, OrphanSlots
  <2>5. \A s \in Slots : \A k : Live(s, k) /\ k # "edit" => requests'[s] = requests[s]
    BY <2>3 DEF Live
  <2>6. Beside
    BY <1>1, <2>2, <2>4, <2>5 DEF Beside, Writes
  <2> QED BY <2>6, ShownKept
<1> QED BY <1>2, <1>3

(* Nothing but the menu or the inbox changes.                              *)
LEMMA ElsewhereShown ==
    ASSUME PageInv, ShownInv, CloseMenu \/ (\E n \in Notes : Arrives(n)) \/ UNCHANGED vars
    PROVE  ShownInv'
<1>1. /\ UNCHANGED <<role, rows, comments, opened, url, ticket, list, requests>>
      /\ hist' = hist \/ \E m : hist' = [hist EXCEPT !.miscounts = m]
  BY DEF CloseMenu, Arrives, vars, database, place, page
<1>2. hist'.drift = hist.drift /\ hist'.gap = hist.gap /\ hist'.last = hist.last
  BY <1>1, MissesFields
<1>3. \A s \in Slots : \A k : Live(s, k)' <=> Live(s, k)
  BY <1>1 DEF Live
<1>4. Beside
  BY <1>1, <1>2, <1>3 DEF Beside
<1> QED BY <1>4, ShownKept

(* Away from the page nothing is shown.                                    *)
LEMMA BackShown ==
    ASSUME PageInv, ShownInv, Back
    PROVE  ShownInv'
<1>1. /\ url' = Null /\ opened' = Null /\ ticket' = Null /\ list' = <<>>
      /\ requests' = Orphaned(PageKinds) /\ hist' = hist
  BY DEF Back
<1>2. \A s \in Slots, k \in PageKinds : ~Live(s, k)'
  BY <1>1, OrphanSlots
<1>3. {"load", "comment"} \cup Writes \subseteq PageKinds
  BY DEF PageKinds, Writes
<1>4. OnPage'
  BY <1>1, <1>2 DEF OnPage
<1>5. RowIsCurrent' /\ NoWriteYet'
  BY <1>1, <1>2, <1>3 DEF RowIsCurrent, NoWriteYet
<1>6. ListIsSound' /\ ListIsCurrent'
  BY <1>1, <1>2, <1>3 DEF ListIsSound, ListIsCurrent, ComingIn
<1> QED BY <1>4, <1>5, <1>6 DEF ShownInv

(* The page opens empty, with nothing of it in flight but its load.        *)
LEMMA OpenShown ==
    ASSUME PageInv, ShownInv, url = Null, NEW s \in Slots, NEW t \in Tickets, NEW pending, NEW h,
           Open(s, t, pending, h), Left(pending), h \in Histories
    PROVE  ShownInv'
<1>1. /\ url' = t /\ opened' = t /\ ticket' = Null /\ list' = <<>> /\ pending[s] = Null
      /\ requests' = [pending EXCEPT ![s] = Request("load", t, Null)]
  BY DEF Open, Blank
<1>2. \A q \in Slots, k \in PageKinds : ~Live(q, k)
  BY DEF PageInv, OneAtATime
<1>3. /\ requests'[s] = Request("load", t, Null)
      /\ \A q \in Slots \ {s} : requests'[q] = pending[q]
  BY <1>1 DEF Left
<1>4. \A q \in Slots, k \in PageKinds : Live(q, k)' => q = s /\ k = "load"
  BY <1>2, <1>3, SentFacts DEF Live, Left
<1>5. requests'[s].to = t /\ requests'[s].got = Null /\ requests'[s].row = Null
  BY <1>3 DEF Request
<1>6. {"load", "comment"} \cup Writes \subseteq PageKinds /\ "load" \notin Writes
  BY DEF PageKinds, Writes
<1>7. t # Null
  BY TicketPageAssumption
<1>8. OnPage'
  BY <1>1, <1>4, <1>5, <1>7 DEF OnPage
<1>9. RowIsCurrent' /\ NoWriteYet'
  <2>1. hist'.last = Null
    <3> DEFINE f == [h EXCEPT !.drift = {}, !.gap = {}]
               g == [f EXCEPT !.last = Null]
    <3>1. hist' = [g EXCEPT !.drafts = @ + 1]
      BY DEF Open
    <3>2. f \in Histories
      BY DEF Histories
    <3> HIDE DEF f
    <3>3. g \in Histories /\ g.last = Null
      BY <3>2 DEF Histories
    <3> HIDE DEF g
    <3> QED BY <3>1, <3>3, HistoryFields
  <2> QED BY <1>1, <1>4, <1>5, <1>6, <2>1 DEF RowIsCurrent, NoWriteYet
<1>10. ListIsSound' /\ ListIsCurrent'
  BY <1>1, <1>4, <1>5, <1>6, EmptySeq DEF ListIsSound, ListIsCurrent, ComingIn
<1> QED BY <1>8, <1>9, <1>10 DEF ShownInv

(* A notification opens the page, or changes the id in the URL only.       *)
LEMMA FollowShown ==
    ASSUME PageInv, ShownInv, NEW s \in Slots, NEW n \in Notes, NEW pending, NEW h,
           Follow(s, n, pending, h), Left(pending), h \in Histories,
           h.drift = hist.drift, h.gap = hist.gap, h.last = hist.last,
           UNCHANGED <<role, database>>
    PROVE  ShownInv'
<1>1. CASE TicketOf[n] # Null /\ url = Null
  <2>1. TicketOf[n] \in Tickets
    BY <1>1, TicketPageAssumption
  <2> QED BY <1>1, <2>1, OpenShown DEF Follow, GoTo
<1>2. CASE TicketOf[n] = Null \/ url # Null
  <2>1. /\ requests' = pending /\ hist' = h /\ UNCHANGED <<opened, ticket, list>>
        /\ url' = Null <=> url = Null
    BY <1>2, TicketPageAssumption DEF Follow, GoTo, place, page
  <2>2. \A q \in Slots, k \in PageKinds :
           Live(q, k) \/ Live(q, k)' => Live(q, k) /\ requests'[q] = requests[q]
    BY <2>1 DEF Left, Live, PageKinds
  <2>3. Beside
    BY <2>1, <2>2 DEF Beside, database
  <2> QED BY <2>3, ShownKept
<1> QED BY <1>1, <1>2

(* ngOnInit: a page that opens is blank and its load is under way; a link  *)
(* within the component changes the URL only.                              *)
LEMMA ArrivalsShown ==
    ASSUME PageInv, ShownInv, NEW s \in Slots,
           \/ \E t \in Tickets : OpenTicket(s, t)
           \/ \E n \in Notes : OpenRead(s, n)
           \/ AnswerRead(s) \/ ReadFails(s)
    PROVE  ShownInv'
<1>1. hist \in Histories /\ Left(requests)
  BY DEF PageInv, PageTypeOK, Left
<1>2. CASE \E t \in Tickets : OpenTicket(s, t)
  BY <1>1, <1>2, OpenShown DEF OpenTicket
<1>3. CASE \E n \in Notes : OpenRead(s, n)
  BY <1>1, <1>3, FollowShown DEF OpenRead
<1>4. CASE AnswerRead(s) \/ ReadFails(s)
  <2>1. /\ requests[s] # Null /\ requests[s].kind = "read" /\ requests[s].to \in Notes
        /\ UNCHANGED <<role, database>>
    BY <1>4, AskedFacts DEF AnswerRead, ReadFails, Answered, Handled, PageInv, PageTypeOK
  <2>2. Left([requests EXCEPT ![s] = Null])
    BY <2>1, <1>1 DEF Left
  <2>3. \A m \in SUBSET {"arrived", "crossed", "twice", "lost"} :
           /\ [hist EXCEPT !.miscounts = m] \in Histories
           /\ [hist EXCEPT !.miscounts = m].drift = hist.drift
           /\ [hist EXCEPT !.miscounts = m].gap = hist.gap
           /\ [hist EXCEPT !.miscounts = m].last = hist.last
    BY <1>1, MissesType, HistoryFields
  <2>4. /\ Crossing \in SUBSET {"arrived", "crossed", "twice", "lost"}
        /\ hist.miscounts \cup {"lost"} \in SUBSET {"arrived", "crossed", "twice", "lost"}
    BY <1>1 DEF Crossing, Histories
  <2>5. CASE AnswerRead(s)
    BY <2>1, <2>2, <2>3, <2>4, <2>5, FollowShown DEF AnswerRead
  <2>6. CASE ReadFails(s)
    <3> DEFINE h == IF Handled(s) THEN [hist EXCEPT !.miscounts = @ \cup {"lost"}] ELSE hist
    <3>1. /\ h \in Histories /\ h.drift = hist.drift /\ h.gap = hist.gap
          /\ h.last = hist.last
      BY <1>1, <2>3, <2>4
    <3>2. Follow(s, requests[s].to, [requests EXCEPT ![s] = Null], h)
      BY <2>6 DEF ReadFails
    <3> HIDE DEF h
    <3> QED BY <2>1, <2>2, <3>1, <3>2, FollowShown
  <2> QED BY <1>4, <2>5, <2>6
<1> QED BY <1>2, <1>3, <1>4

-----------------------------------------------------------------------------
(* The row.                                                                *)

(* The comments and what is read of them stay as they are.                 *)
LEMMA ListKept ==
    ASSUME PageInv, ShownInv, UNCHANGED <<role, comments, opened, list>>,
           ticket = Null <=> ticket' = Null, ticket # Null => ticket'.id = ticket.id,
           hist'.gap = hist.gap,
           \A s \in Slots : Live(s, "load") \/ Live(s, "load")' =>
              /\ Live(s, "load") /\ requests'[s].got = requests[s].got
              /\ requests'[s].to = requests[s].to,
           \A s \in Slots : Live(s, "comment") \/ Live(s, "comment")' =>
              Live(s, "comment") /\ requests'[s] = requests[s]
    PROVE  ListIsSound' /\ ListIsCurrent'
<1> USE DEF ShownInv
<1>1. \A t : Visible(t)' = Visible(t)
  BY DEF Visible, IsStaff
<1>2. \A s \in Slots : ComingIn(s)' \/ ComingIn(s) => ComingIn(s) /\ requests'[s] = requests[s]
  BY DEF ComingIn
<1>3. \A s \in Slots : ComingIn(s) => ComingIn(s)'
  BY <1>2 DEF ComingIn, Live
<1>4. Coming' = Coming
  BY <1>2, <1>3 DEF Coming
<1>5. Visible(opened)' = Visible(opened)
  BY DEF Visible, IsStaff
<1>6. WholeList' <=> WholeList
  BY <1>4, <1>5 DEF WholeList, InOrder
<1>7. ListIsSound'
  BY <1>1, <1>2 DEF ListIsSound
<1>8. ListIsCurrent'
  <2>1. ASSUME hist'.gap = {}, NEW s \in Slots, ComingIn(s)'
        PROVE  \A n \in Visible(opened)' : n <= requests'[s].got.number
    BY <1>2, <1>5, <2>1 DEF ListIsCurrent
  <2>2. ASSUME hist'.gap = {}, NEW s \in Slots, Live(s, "load")'
        PROVE  requests'[s].got \in {Null, Visible(opened)'}
    BY <1>5, <2>2 DEF ListIsCurrent
  <2> QED BY <1>6, <2>1, <2>2 DEF ListIsCurrent
<1> QED BY <1>7, <1>8

(* The API reads the row for the page, that is the newest there is.        *)
LEMMA ReadTicketShown ==
    ASSUME PageInv, ShownInv, NEW s \in Slots, ReadTicket(s)
    PROVE  ShownInv'
<1> DEFINE r == [requests[s] EXCEPT !.row = rows[requests[s].to]]
<1>1. /\ requests[s] \in Asked /\ requests[s] # Null /\ requests[s].kind = "load"
      /\ requests' = [requests EXCEPT ![s] = r]
      /\ UNCHANGED <<role, rows, comments, url, opened, ticket, list, hist>>
  BY DEF ReadTicket, database, place, page, PageInv, PageTypeOK
<1>2. /\ r.kind = "load" /\ r.live = requests[s].live /\ r.got = requests[s].got
      /\ r.to = requests[s].to /\ r.row = rows[requests[s].to] /\ r # Null
  <2>1. r.kind = "load" /\ r.live = requests[s].live /\ r.got = requests[s].got
        /\ r.to = requests[s].to /\ r.row = rows[requests[s].to]
    BY <1>1 DEF Asked, PageRequests, MenuRequests, Asking
  <2>2. rows[requests[s].to] \in Rows
    BY <1>1, AskedFacts DEF PageInv, PageTypeOK, PageKinds
  <2>3. r \in Asked
    BY <1>1, <2>2, RowRead
  <2> HIDE DEF r
  <2> QED BY <2>1, <2>3, AskedFacts
<1> HIDE DEF r
<1>3. requests'[s] = r /\ \A q \in Slots \ {s} : requests'[q] = requests[q]
  BY <1>1 DEF PageInv, PageTypeOK
<1>4. \A q \in Slots : \A k : Live(q, k)' <=> Live(q, k)
  BY <1>1, <1>2, <1>3 DEF Live
<1>5. \A q \in Slots : requests'[q].to = requests[q].to /\ requests'[q].got = requests[q].got
  BY <1>2, <1>3
<1>6. \A q \in Slots, k \in Writes \cup {"comment"} : Live(q, k) => requests'[q] = requests[q]
  BY <1>1, <1>3 DEF Live, Writes
<1>7. {"load", "comment"} \cup Writes \subseteq PageKinds
  BY DEF PageKinds, Writes
<1>8. OnPage'
  BY <1>1, <1>4, <1>5 DEF ShownInv, OnPage
<1>9. NoWriteYet'
  BY <1>1, <1>4, <1>5 DEF ShownInv, NoWriteYet
<1>10. RowIsCurrent'
  <2>1. \A q \in Slots : LastWrite(q) => LastWrite(q)'
    BY <1>1, <1>3 DEF LastWrite, Writes
  <2>2. ASSUME hist'.drift = {}, NEW q \in Slots, Live(q, "load")'
        PROVE  requests'[q].row \in {Null, rows'[opened']}
    <3>1. Live(q, "load") /\ requests[q].to = opened
      BY <2>2, <1>4, <1>7 DEF ShownInv, OnPage
    <3> QED BY <2>2, <3>1, <1>1, <1>2, <1>3 DEF ShownInv, RowIsCurrent
  <2> QED BY <1>1, <2>1, <2>2 DEF ShownInv, RowIsCurrent
<1>11. ListIsSound' /\ ListIsCurrent'
  BY <1>1, <1>4, <1>5, <1>6, ListKept
<1> QED BY <1>8, <1>9, <1>10, <1>11 DEF ShownInv

(* Somebody the page does not wait for writes a ticket.                    *)
LEMMA RowMissed ==
    ASSUME PageInv, ShownInv, NEW t \in Tickets, NEW why,
           \A u \in Tickets \ {t} : rows'[u] = rows[u],
           hist'.drift = MissedRow(t, why), hist'.gap = hist.gap, hist'.last = hist.last,
           UNCHANGED <<role, comments, url, opened, ticket, list>>,
           \A s \in Slots, k \in PageKinds : Live(s, k) \/ Live(s, k)' =>
              Live(s, k) /\ requests'[s] = requests[s]
    PROVE  ShownInv'
<1> USE DEF ShownInv
<1>1. {"load", "comment"} \cup Writes \subseteq PageKinds /\ "load" \notin Writes
  BY DEF PageKinds, Writes
<1>2. ListIsSound' /\ ListIsCurrent'
  BY <1>1, ListKept
<1>3. OnPage'
  BY DEF OnPage
<1>4. NoWriteYet'
  BY <1>1 DEF NoWriteYet
<1>5. RowIsCurrent'
  <2>1. CASE opened = Null
    <3>1. ticket = Null /\ \A s \in Slots : ~Live(s, "load")
      BY <1>1, <2>1 DEF OnPage, PageInv, OneAtATime
    <3> QED BY <1>1, <3>1 DEF RowIsCurrent
  <2>2. CASE opened # Null /\ t # opened
    <3>1. rows'[opened] = rows[opened] /\ hist'.drift = hist.drift
      BY <2>2 DEF OnPage, MissedRow
    <3>2. \A s \in Slots : LastWrite(s) => LastWrite(s)'
      <4>1. ASSUME NEW s \in Slots, LastWrite(s)
            PROVE  LastWrite(s)'
        <5>1. Live(s, requests[s].kind) /\ requests[s].kind \in PageKinds
          BY <1>1, <4>1 DEF LastWrite, Live
        <5>2. requests'[s] = requests[s]
          BY <5>1
        <5> QED BY <3>1, <4>1, <5>2 DEF LastWrite
      <4> QED BY <4>1
    <3> QED BY <1>1, <3>1, <3>2 DEF RowIsCurrent
  <2>3. CASE t = opened /\ ~Reads("row")
    BY <2>3 DEF MissedRow, RowIsCurrent
  <2>4. CASE Reads("row")
    <3>1. PICK s \in Slots : Live(s, "load") /\ requests[s].row = Null
      BY <2>4 DEF Reads, InFlight, Live
    <3>2. ticket = Null /\ \A q \in Slots : Live(q, "load") => q = s
      BY <1>1, <3>1 DEF OnPage, PageInv, OneAtATime
    <3> QED BY <1>1, <3>1, <3>2 DEF RowIsCurrent
  <2> QED BY <2>1, <2>2, <2>3, <2>4
<1> QED BY <1>2, <1>3, <1>4, <1>5

(* A colleague writes: the page is behind, or is still to read the row.    *)
LEMMA OthersWriteShown ==
    ASSUME PageInv, ShownInv, NEW t \in Tickets, NEW status \in Statuses, OthersWrite(t, status)
    PROVE  ShownInv'
<1>1. /\ UNCHANGED <<role, comments, url, opened, ticket, list, requests>>
      /\ rows' = [rows EXCEPT ![t].status = status]
      /\ hist' = [hist EXCEPT !.drift = MissedRow(t, "others")]
  BY DEF OthersWrite, place, page
<1>2. /\ hist'.drift = MissedRow(t, "others") /\ hist'.gap = hist.gap /\ hist'.last = hist.last
  <2>1. hist \in Histories
    BY DEF PageInv, PageTypeOK
  <2> QED BY <1>1, <2>1, HistoryFields, Zenon
<1>3. \A u \in Tickets \ {t} : rows'[u] = rows[u]
  BY <1>1 DEF PageInv, PageTypeOK
<1>4. \A s, k : Live(s, k)' <=> Live(s, k)
  BY <1>1 DEF Live
<1> QED BY <1>1, <1>2, <1>3, <1>4, RowMissed

(* The API writes the ticket, and the page still is to hear of it.         *)
LEMMA ServeWriteShown ==
    ASSUME PageInv, ShownInv, NEW s \in Slots, ServeWrite(s)
    PROVE  ShownInv'
<1> DEFINE row == Written(requests[s], rows[requests[s].to])
           r == [[requests[s] EXCEPT !.row = row] EXCEPT !.got = TRUE]
<1>1. /\ requests[s] \in Asked /\ requests[s] # Null /\ requests[s].kind \in Writes
      /\ requests[s].got = Null /\ requests[s].to \in Tickets
  BY AskedFacts DEF ServeWrite, Waiting, PageInv, PageTypeOK, PageKinds, Writes
<1>2. /\ rows' = [rows EXCEPT ![requests[s].to] = row]
      /\ requests' = [requests EXCEPT ![s] = r]
      /\ UNCHANGED <<role, comments, url, opened, ticket, list>>
      /\ hist' = IF requests[s].live THEN [hist EXCEPT !.last = s, !.drift = {}]
                 ELSE [hist EXCEPT !.drift = MissedRow(requests[s].to, "unheard")]
  BY DEF ServeWrite, place, page
<1>3. row \in Rows
  BY <1>1, Writing DEF PageInv, PageTypeOK
<1>4. /\ r \in Asked /\ r.kind = requests[s].kind /\ r.live = requests[s].live
      /\ r.to = requests[s].to /\ r.row = row /\ r.got = TRUE
  <2>1. r \in Asked /\ r.kind = requests[s].kind /\ r.live = requests[s].live
    BY <1>1, <1>3, Writing
  <2>2. r.to = requests[s].to /\ r.row = row /\ r.got = TRUE
    BY <1>1 DEF Asked, PageRequests, MenuRequests, Asking
  <2> QED BY <2>1, <2>2
<1> HIDE DEF row, r
<1>5. /\ requests'[s] = r /\ \A q \in Slots \ {s} : requests'[q] = requests[q]
      /\ rows'[requests[s].to] = row /\ \A u \in Tickets \ {requests[s].to} : rows'[u] = rows[u]
  BY <1>1, <1>2 DEF PageInv, PageTypeOK
<1>6. r # Null /\ r.got # Null
  <2>1. r # Null
    BY <1>4, AskedFacts
  <2>2. TRUE # Null
    BY TicketPageAssumption
  <2> QED BY <1>4, <2>1, <2>2
<1>7. \A q \in Slots : \A k : Live(q, k)' <=> Live(q, k)
  BY <1>1, <1>4, <1>5, <1>6 DEF Live
<1>8. hist \in Histories
  BY DEF PageInv, PageTypeOK
<1>9. CASE ~requests[s].live
  <2>1. /\ hist'.drift = MissedRow(requests[s].to, "unheard")
        /\ hist'.gap = hist.gap /\ hist'.last = hist.last
    BY <1>2, <1>8, <1>9, HistoryFields, Zenon
  <2>2. \A q \in Slots, k \in PageKinds : Live(q, k) \/ Live(q, k)' =>
           Live(q, k) /\ requests'[q] = requests[q]
    BY <1>5, <1>7, <1>9 DEF Live
  <2> QED BY <1>1, <1>2, <1>5, <2>1, <2>2, RowMissed
<1>10. CASE requests[s].live
  <2>1. hist'.drift = {} /\ hist'.gap = hist.gap /\ hist'.last = s
    <3>1. hist' = [hist EXCEPT !.last = s, !.drift = {}]
      BY <1>2, <1>10
    <3> QED BY <1>8, <3>1 DEF Histories
  <2>2. {"load", "comment"} \cup Writes \subseteq PageKinds /\ "load" \notin Writes
        /\ "comment" \notin Writes
    BY DEF PageKinds, Writes
  <2>3. Live(s, requests[s].kind)
    BY <1>1, <1>10 DEF Live
  <2>4. requests[s].to = opened /\ ticket # Null
    BY <1>1, <2>2, <2>3 DEF ShownInv, OnPage
  <2>5. \A q \in Slots : ~Live(q, "load")
    BY <2>2, <2>4 DEF ShownInv, OnPage
  <2>6. \A q \in Slots : requests'[q].to = requests[q].to
    BY <1>4, <1>5
  <2>7. OnPage'
    BY <1>2, <1>7, <2>6 DEF ShownInv, OnPage
  <2>8. LastWrite(s)'
    BY <1>1, <1>2, <1>4, <1>5, <1>6, <1>10, <2>1, <2>4 DEF LastWrite
  <2>9. RowIsCurrent'
    BY <1>7, <2>5, <2>8 DEF RowIsCurrent
  <2>10. NoWriteYet'
    BY <1>2, <2>1, <2>4, TicketPageAssumption DEF NoWriteYet
  <2>11. \A q \in Slots : Live(q, "comment") => requests'[q] = requests[q]
    BY <1>1, <1>5, <2>2 DEF Live
  <2>12. ListIsSound' /\ ListIsCurrent'
    BY <1>2, <1>7, <2>1, <2>5, <2>11, ListKept
  <2> QED BY <2>7, <2>9, <2>10, <2>12 DEF ShownInv
<1> QED BY <1>1, <1>9, <1>10, AskedFacts

(* The row of the answer is on the page.                                   *)
LEMMA AnswerWriteShown ==
    ASSUME PageInv, ShownInv, NEW s \in Slots, AnswerWrite(s)
    PROVE  ShownInv'
<1>1. /\ requests[s] \in Asked /\ requests[s] # Null /\ requests[s].kind \in Writes
      /\ requests[s].live /\ requests[s].got # Null
      /\ requests' = [requests EXCEPT ![s] = Null]
      /\ ticket' = Shown(requests[s])
      /\ UNCHANGED <<role, rows, comments, url, opened, list>>
  BY DEF AnswerWrite, Answered, Handled, Done, database, place, PageInv, PageTypeOK
<1>2. {"load", "comment"} \cup Writes \subseteq PageKinds /\ "load" \notin Writes
      /\ "comment" \notin Writes
  BY DEF PageKinds, Writes
<1>3. Live(s, requests[s].kind) /\ ticket # Null
  BY <1>1, <1>2 DEF Live, PageInv, OneAtATime
<1>4. ticket' # Null /\ ticket'.id = ticket.id /\ ticket'.row = requests[s].row
  <2>1. ticket \in Views /\ requests[s].row \in Rows
    BY <1>1, <1>2, <1>3, AskedFacts DEF PageInv, PageTypeOK
  <2>2. ticket' \in Views /\ ticket'.id = ticket.id /\ ticket'.row = requests[s].row
    BY <1>1, <2>1 DEF Shown, Views
  <2> QED BY <2>2, TicketPageAssumption
<1>5. requests'[s] = Null /\ \A q \in Slots \ {s} : requests'[q] = requests[q]
  BY <1>1 DEF PageInv, PageTypeOK
<1>6. \A q \in Slots : \A k : Live(q, k)' <=> q # s /\ Live(q, k)
  BY <1>5 DEF Live
<1>7. /\ hist'.gap = hist.gap
      /\ hist'.last = IF hist.last = s THEN "shown" ELSE hist.last
      /\ hist'.drift = IF hist.last = "shown" THEN hist.drift \cup {"late"} ELSE hist.drift
  <2> DEFINE l == IF hist.last = s THEN "shown" ELSE hist.last
             d == IF hist.last = "shown" THEN hist.drift \cup {"late"} ELSE hist.drift
  <2>1. hist' = [hist EXCEPT !.last = l, !.drift = d] /\ hist \in Histories
    BY DEF AnswerWrite, PageInv, PageTypeOK
  <2> HIDE DEF l, d
  <2>2. hist'.gap = hist.gap /\ hist'.last = l /\ hist'.drift = d
    BY <2>1 DEF Histories
  <2> QED BY <2>2 DEF l, d
<1>8. \A q \in Slots : ~Live(q, "load")
  BY <1>2, <1>3 DEF ShownInv, OnPage
<1>9. OnPage'
  BY <1>1, <1>3, <1>4, <1>5, <1>6 DEF ShownInv, OnPage
<1>10. NoWriteYet'
  <2>1. hist.last # Null
    BY <1>1, <1>3 DEF ShownInv, NoWriteYet
  <2> QED BY <1>4, <1>7, <2>1, TicketPageAssumption DEF NoWriteYet
<1>11. RowIsCurrent'
  <2>1. SUFFICES ASSUME hist'.drift = {}
                 PROVE  \/ hist'.last \in {Null, "shown"} /\ ticket'.row = rows'[opened']
                        \/ \E q \in Slots : LastWrite(q)'
    BY <1>6, <1>8 DEF RowIsCurrent
  <2>2. hist.last # "shown" /\ hist.drift = {}
    BY <1>7, <2>1
  <2>3. hist.last # Null
    BY <1>1, <1>3 DEF ShownInv, NoWriteYet
  <2>4. PICK q \in Slots : LastWrite(q)
    BY <1>3, <2>2, <2>3 DEF ShownInv, RowIsCurrent
  <2>5. CASE q = s
    BY <1>1, <1>4, <1>7, <2>4, <2>5 DEF LastWrite
  <2>6. CASE q # s
    <3>1. LastWrite(q)'
      BY <1>1, <1>5, <1>7, <2>4, <2>6 DEF LastWrite
    <3> QED BY <3>1
  <2> QED BY <2>5, <2>6
<1>12. ListIsSound' /\ ListIsCurrent'
  <2>1. \A q \in Slots : Live(q, "comment") \/ Live(q, "comment")' =>
           Live(q, "comment") /\ requests'[q] = requests[q]
    BY <1>1, <1>2, <1>5, <1>6 DEF Live
  <2> QED BY <1>1, <1>3, <1>4, <1>6, <1>7, <1>8, <2>1, ListKept
<1> QED BY <1>9, <1>10, <1>11, <1>12 DEF ShownInv

-----------------------------------------------------------------------------
(* The comments.                                                           *)

(* The ticket and what is written of it stay as they are.                  *)
LEMMA RowKept ==
    ASSUME PageInv, ShownInv, UNCHANGED <<rows, opened, ticket>>,
           hist'.drift = hist.drift, hist'.last = hist.last,
           \A s \in Slots : Live(s, "load") \/ Live(s, "load")' =>
              Live(s, "load") /\ requests'[s].row = requests[s].row,
           \A s \in Slots, k \in Writes : Live(s, k) \/ Live(s, k)' =>
              Live(s, k) /\ requests'[s] = requests[s]
    PROVE  RowIsCurrent' /\ NoWriteYet'
<1> USE DEF ShownInv
<1>1. \A s \in Slots : LastWrite(s) => LastWrite(s)'
  BY DEF LastWrite, Live
<1> QED BY <1>1 DEF RowIsCurrent, NoWriteYet

(* The API reads the comments for the page.                                *)
LEMMA ReadCommentsShown ==
    ASSUME PageInv, ShownInv, NEW s \in Slots, ReadComments(s)
    PROVE  ShownInv'
<1> DEFINE t == requests[s].to
           r == [requests[s] EXCEPT !.got = FirstComments(t)]
<1>1. /\ requests[s] \in Asked /\ requests[s] # Null /\ requests[s].kind = "load"
      /\ t \in Tickets /\ requests[s].got = Null
      /\ requests' = [requests EXCEPT ![s] = r]
      /\ UNCHANGED <<role, rows, comments, url, opened, ticket, list>>
  BY AskedFacts
  DEF ReadComments, Waiting, database, place, page, PageInv, PageTypeOK, PageKinds
<1>2. FirstComments(t) \in SUBSET Nat /\ FirstComments(t) \subseteq Visible(t)
  BY <1>1, VisibleFacts DEF PageInv
<1>3. /\ r \in Asked /\ r.kind = "load" /\ r.live = requests[s].live
      /\ r.got = FirstComments(t)
  BY <1>1, <1>2, Serving
<1>4. r.to = t /\ r.row = requests[s].row /\ r # Null
  <2>1. r.to = t /\ r.row = requests[s].row
    BY <1>1 DEF Asked, PageRequests, MenuRequests, Asking
  <2> HIDE DEF r
  <2> QED BY <2>1, <1>3, AskedFacts
<1> HIDE DEF r
<1>5. requests'[s] = r /\ \A q \in Slots \ {s} : requests'[q] = requests[q]
  BY <1>1 DEF PageInv, PageTypeOK
<1>6. \A q \in Slots : \A k : Live(q, k)' <=> Live(q, k)
  BY <1>1, <1>3, <1>4, <1>5 DEF Live
<1>7. \A q \in Slots : requests'[q].to = requests[q].to /\ requests'[q].row = requests[q].row
  BY <1>4, <1>5
<1>8. \A q \in Slots, k \in Writes \cup {"comment"} : Live(q, k) => requests'[q] = requests[q]
  BY <1>1, <1>5 DEF Live, Writes
<1>9. {"load", "comment"} \cup Writes \subseteq PageKinds
  BY DEF PageKinds, Writes
<1>10. /\ hist'.drift = hist.drift /\ hist'.last = hist.last
       /\ hist'.gap = {} => /\ hist.gap = {}
                            /\ requests[s].live => Cardinality(Visible(t)) <= CommentLimit
  <2> DEFINE g == IF requests[s].live /\ Cardinality(Visible(t)) > CommentLimit
                  THEN hist.gap \cup {"limit"} ELSE hist.gap
  <2>1. hist' = [hist EXCEPT !.gap = g] /\ hist \in Histories
    BY DEF ReadComments, PageInv, PageTypeOK
  <2>2. hist'.drift = hist.drift /\ hist'.last = hist.last /\ hist'.gap = g
    <3> HIDE DEF g
    <3> QED BY <2>1 DEF Histories
  <2>3. Cardinality(Visible(t)) \in Nat /\ CommentLimit \in Nat
    BY <1>1, VisibleFacts, FS_CardinalityType, TicketPageAssumption DEF PageInv
  <2> QED BY <2>2, <2>3
<1>11. OnPage'
  BY <1>1, <1>6, <1>7 DEF ShownInv, OnPage
<1>12. RowIsCurrent' /\ NoWriteYet'
  BY <1>1, <1>6, <1>7, <1>8, <1>10, RowKept
<1>13. \A u : Visible(u)' = Visible(u)
  BY <1>1 DEF Visible, IsStaff
<1>14. \A q \in Slots : (ComingIn(q)' <=> ComingIn(q)) /\ (ComingIn(q) => requests'[q] = requests[q])
  BY <1>6, <1>8 DEF ComingIn
<1>15. Live(s, "load") => ticket = Null /\ t = opened /\ requests[s].live
  BY <1>9 DEF ShownInv, OnPage, Live
<1>16. ListIsSound'
  <2>1. ASSUME NEW q \in Slots, Live(q, "load")'
        PROVE  (requests[q].got = Null \/ requests[q].got \subseteq Visible(requests[q].to))'
    <3>1. CASE q = s
      BY <1>2, <1>3, <1>4, <1>5, <1>13, <3>1
    <3>2. CASE q # s
      BY <1>5, <1>6, <1>13, <2>1, <3>2 DEF ShownInv, ListIsSound
    <3> QED BY <3>1, <3>2
  <2> QED BY <1>1, <1>13, <1>14, <2>1 DEF ShownInv, ListIsSound
<1>17. ListIsCurrent'
  <2>1. Visible(opened)' = Visible(opened) /\ Coming' = Coming
    <3>1. Visible(opened)' = Visible(opened)
      BY <1>1 DEF Visible, IsStaff
    <3>2. Coming' = Coming
      BY <1>14 DEF Coming
    <3> QED BY <3>1, <3>2
  <2>2. WholeList' <=> WholeList
    BY <1>1, <2>1 DEF WholeList, InOrder
  <2>3. ASSUME hist'.gap = {}, NEW q \in Slots, Live(q, "load")'
        PROVE  requests'[q].got \in {Null, Visible(opened)'}
    <3>1. CASE q = s
      <4>1. Live(s, "load") /\ t = opened /\ Cardinality(Visible(t)) <= CommentLimit
        BY <1>6, <1>10, <1>15, <2>3, <3>1
      <4>2. FirstComments(t) = Visible(opened)
        BY <1>1, <4>1, VisibleFacts DEF PageInv
      <4> QED BY <1>3, <1>5, <2>1, <3>1, <4>2
    <3>2. CASE q # s
      BY <1>5, <1>6, <1>10, <2>1, <2>3, <3>2 DEF ShownInv, ListIsCurrent
    <3> QED BY <3>1, <3>2
  <2>4. ASSUME hist'.gap = {}, NEW q \in Slots, ComingIn(q)'
        PROVE  \A n \in Visible(opened)' : n <= requests'[q].got.number
    BY <1>10, <1>14, <2>1, <2>4 DEF ShownInv, ListIsCurrent
  <2> QED BY <1>1, <1>10, <2>2, <2>3, <2>4 DEF ShownInv, ListIsCurrent
<1> QED BY <1>11, <1>12, <1>16, <1>17 DEF ShownInv

(* One more comment of a ticket, which the user may see or not.            *)
LEMMA VisibleGrows ==
    ASSUME PageTypeOK, NEW t \in Tickets, NEW c \in Drafts, role' = role,
           comments' = [comments EXCEPT ![t] = Append(@, c)]
    PROVE  /\ \A u \in Tickets \ {t} : Visible(u)' = Visible(u)
           /\ Visible(t)' = IF IsStaff \/ ~c.internal THEN Visible(t) \cup {Len(comments[t]) + 1}
                            ELSE Visible(t)
           /\ Len(comments[t]) + 1 \in Nat
           /\ \A m \in Visible(t) : m < Len(comments[t]) + 1
<1>1. /\ \A u \in Tickets \ {t} : comments'[u] = comments[u]
      /\ comments'[t] = Append(comments[t], c) /\ comments[t] \in Seq(Drafts)
  BY DEF PageTypeOK
<1>2. /\ Len(comments[t]) \in Nat /\ Len(comments'[t]) = Len(comments[t]) + 1
      /\ \A i \in 1 .. Len(comments[t]) : comments'[t][i] = comments[t][i]
      /\ comments'[t][Len(comments[t]) + 1] = c
  BY <1>1, AppendProperties, LenProperties
<1>3. \A u \in Tickets \ {t} : Visible(u)' = Visible(u)
  BY <1>1 DEF Visible, IsStaff
<1>4. 1 .. Len(comments'[t]) = (1 .. Len(comments[t])) \cup {Len(comments[t]) + 1}
  BY <1>2
<1>5. \A m \in Visible(t) : m \in 1 .. Len(comments[t])
  BY DEF Visible
<1>6. /\ Visible(t) = {n \in 1 .. Len(comments[t]) : IsStaff \/ ~comments[t][n].internal}
      /\ Visible(t)' = {n \in 1 .. Len(comments'[t]) : IsStaff \/ ~comments'[t][n].internal}
  BY DEF Visible, IsStaff
<1>7. Visible(t)' = IF IsStaff \/ ~c.internal THEN Visible(t) \cup {Len(comments[t]) + 1}
                    ELSE Visible(t)
  BY <1>2, <1>4, <1>6
<1> QED BY <1>2, <1>3, <1>5, <1>7

(* A comment is stored that the page does not wait for.                    *)
LEMMA CommentMissed ==
    ASSUME PageInv, ShownInv, NEW t \in Tickets, NEW c \in Drafts, NEW why,
           comments' = [comments EXCEPT ![t] = Append(@, c)],
           hist'.gap = IF IsStaff \/ ~c.internal THEN MissedComment(t, why) ELSE hist.gap,
           hist'.drift = hist.drift, hist'.last = hist.last,
           UNCHANGED <<role, rows, url, opened, ticket, list>>,
           \A s \in Slots, k \in PageKinds : Live(s, k) \/ Live(s, k)' =>
              Live(s, k) /\ requests'[s] = requests[s]
    PROVE  ShownInv'
<1> USE DEF ShownInv
<1>1. {"load", "comment"} \cup Writes \subseteq PageKinds /\ "load" \notin Writes
  BY DEF PageKinds, Writes
<1>2. OnPage'
  BY DEF OnPage
<1>3. RowIsCurrent' /\ NoWriteYet'
  BY <1>1, RowKept
<1>4. /\ \A u \in Tickets \ {t} : Visible(u)' = Visible(u)
      /\ Visible(t)' = IF IsStaff \/ ~c.internal THEN Visible(t) \cup {Len(comments[t]) + 1}
                       ELSE Visible(t)
  BY VisibleGrows DEF PageInv
<1>5. \A u \in Tickets : Visible(u) \subseteq Visible(u)'
  BY <1>4
<1>6. \A s \in Slots : /\ ComingIn(s)' <=> ComingIn(s)
                       /\ ComingIn(s) => requests'[s] = requests[s] /\ requests[s].to = opened
  <2>1. ASSUME NEW s \in Slots
        PROVE  /\ ComingIn(s)' <=> ComingIn(s)
               /\ ComingIn(s) => requests'[s] = requests[s] /\ requests[s].to = opened
    BY <1>1 DEF ComingIn, OnPage, Live
  <2> QED BY <2>1
<1>7. \A s \in Slots : Live(s, "load")' =>
         Live(s, "load") /\ requests'[s] = requests[s] /\ requests[s].to = opened
  BY <1>1 DEF OnPage
<1>8. \A s \in Slots : Live(s, "load") \/ ComingIn(s) => opened \in Tickets
  BY <1>1, TicketPageAssumption DEF OnPage, ComingIn, PageInv, OneAtATime
<1>9. ticket # Null => ticket.id = opened /\ opened \in Tickets
  BY DEF OnPage
<1>10. ListIsSound'
  BY <1>5, <1>6, <1>7, <1>8, <1>9 DEF ListIsSound
<1>11. CASE opened \notin Tickets
  <2>1. ticket = Null /\ \A s \in Slots : ~Live(s, "load") /\ ~ComingIn(s)
    BY <1>8, <1>9, <1>11
  <2>2. ListIsCurrent'
    BY <1>6, <1>7, <2>1 DEF ListIsCurrent
  <2> QED BY <1>2, <1>3, <1>10, <2>2
<1>12. CASE opened \in Tickets /\ (t # opened \/ ~ (IsStaff \/ ~c.internal))
  <2>1. Visible(opened)' = Visible(opened)
    <3>1. \A u \in Tickets : u # t \/ ~ (IsStaff \/ ~c.internal) => Visible(u)' = Visible(u)
      BY <1>4
    <3>2. opened' = opened /\ opened' \in Tickets
      BY <1>12
    <3> QED BY <1>12, <3>1, <3>2
  <2>2. hist'.gap = hist.gap
    BY <1>12 DEF MissedComment
  <2>3. \A s \in Slots : Live(s, "load") \/ Live(s, "load")' =>
              /\ Live(s, "load") /\ requests'[s].got = requests[s].got
              /\ requests'[s].to = requests[s].to
    BY <1>1
  <2>4. Coming' = Coming
    BY <1>6 DEF Coming
  <2>5. WholeList' <=> WholeList
    BY <2>1, <2>4 DEF WholeList, InOrder
  <2>6. ASSUME hist'.gap = {}, NEW s \in Slots, ComingIn(s)'
        PROVE  \A n \in Visible(opened)' : n <= requests'[s].got.number
    BY <1>6, <2>1, <2>2, <2>6 DEF ListIsCurrent
  <2>7. ASSUME hist'.gap = {}, NEW s \in Slots, Live(s, "load")'
        PROVE  requests'[s].got \in {Null, Visible(opened)'}
    BY <1>7, <2>1, <2>2, <2>7 DEF ListIsCurrent
  <2>8. ListIsCurrent'
    BY <2>2, <2>5, <2>6, <2>7 DEF ListIsCurrent
  <2> QED BY <1>2, <1>3, <1>10, <2>8
<1>13. CASE opened \in Tickets /\ t = opened /\ (IsStaff \/ ~c.internal)
  <2>1. CASE ~Reads("got")
    <3>1. hist'.gap # {}
      BY <1>13, <2>1 DEF MissedComment
    <3>2. ListIsCurrent'
      BY <3>1 DEF ListIsCurrent
    <3> QED BY <1>2, <1>3, <1>10, <3>2
  <2>2. CASE Reads("got")
    <3>1. PICK s \in Slots : Live(s, "load") /\ requests[s].got = Null
      BY <2>2 DEF Reads, InFlight, Live
    <3>2. /\ ticket = Null /\ \A q \in Slots : Live(q, "load") => q = s
          /\ \A q \in Slots : ~ComingIn(q)
      BY <1>1, <3>1 DEF OnPage, PageInv, OneAtATime, ComingIn
    <3>3. \A q \in Slots : (Live(q, "load")' => requests'[q].got = Null) /\ ~ComingIn(q)'
      BY <1>6, <1>7, <3>1, <3>2
    <3>4. ListIsCurrent'
      BY <3>2, <3>3 DEF ListIsCurrent
    <3> QED BY <1>2, <1>3, <1>10, <3>4
  <2> QED BY <2>1, <2>2
<1> QED BY <1>11, <1>12, <1>13

(* A colleague comments: the page lacks it, is still to read the comments, *)
(* or may not see it.                                                      *)
LEMMA OthersCommentShown ==
    ASSUME PageInv, ShownInv, NEW t \in Tickets, NEW internal \in BOOLEAN,
           OthersComment(t, internal)
    PROVE  ShownInv'
<1> DEFINE c == [internal |-> internal, draft |-> 0]
           g == IF internal => IsStaff THEN MissedComment(t, "others") ELSE hist.gap
<1>1. /\ UNCHANGED <<role, rows, url, opened, ticket, list, requests>>
      /\ comments' = [comments EXCEPT ![t] = Append(@, c)]
      /\ hist' = [hist EXCEPT !.gap = g]
  BY DEF OthersComment, place, page
<1>2. c \in Drafts /\ c.internal = internal
  BY DEF Drafts
<1>3. hist'.drift = hist.drift /\ hist'.gap = g /\ hist'.last = hist.last
  <2>1. hist \in Histories
    BY DEF PageInv, PageTypeOK
  <2> HIDE DEF g
  <2> QED BY <1>1, <2>1 DEF Histories
<1>4. g = IF IsStaff \/ ~c.internal THEN MissedComment(t, "others") ELSE hist.gap
  BY <1>2
<1> HIDE DEF c, g
<1>5. \A s, k : Live(s, k)' <=> Live(s, k)
  BY <1>1 DEF Live
<1> QED BY <1>1, <1>2, <1>3, <1>4, <1>5, CommentMissed

(* The API stores a comment of the page, which comes last.                 *)
LEMMA ServeCommentShown ==
    ASSUME PageInv, ShownInv, NEW s \in Slots, ServeComment(s)
    PROVE  ShownInv'
<1>0. PICK t \in Tickets : t = requests[s].to
  BY AskedFacts DEF ServeComment, Waiting, PageInv, PageTypeOK, PageKinds
<1> DEFINE c == [requests[s].arg EXCEPT !.internal = @ /\ IsStaff]
           n == Len(comments[t]) + 1
           x == [ticket |-> t, number |-> n]
           r == [requests[s] EXCEPT !.got = x]
<1>1. /\ requests[s] \in Asked /\ requests[s] # Null /\ requests[s].kind = "comment"
      /\ requests[s].got = Null /\ requests[s].arg \in Drafts
      /\ requests[s].to = t
  BY <1>0, AskedFacts DEF ServeComment, Waiting, PageInv, PageTypeOK, PageKinds
<1>2. /\ comments' = [comments EXCEPT ![t] = Append(@, c)]
      /\ requests' = [requests EXCEPT ![s] = r]
      /\ UNCHANGED <<role, rows, url, opened, ticket, list>>
      /\ hist' = IF requests[s].live THEN hist
                 ELSE [hist EXCEPT !.gap = MissedComment(t, "unheard")]
  BY <1>0 DEF ServeComment, place, page
<1>3. c \in Drafts /\ (IsStaff \/ ~c.internal)
  BY <1>1 DEF Drafts, IsStaff
<1>4. x \in References /\ x # Null /\ x.ticket = t /\ x.number = n /\ n \in Nat
  <2>1. x \in References /\ x.ticket = t /\ x.number = n /\ n \in Nat
    BY <1>1, LenProperties DEF References, PageInv, PageTypeOK
  <2> QED BY <2>1, TicketPageAssumption
<1>5. /\ r \in Asked /\ r.kind = "comment" /\ r.live = requests[s].live /\ r.got = x
  BY <1>1, <1>4, Serving
<1>6. r.to = t /\ r # Null
  <2>1. r.to = t
    BY <1>1 DEF Asked, PageRequests, MenuRequests, Asking
  <2> HIDE DEF r
  <2> QED BY <2>1, <1>5, AskedFacts
<1> HIDE DEF c, x, r
<1>7. requests'[s] = r /\ \A q \in Slots \ {s} : requests'[q] = requests[q]
  BY <1>1, <1>2 DEF PageInv, PageTypeOK
<1>8. \A q \in Slots : \A k : Live(q, k)' <=> Live(q, k)
  BY <1>1, <1>5, <1>6, <1>7 DEF Live
<1>9. /\ \A u \in Tickets \ {t} : Visible(u)' = Visible(u)
      /\ Visible(t)' = Visible(t) \cup {n}
      /\ \A m \in Visible(t) : m < n
  BY <1>1, <1>2, <1>3, VisibleGrows DEF PageInv
<1>10. CASE ~requests[s].live
  <2>1. /\ hist'.gap = MissedComment(t, "unheard")
        /\ hist'.drift = hist.drift /\ hist'.last = hist.last
    <3>1. hist \in Histories /\ hist' = [hist EXCEPT !.gap = MissedComment(t, "unheard")]
      BY <1>2, <1>10 DEF PageInv, PageTypeOK
    <3> QED BY <3>1 DEF Histories
  <2>2. \A q \in Slots, k \in PageKinds : Live(q, k) \/ Live(q, k)' =>
           Live(q, k) /\ requests'[q] = requests[q]
    BY <1>7, <1>8, <1>10 DEF Live
  <2> QED BY <1>1, <1>2, <1>3, <2>1, <2>2, CommentMissed
<1>11. CASE requests[s].live
  <2>1. {"load", "comment"} \cup Writes \subseteq PageKinds /\ "load" \notin Writes
        /\ "comment" \notin Writes
    BY DEF PageKinds, Writes
  <2>2. Live(s, "comment") /\ hist' = hist
    BY <1>1, <1>2, <1>11 DEF Live
  <2>3. t = opened /\ ticket # Null /\ ticket.id = opened
    BY <1>1, <2>1, <2>2 DEF ShownInv, OnPage
  <2>4. \A q \in Slots : ~Live(q, "load") /\ (Live(q, "comment") => q = s)
    BY <2>1, <2>2, <2>3 DEF ShownInv, OnPage, PageInv, OneAtATime
  <2>5. \A q \in Slots : ~ComingIn(q) /\ (ComingIn(q)' <=> q = s)
    BY <1>1, <1>4, <1>5, <1>7, <1>8, <2>2, <2>4 DEF ComingIn
  <2>6. Coming = {} /\ Coming' = {n}
    <3>1. requests'[s].got.number = n
      BY <1>4, <1>5, <1>7
    <3> HIDE DEF n
    <3> QED BY <2>5, <3>1 DEF Coming
  <2>7. Visible(opened)' = Visible(opened) \cup {n} /\ n \notin Visible(opened)
    <3>1. \A u \in Tickets : u = t => Visible(u)' = Visible(u) \cup {n}
      BY <1>9
    <3>2. opened' = opened /\ opened' \in Tickets /\ opened' = t
      BY <1>1, <1>2, <2>3
    <3>3. n \notin Visible(opened)
      <4>1. ~ (n < n)
        BY <1>4
      <4> QED BY <1>9, <2>3, <4>1
    <3> HIDE DEF n
    <3> QED BY <3>1, <3>2, <3>3
  <2>8. OnPage'
    <3>1. \A q \in Slots : requests'[q].to = requests[q].to
      BY <1>1, <1>6, <1>7
    <3> QED BY <1>2, <1>8, <3>1 DEF ShownInv, OnPage
  <2>9. RowIsCurrent' /\ NoWriteYet'
    <3>1. \A q \in Slots, k \in Writes : Live(q, k) \/ Live(q, k)' =>
              Live(q, k) /\ requests'[q] = requests[q]
      BY <1>1, <1>7, <1>8, <2>1 DEF Live
    <3> QED BY <1>2, <1>8, <2>2, <2>4, <3>1, RowKept
  <2>10. /\ \A i \in DOMAIN list : list[i].number \in Visible(t) /\ list[i].ticket = t
         /\ requests'[s].got.ticket = t /\ requests'[s].got.number = n /\ requests'[s].to = t
    BY <1>4, <1>5, <1>6, <1>7, <2>3 DEF ShownInv, ListIsSound
  <2>11. ListIsSound'
    <3>1. \A u \in Tickets : u = t => Visible(u)' = Visible(u) \cup {n}
      BY <1>9
    <3>2. ticket' = ticket /\ ticket'.id = t /\ t \in Tickets
      BY <1>1, <1>2, <2>3
    <3>3. \A i \in DOMAIN list : list[i].number < n
      BY <1>9, <2>10
    <3>4. list' = list /\ list \in Seq(References)
          /\ \A i, j \in DOMAIN list : i < j => list[i].number < list[j].number
      BY <1>2 DEF ShownInv, ListIsSound
    <3>5. \A q \in Slots : ~Live(q, "load")' /\ (ComingIn(q)' => q = s)
      BY <1>8, <2>4, <2>5
    <3> HIDE DEF n
    <3> QED BY <2>3, <2>10, <3>1, <3>2, <3>3, <3>4, <3>5 DEF ListIsSound
  <2>12. ListIsCurrent'
    <3>1. ASSUME hist'.gap = {}
          PROVE  WholeList'
      <4>1. WholeList
        BY <2>2, <2>3, <3>1 DEF ShownInv, ListIsCurrent
      <4>2. Visible(opened)' \ Coming' = Visible(opened) \ Coming
        BY <2>6, <2>7
      <4> QED BY <1>2, <4>1, <4>2 DEF WholeList, InOrder
    <3>2. ASSUME NEW q \in Slots, ComingIn(q)'
          PROVE  \A m \in Visible(opened)' : m <= requests'[q].got.number
      <4>1. \A m \in Visible(opened) : m < n /\ m \in Nat
        BY <1>1, <1>9, <2>3, VisibleFacts DEF PageInv
      <4>2. q = s /\ requests'[q].got.number = n
        BY <2>5, <2>10, <3>2
      <4> HIDE DEF n
      <4> QED BY <1>4, <2>7, <4>1, <4>2
    <3>3. \A q \in Slots : ~Live(q, "load")'
      BY <1>8, <2>4
    <3> QED BY <3>1, <3>2, <3>3 DEF ListIsCurrent
  <2> QED BY <2>8, <2>9, <2>11, <2>12 DEF ShownInv
<1> QED BY <1>1, <1>10, <1>11, AskedFacts

(* The ticket and its comments are on the page, and nothing else is asked. *)
LEMMA AnswerLoadShown ==
    ASSUME PageInv, ShownInv, NEW s \in Slots, AnswerLoad(s)
    PROVE  ShownInv'
<1>1. /\ requests[s] \in Asked /\ requests[s] # Null /\ requests[s].kind = "load"
      /\ requests[s].live /\ requests[s].got # Null /\ requests[s].row # Null
      /\ requests' = [requests EXCEPT ![s] = Null]
      /\ ticket' = [id |-> requests[s].to, row |-> requests[s].row]
      /\ list' = InOrder(requests[s].to, requests[s].got)
      /\ UNCHANGED <<role, rows, comments, url, opened, hist>>
  BY DEF AnswerLoad, Answered, Handled, Done, database, place, PageInv, PageTypeOK
<1>2. {"load", "comment"} \cup Writes \subseteq PageKinds /\ "load" \notin Writes
  BY DEF PageKinds, Writes
<1>3. /\ Live(s, "load") /\ requests[s].to = opened /\ ticket = Null
      /\ opened \in Tickets /\ opened # Null
  <2>1. Live(s, "load")
    BY <1>1 DEF Live
  <2>2. requests[s].to \in Tickets
    BY <1>1, AskedFacts DEF PageKinds
  <2> QED BY <1>2, <2>1, <2>2, TicketPageAssumption DEF ShownInv, OnPage
<1>4. requests'[s] = Null /\ \A q \in Slots \ {s} : requests'[q] = requests[q]
  BY <1>1 DEF PageInv, PageTypeOK
<1>5. \A q \in Slots, k \in PageKinds : ~Live(q, k)'
  <2>1. \A q \in Slots, k \in PageKinds : Live(q, k) => k = "load" /\ q = s
    BY <1>2, <1>3 DEF ShownInv, OnPage, PageInv, OneAtATime
  <2> QED BY <1>4, <2>1 DEF Live
<1>6. ticket' # Null /\ ticket'.id = opened /\ ticket'.row = requests[s].row
  <2>1. requests[s].row \in Rows
    BY <1>1, AskedFacts
  <2>2. ticket' \in Views
    BY <1>1, <1>3, <2>1 DEF Views
  <2> QED BY <1>1, <1>3, <2>2, TicketPageAssumption
<1>7. OnPage'
  BY <1>1, <1>3, <1>5, <1>6 DEF ShownInv, OnPage
<1>8. hist.last = Null
  BY <1>3 DEF ShownInv, NoWriteYet
<1>9. NoWriteYet'
  BY <1>2, <1>5, <1>6 DEF NoWriteYet
<1>10. RowIsCurrent'
  BY <1>1, <1>2, <1>3, <1>5, <1>6, <1>8 DEF ShownInv, RowIsCurrent
<1> DEFINE V == requests[s].got
<1>11. V \in SUBSET Nat /\ V \subseteq Visible(opened) /\ IsFiniteSet(V)
  <2>1. V \in SUBSET Nat
    BY <1>1, AskedFacts
  <2>2. V \subseteq Visible(opened)
    BY <1>1, <1>3 DEF ShownInv, ListIsSound
  <2> QED BY <1>3, <2>1, <2>2, VisibleFacts, FS_Subset DEF PageInv
<1>12. Visible(opened)' = Visible(opened)
  BY <1>1 DEF Visible, IsStaff
<1>13. list' = InOrder(opened, V)
  BY <1>1, <1>3
<1>14. hist.gap = {} => V = Visible(opened)
  BY <1>1, <1>3 DEF ShownInv, ListIsCurrent
<1> HIDE DEF V
<1>15. \A q \in Slots : ~Live(q, "load")' /\ ~ComingIn(q)'
  BY <1>2, <1>5 DEF ComingIn
<1>16. ListIsSound'
  <2>1. list' \in Seq(References)
    <3>1. \A i \in 1 .. Cardinality(V) : Nth(V, i) \in Nat
      BY <1>11, NthFacts
    <3>2. InOrder(opened, V) = [i \in 1 .. Cardinality(V) |-> [ticket |-> opened, number |-> Nth(V, i)]]
      BY DEF InOrder, Nth
    <3>3. \A i \in 1 .. Cardinality(V) : [ticket |-> opened, number |-> Nth(V, i)] \in References
      BY <1>3, <3>1 DEF References
    <3>4. Cardinality(V) \in Nat
      BY <1>11, FS_CardinalityType
    <3> QED BY <1>13, <3>2, <3>3, <3>4
  <2>2. ASSUME NEW i \in DOMAIN list'
        PROVE  /\ list'[i].ticket = opened /\ list'[i].number \in Visible(opened)
               /\ \A j \in DOMAIN list' : i < j => list'[i].number < list'[j].number
    BY <1>11, <1>13, <2>2, InOrderGrows
  <2>3. \A u : Visible(u)' = Visible(u)
    BY <1>1 DEF Visible, IsStaff
  <2>4. \A i, j \in DOMAIN list' : i < j => list'[i].number < list'[j].number
    BY <2>2
  <2>5. \A i \in DOMAIN list' :
           /\ ticket' # Null /\ list'[i].ticket = ticket'.id
           /\ list'[i].number \in Visible(ticket.id)'
    BY <1>6, <2>2, <2>3
  <2> QED BY <1>15, <2>1, <2>4, <2>5 DEF ListIsSound
<1>17. ListIsCurrent'
  <2>1. Coming' = {}
    BY <1>15 DEF Coming
  <2>2. ASSUME hist'.gap = {}
        PROVE  WholeList'
    <3>1. V = Visible(opened)' \ Coming' /\ opened' = opened
      BY <1>1, <1>12, <1>14, <2>1, <2>2
    <3>2. list' = InOrder(opened', Visible(opened)' \ Coming')
      BY <1>13, <3>1
    <3> QED BY <3>2 DEF WholeList, InOrder
  <2> QED BY <1>15, <2>2 DEF ListIsCurrent
<1> QED BY <1>7, <1>9, <1>10, <1>16, <1>17 DEF ShownInv

(* The comment comes last on the page.                                     *)
LEMMA AnswerCommentShown ==
    ASSUME PageInv, ShownInv, NEW s \in Slots, AnswerComment(s)
    PROVE  ShownInv'
<1>1. /\ requests[s] \in Asked /\ requests[s] # Null /\ requests[s].kind = "comment"
      /\ requests[s].live /\ requests[s].got # Null
      /\ requests' = [requests EXCEPT ![s] = Null]
      /\ list' = Append(list, requests[s].got)
      /\ UNCHANGED <<role, rows, comments, url, opened, ticket>>
      /\ hist' = [hist EXCEPT !.drafts = @ + 1]
  BY DEF AnswerComment, Answered, Handled, Done, database, place, PageInv, PageTypeOK
<1>2. {"load", "comment"} \cup Writes \subseteq PageKinds /\ "load" \notin Writes
      /\ "comment" \notin Writes
  BY DEF PageKinds, Writes
<1>3. Live(s, "comment") /\ ComingIn(s)
  BY <1>1 DEF Live, ComingIn
<1>4. requests[s].to = opened /\ ticket # Null /\ ticket.id = opened /\ opened \in Tickets
  BY <1>2, <1>3 DEF ShownInv, OnPage
<1>5. requests'[s] = Null /\ \A q \in Slots \ {s} : requests'[q] = requests[q]
  BY <1>1 DEF PageInv, PageTypeOK
<1>6. \A q \in Slots : \A k : Live(q, k)' <=> q # s /\ Live(q, k)
  BY <1>5 DEF Live
<1>7. \A q \in Slots : ~Live(q, "load") /\ (Live(q, "comment") => q = s)
  BY <1>2, <1>3, <1>4 DEF ShownInv, OnPage, PageInv, OneAtATime
<1>8. /\ hist'.drift = hist.drift /\ hist'.gap = hist.gap /\ hist'.last = hist.last
  <2>1. hist \in Histories
    BY DEF PageInv, PageTypeOK
  <2> QED BY <1>1, <2>1 DEF Histories
<1>9. OnPage'
  BY <1>1, <1>4, <1>5, <1>6 DEF ShownInv, OnPage
<1>10. RowIsCurrent' /\ NoWriteYet'
  <2>1. \A q \in Slots, k \in Writes : Live(q, k) \/ Live(q, k)' =>
            Live(q, k) /\ requests'[q] = requests[q]
    BY <1>1, <1>2, <1>5, <1>6 DEF Live
  <2> QED BY <1>1, <1>6, <1>7, <1>8, <2>1, RowKept
<1> DEFINE x == requests[s].got
           n == x.number
           V == Visible(opened) \ {n}
<1>11. x \in References /\ x.ticket = opened /\ n \in Visible(opened)
       /\ \A i \in DOMAIN list : list[i].number < n
  <2>1. x \in References
    BY <1>1 DEF Asked, PageRequests, MenuRequests, Asking
  <2> QED BY <1>3, <1>4, <2>1 DEF ShownInv, ListIsSound
<1>12. x = [ticket |-> opened, number |-> n] /\ n \in Nat
  BY <1>11 DEF References
<1>13. Coming = {n} /\ Coming' = {}
  <2>1. \A q \in Slots : (ComingIn(q) <=> q = s) /\ ~ComingIn(q)'
    BY <1>3, <1>6, <1>7 DEF ComingIn
  <2>2. Coming' = {}
    BY <2>1 DEF Coming
  <2>3. {q \in Slots : ComingIn(q)} = {s}
    BY <2>1
  <2> QED BY <2>2, <2>3 DEF Coming
<1>14. hist.gap = {} => /\ list = InOrder(opened, V)
                        /\ \A m \in Visible(opened) : m <= n
  BY <1>3, <1>4, <1>13 DEF ShownInv, ListIsCurrent, WholeList
<1>15. Visible(opened)' = Visible(opened)
  BY <1>1 DEF Visible, IsStaff
<1>16. list' = Append(list, x) /\ list \in Seq(References)
  BY <1>1 DEF ShownInv, ListIsSound
<1>17. /\ Visible(opened) \in SUBSET Nat /\ V \in SUBSET Nat /\ IsFiniteSet(V)
  BY <1>4, VisibleFacts, FS_Subset DEF PageInv
<1>18. V \cup {n} = Visible(opened)
  BY <1>11
<1> HIDE DEF x, n, V
<1>19. ListIsSound'
  <2>1. /\ list' \in Seq(References) /\ Len(list) \in Nat
        /\ DOMAIN list = 1 .. Len(list) /\ DOMAIN list' = 1 .. Len(list) + 1
        /\ \A i \in 1 .. Len(list) : list'[i] = list[i]
        /\ list'[Len(list) + 1] = x
    BY <1>11, <1>16, AppendProperties, LenProperties
  <2>2. /\ \A i, j \in DOMAIN list : i < j => list[i].number < list[j].number
        /\ \A i \in DOMAIN list : list[i].ticket = opened /\ list[i].number \in Visible(opened)
    BY <1>4 DEF ShownInv, ListIsSound
  <2>3. x.number = n
    BY DEF n
  <2>4. \A i, j \in DOMAIN list' : i < j => list'[i].number < list'[j].number
    <3>1. ASSUME NEW i \in DOMAIN list', NEW j \in DOMAIN list', i < j
          PROVE  list'[i].number < list'[j].number
      <4>1. i \in 1 .. Len(list)
        BY <2>1, <3>1
      <4>2. CASE j \in 1 .. Len(list)
        BY <2>1, <2>2, <3>1, <4>1, <4>2
      <4>3. CASE j = Len(list) + 1
        BY <1>11, <2>1, <2>3, <4>1, <4>3
      <4> QED BY <2>1, <4>2, <4>3
    <3> QED BY <3>1
  <2>5. \A i \in DOMAIN list' : list'[i].ticket = opened /\ list'[i].number \in Visible(opened)
    <3>1. ASSUME NEW i \in DOMAIN list'
          PROVE  list'[i].ticket = opened /\ list'[i].number \in Visible(opened)
      <4>1. CASE i \in 1 .. Len(list)
        BY <2>1, <2>2, <4>1
      <4>2. CASE i = Len(list) + 1
        BY <1>11, <2>1, <2>3, <4>2
      <4> QED BY <2>1, <4>1, <4>2
    <3> QED BY <3>1
  <2>6. \A u : Visible(u)' = Visible(u)
    BY <1>1 DEF Visible, IsStaff
  <2>7. \A i \in DOMAIN list' :
           /\ ticket' # Null /\ list'[i].ticket = ticket'.id
           /\ list'[i].number \in Visible(ticket.id)'
    BY <1>1, <1>4, <2>5, <2>6
  <2>8. \A q \in Slots : ~Live(q, "load")' /\ ~ComingIn(q)'
    BY <1>6, <1>7 DEF ComingIn
  <2> QED BY <2>1, <2>4, <2>7, <2>8 DEF ListIsSound
<1>20. ListIsCurrent'
  <2>1. ASSUME hist'.gap = {}
        PROVE  WholeList'
    <3>1. list = InOrder(opened, V) /\ \A m \in V : m < n
      <4>1. hist.gap = {}
        BY <1>8, <2>1
      <4>2. \A m \in V : m # n /\ m \in Visible(opened)
        BY DEF V
      <4>3. \A m \in V : m \in Nat
        BY <1>17
      <4> QED BY <1>12, <1>14, <4>1, <4>2, <4>3
    <3>2. list' = InOrder(opened, V \cup {n})
      BY <1>12, <1>16, <1>17, <3>1, InOrderAppends
    <3>3. list' = InOrder(opened', Visible(opened)' \ Coming')
      <4>1. Visible(opened)' \ Coming' = V \cup {n} /\ opened' = opened
        BY <1>1, <1>13, <1>15, <1>18
      <4> QED BY <3>2, <4>1
    <3> QED BY <3>3 DEF WholeList, InOrder
  <2>2. \A q \in Slots : ~Live(q, "load")' /\ ~ComingIn(q)'
    BY <1>6, <1>7 DEF ComingIn
  <2> QED BY <2>1, <2>2 DEF ListIsCurrent
<1> QED BY <1>9, <1>10, <1>19, <1>20 DEF ShownInv

(* No page is open at the start.                                           *)
LEMMA ShownInit == Init => ShownInv
<1> SUFFICES ASSUME Init PROVE ShownInv
  OBVIOUS
<1>1. \A r \in Slots, k \in PageKinds : ~Live(r, k)
  <2>1. PICK s \in Slots : requests = [r \in Slots |->
          IF r = s THEN Request("count", Null, Null) ELSE Null]
    BY DEF Init
  <2> QED BY <2>1, SentFacts DEF Live, PageKinds
<1>2. {"load", "comment"} \cup Writes \subseteq PageKinds
  BY DEF PageKinds, Writes
<1>3. /\ url = Null /\ opened = Null /\ ticket = Null /\ list = <<>>
  BY DEF Init
<1> QED BY <1>1, <1>2, <1>3, EmptySeq
        DEF ShownInv, OnPage, RowIsCurrent, NoWriteYet, ListIsSound, ListIsCurrent, ComingIn

(* No step of the page, the menu, the API or colleagues breaks it.         *)
LEMMA ShownNext == PageInv /\ ShownInv /\ [Next]_vars => ShownInv'
<1> SUFFICES ASSUME PageInv, ShownInv, [Next]_vars PROVE ShownInv'
  OBVIOUS
<1>1. CASE Back
  BY <1>1, BackShown
<1>2. CASE Edit \/ Dismiss
  BY <1>2, DialogShown
<1>3. CASE CloseMenu \/ UNCHANGED vars
  BY <1>3, ElsewhereShown
<1>4. CASE Others
  BY <1>4, OthersWriteShown, OthersCommentShown, ElsewhereShown DEF Others
<1>5. ASSUME NEW s \in Slots, User(s)
      PROVE  ShownInv'
  BY <1>5, ArrivalsShown, SendsShown, MenuShown DEF User
<1>6. ASSUME NEW s \in Slots, API(s)
      PROVE  ShownInv'
  BY <1>6, ReadTicketShown, ReadCommentsShown, ServeWriteShown, ServeCommentShown, MenuShown
     DEF API
<1>7. ASSUME NEW s \in Slots, Answers(s)
      PROVE  ShownInv'
  BY <1>7, AnswerLoadShown, AnswerWriteShown, AnswerCommentShown, FailsShown, TimesOutShown,
     MenuShown, ArrivalsShown DEF Answers
<1> QED BY <1>1, <1>2, <1>3, <1>4, <1>5, <1>6, <1>7 DEF Next

(* The page shows what the API answered, in order, and knows all but what  *)
(* it has not been told: the inductive invariant above holds in every run. *)
THEOREM TicketPageShowsAnswers == Spec => []ShownInv
<1> QED BY ShownInit, ShownNext, TicketPageIsSound, PTL DEF Spec

(* ticket-detail.component.ts: with nothing under way the page shows the   *)
(* row and the comments the database has, unless something kept it behind. *)
THEOREM PagesAreCurrent == Spec => []PageIsCurrent
<1>1. PageInv /\ ShownInv => PageIsCurrent
  <2> SUFFICES ASSUME PageInv, ShownInv, url # Null, InFlight(PageKinds) = {}, ticket # Null
               PROVE  /\ ticket.id = opened
                      /\ hist.drift = {} => ticket.row = rows[opened]
                      /\ hist.gap = {} => list = InOrder(opened, Visible(opened))
    BY DEF PageIsCurrent
  <2>1. \A s \in Slots, k \in PageKinds : ~Live(s, k)
    BY DEF InFlight, Live
  <2>2. \A s \in Slots : ~LastWrite(s) /\ ~ComingIn(s)
    BY <2>1 DEF LastWrite, ComingIn, Live, PageKinds, Writes
  <2>3. Coming = {}
    BY <2>2 DEF Coming
  <2> QED BY <2>2, <2>3 DEF ShownInv, OnPage, RowIsCurrent, ListIsCurrent, WholeList
<1> QED BY <1>1, TicketPageIsSound, TicketPageShowsAnswers, PTL

(* addComment() and load(): the comments shown are of the ticket shown, in *)
(* the order of the database, each once and none a customer may not see.   *)
THEOREM CommentsAreInOrder == Spec => []CommentsInOrder
<1>1. ShownInv => CommentsInOrder
  BY DEF ShownInv, ListIsSound, CommentsInOrder, Visible
<1> QED BY <1>1, TicketPageShowsAnswers, PTL

-----------------------------------------------------------------------------
(* The badge.                                                              *)

(* The layout asks for one count and waits for all it asks; only what was  *)
(* stored is listed and marked.                                            *)
Counting(s) == requests[s] # Null /\ requests[s].kind = "count"
MenuWaits ==
    /\ \A s, r \in Slots : Counting(s) /\ Counting(r) => s = r
    /\ \A s \in Slots : requests[s] # Null /\ requests[s].kind \notin PageKinds => requests[s].live
MenuExists ==
    /\ \A n \in Notes : n \in DOMAIN menu => inbox[n] # "none"
    /\ \A s \in Slots : Answered(s, "list") =>
          \A n \in Notes : n \in DOMAIN requests[s].got => inbox[n] # "none"
    /\ \A s \in Slots : requests[s] # Null /\ requests[s].kind = "read" =>
          inbox[requests[s].to] # "none"

(* Once counted and with nothing miscounted, the badge, or the count on    *)
(* its way, is the unread and those whose reading it has not heard of.     *)
Ready(kind) == {s \in Slots : Answered(s, kind)}
Due == Cardinality(Unread) + Cardinality(Ready("read"))
Counted == hist.miscounts = {} /\ \A s \in Slots : ~Waiting(s, "count")
Tally ==
    Counted =>
      \/ Ready("readall") # {} /\ Unread = {}
      \/ /\ Ready("readall") = {}
         /\ \A s \in Ready("count") : requests[s].got = Due
         /\ Ready("count") = {} => badge = Due \/ (badge = 0 /\ Unread = {})

BadgeInv == MenuWaits /\ MenuExists /\ Tally

(* What is unread and what the badge has not heard of can be counted.      *)
LEMMA DueFacts ==
    /\ IsFiniteSet(Unread) /\ Cardinality(Unread) \in Nat
    /\ IsFiniteSet(Ready("read")) /\ Cardinality(Ready("read")) \in Nat
<1>1. Unread \subseteq Notes /\ Ready("read") \subseteq Slots
  BY DEF Unread, Ready
<1> QED BY <1>1, TicketPageAssumption, FS_Subset, FS_CardinalityType

(* What is neither asked nor answered leaves the tally as it is.           *)
LEMMA TallyKept ==
    ASSUME Tally, UNCHANGED <<inbox, badge>>, hist'.miscounts = {} => hist.miscounts = {},
           \A s \in Slots, k \in {"count", "read", "readall"} : Answered(s, k)' <=> Answered(s, k),
           \A s \in Slots : Answered(s, "count") => requests'[s].got = requests[s].got,
           \A s \in Slots : Waiting(s, "count") => Waiting(s, "count")'
    PROVE  Tally'
<1>1. /\ Ready("count")' = Ready("count") /\ Ready("read")' = Ready("read")
      /\ Ready("readall")' = Ready("readall") /\ Unread' = Unread
  BY DEF Ready, Unread
<1>2. Due' = Due
  BY <1>1 DEF Due
<1>3. Counted' => Counted
  BY DEF Counted
<1>4. \A s \in Ready("count") : requests'[s].got = requests[s].got
  BY DEF Ready
<1> QED BY <1>1, <1>2, <1>3, <1>4 DEF Tally

(* The page and its requests have nothing to do with the badge.            *)
LEMMA PageSideKept ==
    ASSUME PageInv, BadgeInv, UNCHANGED <<inbox, badge, menu>>, hist'.miscounts = hist.miscounts,
           \A s \in Slots : \/ requests'[s] = requests[s]
                            \/ /\ requests[s] = Null \/ requests[s].kind \in PageKinds
                               /\ requests'[s] = Null \/ requests'[s].kind \in PageKinds
    PROVE  BadgeInv'
<1>1. \A s \in Slots : requests[s] # Null /\ requests[s].kind \notin PageKinds =>
         requests'[s] = requests[s]
  OBVIOUS
<1>2. \A s \in Slots : requests'[s] # Null /\ requests'[s].kind \notin PageKinds =>
         requests'[s] = requests[s]
  OBVIOUS
<1>3. {"count", "read", "readall", "list"} \cap PageKinds = {}
  BY DEF PageKinds
<1>4. \A s \in Slots, k \in {"count", "read", "readall", "list"} :
         /\ Answered(s, k)' <=> Answered(s, k)
         /\ Waiting(s, k)' <=> Waiting(s, k)
         /\ Answered(s, k) => requests'[s] = requests[s]
  BY <1>1, <1>2, <1>3 DEF Answered, Handled, Waiting
<1>5. MenuWaits'
  BY <1>2, <1>3 DEF BadgeInv, MenuWaits, Counting
<1>6. MenuExists'
  BY <1>2, <1>3, <1>4 DEF BadgeInv, MenuExists
<1>7. Tally'
  BY <1>4, TallyKept DEF BadgeInv
<1> QED BY <1>5, <1>6, <1>7 DEF BadgeInv

-----------------------------------------------------------------------------

(* One slot changes.                                                       *)
LEMMA SlotChanges ==
    ASSUME PageInv, NEW s \in Slots, NEW r, requests' = [requests EXCEPT ![s] = r]
    PROVE  requests'[s] = r /\ \A q \in Slots \ {s} : requests'[q] = requests[q]
  BY DEF PageInv, PageTypeOK

(* The page, whatever it does.                                             *)
LEMMA PageStepsBadge ==
    ASSUME PageInv, BadgeInv, NEW s \in Slots,
           \/ \E t \in Tickets : OpenTicket(s, t)
           \/ \E status \in Statuses : ChangeStatus(s, status)
           \/ \E u \in Staff : Assign(s, u)
           \/ \E internal \in BOOLEAN : AddComment(s, internal)
           \/ \E text \in Texts : Save(s, text)
           \/ \E n \in Notes : OpenRead(s, n)
           \/ ReadTicket(s) \/ ReadComments(s) \/ ServeWrite(s) \/ ServeComment(s)
           \/ AnswerLoad(s) \/ AnswerWrite(s) \/ AnswerComment(s) \/ Unseen(s) \/ PageFails(s)
           \/ TimesOut(s)
    PROVE  BadgeInv'
<1>0. hist \in Histories
  BY DEF PageInv, PageTypeOK
<1>1. CASE \/ \E status \in Statuses : ChangeStatus(s, status)
           \/ \E u \in Staff : Assign(s, u)
           \/ \E internal \in BOOLEAN : AddComment(s, internal)
           \/ \E text \in Texts : Save(s, text)
  <2>1. /\ UNCHANGED <<inbox, badge, menu, hist>> /\ requests[s] = Null
        /\ \E k \in PageKinds : \E t, x : requests' = [requests EXCEPT ![s] = Request(k, t, x)]
    BY <1>1 DEF ChangeStatus, Assign, AddComment, Save, Send, database, layout, PageKinds
  <2> QED BY <2>1, SlotChanges, SentFacts, PageSideKept
<1>2. CASE (\E t \in Tickets : OpenTicket(s, t)) \/ \E n \in Notes : OpenRead(s, n)
  <2>1. /\ UNCHANGED <<inbox, badge, menu>>
        /\ \/ UNCHANGED <<requests, hist>>
           \/ \E t : Open(s, t, requests, hist)
    BY <1>2 DEF OpenTicket, OpenRead, Follow, GoTo, database, layout
  <2>2. CASE UNCHANGED <<requests, hist>>
    BY <2>1, <2>2, PageSideKept
  <2>3. ASSUME NEW t, Open(s, t, requests, hist)
        PROVE  BadgeInv'
    <3>1. requests[s] = Null /\ requests' = [requests EXCEPT ![s] = Request("load", t, Null)]
      BY <2>3 DEF Open
    <3>2. hist'.miscounts = hist.miscounts
      BY <1>0, <2>3 DEF Open, Histories
    <3> QED BY <2>1, <3>1, <3>2, SlotChanges, SentFacts, PageSideKept DEF PageKinds
  <2> QED BY <2>1, <2>2, <2>3
<1>3. CASE ReadTicket(s) \/ ReadComments(s) \/ ServeWrite(s) \/ ServeComment(s)
  <2>1. /\ UNCHANGED <<inbox, badge, menu>>
        /\ requests[s] # Null /\ requests[s].kind \in PageKinds /\ requests[s] \in Asked
        /\ \E r : requests' = [requests EXCEPT ![s] = r]
    BY <1>3 DEF ReadTicket, ReadComments, ServeWrite, ServeComment, Waiting, database, layout,
                PageKinds, Writes, PageInv, PageTypeOK
  <2>2. requests'[s].kind \in PageKinds
    <3>1. CASE ReadTicket(s)
      <4>1. requests'[s] = [requests[s] EXCEPT !.row = rows[requests[s].to]]
        BY <3>1 DEF ReadTicket, PageInv, PageTypeOK
      <4> QED BY <2>1, <4>1 DEF Asked, PageRequests, MenuRequests, Asking, PageKinds
    <3>2. CASE ReadComments(s) \/ ServeComment(s)
      <4>1. \E x : requests'[s] = [requests[s] EXCEPT !.got = x]
        BY <3>2 DEF ReadComments, ServeComment, PageInv, PageTypeOK
      <4> QED BY <2>1, <4>1 DEF Asked, PageRequests, MenuRequests, Asking, PageKinds
    <3>3. CASE ServeWrite(s)
      <4>1. \E x : requests'[s] = [[requests[s] EXCEPT !.row = x] EXCEPT !.got = TRUE]
        BY <3>3 DEF ServeWrite, PageInv, PageTypeOK
      <4> QED BY <2>1, <4>1 DEF Asked, PageRequests, MenuRequests, Asking, PageKinds
    <3> QED BY <1>3, <3>1, <3>2, <3>3
  <2>3. hist'.miscounts = hist.miscounts
    BY <1>0, <1>3 DEF ReadTicket, ReadComments, ServeWrite, ServeComment, Histories
  <2> QED BY <2>1, <2>2, <2>3, SlotChanges, PageSideKept
<1>4. CASE AnswerLoad(s) \/ AnswerWrite(s) \/ AnswerComment(s) \/ Unseen(s) \/ PageFails(s)
  <2>1. /\ UNCHANGED <<inbox, badge, menu>> /\ requests' = [requests EXCEPT ![s] = Null]
    BY <1>4 DEF AnswerLoad, AnswerWrite, AnswerComment, Unseen, PageFails, Done, database, layout
  <2>2. requests[s] # Null /\ requests[s].kind \in PageKinds
    BY <1>4 DEF AnswerLoad, AnswerWrite, AnswerComment, Unseen, PageFails, InFlight, Answered,
                Handled, PageKinds, Writes, BadgeInv, MenuWaits
  <2>3. hist'.miscounts = hist.miscounts
    BY <1>0, <1>4 DEF AnswerLoad, AnswerWrite, AnswerComment, Unseen, PageFails, Histories
  <2> QED BY <2>1, <2>2, <2>3, SlotChanges, PageSideKept
<1>5. CASE TimesOut(s)
  <2>1. /\ UNCHANGED <<inbox, badge, menu>> /\ requests' = [requests EXCEPT ![s].live = FALSE]
        /\ requests[s] # Null /\ requests[s].kind \in PageKinds
    BY <1>5 DEF TimesOut, InFlight, database, layout, PageKinds, Writes
  <2>2. /\ \A q \in Slots \ {s} : requests'[q] = requests[q]
        /\ requests'[s].kind \in PageKinds
    BY <2>1, OrphanSlot, Orphaning
  <2>3. hist'.miscounts = hist.miscounts
    BY <1>0, <1>5 DEF TimesOut, Histories
  <2> QED BY <2>1, <2>2, <2>3, PageSideKept
<1> QED BY <1>1, <1>2, <1>3, <1>4, <1>5

(* Leaving the page, its dialog and what colleagues do to tickets do not   *)
(* reach the badge.                                                        *)
LEMMA ElsewhereBadge ==
    ASSUME PageInv, BadgeInv,
           \/ Back \/ Edit \/ Dismiss \/ CloseMenu \/ UNCHANGED vars
           \/ \E t \in Tickets, status \in Statuses : OthersWrite(t, status)
           \/ \E t \in Tickets, internal \in BOOLEAN : OthersComment(t, internal)
    PROVE  BadgeInv'
<1>1. UNCHANGED <<inbox, badge, menu>>
  BY DEF Back, Edit, Dismiss, CloseMenu, OthersWrite, OthersComment, vars, database, layout
<1>2. hist'.miscounts = hist.miscounts
  <2>1. hist \in Histories
    BY DEF PageInv, PageTypeOK
  <2> QED BY <2>1 DEF Back, Edit, Dismiss, CloseMenu, OthersWrite, OthersComment, vars, Histories
<1>3. \/ UNCHANGED requests
      \/ requests' = Orphaned(PageKinds) \/ requests' = Orphaned({"edit"})
  BY DEF Back, Edit, Dismiss, CloseMenu, OthersWrite, OthersComment, vars
<1>4. \A s \in Slots : \/ requests'[s] = requests[s]
                       \/ /\ requests[s] # Null /\ requests[s].kind \in PageKinds
                          /\ requests'[s].kind \in PageKinds
  <2>1. CASE UNCHANGED requests
    BY <2>1
  <2>2. ASSUME NEW ks \in SUBSET PageKinds, requests' = Orphaned(ks), NEW s \in Slots,
               requests'[s] # requests[s]
        PROVE  /\ requests[s] # Null /\ requests[s].kind \in PageKinds
               /\ requests'[s].kind \in PageKinds
    <3>1. s \in InFlight(ks) /\ requests'[s] = [requests[s] EXCEPT !.live = FALSE]
      BY <2>2 DEF Orphaned
    <3>2. requests[s] \in Asked /\ requests[s] # Null /\ requests[s].kind \in PageKinds
      BY <3>1 DEF InFlight, PageInv, PageTypeOK
    <3> QED BY <3>1, <3>2, Orphaning
  <2>3. PageKinds \in SUBSET PageKinds /\ {"edit"} \in SUBSET PageKinds
    BY DEF PageKinds
  <2> QED BY <1>3, <2>1, <2>2, <2>3
<1> QED BY <1>1, <1>2, <1>4, PageSideKept

-----------------------------------------------------------------------------
(* The menu asks.                                                          *)
LEMMA MenuSendsBadge ==
    ASSUME PageInv, BadgeInv, NEW s \in Slots,
           OpenMenu(s) \/ MarkAllRead(s) \/ \E n \in Notes : OpenUnread(s, n)
    PROVE  BadgeInv'
<1>1. /\ UNCHANGED <<inbox, badge, menu, hist>> /\ requests[s] = Null
  BY DEF OpenMenu, MarkAllRead, OpenUnread, Send, database, layout
<1>2. PICK k, x :
         /\ k \in {"list", "readall", "read"}
         /\ requests' = [requests EXCEPT ![s] = Request(k, x, Null)]
         /\ k = "read" => x \in Notes /\ inbox[x] # "none"
  BY DEF OpenMenu, MarkAllRead, OpenUnread, Send, BadgeInv, MenuExists
<1>3. requests'[s] = Request(k, x, Null) /\ \A q \in Slots \ {s} : requests'[q] = requests[q]
  BY <1>2, SlotChanges
<1>4. /\ requests'[s].kind = k /\ requests'[s].live /\ requests'[s].got = Null
      /\ requests'[s].to = x
  BY <1>3, SentFacts
<1>5. \A q \in Slots, j \in {"count", "read", "readall", "list"} :
         /\ Answered(q, j)' <=> Answered(q, j)
         /\ Answered(q, j) => requests'[q] = requests[q]
         /\ Waiting(q, j) => Waiting(q, j)'
  BY <1>1, <1>3, <1>4 DEF Answered, Handled, Waiting
<1>6. MenuWaits'
  <2>1. k # "count"
    BY <1>2
  <2>2. \A q \in Slots : Counting(q)' => Counting(q)
    BY <1>3, <1>4, <2>1 DEF Counting
  <2>3. \A q \in Slots : requests'[q] # Null /\ requests'[q].kind \notin PageKinds =>
           requests'[q].live
    BY <1>3, <1>4 DEF BadgeInv, MenuWaits
  <2> QED BY <2>2, <2>3 DEF BadgeInv, MenuWaits
<1>7. MenuExists'
  <2>1. \A q \in Slots : requests'[q] # Null /\ requests'[q].kind = "read" =>
           inbox'[requests'[q].to] # "none"
    BY <1>1, <1>2, <1>3, <1>4 DEF BadgeInv, MenuExists
  <2> QED BY <1>1, <1>5, <2>1 DEF BadgeInv, MenuExists
<1>8. Tally'
  BY <1>1, <1>5, TallyKept DEF BadgeInv
<1> QED BY <1>6, <1>7, <1>8 DEF BadgeInv

(* The API serves a request of the menu.                                   *)
LEMMA MenuServedSlot ==
    ASSUME PageInv, BadgeInv, NEW s \in Slots, NEW kind \in {"count", "read", "readall"},
           Waiting(s, kind), NEW x, x # Null,
           \/ kind = "count" /\ x \in Nat
           \/ kind \in Readings /\ x = TRUE,
           requests' = [requests EXCEPT ![s].got = x]
    PROVE  /\ requests'[s].got = x /\ Answered(s, kind)'
           /\ \A q \in Slots, j \in {"count", "read", "readall", "list"} :
                 /\ Answered(q, j)' <=> Answered(q, j) \/ (q = s /\ j = kind)
                 /\ Answered(q, j) => requests'[q] = requests[q] /\ q # s
                 /\ Waiting(q, j)' <=> Waiting(q, j) /\ q # s
           /\ \A q \in Slots : requests'[q] # Null =>
                 /\ requests[q] # Null /\ requests'[q].kind = requests[q].kind
                 /\ requests'[q].to = requests[q].to /\ requests'[q].live = requests[q].live
           /\ MenuWaits'
<1>1. /\ requests[s] \in Asked /\ requests[s] # Null /\ requests[s].kind = kind
      /\ requests[s].got = Null
      /\ requests' = [requests EXCEPT ![s] = [requests[s] EXCEPT !.got = x]]
  BY DEF Waiting, PageInv, PageTypeOK
<1> DEFINE r == [requests[s] EXCEPT !.got = x]
<1>2. requests'[s] = r /\ \A q \in Slots \ {s} : requests'[q] = requests[q]
  BY <1>1, SlotChanges
<1>3. /\ r.kind = kind /\ r.to = requests[s].to /\ r.live = requests[s].live /\ r.got = x
      /\ r # Null
  <2>1. r.kind = kind /\ r.to = requests[s].to /\ r.live = requests[s].live /\ r.got = x
    BY <1>1 DEF Asked, PageRequests, MenuRequests, Asking
  <2>2. r \in Asked
    BY <1>1, Serving DEF Readings
  <2>3. r # Null
    <3> HIDE DEF r
    <3> QED BY <2>2, AskedFacts
  <2> QED BY <2>1, <2>3
<1> HIDE DEF r
<1>4. \A q \in Slots : requests'[q] # Null =>
         /\ requests[q] # Null /\ requests'[q].kind = requests[q].kind
         /\ requests'[q].to = requests[q].to /\ requests'[q].live = requests[q].live
  BY <1>1, <1>2, <1>3
<1>5. MenuWaits'
  BY <1>4 DEF BadgeInv, MenuWaits, Counting
<1>6. Answered(s, kind)'
  BY <1>2, <1>3 DEF Answered, Handled
<1>7. \A q \in Slots, j \in {"count", "read", "readall", "list"} :
         /\ Answered(q, j)' <=> Answered(q, j) \/ (q = s /\ j = kind)
         /\ Answered(q, j) => requests'[q] = requests[q] /\ q # s
         /\ Waiting(q, j)' <=> Waiting(q, j) /\ q # s
  BY <1>1, <1>2, <1>3 DEF Answered, Handled, Waiting
<1> QED BY <1>2, <1>3, <1>4, <1>5, <1>6, <1>7

(* The menu's requests were for what is stored, and still are.             *)
LEMMA MenuExistsKept ==
    ASSUME BadgeInv, menu' = menu,
           \A n \in Notes : inbox'[n] = "none" => inbox[n] = "none",
           \A s \in Slots : requests[s] # Null /\ requests[s].kind = "read" =>
              requests[s].to \in Notes,
           \A s \in Slots : Answered(s, "list")' =>
              Answered(s, "list") /\ requests'[s] = requests[s],
           \A s \in Slots : requests'[s] # Null /\ requests'[s].kind = "read" =>
              /\ requests[s] # Null /\ requests[s].kind = "read"
              /\ requests'[s].to = requests[s].to
    PROVE  MenuExists'
  BY DEF BadgeInv, MenuExists

(* A request to mark one is for a notification.                            *)
LEMMA ReadNotes ==
    ASSUME PageInv
    PROVE  \A s \in Slots : requests[s] # Null /\ requests[s].kind = "read" =>
              requests[s].to \in Notes
  BY AskedFacts DEF PageInv, PageTypeOK

(* countUnread: what was read before and is not heard of is counted out.   *)
LEMMA ServeCountBadge ==
    ASSUME PageInv, BadgeInv, NEW s \in Slots, ServeCount(s)
    PROVE  BadgeInv'
<1> DEFINE x == Cardinality(Unread)
<1>1. /\ Waiting(s, "count") /\ requests' = [requests EXCEPT ![s].got = x]
      /\ UNCHANGED <<inbox, badge, menu>>
  BY DEF ServeCount, database, layout
<1>2. x \in Nat /\ x # Null
  <2>1. x \in Nat
    BY DueFacts
  <2> HIDE DEF x
  <2> QED BY <2>1, TicketPageAssumption
<1> HIDE DEF x
<1>3. /\ requests'[s].got = x /\ Answered(s, "count")'
      /\ \A q \in Slots, j \in {"count", "read", "readall", "list"} :
            /\ Answered(q, j)' <=> Answered(q, j) \/ (q = s /\ j = "count")
            /\ Answered(q, j) => requests'[q] = requests[q] /\ q # s
            /\ Waiting(q, j)' <=> Waiting(q, j) /\ q # s
      /\ \A q \in Slots : requests'[q] # Null =>
            /\ requests[q] # Null /\ requests'[q].kind = requests[q].kind
            /\ requests'[q].to = requests[q].to /\ requests'[q].live = requests[q].live
      /\ MenuWaits'
  BY <1>1, <1>2, MenuServedSlot
<1>4. MenuExists'
  BY <1>1, <1>3, ReadNotes, MenuExistsKept
<1>5. \A q \in Slots : ~Answered(q, "count")
  BY <1>1 DEF BadgeInv, MenuWaits, Counting, Waiting, Answered, Handled
<1>6. CASE \E q \in Slots, k \in Readings : Answered(q, k)
  <2>1. hist'.miscounts # {}
    <3>1. hist \in Histories /\ hist' = [hist EXCEPT !.miscounts = @ \cup {"crossed"}]
      BY <1>6 DEF ServeCount, PageInv, PageTypeOK
    <3> QED BY <3>1 DEF Histories
  <2> QED BY <1>3, <1>4, <2>1 DEF BadgeInv, Tally, Counted
<1>7. CASE ~ \E q \in Slots, k \in Readings : Answered(q, k)
  <2>1. Ready("read")' = {} /\ Ready("readall")' = {} /\ Ready("count")' = {s}
    BY <1>3, <1>5, <1>7 DEF Ready, Readings
  <2>2. Unread' = Unread
    BY <1>1 DEF Unread
  <2>3. Due' = x
    <3>1. Cardinality({}) = 0
      BY FS_EmptySet
    <3> QED BY <1>2, <2>1, <2>2, <3>1 DEF Due, x
  <2> QED BY <1>3, <1>4, <2>1, <2>3 DEF BadgeInv, Tally
<1> QED BY <1>6, <1>7

(* findForUser lists what is stored.                                       *)
LEMMA ServeListBadge ==
    ASSUME PageInv, BadgeInv, NEW s \in Slots, ServeList(s)
    PROVE  BadgeInv'
<1> DEFINE x == [n \in Newest |-> inbox[n]]
           r == [requests[s] EXCEPT !.got = x]
<1>1. /\ requests[s] \in Asked /\ requests[s] # Null /\ requests[s].kind = "list"
      /\ requests[s].got = Null /\ requests' = [requests EXCEPT ![s] = r]
      /\ UNCHANGED <<inbox, badge, menu, hist>>
  BY DEF ServeList, Waiting, database, layout, PageInv, PageTypeOK
<1>2. DOMAIN x = Newest /\ \A n \in Newest : n \in Notes /\ inbox[n] # "none"
  BY DEF Newest, Existing
<1> HIDE DEF x
<1>3. requests'[s] = r /\ \A q \in Slots \ {s} : requests'[q] = requests[q]
  BY <1>1, SlotChanges
<1>4. r.kind = "list" /\ r.live = requests[s].live /\ r.got = x
  BY <1>1 DEF Asked, PageRequests, MenuRequests, Asking
<1> HIDE DEF r
<1>5. \A q \in Slots, j \in {"count", "read", "readall"} :
         /\ Answered(q, j)' <=> Answered(q, j)
         /\ Answered(q, j) => requests'[q] = requests[q]
         /\ Waiting(q, j)' <=> Waiting(q, j)
  BY <1>1, <1>3, <1>4 DEF Answered, Handled, Waiting
<1>6. MenuWaits'
  BY <1>1, <1>3, <1>4 DEF BadgeInv, MenuWaits, Counting
<1>7. MenuExists'
  <2>1. ASSUME NEW q \in Slots, Answered(q, "list")', NEW n \in Notes, n \in DOMAIN requests'[q].got
        PROVE  inbox'[n] # "none"
    <3>1. CASE q = s
      BY <1>1, <1>2, <1>3, <1>4, <2>1, <3>1
    <3>2. CASE q # s
      BY <1>1, <1>3, <2>1, <3>2 DEF BadgeInv, MenuExists, Answered, Handled
    <3> QED BY <3>1, <3>2
  <2>2. \A q \in Slots : requests'[q] # Null /\ requests'[q].kind = "read" =>
           inbox'[requests'[q].to] # "none"
    BY <1>1, <1>3, <1>4 DEF BadgeInv, MenuExists
  <2> QED BY <1>1, <2>1, <2>2 DEF BadgeInv, MenuExists
<1>8. Tally'
  BY <1>1, <1>5, TallyKept DEF BadgeInv
<1> QED BY <1>6, <1>7, <1>8 DEF BadgeInv

(* markRead: one less is unread, and one more is to be heard of.           *)
LEMMA ServeReadBadge ==
    ASSUME PageInv, BadgeInv, NEW s \in Slots, ServeRead(s)
    PROVE  BadgeInv'
<1>0. PICK n \in Notes : n = requests[s].to
  BY ReadNotes DEF ServeRead, Waiting
<1>1. /\ Waiting(s, "read") /\ requests' = [requests EXCEPT ![s].got = TRUE]
      /\ inbox' = [inbox EXCEPT ![n] = "read"] /\ UNCHANGED <<badge, menu>>
      /\ inbox \in [Notes -> {"none", "unread", "read"}]
  BY <1>0 DEF ServeRead, layout, PageInv, PageTypeOK
<1>2. TRUE # Null
  BY TicketPageAssumption
<1>3. /\ \A q \in Slots, j \in {"count", "read", "readall", "list"} :
            /\ Answered(q, j)' <=> Answered(q, j) \/ (q = s /\ j = "read")
            /\ Answered(q, j) => requests'[q] = requests[q] /\ q # s
            /\ Waiting(q, j)' <=> Waiting(q, j) /\ q # s
      /\ \A q \in Slots : requests'[q] # Null =>
            /\ requests[q] # Null /\ requests'[q].kind = requests[q].kind
            /\ requests'[q].to = requests[q].to /\ requests'[q].live = requests[q].live
      /\ MenuWaits'
  BY <1>1, <1>2, MenuServedSlot DEF Readings
<1>4. MenuExists'
  <2>1. \A m \in Notes : inbox'[m] = "none" => inbox[m] = "none"
    BY <1>1
  <2> QED BY <1>1, <1>3, <2>1, ReadNotes, MenuExistsKept
<1>5. inbox[n] \in {"unread", "read"}
  BY <1>0, <1>1 DEF BadgeInv, MenuExists, Waiting
<1>6. CASE inbox[n] = "read"
  <2>1. hist'.miscounts # {}
    <3>1. hist \in Histories /\ hist' = [hist EXCEPT !.miscounts = @ \cup {"twice"}]
      BY <1>0, <1>6 DEF ServeRead, PageInv, PageTypeOK
    <3> QED BY <3>1 DEF Histories
  <2> QED BY <1>3, <1>4, <2>1 DEF BadgeInv, Tally, Counted
<1>7. CASE inbox[n] = "unread"
  <2>1. hist' = hist
    BY <1>0, <1>7 DEF ServeRead
  <2>2. n \in Unread /\ Unread' = Unread \ {n}
    BY <1>1, <1>7 DEF Unread
  <2>3. s \notin Ready("read") /\ Ready("read")' = Ready("read") \cup {s}
    BY <1>3 DEF Ready
  <2>4. Ready("readall")' = Ready("readall") /\ Ready("count")' = Ready("count")
    BY <1>3 DEF Ready
  <2>5. \A q \in Ready("count") : requests'[q].got = requests[q].got
    BY <1>3 DEF Ready
  <2>6. Due' = Due
    <3>1. Cardinality(Unread)' = Cardinality(Unread) - 1
      BY <2>2, DueFacts, FS_RemoveElement
    <3>2. Cardinality(Ready("read"))' = Cardinality(Ready("read")) + 1
      BY <2>3, DueFacts, FS_AddElement
    <3> QED BY <3>1, <3>2, DueFacts DEF Due
  <2>7. Counted' => Counted
    BY <1>1, <1>3, <2>1 DEF Counted, Waiting
  <2>8. Tally'
    BY <1>1, <2>2, <2>4, <2>5, <2>6, <2>7 DEF BadgeInv, Tally
  <2> QED BY <1>3, <1>4, <2>8 DEF BadgeInv
<1> QED BY <1>5, <1>6, <1>7

(* markAllRead: none is unread.                                            *)
LEMMA ServeReadAllBadge ==
    ASSUME PageInv, BadgeInv, NEW s \in Slots, ServeReadAll(s)
    PROVE  BadgeInv'
<1>1. /\ Waiting(s, "readall") /\ requests' = [requests EXCEPT ![s].got = TRUE]
      /\ inbox' = [n \in Notes |-> IF n \in Unread THEN "read" ELSE inbox[n]]
      /\ UNCHANGED <<badge, menu>>
  BY DEF ServeReadAll, layout
<1>2. TRUE # Null
  BY TicketPageAssumption
<1>3. /\ Answered(s, "readall")'
      /\ \A q \in Slots, j \in {"count", "read", "readall", "list"} :
            /\ Answered(q, j)' <=> Answered(q, j) \/ (q = s /\ j = "readall")
            /\ Answered(q, j) => requests'[q] = requests[q] /\ q # s
            /\ Waiting(q, j)' <=> Waiting(q, j) /\ q # s
      /\ \A q \in Slots : requests'[q] # Null =>
            /\ requests[q] # Null /\ requests'[q].kind = requests[q].kind
            /\ requests'[q].to = requests[q].to /\ requests'[q].live = requests[q].live
      /\ MenuWaits'
  BY <1>1, <1>2, MenuServedSlot DEF Readings
<1>4. MenuExists'
  <2>1. \A m \in Notes : inbox'[m] = "none" => inbox[m] = "none"
    BY <1>1
  <2> QED BY <1>1, <1>3, <2>1, ReadNotes, MenuExistsKept
<1>5. Ready("readall")' # {} /\ Unread' = {}
  <2>1. Unread' = {}
    BY <1>1 DEF Unread
  <2> QED BY <1>3, <2>1 DEF Ready
<1> QED BY <1>3, <1>4, <1>5 DEF BadgeInv, Tally

(* The layout has its answer, or an error, and the slot is free, or taken  *)
(* by the page it leads to.                                                *)
LEMMA MenuGone ==
    ASSUME PageInv, BadgeInv, NEW s \in Slots,
           requests[s] # Null, requests[s].kind \notin PageKinds,
           requests'[s] # Null => requests'[s].kind \in PageKinds,
           \A q \in Slots \ {s} : requests'[q] = requests[q]
    PROVE  /\ \A q \in Slots, j \in {"count", "read", "readall", "list"} :
                 /\ Answered(q, j)' <=> Answered(q, j) /\ q # s
                 /\ Waiting(q, j)' <=> Waiting(q, j) /\ q # s
           /\ \A q \in Slots : requests'[q] # Null /\ requests'[q].kind \notin PageKinds =>
                 q # s /\ requests'[q] = requests[q]
           /\ MenuWaits'
<1>1. {"count", "read", "readall", "list"} \cap PageKinds = {}
  BY DEF PageKinds
<1>2. \A q \in Slots : requests'[q] # Null /\ requests'[q].kind \notin PageKinds =>
         q # s /\ requests'[q] = requests[q]
  OBVIOUS
<1>3. \A q \in Slots, j \in {"count", "read", "readall", "list"} :
         /\ Answered(q, j)' <=> Answered(q, j) /\ q # s
         /\ Waiting(q, j)' <=> Waiting(q, j) /\ q # s
  BY <1>1, <1>2 DEF Answered, Handled, Waiting
<1>4. MenuWaits'
  BY <1>1, <1>2 DEF BadgeInv, MenuWaits, Counting
<1> QED BY <1>2, <1>3, <1>4

(* Following a notification starts at most a load.                         *)
LEMMA FollowSlot ==
    ASSUME PageInv, NEW s \in Slots, NEW n, NEW h \in Histories,
           Follow(s, n, [requests EXCEPT ![s] = Null], h)
    PROVE  /\ requests'[s] # Null => requests'[s].kind \in PageKinds
           /\ \A q \in Slots \ {s} : requests'[q] = requests[q]
           /\ hist'.miscounts = h.miscounts
<1> DEFINE pending == [requests EXCEPT ![s] = Null]
<1>1. pending[s] = Null /\ \A q \in Slots \ {s} : pending[q] = requests[q]
  BY DEF PageInv, PageTypeOK
<1>2. DOMAIN pending = Slots
  BY DEF PageInv, PageTypeOK
<1>3. Follow(s, n, pending, h)
  OBVIOUS
<1> HIDE DEF pending
<1>4. CASE requests' = pending /\ hist' = h
  BY <1>1, <1>4
<1>5. ASSUME NEW t, Open(s, t, pending, h)
      PROVE  /\ requests'[s] # Null => requests'[s].kind \in PageKinds
             /\ \A q \in Slots \ {s} : requests'[q] = requests[q]
             /\ hist'.miscounts = h.miscounts
  <2>1. requests' = [pending EXCEPT ![s] = Request("load", t, Null)]
    BY <1>5 DEF Open
  <2>2. requests'[s] = Request("load", t, Null) /\ \A q \in Slots \ {s} : requests'[q] = pending[q]
    BY <1>2, <2>1
  <2>3. requests'[s].kind \in PageKinds
    BY <2>2, SentFacts DEF PageKinds
  <2>4. hist'.miscounts = h.miscounts
    BY <1>5 DEF Open, Histories
  <2> QED BY <1>1, <2>2, <2>3, <2>4
<1> QED BY <1>3, <1>4, <1>5 DEF Follow, GoTo

(* What is miscounted once an answer that lowers the badge is there.       *)
LEMMA CrossingFacts ==
    ASSUME PageInv
    PROVE  /\ [hist EXCEPT !.miscounts = Crossing] \in Histories
           /\ [hist EXCEPT !.miscounts = Crossing].miscounts = Crossing
           /\ Crossing = {} => hist.miscounts = {} /\ \A q \in Slots : ~Answered(q, "count")
<1>1. hist \in Histories
  BY DEF PageInv, PageTypeOK
<1>2. Crossing \in SUBSET {"arrived", "crossed", "twice", "lost"}
  BY <1>1 DEF Crossing, Histories
<1>3. /\ [hist EXCEPT !.miscounts = Crossing] \in Histories
      /\ [hist EXCEPT !.miscounts = Crossing].miscounts = Crossing
  BY <1>1, <1>2 DEF Histories
<1>4. Crossing = {} => hist.miscounts = {} /\ \A q \in Slots : ~Answered(q, "count")
  BY DEF Crossing
<1> QED BY <1>3, <1>4

(* next of countUnread: the count is that of now.                          *)
LEMMA AnswerCountBadge ==
    ASSUME PageInv, BadgeInv, NEW s \in Slots, AnswerCount(s)
    PROVE  BadgeInv'
<1>1. /\ Answered(s, "count") /\ badge' = requests[s].got
      /\ requests' = [requests EXCEPT ![s] = Null] /\ UNCHANGED <<inbox, menu, hist>>
  BY DEF AnswerCount, Done, database, layout
<1>2. requests'[s] = Null /\ \A q \in Slots \ {s} : requests'[q] = requests[q]
  BY <1>1, SlotChanges
<1>3. requests[s] # Null /\ requests[s].kind = "count" /\ requests[s].kind \notin PageKinds
  BY <1>1 DEF Answered, Handled, PageKinds
<1>4. /\ \A q \in Slots, j \in {"count", "read", "readall", "list"} :
            /\ Answered(q, j)' <=> Answered(q, j) /\ q # s
            /\ Waiting(q, j)' <=> Waiting(q, j) /\ q # s
      /\ MenuWaits'
  BY <1>2, <1>3, MenuGone
<1>5. MenuExists'
  BY <1>1, <1>2, <1>4, ReadNotes, MenuExistsKept
<1>6. \A q \in Slots : Answered(q, "count") \/ Waiting(q, "count") => q = s
  BY <1>3 DEF BadgeInv, MenuWaits, Counting, Answered, Handled, Waiting
<1>7. \A j \in {"read", "readall"} : Ready(j)' = Ready(j)
  BY <1>3, <1>4 DEF Ready, Answered
<1>8. s \in Ready("count") /\ Ready("count")' = {}
  BY <1>1, <1>4, <1>6 DEF Ready
<1>9. Unread' = Unread
  BY <1>1 DEF Unread
<1>10. Due' = Due
  BY <1>7, <1>9 DEF Due
<1>11. Counted' => Counted
  BY <1>1, <1>6 DEF Counted, Waiting, Answered, Handled
<1>12. Tally'
  BY <1>1, <1>7, <1>8, <1>9, <1>10, <1>11 DEF BadgeInv, Tally
<1> QED BY <1>4, <1>5, <1>12 DEF BadgeInv

(* next of findForUser: the menu shows what is stored.                     *)
LEMMA AnswerListBadge ==
    ASSUME PageInv, BadgeInv, NEW s \in Slots, AnswerList(s)
    PROVE  BadgeInv'
<1>1. /\ Answered(s, "list") /\ menu' = requests[s].got
      /\ requests' = [requests EXCEPT ![s] = Null] /\ UNCHANGED <<inbox, badge, hist>>
  BY DEF AnswerList, Done, database, layout
<1>2. requests'[s] = Null /\ \A q \in Slots \ {s} : requests'[q] = requests[q]
  BY <1>1, SlotChanges
<1>3. requests[s] # Null /\ requests[s].kind = "list" /\ requests[s].kind \notin PageKinds
  BY <1>1 DEF Answered, Handled, PageKinds
<1>4. /\ \A q \in Slots, j \in {"count", "read", "readall", "list"} :
            /\ Answered(q, j)' <=> Answered(q, j) /\ q # s
            /\ Waiting(q, j)' <=> Waiting(q, j) /\ q # s
      /\ MenuWaits'
  BY <1>2, <1>3, MenuGone
<1>5. MenuExists'
  BY <1>1, <1>2, <1>4 DEF BadgeInv, MenuExists
<1>6. \A q \in Slots, j \in {"count", "read", "readall"} :
         /\ Answered(q, j)' <=> Answered(q, j)
         /\ Waiting(q, j)' <=> Waiting(q, j)
  BY <1>3, <1>4 DEF Answered, Waiting
<1>7. \A q \in Slots : Answered(q, "count") => requests'[q].got = requests[q].got
  BY <1>2, <1>3 DEF Answered
<1>8. Tally'
  BY <1>1, <1>6, <1>7, TallyKept DEF BadgeInv
<1> QED BY <1>4, <1>5, <1>8 DEF BadgeInv

(* tap of markRead: one less on the badge, and one less to be heard of.    *)
LEMMA AnswerReadBadge ==
    ASSUME PageInv, BadgeInv, NEW s \in Slots, AnswerRead(s)
    PROVE  BadgeInv'
<1>1. /\ Answered(s, "read") /\ badge' = OneLess(badge) /\ UNCHANGED <<inbox, menu>>
  BY DEF AnswerRead, database, layout
<1>2. requests[s] # Null /\ requests[s].kind = "read" /\ requests[s].kind \notin PageKinds
  BY <1>1 DEF Answered, Handled, PageKinds
<1>3. /\ requests'[s] # Null => requests'[s].kind \in PageKinds
      /\ \A q \in Slots \ {s} : requests'[q] = requests[q]
      /\ hist'.miscounts = Crossing
  BY CrossingFacts, FollowSlot DEF AnswerRead
<1>4. /\ \A q \in Slots, j \in {"count", "read", "readall", "list"} :
            /\ Answered(q, j)' <=> Answered(q, j) /\ q # s
            /\ Waiting(q, j)' <=> Waiting(q, j) /\ q # s
      /\ \A q \in Slots : requests'[q] # Null /\ requests'[q].kind \notin PageKinds =>
            q # s /\ requests'[q] = requests[q]
      /\ MenuWaits'
  BY <1>2, <1>3, MenuGone
<1>5. MenuExists'
  BY <1>1, <1>3, <1>4, ReadNotes, MenuExistsKept DEF PageKinds
<1>6. Counted' => Counted /\ Ready("count") = {}
  BY <1>2, <1>3, <1>4, CrossingFacts DEF Counted, Ready, Waiting
<1>7. Ready("count")' \subseteq Ready("count") /\ Ready("readall")' = Ready("readall")
  BY <1>2, <1>4 DEF Ready, Answered
<1>8. s \in Ready("read") /\ Ready("read")' = Ready("read") \ {s}
  BY <1>1, <1>4 DEF Ready
<1>9. Unread' = Unread
  BY <1>1 DEF Unread
<1>10. Due \in Nat \ {0} /\ Due' = Due - 1
  <2>1. Cardinality(Ready("read"))' = Cardinality(Ready("read")) - 1
    BY <1>8, DueFacts, FS_RemoveElement
  <2>2. Cardinality(Ready("read")) # 0
    BY <1>8, DueFacts, FS_EmptySet
  <2> QED BY <1>9, <2>1, <2>2, DueFacts DEF Due
<1>11. /\ badge = Due => badge' = Due'
       /\ badge = 0 => badge' = 0
  BY <1>1, <1>10 DEF OneLess
<1>12. Tally'
  BY <1>6, <1>7, <1>9, <1>11 DEF BadgeInv, Tally
<1> QED BY <1>4, <1>5, <1>12 DEF BadgeInv

(* tap of markAllRead: none on the badge, and none is unread.              *)
LEMMA AnswerReadAllBadge ==
    ASSUME PageInv, BadgeInv, NEW s \in Slots, AnswerReadAll(s)
    PROVE  BadgeInv'
<1>1. /\ Answered(s, "readall") /\ badge' = 0 /\ DOMAIN menu' = DOMAIN menu
      /\ requests' = [requests EXCEPT ![s] = Null] /\ UNCHANGED inbox
      /\ hist'.miscounts = Crossing
  BY CrossingFacts DEF AnswerReadAll, AllSeen, Done, database
<1>2. requests'[s] = Null /\ \A q \in Slots \ {s} : requests'[q] = requests[q]
  BY <1>1, SlotChanges
<1>3. requests[s] # Null /\ requests[s].kind = "readall" /\ requests[s].kind \notin PageKinds
  BY <1>1 DEF Answered, Handled, PageKinds
<1>4. /\ \A q \in Slots, j \in {"count", "read", "readall", "list"} :
            /\ Answered(q, j)' <=> Answered(q, j) /\ q # s
            /\ Waiting(q, j)' <=> Waiting(q, j) /\ q # s
      /\ \A q \in Slots : requests'[q] # Null /\ requests'[q].kind \notin PageKinds =>
            q # s /\ requests'[q] = requests[q]
      /\ MenuWaits'
  BY <1>2, <1>3, MenuGone
<1>5. MenuExists'
  BY <1>1, <1>2, <1>4 DEF BadgeInv, MenuExists
<1>6. Counted' => Counted /\ Ready("count")' = {}
  BY <1>1, <1>3, <1>4, CrossingFacts DEF Counted, Ready, Waiting
<1>7. s \in Ready("readall")
  BY <1>1 DEF Ready
<1>8. Unread' = Unread
  BY <1>1 DEF Unread
<1>9. Tally'
  BY <1>1, <1>6, <1>7, <1>8 DEF BadgeInv, Tally
<1> QED BY <1>4, <1>5, <1>9 DEF BadgeInv

(* The menu fails: what the badge does not learn of is miscounted.         *)
LEMMA MenuFailsBadge ==
    ASSUME PageInv, BadgeInv, NEW s \in Slots, LayoutFails(s) \/ ReadFails(s)
    PROVE  BadgeInv'
<1> DEFINE told == requests[s].kind = "list" \/ (~Handled(s) /\ requests[s].kind # "count")
<1>0. hist \in Histories
  BY DEF PageInv, PageTypeOK
<1>1. UNCHANGED <<inbox, badge, menu>>
  BY DEF LayoutFails, ReadFails, database, layout
<1>2. /\ requests[s] # Null /\ requests[s].kind \in {"count", "list", "readall", "read"}
      /\ requests[s].kind \notin PageKinds
  BY DEF LayoutFails, ReadFails, PageKinds
<1>3. /\ requests'[s] # Null => requests'[s].kind \in PageKinds
      /\ \A q \in Slots \ {s} : requests'[q] = requests[q]
      /\ told => hist'.miscounts = hist.miscounts
      /\ ~told => hist'.miscounts # {}
  <2> DEFINE h == [hist EXCEPT !.miscounts = @ \cup {"lost"}]
  <2>1. h \in Histories /\ h.miscounts # {}
    BY <1>0 DEF Histories
  <2>2. CASE LayoutFails(s)
    <3>1. requests' = [requests EXCEPT ![s] = Null] /\ hist' = IF told THEN hist ELSE h
      BY <2>2 DEF LayoutFails, Done, Answered
    <3>2. requests'[s] = Null /\ \A q \in Slots \ {s} : requests'[q] = requests[q]
      BY <3>1, SlotChanges
    <3> HIDE DEF h
    <3> QED BY <2>1, <3>1, <3>2
  <2>3. CASE ReadFails(s)
    <3>1. /\ Follow(s, requests[s].to, [requests EXCEPT ![s] = Null], IF Handled(s) THEN h ELSE hist)
          /\ told <=> ~Handled(s)
      BY <2>3 DEF ReadFails
    <3> HIDE DEF h, told
    <3>2. CASE told
      BY <1>0, <3>1, <3>2, FollowSlot
    <3>3. CASE ~told
      BY <2>1, <3>1, <3>3, FollowSlot
    <3> QED BY <3>2, <3>3
  <2> QED BY <2>2, <2>3
<1>4. /\ \A q \in Slots, j \in {"count", "read", "readall", "list"} :
            /\ Answered(q, j)' <=> Answered(q, j) /\ q # s
            /\ Waiting(q, j)' <=> Waiting(q, j) /\ q # s
      /\ \A q \in Slots : requests'[q] # Null /\ requests'[q].kind \notin PageKinds =>
            q # s /\ requests'[q] = requests[q]
      /\ MenuWaits'
  BY <1>2, <1>3, MenuGone
<1>5. MenuExists'
  BY <1>1, <1>3, <1>4, ReadNotes, MenuExistsKept DEF PageKinds
<1>6. CASE told
  <2>1. \A q \in Slots, j \in {"count", "read", "readall"} :
           /\ Answered(q, j)' <=> Answered(q, j)
           /\ Answered(q, j) => requests'[q] = requests[q]
    BY <1>3, <1>4, <1>6 DEF Answered
  <2>2. \A q \in Slots : Waiting(q, "count") => Waiting(q, "count")'
    BY <1>4, <1>6 DEF Waiting, Handled
  <2>3. hist'.miscounts = {} => hist.miscounts = {}
    BY <1>3, <1>6
  <2> HIDE DEF told
  <2>4. Tally'
    BY <1>1, <2>1, <2>2, <2>3, TallyKept DEF BadgeInv
  <2> QED BY <1>4, <1>5, <2>4 DEF BadgeInv
<1>7. CASE ~told
  <2>1. ~Counted'
    BY <1>3, <1>7 DEF Counted
  <2> QED BY <1>4, <1>5, <2>1 DEF BadgeInv, Tally
<1> QED BY <1>6, <1>7

(* The worker stores one: it is counted in, or the badge is behind.        *)
LEMMA ArrivesBadge ==
    ASSUME PageInv, BadgeInv, NEW n \in Notes, Arrives(n)
    PROVE  BadgeInv'
<1>1. UNCHANGED <<requests, badge, menu>>
  BY DEF Arrives, layout
<1>2. \A m \in Notes : inbox'[m] = "none" => inbox[m] = "none"
  BY DEF Arrives, PageInv, PageTypeOK
<1>3. \A q \in Slots, j \in {"count", "list"} :
         /\ Answered(q, j)' <=> Answered(q, j)
         /\ Waiting(q, j)' <=> Waiting(q, j)
  BY <1>1 DEF Answered, Handled, Waiting
<1>4. MenuWaits'
  BY <1>1 DEF BadgeInv, MenuWaits, Counting
<1>5. MenuExists'
  BY <1>1, <1>2, <1>3, ReadNotes, MenuExistsKept
<1>6. ~Counted'
  <2>1. CASE \E q \in Slots : Waiting(q, "count")
    BY <1>3, <2>1 DEF Counted
  <2>2. CASE ~ \E q \in Slots : Waiting(q, "count")
    <3>1. hist \in Histories /\ hist' = [hist EXCEPT !.miscounts = @ \cup {"arrived"}]
      BY <2>2 DEF Arrives, PageInv, PageTypeOK
    <3> QED BY <3>1 DEF Counted, Histories
  <2> QED BY <2>1, <2>2
<1> QED BY <1>4, <1>5, <1>6 DEF BadgeInv, Tally

-----------------------------------------------------------------------------
(* The badge from the start on.                                            *)

(* At the start the count is asked for, and nothing else.                  *)
LEMMA BadgeInit == Init => BadgeInv
<1> SUFFICES ASSUME Init PROVE BadgeInv
  OBVIOUS
<1>1. menu = <<>>
  BY DEF Init
<1>2. PICK s \in Slots : requests = [r \in Slots |-> IF r = s THEN Request("count", Null, Null)
                                                     ELSE Null]
  BY DEF Init
<1>3. /\ requests[s] = Request("count", Null, Null)
      /\ \A q \in Slots : q # s => requests[q] = Null
  BY <1>2
<1>4. requests[s] # Null /\ requests[s].kind = "count" /\ requests[s].live /\ requests[s].got = Null
  <2>1. Request("count", Null, Null) # Null
    BY SentAsked, AskedFacts
  <2> QED BY <1>3, <2>1, SentFacts
<1>5. MenuWaits
  BY <1>3, <1>4 DEF MenuWaits, Counting
<1>6. MenuExists
  BY <1>1, <1>3, <1>4 DEF MenuExists, Answered, Handled
<1>7. ~Counted
  BY <1>4 DEF Counted, Waiting
<1> QED BY <1>5, <1>6, <1>7 DEF BadgeInv, Tally

(* No step of the page, the menu, the API or the worker breaks it.         *)
LEMMA BadgeNext == PageInv /\ BadgeInv /\ [Next]_vars => BadgeInv'
<1> SUFFICES ASSUME PageInv, BadgeInv, [Next]_vars PROVE BadgeInv'
  OBVIOUS
<1>1. CASE Back \/ Edit \/ Dismiss \/ CloseMenu \/ UNCHANGED vars
  BY <1>1, ElsewhereBadge
<1>2. CASE Others
  BY <1>2, ElsewhereBadge, ArrivesBadge DEF Others
<1>3. ASSUME NEW s \in Slots, User(s)
      PROVE  BadgeInv'
  <2>1. CASE OpenMenu(s) \/ MarkAllRead(s) \/ \E n \in Notes : OpenUnread(s, n)
    BY <2>1, MenuSendsBadge
  <2>2. CASE ~(OpenMenu(s) \/ MarkAllRead(s) \/ \E n \in Notes : OpenUnread(s, n))
    BY <1>3, <2>2, PageStepsBadge DEF User
  <2> QED BY <2>1, <2>2
<1>4. ASSUME NEW s \in Slots, API(s)
      PROVE  BadgeInv'
  BY <1>4, PageStepsBadge, ServeCountBadge, ServeListBadge, ServeReadBadge, ServeReadAllBadge
     DEF API
<1>5. ASSUME NEW s \in Slots, Answers(s)
      PROVE  BadgeInv'
  BY <1>5, PageStepsBadge, AnswerCountBadge, AnswerListBadge, AnswerReadBadge,
     AnswerReadAllBadge, MenuFailsBadge DEF Answers
<1> QED BY <1>1, <1>2, <1>3, <1>4, <1>5 DEF Next

(* main-layout.component.ts: the badge, or the count on its way to it, is  *)
(* what is unread with the readings it has not heard of, and the menu      *)
(* marks only what is stored, in every run.                                *)
THEOREM BadgeIsTallied == Spec => []BadgeInv
<1> QED BY BadgeInit, BadgeNext, TicketPageIsSound, PTL DEF Spec

(* main-layout.component.ts: with nothing of the menu under way the badge  *)
(* is the number of unread notifications, unless something was miscounted. *)
THEOREM BadgesAreCurrent == Spec => []BadgeIsCurrent
<1>1. BadgeInv => BadgeIsCurrent
  <2> SUFFICES ASSUME BadgeInv, hist.miscounts = {},
                      \A s \in Slots : requests[s] # Null =>
                         requests[s].kind \in PageKinds \cup {"list"}
               PROVE  badge = Cardinality(Unread)
    BY DEF BadgeIsCurrent
  <2>1. \A s \in Slots, j \in {"count", "read", "readall"} : ~Answered(s, j) /\ ~Waiting(s, j)
    BY DEF Answered, Handled, Waiting, PageKinds
  <2>2. Ready("count") = {} /\ Ready("read") = {} /\ Ready("readall") = {}
    BY <2>1 DEF Ready
  <2>3. Counted
    BY <2>1 DEF Counted
  <2>4. Cardinality({}) = 0
    BY FS_EmptySet
  <2>5. Due = Cardinality(Unread)
    BY <2>2, <2>4, DueFacts DEF Due
  <2> QED BY <2>2, <2>3, <2>4, <2>5 DEF BadgeInv, Tally
<1> QED BY <1>1, BadgeIsTallied, PTL
=============================================================================
