---------------------------- MODULE TicketsProofs ----------------------------
(***************************************************************************)
(* For every number of users, organizations, tickets and requests at a     *)
(* time: what concurrent requests can make of the tickets, and what their  *)
(* events say.                                                             *)
(***************************************************************************)
EXTENDS Tickets, FiniteSetTheorems, SequenceTheorems, TLAPS

(* A request has taken the steps of its operation.                         *)
OnItsWay(r) ==
    /\ r.pc \in {"count", "conflict"} => r.call.op = "create"
    /\ r.pc = "assignee" => r.call.op = "assign"
    /\ r.pc = "find" => r.call.op # "create"

Writes(r) == r.pc = "tx" \/ r.pc = "assignee"

(* The number of a new ticket was computed when there were at most as many *)
(* tickets as there are.                                                   *)
Numbered(r) ==
    r.call.op = "create" /\ r.pc = "tx" => r.number \in 1 .. Cardinality(Existing) + 1

(* What findOne established stays true: the columns it reads never change. *)
Found(r) ==
    r.call.op \in {"update", "assign", "comment"} /\ Writes(r)
    => Reaches(r.actor, r.role, r.call.ticket)

(* A request that found its ticket closed, and will announce nothing.      *)
FoundClosed(r) ==
    r.call.op = "update" /\ r.pc = "tx" /\ r.seen = "CLOSED"
    => tickets[r.call.ticket].closedAt /\ Announced(r.call.ticket) # {}

(* The status a request saw is the status there is, or it was overtaken.   *)
SeesStatus(r) ==
    r.call.op = "update" /\ r.pc = "tx"
    => r.call.ticket \in overtaken \/ r.seen = tickets[r.call.ticket].status

(* The same of the assignee.                                               *)
SeesAssignee(r) ==
    r.call.op = "assign" /\ r.pc = "tx"
    => /\ OrgOf[r.call.assignee] = OrgOf[r.actor]
       /\ Eligible(r.call.assignee, OrgOf[r.actor]) \/ r.call.assignee \in overtaken

Informed(r) ==
    /\ OnItsWay(r)
    /\ Numbered(r)
    /\ Found(r)
    /\ FoundClosed(r)
    /\ SeesStatus(r)
    /\ SeesAssignee(r)

RequestInv == \A s \in Slots : requests[s] # NoRequest => Informed(requests[s])

TicketsInv ==
    /\ TypeOK
    /\ RequestInv
    /\ ClosedIsAnnounced
    /\ ClosingsAnnounced
    /\ OneOrganization
    /\ CustomersKeepToTheirTickets
    /\ ReferencesAreContiguous

-----------------------------------------------------------------------------

(* What a request in flight asks for.                                      *)
LEMMA CallTypes ==
    ASSUME TypeOK, NEW s \in Slots, requests[s] # NoRequest
    PROVE  /\ requests[s] \in InFlight
           /\ requests[s].actor \in Users /\ requests[s].role \in Roles
           /\ requests[s].seen \in Statuses /\ requests[s].number \in Nat
           /\ requests[s].call.op \in {"create", "update", "assign", "comment", "user"}
           /\ requests[s].call.op \in {"update", "assign", "comment"}
              => requests[s].call.ticket \in Tickets
           /\ requests[s].call.op = "update" => requests[s].call.patch \in TicketPatches
           /\ requests[s].call.op = "assign" => requests[s].call.assignee \in Users
           /\ requests[s].call.op = "comment" => requests[s].call.internal \in BOOLEAN
           /\ requests[s].call.op = "user" =>
                 /\ requests[s].call.user \in Users
                 /\ requests[s].call.role \in Roles \cup {"unset"}
                 /\ requests[s].call.active \in {"yes", "no", "unset"}
<1>1. requests[s] \in InFlight
  BY DEF TypeOK
<1>2. requests[s].call \in AllCalls
  BY <1>1 DEF InFlight
<1> QED BY <1>1, <1>2 DEF AllCalls, InFlight

(* A row that is there has the columns of a row.                           *)
LEMMA RowTypes ==
    ASSUME TypeOK, NEW t \in Existing
    PROVE  t \in Tickets /\ tickets[t] \in Rows
  BY DEF TypeOK, Existing

(* What is recorded comes after what there was.                            *)
LEMMA RecordAppends ==
    ASSUME TypeOK, NEW events \in Seq(DomainEvents), Record(events)
    PROVE  /\ outbox' \in Seq(DomainEvents)
           /\ Len(outbox') = Len(outbox) + Len(events)
           /\ \A i \in DOMAIN outbox : i \in DOMAIN outbox' /\ outbox'[i] = outbox[i]
           /\ \A i \in DOMAIN events :
                 Len(outbox) + i \in DOMAIN outbox' /\ outbox'[Len(outbox) + i] = events[i]
           /\ \A i \in DOMAIN outbox' \ DOMAIN outbox :
                 i - Len(outbox) \in DOMAIN events /\ outbox'[i] = events[i - Len(outbox)]
<1>1. outbox \in Seq(DomainEvents)
  BY DEF TypeOK
<1>2. outbox' = outbox \o events
  BY DEF Record
<1>3. /\ outbox' \in Seq(DomainEvents)
      /\ Len(outbox') = Len(outbox) + Len(events)
      /\ \A i \in 1 .. Len(outbox) + Len(events) : outbox'[i] =
             IF i <= Len(outbox) THEN outbox[i] ELSE events[i - Len(outbox)]
  BY <1>1, <1>2, ConcatProperties
<1>4. /\ Len(outbox) \in Nat /\ DOMAIN outbox = 1 .. Len(outbox)
      /\ Len(events) \in Nat /\ DOMAIN events = 1 .. Len(events)
      /\ DOMAIN outbox' = 1 .. Len(outbox')
  BY <1>1, <1>3, LenProperties
<1> QED BY <1>3, <1>4

(* An event of a request about a ticket there is.                          *)
LEMMA EventType ==
    ASSUME TypeOK, NEW s \in Slots, requests[s] # NoRequest,
           NEW t \in Existing, NEW key \in RoutingKeys
    PROVE  /\ Event(s, key, t) \in DomainEvents
           /\ Event(s, key, t).key = key /\ Event(s, key, t).ticket = t
           /\ Event(s, key, t).org = tickets[t].org
           /\ Event(s, key, t).actor = requests[s].actor
           /\ Event(s, key, t).role = requests[s].role
  BY CallTypes, RowTypes DEF Event, DomainEvents, Rows

-----------------------------------------------------------------------------

(* A request moves on without writing.                                     *)
Quiet == UNCHANGED <<users, tickets, outbox, history>>

LEMMA QuietTypes ==
    ASSUME TypeOK, Quiet, requests' \in [Slots -> InFlight \cup {NoRequest}]
    PROVE  TypeOK'
  BY DEF TypeOK, Quiet, history

LEMMA ReplyTypes ==
    ASSUME TypeOK, NEW s \in Slots, Reply(s)
    PROVE  /\ requests' \in [Slots -> InFlight \cup {NoRequest}]
           /\ \A r \in Slots : requests'[r] = IF r = s THEN NoRequest ELSE requests[r]
  BY DEF TypeOK, Reply

LEMMA GotoTypes ==
    ASSUME TypeOK, NEW s \in Slots, requests[s] # NoRequest, NEW step, Goto(s, step),
           step \in {"count", "find", "assignee", "tx", "conflict"}
    PROVE  /\ requests' \in [Slots -> InFlight \cup {NoRequest}]
           /\ \A r \in Slots :
                 requests'[r] = IF r = s THEN [requests[s] EXCEPT !.pc = step] ELSE requests[r]
<1>1. requests[s] \in InFlight /\ [requests[s] EXCEPT !.pc = step] \in InFlight
  BY CallTypes DEF InFlight
<1> QED BY <1>1 DEF TypeOK, Goto

(* Steps that read: they change their own request and nothing else.        *)
Reads(s) ==
    \/ Count(s) \/ Conflict(s) \/ Conflicted(s) \/ Find(s)
    \/ CheckAssignee(s) \/ FindUser(s) \/ Fail(s)

LEMMA ReadsTypes ==
    ASSUME TypeOK, NEW s \in Slots, Reads(s)
    PROVE  /\ TypeOK' /\ Quiet
           /\ requests[s] # NoRequest
           /\ \A r \in Slots : r # s => requests'[r] = requests[r]
<1> USE DEF At, Serves, Quiet
<1>1. CASE Count(s)
  <2>1. requests[s] \in InFlight /\ Cardinality(Existing) + 1 \in Nat
    BY <1>1, CallTypes, TicketsAssumption, FS_Subset, FS_CardinalityType DEF Count, Existing
  <2>2. \A n \in Nat : [requests[s] EXCEPT !.pc = "tx", !.number = n] \in InFlight
    BY <2>1 DEF InFlight
  <2> QED BY <1>1, <2>1, <2>2, QuietTypes DEF Count, TypeOK
<1>2. CASE Conflict(s)
  BY <1>2, GotoTypes, QuietTypes DEF Conflict
<1>3. CASE Conflicted(s) \/ Fail(s)
  BY <1>3, ReplyTypes, QuietTypes DEF Conflicted, Fail
<1>4. CASE Find(s)
  <2>1. requests[s] # NoRequest /\ requests[s] \in InFlight
    BY <1>4, CallTypes DEF Find
  <2>2. CASE Allowed(requests[s])
    <3>1. requests[s].call.ticket \in Existing
      BY <2>2 DEF Allowed, Reaches
    <3>2. tickets[requests[s].call.ticket].status \in Statuses
      BY <3>1, RowTypes DEF Rows
    <3>3. \A step \in {"assignee", "tx"} :
             [requests[s] EXCEPT !.pc = step,
                 !.seen = tickets[requests[s].call.ticket].status] \in InFlight
      BY <2>1, <3>2 DEF InFlight
    <3> QED BY <1>4, <2>1, <2>2, <3>3, QuietTypes DEF Find, TypeOK
  <2>3. CASE ~ Allowed(requests[s])
    BY <1>4, <2>1, <2>3, ReplyTypes, QuietTypes DEF Find
  <2> QED BY <2>2, <2>3
<1>5. CASE CheckAssignee(s)
  BY <1>5, GotoTypes, ReplyTypes, QuietTypes DEF CheckAssignee
<1>6. CASE FindUser(s)
  BY <1>6, GotoTypes, ReplyTypes, QuietTypes DEF FindUser
<1> QED BY <1>1, <1>2, <1>3, <1>4, <1>5, <1>6 DEF Reads

LEMMA ArriveTypes ==
    ASSUME TypeOK, NEW s \in Slots, NEW u \in Users, NEW c \in Calls[u], Arrive(s, u, c)
    PROVE  /\ TypeOK' /\ Quiet
           /\ \A r \in Slots : r # s => requests'[r] = requests[r]
<1>1. users[u].role \in Roles
  BY DEF TypeOK
<1>2. c \in AllCalls
  BY TicketsAssumption
<1>3. [call |-> c, actor |-> u, role |-> users[u].role, pc |-> FirstStep(c),
       seen |-> "OPEN", number |-> 0] \in InFlight
  BY <1>1, <1>2 DEF InFlight, FirstStep, Statuses
<1> QED BY <1>3, QuietTypes DEF Arrive, TypeOK, Quiet

(* What each write does to the tables.                                     *)
LEMMA InsertTypes ==
    ASSUME TypeOK, RequestInv, NEW s \in Slots, NEW t \in Tickets, Insert(s, t)
    PROVE  /\ TypeOK'
           /\ tickets'[t] \in Rows
           /\ \A r \in Slots : requests'[r] = IF r = s THEN NoRequest ELSE requests[r]
<1> DEFINE row == [reference |-> requests[s].number, status |-> "OPEN", closedAt |-> FALSE,
                   org |-> OrgOf[requests[s].actor], createdBy |-> requests[s].actor,
                   assignedTo |-> NoOne]
           created == [key |-> "ticket.created", ticket |-> t,
                       org |-> OrgOf[requests[s].actor], actor |-> requests[s].actor,
                       role |-> requests[s].role, assignee |-> NoOne, internal |-> FALSE]
<1>1. requests[s] # NoRequest /\ requests[s].number \in Nat \ {0}
  <2>1. requests[s] # NoRequest /\ Numbered(requests[s])
    BY DEF Insert, Serves, At, RequestInv, Informed
  <2> QED BY <2>1, CallTypes DEF Numbered, Insert, Serves, At
<1>2. row \in Rows /\ created \in DomainEvents
  BY <1>1, CallTypes, TicketsAssumption DEF Rows, DomainEvents, RoutingKeys, Statuses
<1>3. tickets' = [tickets EXCEPT ![t] = row] /\ Record(<<created>>) /\ Reply(s)
      /\ UNCHANGED <<users, history>>
  BY DEF Insert
<1> HIDE DEF row, created
<1>4. <<created>> \in Seq(DomainEvents)
  BY <1>2
<1> QED BY <1>2, <1>3, <1>4, RecordAppends, ReplyTypes DEF TypeOK, history

LEMMA UpdateTypes ==
    ASSUME TypeOK, RequestInv, NEW s \in Slots, Update(s)
    PROVE  /\ TypeOK'
           /\ requests[s].call.ticket \in Existing
           /\ tickets'[requests[s].call.ticket] \in Rows
           /\ \A r \in Slots : requests'[r] = IF r = s THEN NoRequest ELSE requests[r]
<1> DEFINE t == requests[s].call.ticket
           row == Patched(tickets[t], requests[s].call.patch, WillClose(requests[s]))
           events == <<Event(s, "ticket.updated", t)>>
                     \o IF WillClose(requests[s]) THEN <<Event(s, "ticket.closed", t)>> ELSE <<>>
<1>1. requests[s] # NoRequest /\ Found(requests[s]) /\ requests[s].call.op = "update"
      /\ requests[s].pc = "tx"
  BY DEF Update, Serves, At, RequestInv, Informed
<1>2. t \in Existing
  BY <1>1 DEF Found, Writes, Reaches
<1>3. row \in Rows
  <2>1. tickets[t] \in Rows /\ requests[s].call.patch.status \in Statuses \cup {"unset"}
    BY <1>1, <1>2, RowTypes, CallTypes DEF TicketPatches
  <2>2. WillClose(requests[s]) \in BOOLEAN
    BY DEF WillClose
  <2> QED BY <2>1, <2>2 DEF Patched, Rows
<1>4. events \in Seq(DomainEvents)
  <2>1. Event(s, "ticket.updated", t) \in DomainEvents /\ Event(s, "ticket.closed", t) \in DomainEvents
    BY <1>1, <1>2, EventType DEF RoutingKeys
  <2> QED BY <2>1
<1>5. /\ tickets' = [tickets EXCEPT ![t] = row] /\ Record(events) /\ Reply(s)
      /\ closings' = [closings EXCEPT ![t] =
            IF tickets[t].status # "CLOSED" /\ row.status = "CLOSED" THEN @ + 1 ELSE @]
      /\ overtaken' \subseteq overtaken \cup {t}
      /\ UNCHANGED users
  BY DEF Update, Overtake
<1> HIDE DEF row, events, t
<1>6. t \in Tickets
  BY <1>2 DEF Existing
<1>7. closings' \in [Tickets -> Nat]
  BY <1>5, <1>6 DEF TypeOK
<1>8. requests' \in [Slots -> InFlight \cup {NoRequest}]
  BY <1>5, ReplyTypes
<1>9. TypeOK'
  BY <1>3, <1>4, <1>5, <1>6, <1>7, <1>8, RecordAppends DEF TypeOK
<1>10. tickets'[t] = row
  BY <1>5, <1>6 DEF TypeOK
<1> QED BY <1>2, <1>3, <1>5, <1>9, <1>10, ReplyTypes DEF t

LEMMA AssignTypes ==
    ASSUME TypeOK, RequestInv, NEW s \in Slots, Assign(s)
    PROVE  /\ TypeOK'
           /\ requests[s].call.ticket \in Existing
           /\ \A r \in Slots : requests'[r] = IF r = s THEN NoRequest ELSE requests[r]
<1> DEFINE t == requests[s].call.ticket
           u == requests[s].call.assignee
           assigned == [Event(s, "ticket.assigned", t) EXCEPT !.assignee = u]
<1>1. requests[s] # NoRequest /\ Found(requests[s]) /\ requests[s].call.op = "assign"
      /\ requests[s].pc = "tx"
  BY DEF Assign, Serves, At, RequestInv, Informed
<1>2. t \in Existing /\ t \in Tickets /\ u \in Users
  BY <1>1, CallTypes DEF Found, Writes, Reaches, Existing
<1>3. AssignedRow(tickets[t], u) \in Rows
  <2>1. tickets[t] \in Rows
    BY <1>2, RowTypes
  <2> HIDE DEF t, u
  <2> QED BY <1>2, <2>1 DEF AssignedRow, Rows, Statuses
<1>4. assigned \in DomainEvents
  <2>1. Event(s, "ticket.assigned", t) \in DomainEvents
    BY <1>1, <1>2, EventType DEF RoutingKeys
  <2> QED BY <1>2, <2>1 DEF DomainEvents
<1>5. /\ tickets' = [tickets EXCEPT ![t] = AssignedRow(@, u)] /\ Record(<<assigned>>) /\ Reply(s)
      /\ overtaken' \subseteq overtaken \cup {t}
      /\ UNCHANGED <<users, closings>>
  BY DEF Assign, Overtake
<1> HIDE DEF t, u, assigned
<1>6. <<assigned>> \in Seq(DomainEvents)
  BY <1>4
<1>7. TypeOK'
  BY <1>2, <1>3, <1>5, <1>6, RecordAppends, ReplyTypes DEF TypeOK
<1> QED BY <1>2, <1>5, <1>7, ReplyTypes DEF t

LEMMA AddCommentTypes ==
    ASSUME TypeOK, RequestInv, NEW s \in Slots, AddComment(s)
    PROVE  /\ TypeOK'
           /\ requests[s].call.ticket \in Existing
           /\ \A r \in Slots : requests'[r] = IF r = s THEN NoRequest ELSE requests[r]
<1> DEFINE t == requests[s].call.ticket
           comment == [Event(s, "comment.created", t) EXCEPT
                          !.org = OrgOf[requests[s].actor], !.internal = Internal(requests[s])]
<1>1. requests[s] # NoRequest /\ Found(requests[s]) /\ requests[s].call.op = "comment"
      /\ requests[s].pc = "tx"
  BY DEF AddComment, Serves, At, RequestInv, Informed
<1>2. t \in Existing
  BY <1>1 DEF Found, Writes, Reaches
<1>3. comment \in DomainEvents
  <2>1. Event(s, "comment.created", t) \in DomainEvents
    BY <1>1, <1>2, EventType DEF RoutingKeys
  <2>2. Internal(requests[s]) \in BOOLEAN /\ OrgOf[requests[s].actor] \in Organizations
    BY <1>1, CallTypes, TicketsAssumption DEF Internal
  <2> QED BY <2>1, <2>2 DEF DomainEvents
<1>4. Record(<<comment>>) /\ Reply(s) /\ UNCHANGED <<users, tickets, history>>
  BY DEF AddComment
<1> HIDE DEF t, comment
<1>5. <<comment>> \in Seq(DomainEvents)
  BY <1>3
<1>6. TypeOK'
  BY <1>4, <1>5, RecordAppends, ReplyTypes DEF TypeOK, history
<1> QED BY <1>2, <1>4, <1>6, ReplyTypes DEF t

LEMMA ChangeUserTypes ==
    ASSUME TypeOK, NEW s \in Slots, ChangeUser(s)
    PROVE  /\ TypeOK'
           /\ \A r \in Slots : requests'[r] = IF r = s THEN NoRequest ELSE requests[r]
<1> DEFINE c == requests[s].call
<1>1. requests[s] # NoRequest /\ c.op = "user"
  BY DEF ChangeUser, Serves, At
<1>2. c.user \in Users /\ c.role \in Roles \cup {"unset"}
  BY <1>1, CallTypes
<1>3. users' \in [Users -> [role : Roles, active : BOOLEAN]]
  BY <1>2 DEF ChangeUser, TypeOK
<1>4. overtaken' \subseteq Tickets \cup Users
  BY <1>2 DEF ChangeUser, Overtake, TypeOK
<1> QED BY <1>3, <1>4, ReplyTypes DEF ChangeUser, TypeOK

-----------------------------------------------------------------------------

(* What no step takes back.                                                *)
Grows ==
    /\ \A t \in Existing :
          /\ t \in Existing'
          /\ tickets'[t].org = tickets[t].org
          /\ tickets'[t].createdBy = tickets[t].createdBy
          /\ tickets[t].closedAt => tickets'[t].closedAt
    /\ \A t \in Tickets : Announced(t) \subseteq Announced(t)'
    /\ Cardinality(Existing) <= Cardinality(Existing')
    /\ overtaken \subseteq overtaken'

(* Who relies on what step s changes is overtaken.                         *)
Overtakes(s) ==
    /\ \A t \in Existing :
          tickets'[t].status = tickets[t].status \/ Readers(s, t) = {} \/ t \in overtaken'
    /\ \A u \in Users :
          \/ users'[u] = users[u] \/ u \in overtaken'
          \/ \A r \in Slots : Serves(r, "assign", "tx") => requests[r].call.assignee # u

LEMMA OthersStayInformed ==
    ASSUME TypeOK, TypeOK', RequestInv, NEW s \in Slots, Grows, Overtakes(s),
           NEW r \in Slots, r # s, requests[r] # NoRequest, requests'[r] = requests[r]
    PROVE  Informed(requests[r])'
<1> DEFINE q == requests[r]
<1>1. Informed(q) /\ q' = q
  BY DEF RequestInv
<1>2. OnItsWay(q)'
  BY <1>1 DEF Informed, OnItsWay
<1>3. Cardinality(Existing) \in Nat /\ Cardinality(Existing') \in Nat
  BY TicketsAssumption, FS_Subset, FS_CardinalityType DEF Existing
<1>4. Numbered(q)'
  BY <1>1, <1>3 DEF Informed, Numbered, Grows
<1>5. Found(q)'
  BY <1>1 DEF Informed, Found, Reaches, Writes, Grows
<1>6. ASSUME q.call.op = "update", q.pc = "tx"
      PROVE  q.call.ticket \in Existing /\ q.call.ticket \in Tickets
  BY <1>1, <1>6 DEF Informed, Found, Reaches, Writes, Existing
<1>7. FoundClosed(q)'
  BY <1>1, <1>6 DEF Informed, FoundClosed, Grows
<1>8. SeesStatus(q)'
  <2> SUFFICES ASSUME q.call.op = "update", q.pc = "tx", q.call.ticket \notin overtaken'
               PROVE  q.seen = tickets'[q.call.ticket].status
    BY <1>1 DEF SeesStatus
  <2>1. q.seen = tickets[q.call.ticket].status
    BY <1>1 DEF Informed, SeesStatus, Grows
  <2>2. r \in Readers(s, q.call.ticket)
    BY <1>6 DEF Readers, At
  <2> QED BY <1>6, <2>1, <2>2 DEF Overtakes
<1>9. SeesAssignee(q)'
  <2> SUFFICES ASSUME q.call.op = "assign", q.pc = "tx"
               PROVE  SeesAssignee(q)'
    BY <1>1 DEF SeesAssignee
  <2>1. q.call.assignee \in Users
    BY CallTypes
  <2>2. Serves(r, "assign", "tx")
    BY DEF Serves, At
  <2> QED BY <1>1, <2>1, <2>2 DEF Informed, SeesAssignee, Overtakes, Grows, Eligible
<1> QED BY <1>2, <1>4, <1>5, <1>7, <1>8, <1>9 DEF Informed

LEMMA QuietGrows ==
    ASSUME TypeOK, Quiet
    PROVE  Grows /\ \A s \in Slots : Overtakes(s)
<1>1. UNCHANGED <<users, tickets, outbox, closings, overtaken>>
  BY DEF Quiet, history
<1>2. Existing' = Existing /\ \A t \in Tickets : Announced(t)' = Announced(t)
  BY <1>1 DEF Existing, Announced
<1>3. Cardinality(Existing) \in Nat
  BY TicketsAssumption, FS_Subset, FS_CardinalityType DEF Existing
<1> QED BY <1>1, <1>2, <1>3 DEF Grows, Overtakes

LEMMA ReadsKeepInformed ==
    ASSUME TypeOK, RequestInv, ClosedIsAnnounced, NEW s \in Slots, Reads(s), requests'[s] # NoRequest
    PROVE  Informed(requests[s])'
<1> DEFINE q == requests[s]
<1>1. /\ TypeOK' /\ UNCHANGED <<users, tickets, outbox, overtaken>> /\ q # NoRequest
      /\ Existing' = Existing
  BY ReadsTypes DEF Quiet, history, Existing
<1>2. Informed(q) /\ q \in InFlight
  BY <1>1, CallTypes DEF RequestInv
<1>3. ~ Conflicted(s) /\ ~ Fail(s)
  BY ReplyTypes DEF Conflicted, Fail
<1>4. CASE Count(s)
  <2>1. /\ q' = [q EXCEPT !.pc = "tx", !.number = Cardinality(Existing) + 1]
        /\ q.pc = "count" /\ q.call.op = "create"
    BY <1>2, <1>4 DEF Count, At, TypeOK, Informed, OnItsWay
  <2>2. q'.pc = "tx" /\ q'.call = q.call /\ q'.number = Cardinality(Existing) + 1
    BY <1>2, <2>1 DEF InFlight
  <2>3. Cardinality(Existing) \in Nat
    BY TicketsAssumption, FS_Subset, FS_CardinalityType DEF Existing
  <2> QED
    BY <1>1, <2>1, <2>2, <2>3 DEF Informed, OnItsWay, Numbered, Found, FoundClosed, SeesStatus, SeesAssignee
<1>5. CASE Conflict(s)
  <2>1. q' = [q EXCEPT !.pc = "conflict"] /\ q.call.op = "create"
    BY <1>5, GotoTypes DEF Conflict, Serves, At
  <2>2. q'.pc = "conflict" /\ q'.call = q.call
    BY <1>2, <2>1 DEF InFlight
  <2> QED
    BY <2>1, <2>2 DEF Informed, OnItsWay, Numbered, Found, FoundClosed, SeesStatus, SeesAssignee
<1>6. CASE Find(s)
  <2>1. /\ Allowed(q) /\ q.call.op \in {"update", "assign", "comment"}
        /\ q' = [q EXCEPT !.pc = IF q.call.op = "assign" THEN "assignee" ELSE "tx",
                          !.seen = tickets[q.call.ticket].status]
    BY <1>1, <1>6, ReplyTypes DEF Find, TypeOK
  <2>2. /\ q'.pc = IF q.call.op = "assign" THEN "assignee" ELSE "tx"
        /\ q'.seen = tickets[q.call.ticket].status
        /\ q'.call = q.call /\ q'.actor = q.actor /\ q'.role = q.role
    BY <1>2, <2>1 DEF InFlight
  <2>3. Reaches(q.actor, q.role, q.call.ticket)
    BY <2>1 DEF Allowed
  <2>4. Found(q)' /\ SeesStatus(q)' /\ OnItsWay(q)' /\ Numbered(q)' /\ SeesAssignee(q)'
    BY <1>1, <2>1, <2>2, <2>3
    DEF Found, SeesStatus, OnItsWay, Numbered, SeesAssignee, Reaches
  <2>5. FoundClosed(q)'
    BY <1>1, <2>2, <2>3 DEF FoundClosed, Reaches, ClosedIsAnnounced, Announced
  <2> QED BY <2>4, <2>5 DEF Informed
<1>7. CASE CheckAssignee(s)
  <2>1. /\ Eligible(q.call.assignee, OrgOf[q.actor]) /\ q.pc = "assignee"
        /\ q' = [q EXCEPT !.pc = "tx"]
    BY <1>1, <1>7, GotoTypes, ReplyTypes DEF CheckAssignee, At
  <2>2. /\ q'.pc = "tx" /\ q'.call = q.call /\ q'.actor = q.actor /\ q'.role = q.role
    BY <1>2, <2>1 DEF InFlight
  <2>3. q.call.op = "assign"
    BY <1>2, <2>1 DEF Informed, OnItsWay
  <2> QED
    BY <1>1, <1>2, <2>1, <2>2, <2>3
    DEF Informed, OnItsWay, Numbered, Found, Writes, Reaches, FoundClosed, SeesStatus, SeesAssignee, Eligible
<1>8. CASE FindUser(s)
  <2>1. q' = [q EXCEPT !.pc = "tx"] /\ q.call.op = "user"
    BY <1>1, <1>8, GotoTypes, ReplyTypes DEF FindUser, Serves, At
  <2>2. q'.pc = "tx" /\ q'.call = q.call
    BY <1>2, <2>1 DEF InFlight
  <2> QED
    BY <2>1, <2>2 DEF Informed, OnItsWay, Numbered, Found, FoundClosed, SeesStatus, SeesAssignee
<1> QED BY <1>3, <1>4, <1>5, <1>6, <1>7, <1>8 DEF Reads

LEMMA ArriveInformed ==
    ASSUME TypeOK, NEW s \in Slots, NEW u \in Users, NEW c \in Calls[u], Arrive(s, u, c)
    PROVE  Informed(requests[s])'
<1>1. /\ requests'[s].pc = FirstStep(c) /\ requests'[s].call = c
  BY DEF Arrive, TypeOK
<1> QED
  BY <1>1 DEF FirstStep, Informed, OnItsWay, Numbered, Found, Writes, FoundClosed, SeesStatus, SeesAssignee

LEMMA AnnouncedGrows ==
    ASSUME TypeOK, \A i \in DOMAIN outbox : i \in DOMAIN outbox' /\ outbox'[i] = outbox[i]
    PROVE  \A t \in Tickets : Announced(t) \subseteq Announced(t)'
  BY DEF Announced

LEMMA ExistingIsFinite ==
    ASSUME TypeOK, TypeOK', \A t \in Existing : t \in Existing'
    PROVE  /\ IsFiniteSet(Existing) /\ IsFiniteSet(Existing')
           /\ Cardinality(Existing) \in Nat /\ Cardinality(Existing') \in Nat
           /\ Cardinality(Existing) <= Cardinality(Existing')
<1>1. Existing \in SUBSET Tickets /\ Existing' \in SUBSET Tickets
  BY DEF Existing
<1>2. IsFiniteSet(Existing) /\ IsFiniteSet(Existing')
  BY <1>1, TicketsAssumption, FS_Subset
<1>3. Existing \in SUBSET (Existing')
  OBVIOUS
<1> QED BY <1>2, <1>3, FS_Subset, FS_CardinalityType

LEMMA InsertGrows ==
    ASSUME TypeOK, RequestInv, NEW s \in Slots, NEW t \in Tickets, Insert(s, t)
    PROVE  Grows /\ Overtakes(s)
<1>1. /\ t \notin Existing
      /\ \A q \in Tickets : q # t => tickets'[q] = tickets[q]
      /\ UNCHANGED <<users, closings, overtaken>>
  BY DEF Insert, Existing, TypeOK, history
<1>2. \A q \in Existing : q \in Existing' /\ tickets'[q] = tickets[q]
  BY <1>1 DEF Existing
<1>3. \A i \in DOMAIN outbox : i \in DOMAIN outbox' /\ outbox'[i] = outbox[i]
  BY DEF Insert, Record, TypeOK
<1> QED
  BY <1>1, <1>2, <1>3, InsertTypes, AnnouncedGrows, ExistingIsFinite DEF Grows, Overtakes

LEMMA UpdateGrows ==
    ASSUME TypeOK, RequestInv, NEW s \in Slots, Update(s)
    PROVE  Grows /\ Overtakes(s)
<1> DEFINE t == requests[s].call.ticket
           row == Patched(tickets[t], requests[s].call.patch, WillClose(requests[s]))
<1>1. t \in Existing /\ t \in Tickets /\ tickets'[t] \in Rows /\ TypeOK'
  BY UpdateTypes DEF Existing
<1>2. /\ tickets' = [tickets EXCEPT ![t] = row]
      /\ overtaken' = IF Readers(s, t) = {} THEN overtaken ELSE overtaken \cup {t}
      /\ UNCHANGED users
  BY DEF Update, Overtake
<1>3. /\ row.org = tickets[t].org /\ row.createdBy = tickets[t].createdBy
      /\ tickets[t].closedAt => row.closedAt
  BY <1>1, RowTypes DEF Patched, Rows
<1> HIDE DEF t, row
<1>4. \A q \in Tickets : tickets'[q] = IF q = t THEN row ELSE tickets[q]
  BY <1>1, <1>2 DEF TypeOK
<1>5. \A q \in Existing : q \in Existing'
  BY <1>1, <1>4, TicketsAssumption DEF Existing
<1>6. \A i \in DOMAIN outbox : i \in DOMAIN outbox' /\ outbox'[i] = outbox[i]
  BY DEF Update, Record, TypeOK
<1>7. Overtakes(s)
  BY <1>2, <1>4 DEF Overtakes, Existing
<1>8. Grows
  BY <1>1, <1>2, <1>3, <1>4, <1>5, <1>6, AnnouncedGrows, ExistingIsFinite DEF Grows, Existing
<1> QED BY <1>7, <1>8

LEMMA AssignGrows ==
    ASSUME TypeOK, RequestInv, NEW s \in Slots, Assign(s)
    PROVE  Grows /\ Overtakes(s)
<1> DEFINE t == requests[s].call.ticket
           row == AssignedRow(tickets[t], requests[s].call.assignee)
<1>1. t \in Existing /\ t \in Tickets /\ TypeOK'
  BY AssignTypes DEF Existing
<1>2. /\ tickets' = [tickets EXCEPT ![t] = row]
      /\ overtaken' = IF Readers(s, t) = {} THEN overtaken ELSE overtaken \cup {t}
      /\ UNCHANGED users
  BY <1>1 DEF Assign, Overtake, TypeOK
<1>3. /\ row.org = tickets[t].org /\ row.createdBy = tickets[t].createdBy
      /\ row.closedAt = tickets[t].closedAt
  BY <1>1, RowTypes DEF AssignedRow, Rows
<1> HIDE DEF t, row
<1>4. \A q \in Tickets : tickets'[q] = IF q = t THEN row ELSE tickets[q]
  BY <1>1, <1>2 DEF TypeOK
<1>5. \A q \in Existing : q \in Existing'
  <2>1. t \in Existing'
    <3>1. row \in Rows
      <4>1. tickets[t] \in Rows /\ requests[s].call.assignee \in Users
        BY <1>1, RowTypes, CallTypes DEF Assign, Serves, At
      <4> QED BY <4>1 DEF row, AssignedRow, Rows, Statuses
    <3> QED BY <1>1, <1>4, <3>1, TicketsAssumption DEF Existing
  <2> QED BY <1>4, <2>1 DEF Existing
<1>6. \A i \in DOMAIN outbox : i \in DOMAIN outbox' /\ outbox'[i] = outbox[i]
  BY DEF Assign, Record, TypeOK
<1>7. Overtakes(s)
  BY <1>2, <1>4 DEF Overtakes, Existing
<1>8. Grows
  BY <1>1, <1>2, <1>3, <1>4, <1>5, <1>6, AnnouncedGrows, ExistingIsFinite DEF Grows, Existing
<1> QED BY <1>7, <1>8

LEMMA AddCommentGrows ==
    ASSUME TypeOK, RequestInv, NEW s \in Slots, AddComment(s)
    PROVE  Grows /\ Overtakes(s)
<1>1. UNCHANGED <<users, tickets, closings, overtaken>> /\ Existing' = Existing
  BY DEF AddComment, history, Existing
<1>2. \A i \in DOMAIN outbox : i \in DOMAIN outbox' /\ outbox'[i] = outbox[i]
  BY DEF AddComment, Record, TypeOK
<1> QED
  BY <1>1, <1>2, AddCommentTypes, AnnouncedGrows, ExistingIsFinite DEF Grows, Overtakes

LEMMA ChangeUserGrows ==
    ASSUME TypeOK, NEW s \in Slots, ChangeUser(s)
    PROVE  Grows /\ Overtakes(s)
<1> DEFINE u == requests[s].call.user
           readers == {r \in Slots : Serves(r, "assign", "tx") /\ requests[r].call.assignee = u}
<1>1. /\ UNCHANGED <<tickets, outbox, closings>> /\ Existing' = Existing
      /\ \A t \in Tickets : Announced(t)' = Announced(t)
  BY DEF ChangeUser, Existing, Announced
<1>2. overtaken' = IF readers = {} THEN overtaken ELSE overtaken \cup {u}
  BY DEF ChangeUser, Overtake
<1>3. \A v \in Users : v # u => users'[v] = users[v]
  BY DEF ChangeUser, TypeOK
<1> QED
  BY <1>1, <1>2, <1>3, ChangeUserTypes, ExistingIsFinite DEF Grows, Overtakes

(* Every step leaves every request informed.                               *)
LEMMA WritesKeepInformed ==
    ASSUME TypeOK, TypeOK', RequestInv, NEW s \in Slots, Grows, Overtakes(s),
           \A r \in Slots : requests'[r] = IF r = s THEN NoRequest ELSE requests[r]
    PROVE  RequestInv'
  BY OthersStayInformed DEF RequestInv

-----------------------------------------------------------------------------

(* An event that is true of the tickets as the step leaves them.           *)
Fits(e) ==
    /\ OrgOf[e.actor] = e.org
    /\ e.ticket \in Existing' /\ tickets'[e.ticket].org = e.org
    /\ e.role = "CUSTOMER" => tickets'[e.ticket].createdBy = e.actor

EventsFit == OneOrganization /\ CustomersKeepToTheirTickets

LEMMA RecordFits ==
    ASSUME TypeOK, EventsFit, Grows, NEW events \in Seq(DomainEvents), Record(events),
           \A i \in DOMAIN events : Fits(events[i])
    PROVE  \A i \in DOMAIN outbox' : Fits(outbox'[i])
<1>1. ASSUME NEW i \in DOMAIN outbox
      PROVE  Fits(outbox[i])
  BY DEF EventsFit, OneOrganization, CustomersKeepToTheirTickets, Grows, Fits
<1> QED BY <1>1, RecordAppends

(* Assignees stay within the organization when the events fit.             *)
LEMMA FitsSuffices ==
    ASSUME \A i \in DOMAIN outbox' : Fits(outbox'[i]),
           \A t \in Existing' : tickets'[t].assignedTo # NoOne
                                => OrgOf[tickets'[t].assignedTo] = tickets'[t].org
    PROVE  EventsFit'
  BY DEF EventsFit, OneOrganization, CustomersKeepToTheirTickets, Fits

(* The announcements of a ticket's closing, before and after.              *)
LEMMA AnnouncedAfter ==
    ASSUME TypeOK, NEW events \in Seq(DomainEvents), Record(events), NEW t \in Tickets
    PROVE  Announced(t)' = Announced(t) \cup
              {Len(outbox) + i : i \in {j \in DOMAIN events :
                  events[j].key = "ticket.closed" /\ events[j].ticket = t}}
<1>1. /\ \A i \in DOMAIN outbox : i \in DOMAIN outbox' /\ outbox'[i] = outbox[i]
      /\ \A i \in DOMAIN events :
            Len(outbox) + i \in DOMAIN outbox' /\ outbox'[Len(outbox) + i] = events[i]
      /\ \A i \in DOMAIN outbox' \ DOMAIN outbox :
            i - Len(outbox) \in DOMAIN events /\ outbox'[i] = events[i - Len(outbox)]
  BY RecordAppends
<1>2. Len(outbox) \in Nat /\ DOMAIN outbox' \subseteq Nat
  BY RecordAppends, LenProperties DEF TypeOK
<1>3. \A i \in DOMAIN outbox' : i = Len(outbox) + (i - Len(outbox))
  BY <1>2
<1> QED BY <1>1, <1>3 DEF Announced

LEMMA NothingAnnounced ==
    ASSUME TypeOK, NEW e \in DomainEvents, e.key # "ticket.closed", Record(<<e>>)
    PROVE  \A t \in Tickets : Announced(t)' = Announced(t)
<1>1. <<e>> \in Seq(DomainEvents) /\ DOMAIN <<e>> = {1} /\ <<e>>[1] = e
  OBVIOUS
<1>2. ASSUME NEW t \in Tickets
      PROVE  {j \in DOMAIN <<e>> : <<e>>[j].key = "ticket.closed" /\ <<e>>[j].ticket = t} = {}
  BY <1>1
<1>3. ASSUME NEW t \in Tickets
      PROVE  Announced(t)' = Announced(t) \cup {Len(outbox) + i : i \in {}}
  BY <1>1, <1>2, AnnouncedAfter, Zenon
<1> QED BY <1>3

LEMMA AnnouncedIsFinite ==
    ASSUME TypeOK, NEW t \in Tickets
    PROVE  /\ IsFiniteSet(Announced(t)) /\ Cardinality(Announced(t)) \in Nat
           /\ Announced(t) \subseteq 1 .. Len(outbox)
<1>1. outbox \in Seq(DomainEvents)
  BY DEF TypeOK
<1>2. Len(outbox) \in Nat /\ DOMAIN outbox = 1 .. Len(outbox)
  BY <1>1, LenProperties
<1>3. Announced(t) \in SUBSET (1 .. Len(outbox)) /\ IsFiniteSet(1 .. Len(outbox))
  BY <1>2, FS_Interval DEF Announced
<1> QED BY <1>3, FS_Subset, FS_CardinalityType

TablesInv ==
    /\ ClosedIsAnnounced
    /\ ClosingsAnnounced
    /\ EventsFit
    /\ ReferencesAreContiguous

LEMMA QuietTables ==
    ASSUME TablesInv, Quiet
    PROVE  TablesInv'
  BY DEF TablesInv, Quiet, history, ClosedIsAnnounced, ClosingsAnnounced, EventsFit,
     OneOrganization, CustomersKeepToTheirTickets, ReferencesAreContiguous, Existing, Announced

LEMMA ChangeUserTables ==
    ASSUME TypeOK, TablesInv, NEW s \in Slots, ChangeUser(s)
    PROVE  TablesInv'
<1>1. UNCHANGED <<tickets, outbox, closings>> /\ overtaken \subseteq overtaken'
  BY DEF ChangeUser, Overtake
<1> QED
  BY <1>1 DEF TablesInv, ClosedIsAnnounced, ClosingsAnnounced, EventsFit,
     OneOrganization, CustomersKeepToTheirTickets, ReferencesAreContiguous, Existing, Announced

LEMMA AddCommentTables ==
    ASSUME TypeOK, RequestInv, TablesInv, NEW s \in Slots, AddComment(s)
    PROVE  TablesInv'
<1> DEFINE q == requests[s]
           comment == [Event(s, "comment.created", q.call.ticket) EXCEPT
                          !.org = OrgOf[q.actor], !.internal = Internal(q)]
<1>1. /\ Record(<<comment>>) /\ UNCHANGED <<tickets, closings, overtaken>>
      /\ Existing' = Existing
  BY DEF AddComment, history, Existing
<1>2. /\ q # NoRequest /\ q.call.ticket \in Existing
      /\ Reaches(q.actor, q.role, q.call.ticket)
  BY DEF AddComment, Serves, At, RequestInv, Informed, Found, Writes, Reaches
<1>3. /\ comment \in DomainEvents /\ comment.key = "comment.created"
      /\ comment.ticket = q.call.ticket /\ comment.org = OrgOf[q.actor]
      /\ comment.actor = q.actor /\ comment.role = q.role
  <2>1. /\ Event(s, "comment.created", q.call.ticket) \in DomainEvents
        /\ Internal(q) \in BOOLEAN /\ OrgOf[q.actor] \in Organizations
    BY <1>2, CallTypes, EventType, TicketsAssumption
    DEF RoutingKeys, Internal, AddComment, Serves, At
  <2>2. /\ Event(s, "comment.created", q.call.ticket).key = "comment.created"
        /\ Event(s, "comment.created", q.call.ticket).ticket = q.call.ticket
        /\ Event(s, "comment.created", q.call.ticket).actor = q.actor
        /\ Event(s, "comment.created", q.call.ticket).role = q.role
    BY <1>2, EventType DEF RoutingKeys
  <2> QED BY <2>1, <2>2 DEF DomainEvents
<1>4. Fits(comment)
  BY <1>1, <1>2, <1>3 DEF Fits, Reaches
<1> HIDE DEF comment
<1>5. <<comment>> \in Seq(DomainEvents) /\ DOMAIN <<comment>> = {1} /\ <<comment>>[1] = comment
  BY <1>3
<1>6. EventsFit'
  <2>1. \A i \in DOMAIN outbox' : Fits(outbox'[i])
    BY <1>1, <1>4, <1>5, AddCommentGrows, RecordFits DEF TablesInv
  <2> QED BY <1>1, <2>1, FitsSuffices DEF TablesInv, EventsFit, OneOrganization
<1>7. \A t \in Tickets : Announced(t)' = Announced(t)
  BY <1>1, <1>3, NothingAnnounced
<1> QED
  BY <1>1, <1>6, <1>7 DEF TablesInv, ClosedIsAnnounced, ClosingsAnnounced, ReferencesAreContiguous, Existing

LEMMA AssignTables ==
    ASSUME TypeOK, RequestInv, TablesInv, NEW s \in Slots, Assign(s)
    PROVE  TablesInv'
<1> DEFINE q == requests[s]
           t == q.call.ticket
           row == AssignedRow(tickets[t], q.call.assignee)
           assigned == [Event(s, "ticket.assigned", t) EXCEPT !.assignee = q.call.assignee]
<1>1. t \in Existing /\ t \in Tickets /\ q # NoRequest /\ Reaches(q.actor, q.role, t)
  BY DEF Assign, Serves, At, RequestInv, Informed, Found, Writes, Reaches, Existing
<1>2. /\ tickets' = [tickets EXCEPT ![t] = row] /\ Record(<<assigned>>)
      /\ overtaken \subseteq overtaken' /\ UNCHANGED closings
  BY <1>1 DEF Assign, Overtake, TypeOK
<1>3. q.call.assignee \in Users /\ OrgOf[q.call.assignee] = OrgOf[q.actor]
  BY <1>1, CallTypes DEF Assign, Serves, At, RequestInv, Informed, SeesAssignee
<1>4. /\ row.org = tickets[t].org /\ row.createdBy = tickets[t].createdBy
      /\ row.reference = tickets[t].reference
      /\ row.status = "IN_PROGRESS" /\ row.assignedTo = q.call.assignee
  BY <1>1, RowTypes DEF AssignedRow, Rows
<1>5. /\ assigned \in DomainEvents /\ assigned.key = "ticket.assigned"
      /\ assigned.ticket = t /\ assigned.org = tickets[t].org
      /\ assigned.actor = q.actor /\ assigned.role = q.role
  <2>1. /\ Event(s, "ticket.assigned", t) \in DomainEvents
        /\ Event(s, "ticket.assigned", t).key = "ticket.assigned"
        /\ Event(s, "ticket.assigned", t).ticket = t
        /\ Event(s, "ticket.assigned", t).org = tickets[t].org
        /\ Event(s, "ticket.assigned", t).actor = q.actor
        /\ Event(s, "ticket.assigned", t).role = q.role
    BY <1>1, EventType DEF RoutingKeys
  <2> QED BY <1>3, <2>1 DEF DomainEvents
<1>6. Grows
  BY AssignGrows
<1>7. /\ \A u \in Tickets : tickets'[u] = IF u = t THEN row ELSE tickets[u]
      /\ TypeOK' /\ t \in Existing'
  BY <1>1, <1>2, <1>6, AssignTypes DEF TypeOK, Grows
<1>8. Existing' = Existing
  BY <1>1, <1>7 DEF Existing
<1> HIDE DEF row, assigned
<1>9. Fits(assigned)
  BY <1>1, <1>4, <1>5, <1>7, <1>8 DEF Fits, Reaches
<1>10. <<assigned>> \in Seq(DomainEvents) /\ DOMAIN <<assigned>> = {1} /\ <<assigned>>[1] = assigned
  BY <1>5
<1>11. EventsFit'
  <2>1. \A i \in DOMAIN outbox' : Fits(outbox'[i])
    BY <1>2, <1>6, <1>9, <1>10, RecordFits DEF TablesInv
  <2>2. \A u \in Existing' : tickets'[u].assignedTo # NoOne
                             => OrgOf[tickets'[u].assignedTo] = tickets'[u].org
    BY <1>1, <1>3, <1>4, <1>7, <1>8 DEF TablesInv, EventsFit, OneOrganization, Existing, Reaches
  <2> QED BY <2>1, <2>2, FitsSuffices
<1>12. \A u \in Tickets : Announced(u)' = Announced(u)
  BY <1>2, <1>5, NothingAnnounced
<1>13. ClosedIsAnnounced'
  BY <1>4, <1>7, <1>8, <1>12 DEF TablesInv, ClosedIsAnnounced, Existing
<1>14. ClosingsAnnounced'
  BY <1>2, <1>12 DEF TablesInv, ClosingsAnnounced
<1>15. ReferencesAreContiguous'
  <2>1. \A u \in Existing : tickets'[u].reference = tickets[u].reference
    BY <1>4, <1>7 DEF Existing
  <2> QED BY <1>8, <2>1 DEF TablesInv, ReferencesAreContiguous
<1> QED BY <1>11, <1>13, <1>14, <1>15 DEF TablesInv

LEMMA InsertTables ==
    ASSUME TypeOK, RequestInv, TablesInv, NEW s \in Slots, NEW t \in Tickets, Insert(s, t)
    PROVE  TablesInv'
<1> DEFINE q == requests[s]
           row == [reference |-> q.number, status |-> "OPEN", closedAt |-> FALSE,
                   org |-> OrgOf[q.actor], createdBy |-> q.actor, assignedTo |-> NoOne]
           created == [key |-> "ticket.created", ticket |-> t, org |-> OrgOf[q.actor],
                       actor |-> q.actor, role |-> q.role, assignee |-> NoOne,
                       internal |-> FALSE]
<1>1. /\ q # NoRequest /\ t \notin Existing /\ ~ Taken(q.number)
      /\ q.number \in 1 .. Cardinality(Existing) + 1
      /\ tickets' = [tickets EXCEPT ![t] = row] /\ Record(<<created>>)
      /\ UNCHANGED <<users, closings, overtaken>>
  BY DEF Insert, Serves, At, RequestInv, Informed, Numbered, Existing, history
<1>2. created \in DomainEvents
  BY <1>1, CallTypes, TicketsAssumption DEF DomainEvents, RoutingKeys
<1>3. Grows /\ TypeOK' /\ tickets'[t] \in Rows
  BY InsertGrows, InsertTypes
<1>4. \A u \in Tickets : tickets'[u] = IF u = t THEN row ELSE tickets[u]
  BY <1>1 DEF TypeOK
<1>5. Existing' = Existing \cup {t}
  BY <1>3, <1>4, TicketsAssumption DEF Existing
<1>6. Fits(created)
  BY <1>4, <1>5 DEF Fits
<1>7. EventsFit'
  <2>1. <<created>> \in Seq(DomainEvents) /\ DOMAIN <<created>> = {1} /\ <<created>>[1] = created
    BY <1>2
  <2> HIDE DEF created
  <2>2. \A i \in DOMAIN outbox' : Fits(outbox'[i])
    BY <1>1, <1>3, <1>6, <2>1, RecordFits DEF TablesInv
  <2>3. \A u \in Existing' : tickets'[u].assignedTo # NoOne
                             => OrgOf[tickets'[u].assignedTo] = tickets'[u].org
    BY <1>4, <1>5 DEF TablesInv, EventsFit, OneOrganization, Existing
  <2> QED BY <2>2, <2>3, FitsSuffices
<1>8. \A u \in Tickets : Announced(u)' = Announced(u)
  <2>1. created.key # "ticket.closed"
    OBVIOUS
  <2> HIDE DEF created
  <2> QED BY <1>1, <1>2, <2>1, NothingAnnounced
<1>9. ClosedIsAnnounced'
  BY <1>4, <1>5, <1>8 DEF TablesInv, ClosedIsAnnounced, Existing
<1>10. ClosingsAnnounced'
  BY <1>1, <1>8 DEF TablesInv, ClosingsAnnounced
<1>11. ReferencesAreContiguous'
  <2> DEFINE n == Cardinality(Existing)
  <2>1. IsFiniteSet(Existing) /\ n \in Nat
    BY <1>3, ExistingIsFinite DEF Grows
  <2>2. Cardinality(Existing') = n + 1
    BY <1>1, <1>5, <2>1, FS_AddElement
  <2>3. q.number = n + 1
    <3>1. q.number \notin 1 .. n
      BY <1>1 DEF Taken, TablesInv, ReferencesAreContiguous
    <3> QED BY <1>1, <2>1, <3>1
  <2>4. {tickets'[u].reference : u \in Existing'}
           = {tickets[u].reference : u \in Existing} \cup {n + 1}
    <3>1. \A u \in Existing : tickets'[u].reference = tickets[u].reference
      BY <1>1, <1>4 DEF Existing
    <3>2. tickets'[t] = row /\ row.reference = q.number
      BY <1>4
    <3> HIDE DEF row, n
    <3> QED BY <1>5, <2>3, <3>1, <3>2
  <2>5. (1 .. n) \cup {n + 1} = 1 .. n + 1
    BY <2>1
  <2> HIDE DEF n
  <2> QED BY <2>2, <2>4, <2>5 DEF TablesInv, ReferencesAreContiguous, n
<1> QED BY <1>7, <1>9, <1>10, <1>11 DEF TablesInv

LEMMA UpdateTables ==
    ASSUME TypeOK, RequestInv, TablesInv, NEW s \in Slots, Update(s)
    PROVE  TablesInv'
<1> DEFINE q == requests[s]
           t == q.call.ticket
           row == Patched(tickets[t], q.call.patch, WillClose(q))
           updated == Event(s, "ticket.updated", t)
           closed == Event(s, "ticket.closed", t)
           events == <<updated>> \o IF WillClose(q) THEN <<closed>> ELSE <<>>
<1>1. /\ t \in Existing /\ t \in Tickets /\ q # NoRequest /\ Reaches(q.actor, q.role, t)
      /\ FoundClosed(q) /\ SeesStatus(q) /\ q.call.op = "update" /\ q.pc = "tx"
  BY DEF Update, Serves, At, RequestInv, Informed, Found, Writes, Reaches, Existing
<1>2. /\ tickets' = [tickets EXCEPT ![t] = row] /\ Record(events)
      /\ closings' = [closings EXCEPT ![t] =
            IF tickets[t].status # "CLOSED" /\ row.status = "CLOSED" THEN @ + 1 ELSE @]
      /\ overtaken \subseteq overtaken'
  BY DEF Update, Overtake
<1>3. /\ row.org = tickets[t].org /\ row.createdBy = tickets[t].createdBy
      /\ row.reference = tickets[t].reference /\ row.assignedTo = tickets[t].assignedTo
      /\ row.status = IF q.call.patch.status = "unset" THEN tickets[t].status
                      ELSE q.call.patch.status
      /\ row.closedAt = (tickets[t].closedAt \/ WillClose(q))
  BY <1>1, RowTypes DEF Patched, Rows
<1>4. /\ updated \in DomainEvents /\ updated.key = "ticket.updated"
      /\ closed \in DomainEvents /\ closed.key = "ticket.closed" /\ closed.ticket = t
      /\ \A e \in {updated, closed} :
            e.ticket = t /\ e.org = tickets[t].org /\ e.actor = q.actor /\ e.role = q.role
  BY <1>1, EventType DEF RoutingKeys
<1>5. Grows /\ TypeOK'
  BY UpdateGrows, UpdateTypes
<1>6. WillClose(q) <=> q.call.patch.status = "CLOSED" /\ q.seen # "CLOSED"
  BY DEF WillClose
<1>7. /\ events \in Seq(DomainEvents)
      /\ DOMAIN events = IF WillClose(q) THEN {1, 2} ELSE {1}
      /\ events[1] = updated
      /\ WillClose(q) => events[2] = closed
  <2> HIDE DEF updated, closed
  <2>1. CASE WillClose(q)
    <3>1. events = <<updated>> \o <<closed>>
      BY <2>1
    <3>2. <<updated>> \in Seq(DomainEvents) /\ <<closed>> \in Seq(DomainEvents)
      BY <1>4
    <3>3. /\ events \in Seq(DomainEvents) /\ Len(events) = 2
          /\ \A i \in 1 .. 2 : events[i] = IF i <= 1 THEN <<updated>>[i] ELSE <<closed>>[i - 1]
      BY <3>1, <3>2, ConcatProperties
    <3> HIDE DEF events
    <3> QED BY <2>1, <3>3
  <2>2. CASE ~ WillClose(q)
    <3>1. events = <<updated>> \o <<>>
      BY <2>2
    <3>2. <<updated>> \o <<>> = <<updated>>
      BY <1>4, ConcatEmptySeq
    <3> QED BY <1>4, <2>2, <3>1, <3>2
  <2> QED BY <2>1, <2>2
<1> HIDE DEF t, row, updated, closed, events
<1>8. \A u \in Tickets : tickets'[u] = IF u = t THEN row ELSE tickets[u]
  BY <1>1, <1>2 DEF TypeOK
<1>9. Existing' = Existing
  BY <1>1, <1>5, <1>8 DEF Existing, Grows
<1>10. \A i \in DOMAIN events : Fits(events[i])
  <2>1. \A e \in {updated, closed} : Fits(e)
    BY <1>1, <1>3, <1>4, <1>8, <1>9 DEF Fits, Reaches
  <2> QED BY <1>7, <2>1
<1>11. EventsFit'
  <2>1. \A i \in DOMAIN outbox' : Fits(outbox'[i])
    BY <1>2, <1>5, <1>7, <1>10, RecordFits DEF TablesInv
  <2>2. \A u \in Existing' : tickets'[u].assignedTo # NoOne
                             => OrgOf[tickets'[u].assignedTo] = tickets'[u].org
    BY <1>1, <1>3, <1>8, <1>9 DEF TablesInv, EventsFit, OneOrganization, Existing
  <2> QED BY <2>1, <2>2, FitsSuffices
<1>12. \A u \in Tickets : Announced(u)' =
          IF u = t /\ WillClose(q) THEN Announced(u) \cup {Len(outbox) + 2} ELSE Announced(u)
  <2> SUFFICES ASSUME NEW u \in Tickets
               PROVE  Announced(u)' = IF u = t /\ WillClose(q)
                                      THEN Announced(u) \cup {Len(outbox) + 2} ELSE Announced(u)
    OBVIOUS
  <2> DEFINE new == {j \in DOMAIN events : events[j].key = "ticket.closed" /\ events[j].ticket = u}
  <2>1. new = IF u = t /\ WillClose(q) THEN {2} ELSE {}
    BY <1>4, <1>7
  <2>2. Announced(u)' = Announced(u) \cup {Len(outbox) + i : i \in new}
    BY <1>2, <1>7, AnnouncedAfter
  <2> HIDE DEF new
  <2> QED BY <2>1, <2>2
<1>13. ClosedIsAnnounced'
  <2>1. row.status = "CLOSED" => row.closedAt /\ \A u \in {t} : Announced(u)' # {}
    <3>1. CASE WillClose(q)
      BY <1>1, <1>3, <1>12, <3>1
    <3>2. CASE ~ WillClose(q) /\ q.call.patch.status = "unset"
      BY <1>1, <1>3, <1>12, <3>2 DEF TablesInv, ClosedIsAnnounced
    <3>3. CASE ~ WillClose(q) /\ q.call.patch.status # "unset"
      BY <1>1, <1>3, <1>6, <1>12, <3>3 DEF FoundClosed, t
    <3> QED BY <3>1, <3>2, <3>3
  <2> QED BY <1>8, <1>9, <1>12, <2>1 DEF TablesInv, ClosedIsAnnounced, Existing
<1>14. ClosingsAnnounced'
  <2> SUFFICES ASSUME NEW u \in Tickets, u \notin overtaken'
               PROVE  Cardinality(Announced(u)') = closings'[u]
    BY DEF ClosingsAnnounced
  <2>1. Cardinality(Announced(u)) = closings[u] /\ u \notin overtaken
    BY <1>2 DEF TablesInv, ClosingsAnnounced
  <2>2. CASE u = t
    <3>1. q.seen = tickets[t].status
      BY <1>1, <2>1, <2>2 DEF SeesStatus, t
    <3>2. WillClose(q) <=> tickets[t].status # "CLOSED" /\ row.status = "CLOSED"
      BY <1>3, <1>6, <3>1
    <3>3. Cardinality(Announced(t) \cup {Len(outbox) + 2}) = Cardinality(Announced(t)) + 1
      <4>1. IsFiniteSet(Announced(t)) /\ Announced(t) \subseteq 1 .. Len(outbox)
        BY <1>1, AnnouncedIsFinite
      <4>2. Len(outbox) \in Nat
        BY LenProperties DEF TypeOK
      <4>3. Len(outbox) + 2 \notin Announced(t)
        BY <4>1, <4>2
      <4> QED BY <4>1, <4>3, FS_AddElement
    <3>4. closings'[t] = IF WillClose(q) THEN closings[t] + 1 ELSE closings[t]
      BY <1>1, <1>2, <3>2 DEF TypeOK
    <3> QED BY <1>12, <2>1, <2>2, <3>3, <3>4
  <2>3. CASE u # t
    BY <1>2, <1>12, <2>1, <2>3 DEF TypeOK
  <2> QED BY <2>2, <2>3
<1>15. ReferencesAreContiguous'
  <2>1. \A u \in Existing : tickets'[u].reference = tickets[u].reference
    BY <1>3, <1>8 DEF Existing
  <2> QED BY <1>9, <2>1 DEF TablesInv, ReferencesAreContiguous
<1> QED BY <1>11, <1>13, <1>14, <1>15 DEF TablesInv

-----------------------------------------------------------------------------

LEMMA InvSplits == TicketsInv <=> TypeOK /\ RequestInv /\ TablesInv
  BY DEF TicketsInv, TablesInv, EventsFit

LEMMA InitHolds == Init => TicketsInv
<1> SUFFICES ASSUME Init PROVE TypeOK /\ RequestInv /\ TablesInv
  BY InvSplits
<1> USE DEF Init
<1>1. TypeOK
  <2>1. outbox \in Seq(DomainEvents)
    OBVIOUS
  <2> QED BY <2>1, TicketsAssumption, SeedAssumption DEF TypeOK
<1>2. RequestInv
  BY DEF RequestInv
<1>3. DOMAIN outbox = {} /\ \A t \in Tickets : Announced(t) = {}
  BY DEF Announced
<1>4. ClosedIsAnnounced
  BY SeedAssumption DEF ClosedIsAnnounced, Existing
<1>5. ClosingsAnnounced
  BY <1>3, FS_EmptySet DEF ClosingsAnnounced
<1>6. EventsFit
  BY <1>3, SeedAssumption
  DEF EventsFit, OneOrganization, CustomersKeepToTheirTickets, Existing
<1>7. ReferencesAreContiguous
  BY SeedAssumption DEF ReferencesAreContiguous, Existing
<1> QED BY <1>1, <1>2, <1>4, <1>5, <1>6, <1>7 DEF TablesInv

LEMMA StepHolds ==
    ASSUME TypeOK, RequestInv, TablesInv, NEW s \in Slots, Step(s)
    PROVE  TypeOK' /\ RequestInv' /\ TablesInv'
<1>1. CASE Reads(s)
  <2>1. /\ TypeOK' /\ Quiet /\ requests[s] # NoRequest
        /\ \A r \in Slots : r # s => requests'[r] = requests[r]
    BY <1>1, ReadsTypes
  <2>2. RequestInv'
    BY <1>1, <2>1, QuietGrows, OthersStayInformed, ReadsKeepInformed DEF RequestInv, TablesInv
  <2> QED BY <2>1, <2>2, QuietTables
<1>2. ASSUME NEW t \in Tickets, Insert(s, t)
      PROVE  TypeOK' /\ RequestInv' /\ TablesInv'
  BY <1>2, InsertTypes, InsertGrows, InsertTables, WritesKeepInformed
<1>3. CASE Update(s)
  BY <1>3, UpdateTypes, UpdateGrows, UpdateTables, WritesKeepInformed
<1>4. CASE Assign(s)
  BY <1>4, AssignTypes, AssignGrows, AssignTables, WritesKeepInformed
<1>5. CASE AddComment(s)
  BY <1>5, AddCommentTypes, AddCommentGrows, AddCommentTables, WritesKeepInformed
<1>6. CASE ChangeUser(s)
  BY <1>6, ChangeUserTypes, ChangeUserGrows, ChangeUserTables, WritesKeepInformed
<1> QED BY <1>1, <1>2, <1>3, <1>4, <1>5, <1>6 DEF Step, Reads

LEMMA NextHolds == TicketsInv /\ [Next]_vars => TicketsInv'
<1> SUFFICES ASSUME TypeOK, RequestInv, TablesInv, [Next]_vars
             PROVE  TypeOK' /\ RequestInv' /\ TablesInv'
  BY DEF TicketsInv, TablesInv, EventsFit
<1>1. ASSUME NEW s \in Slots, Step(s)
      PROVE  TypeOK' /\ RequestInv' /\ TablesInv'
  BY <1>1, StepHolds
<1>2. ASSUME NEW s \in Slots, NEW u \in Users, NEW c \in Calls[u], Arrive(s, u, c)
      PROVE  TypeOK' /\ RequestInv' /\ TablesInv'
  <2>1. TypeOK' /\ Quiet /\ \A r \in Slots : r # s => requests'[r] = requests[r]
    BY <1>2, ArriveTypes
  <2>2. Informed(requests[s])'
    BY <1>2, ArriveInformed
  <2>3. RequestInv'
    BY <2>1, <2>2, QuietGrows, OthersStayInformed DEF RequestInv
  <2> QED BY <2>1, <2>3, QuietTables
<1>3. CASE UNCHANGED vars
  <2>1. Quiet /\ requests' = requests
    BY <1>3 DEF vars, Quiet, history
  <2>2. TypeOK'
    BY <2>1, QuietTypes DEF TypeOK
  <2>3. RequestInv'
    BY <2>1 DEF RequestInv, Informed, OnItsWay, Numbered, Found, FoundClosed, SeesStatus,
       SeesAssignee, Reaches, Eligible, Announced, Existing, Quiet, history
  <2> QED BY <2>1, <2>2, <2>3, QuietTables
<1> QED BY <1>1, <1>2, <1>3 DEF Next, Refuse

(* However requests interleave, the tables, the requests in flight and the *)
(* outbox keep to the invariant.                                           *)
THEOREM TicketsAreSound == Spec => []TicketsInv
  BY InitHolds, NextHolds, PTL DEF Spec

(* A ticket is closed with its date and an event (tickets.service.ts).     *)
THEOREM ClosingsAreKnown == Spec => []ClosedIsAnnounced
<1>1. TicketsInv => ClosedIsAnnounced
  BY DEF TicketsInv
<1> QED BY <1>1, TicketsAreSound, PTL

(* One event for each closing, unless a writer was overtaken.              *)
THEOREM ClosingsAreCounted == Spec => []ClosingsAnnounced
<1>1. TicketsInv => ClosingsAnnounced
  BY DEF TicketsInv
<1> QED BY <1>1, TicketsAreSound, PTL

(* No request reaches across organizations.                                *)
THEOREM OrganizationsAreApart == Spec => []OneOrganization
<1>1. TicketsInv => OneOrganization
  BY DEF TicketsInv
<1> QED BY <1>1, TicketsAreSound, PTL

(* Customers write to nothing but their own tickets.                       *)
THEOREM CustomersAreConfined == Spec => []CustomersKeepToTheirTickets
<1>1. TicketsInv => CustomersKeepToTheirTickets
  BY DEF TicketsInv
<1> QED BY <1>1, TicketsAreSound, PTL

(* References are 1, 2, 3, ... in spite of counting without a lock: the    *)
(* unique index turns every stale number away.                             *)
THEOREM ReferencesAreUnbroken == Spec => []ReferencesAreContiguous
<1>1. TicketsInv => ReferencesAreContiguous
  BY DEF TicketsInv
<1> QED BY <1>1, TicketsAreSound, PTL

(* Who is assigned a ticket was active staff when it was checked, and is   *)
(* still unless his account was changed behind the request's back.         *)
THEOREM AssigneesAreStaff == Spec => AssignedToActiveStaff
<1> DEFINE Fit(t) ==
      tickets'[t] # NoTicket /\ tickets'[t].assignedTo # NoOne
      /\ (t \in Existing => tickets'[t].assignedTo # tickets[t].assignedTo)
      => LET u == tickets'[t].assignedTo IN
         \/ users[u].active /\ users[u].role \in Staff /\ OrgOf[u] = tickets'[t].org
         \/ u \in overtaken
<1>1. TicketsInv /\ [Next]_vars => \A t \in Tickets : Fit(t)
  <2> SUFFICES ASSUME TypeOK, RequestInv, [Next]_vars, NEW t \in Tickets
               PROVE  Fit(t)
    BY InvSplits
  <2>1. CASE tickets' = tickets
    BY <2>1 DEF Existing
  <2>2. ASSUME NEW s \in Slots, NEW q \in Tickets, Insert(s, q)
        PROVE  Fit(t)
    <3>1. tickets'[t].assignedTo = NoOne \/ tickets'[t] = tickets[t]
      BY <2>2 DEF Insert, TypeOK
    <3> QED BY <3>1 DEF Existing
  <2>3. ASSUME NEW s \in Slots, Update(s)
        PROVE  Fit(t)
    <3> DEFINE q == requests[s].call.ticket
    <3>1. q \in Existing /\ tickets[q] \in Rows
      BY <2>3, UpdateTypes, RowTypes
    <3>2. tickets' = [tickets EXCEPT ![q] =
             Patched(tickets[q], requests[s].call.patch, WillClose(requests[s]))]
      BY <2>3 DEF Update
    <3>3. Patched(tickets[q], requests[s].call.patch, WillClose(requests[s])).assignedTo
             = tickets[q].assignedTo
      BY <3>1 DEF Patched, Rows
    <3> HIDE DEF q
    <3>4. t = q \/ tickets'[t] = tickets[t]
      BY <3>2 DEF TypeOK
    <3>5. tickets'[t].assignedTo = tickets[t].assignedTo
      BY <3>1, <3>2, <3>3, <3>4 DEF TypeOK, Existing
    <3> QED BY <3>1, <3>4, <3>5 DEF Existing
  <2>4. ASSUME NEW s \in Slots, Assign(s)
        PROVE  Fit(t)
    <3> DEFINE q == requests[s]
    <3>1. /\ q # NoRequest /\ Reaches(q.actor, q.role, q.call.ticket)
          /\ OrgOf[q.call.assignee] = OrgOf[q.actor]
          /\ Eligible(q.call.assignee, OrgOf[q.actor]) \/ q.call.assignee \in overtaken
      BY <2>4 DEF Assign, Serves, At, RequestInv, Informed, Found, Writes, SeesAssignee
    <3>2. q.call.ticket \in Existing /\ tickets[q.call.ticket] \in Rows
      BY <3>1, RowTypes DEF Reaches
    <3>3. tickets' = [tickets EXCEPT ![q.call.ticket] =
                        AssignedRow(tickets[q.call.ticket], q.call.assignee)]
      BY <2>4, <3>2 DEF Assign, TypeOK, Existing
    <3>4. /\ AssignedRow(tickets[q.call.ticket], q.call.assignee).assignedTo = q.call.assignee
          /\ AssignedRow(tickets[q.call.ticket], q.call.assignee).org
                = tickets[q.call.ticket].org
      BY <3>2 DEF AssignedRow, Rows
    <3>5. CASE t = q.call.ticket
      <4>1. tickets'[t].assignedTo = q.call.assignee /\ tickets'[t].org = tickets[t].org
        BY <3>3, <3>4, <3>5 DEF TypeOK
      <4> QED BY <3>1, <3>5, <4>1 DEF Reaches, Eligible
    <3>6. CASE t # q.call.ticket
      BY <3>3, <3>6 DEF TypeOK, Existing
    <3> QED BY <3>5, <3>6
  <2>5. ASSUME NEW s \in Slots, AddComment(s) \/ ChangeUser(s) \/ Reads(s)
        PROVE  tickets' = tickets
    BY <2>5, ReadsTypes DEF AddComment, ChangeUser, Quiet
  <2>6. ASSUME NEW s \in Slots, NEW u \in Users, NEW c \in Calls[u], Arrive(s, u, c)
        PROVE  tickets' = tickets
    BY <2>6 DEF Arrive
  <2>7. CASE UNCHANGED vars
    BY <2>1, <2>7 DEF vars
  <2>8. ASSUME NEW s \in Slots, Step(s)
        PROVE  Fit(t)
    BY <2>1, <2>2, <2>3, <2>4, <2>5, <2>8 DEF Step, Reads
  <2> QED BY <2>1, <2>6, <2>7, <2>8 DEF Next, Refuse
<1> QED
  BY <1>1, TicketsAreSound, PTL DEF Spec, AssignedToActiveStaff
=============================================================================
