-------------------------- MODULE ProjectionsProofs --------------------------
(***************************************************************************)
(* For every number of requests, of events and of days, consumed in any    *)
(* order: who is told what, what the audit trail accounts for and what the *)
(* metrics count.                                                          *)
(***************************************************************************)
EXTENDS Projections, TicketsProofs, WellFoundedInduction

(* Tickets and outbox agree on where a ticket and its assignee come from.  *)
Created(t) ==
    \/ Seed[t] # NoTicket
    \/ \E i \in DOMAIN outbox :
          /\ outbox[i].key = "ticket.created" /\ outbox[i].ticket = t
          /\ outbox[i].actor = tickets[t].createdBy

AssignedTo(t, u) ==
    \/ Seed[t] # NoTicket /\ Seed[t].assignedTo = u
    \/ \E i \in DOMAIN outbox :
          outbox[i].key = "ticket.assigned" /\ outbox[i].ticket = t /\ outbox[i].assignee = u

OriginsInv ==
    /\ \A t \in Existing :
          /\ OrgOf[tickets[t].createdBy] = tickets[t].org
          /\ Created(t)
          /\ tickets[t].assignedTo # NoOne => AssignedTo(t, tickets[t].assignedTo)
    /\ \A i \in DOMAIN outbox :
          outbox[i].key = "ticket.assigned" => OrgOf[outbox[i].assignee] = outbox[i].org

Row(i) == [action |-> outbox[i].key, ticket |-> outbox[i].ticket,
           actor |-> outbox[i].actor, org |-> outbox[i].org]

(* What has been applied is there.                                         *)
AppliedInv ==
    /\ applied \subseteq Consumers \X DOMAIN outbox
    /\ \A n \in notifications : n.event \in DOMAIN outbox
    /\ \A i \in DOMAIN outbox : <<"audit", i>> \in applied => Row(i) \in BagToSet(auditLog)

ProjectionsInv ==
    /\ TicketsInv
    /\ OriginsInv
    /\ AppliedInv
    /\ InternalNotesGoToAssignees
    /\ TheRightPeopleAreTold

-----------------------------------------------------------------------------

(* The outbox only grows at its end.                                       *)
Prefix == \A i \in DOMAIN outbox : i \in DOMAIN outbox' /\ outbox'[i] = outbox[i]

(* It gets no creation, or the one of a ticket that is new.                *)
NoCreation ==
    \A i \in DOMAIN outbox' \ DOMAIN outbox : outbox'[i].key # "ticket.created"
CreationOf(t) ==
    /\ t \notin Existing
    /\ \A i, j \in DOMAIN outbox' \ DOMAIN outbox : outbox'[i].ticket = t /\ i = j
Recorded == NoCreation \/ \E t \in Tickets : CreationOf(t)

LEMMA QuietOrigins ==
    ASSUME OriginsInv, Quiet
    PROVE  OriginsInv' /\ Prefix /\ NoCreation
  BY DEF OriginsInv, Quiet, history, Created, AssignedTo, Existing, Prefix, NoCreation

LEMMA AssignedToGrows ==
    ASSUME Prefix, NEW t, NEW u, AssignedTo(t, u)
    PROVE  AssignedTo(t, u)'
  BY DEF AssignedTo, Prefix

LEMMA InsertOrigins ==
    ASSUME TypeOK, RequestInv, OriginsInv, NEW s \in Slots, NEW t \in Tickets, Insert(s, t)
    PROVE  OriginsInv' /\ Prefix /\ CreationOf(t)
<1> DEFINE q == requests[s]
           row == [reference |-> q.number, status |-> "OPEN", closedAt |-> FALSE,
                   org |-> OrgOf[q.actor], createdBy |-> q.actor, assignedTo |-> NoOne]
           created == [key |-> "ticket.created", ticket |-> t, org |-> OrgOf[q.actor],
                       actor |-> q.actor, role |-> q.role, assignee |-> NoOne,
                       internal |-> FALSE]
<1>1. /\ q # NoRequest /\ t \notin Existing
      /\ tickets' = [tickets EXCEPT ![t] = row] /\ Record(<<created>>)
  BY DEF Insert, Serves, At, Existing
<1>2. <<created>> \in Seq(DomainEvents) /\ DOMAIN <<created>> = {1} /\ <<created>>[1] = created
  BY <1>1, CallTypes, TicketsAssumption DEF DomainEvents, RoutingKeys
<1>3. \A u \in Tickets : tickets'[u] = IF u = t THEN row ELSE tickets[u]
  BY <1>1 DEF TypeOK
<1>4. /\ row.createdBy = q.actor /\ row.org = OrgOf[q.actor] /\ row.assignedTo = NoOne
      /\ created.key = "ticket.created" /\ created.ticket = t /\ created.actor = q.actor
  OBVIOUS
<1> HIDE DEF row, created
<1> DEFINE new == <<created>>
<1>i. 1 \in DOMAIN new /\ \A i \in DOMAIN new : new[i] = created
  BY <1>2
<1>r. new \in Seq(DomainEvents) /\ Record(new)
  BY <1>1, <1>2
<1> HIDE DEF new
<1>5. /\ Prefix
      /\ Len(outbox) + 1 \in DOMAIN outbox' /\ outbox'[Len(outbox) + 1] = created
      /\ \A i \in DOMAIN outbox' \ DOMAIN outbox : outbox'[i] = created
  BY <1>i, <1>r, RecordAppends DEF Prefix
<1>6. ASSUME NEW u \in Existing', u # t
      PROVE  u \in Existing /\ tickets'[u] = tickets[u]
  BY <1>3, <1>6 DEF Existing
<1>7. ASSUME NEW u \in Existing', u # t
      PROVE  Created(u)'
  BY <1>5, <1>6, <1>7 DEF OriginsInv, Created, Prefix
<1>8. Created(t)'
  BY <1>3, <1>4, <1>5 DEF Created
<1>9. CreationOf(t)
  <2>1. /\ outbox' \in Seq(DomainEvents)
        /\ \A i \in DOMAIN outbox' \ DOMAIN outbox : i - Len(outbox) \in DOMAIN <<created>>
    BY <1>1, <1>2, RecordAppends
  <2>2. \A i \in DOMAIN outbox' \ DOMAIN outbox : i - Len(outbox) = 1
    BY <1>2, <2>1
  <2>3. Len(outbox) \in Nat /\ DOMAIN outbox' \subseteq Nat
    BY <2>1 DEF TypeOK
  <2> QED BY <1>1, <1>4, <1>5, <2>2, <2>3 DEF CreationOf
<1> QED
  BY <1>3, <1>4, <1>5, <1>6, <1>7, <1>8, <1>9, AssignedToGrows DEF OriginsInv, Prefix

LEMMA UpdateOrigins ==
    ASSUME TypeOK, RequestInv, OriginsInv, NEW s \in Slots, Update(s)
    PROVE  OriginsInv' /\ Prefix /\ NoCreation
<1> DEFINE q == requests[s]
           t == q.call.ticket
           row == Patched(tickets[t], q.call.patch, WillClose(q))
           updated == Event(s, "ticket.updated", t)
           closed == Event(s, "ticket.closed", t)
           events == <<updated>> \o IF WillClose(q) THEN <<closed>> ELSE <<>>
<1>1. t \in Existing /\ t \in Tickets /\ q # NoRequest
  BY UpdateTypes DEF Update, Serves, At, Existing
<1>2. tickets' = [tickets EXCEPT ![t] = row] /\ Record(events)
  BY DEF Update
<1>3. row.org = tickets[t].org /\ row.createdBy = tickets[t].createdBy
      /\ row.assignedTo = tickets[t].assignedTo
  BY <1>1, RowTypes DEF Patched, Rows
<1>4. /\ updated \in DomainEvents /\ updated.key = "ticket.updated"
      /\ closed \in DomainEvents /\ closed.key = "ticket.closed"
  BY <1>1, EventType DEF RoutingKeys
<1>5. events \in Seq(DomainEvents) /\ \A i \in DOMAIN events : events[i] \in {updated, closed}
  <2> HIDE DEF updated, closed
  <2>1. <<updated>> \in Seq({updated, closed}) /\ <<closed>> \in Seq({updated, closed})
    OBVIOUS
  <2>2. events \in Seq({updated, closed})
    BY <2>1, ConcatProperties, ConcatEmptySeq
  <2> QED BY <1>4, <2>2, ElementOfSeq, SeqMonotonic
<1> HIDE DEF t, row, updated, closed, events
<1>6. /\ Prefix /\ NoCreation
      /\ \A i \in DOMAIN outbox' \ DOMAIN outbox : outbox'[i].key # "ticket.assigned"
  BY <1>2, <1>4, <1>5, RecordAppends DEF Prefix, NoCreation
<1>7. ASSUME NEW u \in Existing'
      PROVE  /\ u \in Existing /\ tickets'[u].org = tickets[u].org
             /\ tickets'[u].createdBy = tickets[u].createdBy
             /\ tickets'[u].assignedTo = tickets[u].assignedTo
  BY <1>1, <1>2, <1>3 DEF TypeOK, Existing
<1>8. ASSUME NEW u \in Existing'
      PROVE  Created(u)'
  BY <1>6, <1>7 DEF OriginsInv, Created, Prefix
<1> QED
  BY <1>6, <1>7, <1>8, AssignedToGrows DEF OriginsInv, Prefix

LEMMA AssignOrigins ==
    ASSUME TypeOK, RequestInv, OriginsInv, NEW s \in Slots, Assign(s)
    PROVE  OriginsInv' /\ Prefix /\ NoCreation
<1> DEFINE q == requests[s]
           t == q.call.ticket
           who == q.call.assignee
           row == AssignedRow(tickets[t], who)
           assigned == [Event(s, "ticket.assigned", t) EXCEPT !.assignee = who]
<1>1. /\ t \in Existing /\ t \in Tickets /\ q # NoRequest /\ who \in Users
      /\ OrgOf[who] = tickets[t].org
  BY AssignTypes, CallTypes
  DEF Assign, Serves, At, Existing, RequestInv, Informed, Found, Writes, Reaches, SeesAssignee
<1>2. tickets' = [tickets EXCEPT ![t] = row] /\ Record(<<assigned>>)
  BY <1>1 DEF Assign, TypeOK
<1>3. row.org = tickets[t].org /\ row.createdBy = tickets[t].createdBy /\ row.assignedTo = who
  BY <1>1, RowTypes DEF AssignedRow, Rows
<1>4. /\ assigned \in DomainEvents /\ assigned.key = "ticket.assigned"
      /\ assigned.ticket = t /\ assigned.org = tickets[t].org /\ assigned.assignee = who
  <2>1. /\ Event(s, "ticket.assigned", t) \in DomainEvents
        /\ Event(s, "ticket.assigned", t).key = "ticket.assigned"
        /\ Event(s, "ticket.assigned", t).ticket = t
        /\ Event(s, "ticket.assigned", t).org = tickets[t].org
    BY <1>1, EventType DEF RoutingKeys
  <2> QED BY <1>1, <2>1 DEF DomainEvents
<1> HIDE DEF t, who, row, assigned
<1>5. <<assigned>> \in Seq(DomainEvents) /\ DOMAIN <<assigned>> = {1} /\ <<assigned>>[1] = assigned
  BY <1>4
<1>6. /\ Prefix
      /\ Len(outbox) + 1 \in DOMAIN outbox' /\ outbox'[Len(outbox) + 1] = assigned
      /\ \A i \in DOMAIN outbox' \ DOMAIN outbox : outbox'[i] = assigned
  BY <1>2, <1>5, RecordAppends DEF Prefix
<1>7. \A u \in Tickets : tickets'[u] = IF u = t THEN row ELSE tickets[u]
  BY <1>1, <1>2 DEF TypeOK
<1>8. ASSUME NEW u \in Existing'
      PROVE  /\ u \in Existing /\ tickets'[u].org = tickets[u].org
             /\ tickets'[u].createdBy = tickets[u].createdBy
  BY <1>1, <1>3, <1>7 DEF Existing
<1>9. ASSUME NEW u \in Existing'
      PROVE  Created(u)'
  BY <1>6, <1>8 DEF OriginsInv, Created, Prefix
<1>10. ASSUME NEW u \in Existing', tickets'[u].assignedTo # NoOne
       PROVE  AssignedTo(u, tickets[u].assignedTo)'
  <2>1. CASE u = t
    <3>1. tickets'[u].assignedTo = who
      BY <1>3, <1>7, <1>8, <2>1 DEF Existing
    <3> QED BY <1>4, <1>6, <2>1, <3>1 DEF AssignedTo
  <2>2. CASE u # t
    <3>1. tickets'[u] = tickets[u] /\ u \in Existing
      BY <1>7, <1>8, <2>2 DEF Existing
    <3>2. AssignedTo(u, tickets[u].assignedTo)
      BY <1>10, <3>1 DEF OriginsInv
    <3> QED BY <1>6, <3>1, <3>2 DEF AssignedTo, Prefix
  <2> QED BY <2>1, <2>2
<1>11. \A i \in DOMAIN outbox' :
          outbox'[i].key = "ticket.assigned" => OrgOf[outbox'[i].assignee] = outbox'[i].org
  BY <1>1, <1>4, <1>6 DEF OriginsInv, Prefix
<1>12. NoCreation
  BY <1>4, <1>6 DEF NoCreation
<1> QED
  BY <1>6, <1>8, <1>9, <1>10, <1>11, <1>12 DEF OriginsInv

LEMMA AddCommentOrigins ==
    ASSUME TypeOK, RequestInv, OriginsInv, NEW s \in Slots, AddComment(s)
    PROVE  OriginsInv' /\ Prefix /\ NoCreation
<1> DEFINE q == requests[s]
           comment == [Event(s, "comment.created", q.call.ticket) EXCEPT
                          !.org = OrgOf[q.actor], !.internal = Internal(q)]
<1>1. Record(<<comment>>) /\ UNCHANGED tickets /\ Existing' = Existing
  BY DEF AddComment, Existing
<1>2. comment \in DomainEvents /\ comment.key = "comment.created"
  <2>1. q # NoRequest /\ q.call.ticket \in Existing
    BY AddCommentTypes DEF AddComment, Serves, At
  <2>2. /\ Event(s, "comment.created", q.call.ticket) \in DomainEvents
        /\ Event(s, "comment.created", q.call.ticket).key = "comment.created"
        /\ Internal(q) \in BOOLEAN /\ OrgOf[q.actor] \in Organizations
    BY <2>1, CallTypes, EventType, TicketsAssumption
    DEF RoutingKeys, Internal, AddComment, Serves, At
  <2> QED BY <2>2 DEF DomainEvents
<1> HIDE DEF comment
<1>3. <<comment>> \in Seq(DomainEvents) /\ DOMAIN <<comment>> = {1} /\ <<comment>>[1] = comment
  BY <1>2
<1>4. /\ Prefix /\ NoCreation
      /\ \A i \in DOMAIN outbox' \ DOMAIN outbox : outbox'[i].key # "ticket.assigned"
  BY <1>1, <1>2, <1>3, RecordAppends DEF Prefix, NoCreation
<1>5. ASSUME NEW t \in Existing
      PROVE  Created(t)' /\ (tickets[t].assignedTo # NoOne => AssignedTo(t, tickets[t].assignedTo)')
  BY <1>1, <1>4, <1>5 DEF OriginsInv, Created, AssignedTo, Prefix
<1> QED BY <1>1, <1>4, <1>5 DEF OriginsInv, Prefix

LEMMA StepOrigins ==
    ASSUME TypeOK, RequestInv, OriginsInv, [Next]_vars
    PROVE  OriginsInv' /\ Prefix /\ Grows /\ Recorded
<1>1. ASSUME NEW s \in Slots, Step(s)
      PROVE  OriginsInv' /\ Prefix /\ Grows /\ Recorded
  <2>1. CASE Reads(s)
    BY <2>1, ReadsTypes, QuietOrigins, QuietGrows DEF Recorded
  <2>2. ASSUME NEW t \in Tickets, Insert(s, t)
        PROVE  OriginsInv' /\ Prefix /\ Grows /\ Recorded
    BY <2>2, InsertOrigins, InsertGrows DEF Recorded
  <2>3. CASE Update(s)
    BY <2>3, UpdateOrigins, UpdateGrows DEF Recorded
  <2>4. CASE Assign(s)
    BY <2>4, AssignOrigins, AssignGrows DEF Recorded
  <2>5. CASE AddComment(s)
    BY <2>5, AddCommentOrigins, AddCommentGrows DEF Recorded
  <2>6. CASE ChangeUser(s)
    <3>1. UNCHANGED <<tickets, outbox>>
      BY <2>6 DEF ChangeUser
    <3> QED
      BY <2>6, <3>1, ChangeUserGrows
      DEF OriginsInv, Created, AssignedTo, Existing, Prefix, NoCreation, Recorded
  <2> QED BY <1>1, <2>1, <2>2, <2>3, <2>4, <2>5, <2>6 DEF Step, Reads
<1>2. ASSUME NEW s \in Slots, NEW u \in Users, NEW c \in Calls[u], Arrive(s, u, c)
      PROVE  OriginsInv' /\ Prefix /\ Grows /\ Recorded
  BY <1>2, ArriveTypes, QuietOrigins, QuietGrows DEF Recorded
<1>3. CASE UNCHANGED vars
  <2>1. Quiet
    BY <1>3 DEF vars, Quiet, history
  <2> QED BY <2>1, QuietOrigins, QuietGrows DEF Recorded
<1> QED BY <1>1, <1>2, <1>3 DEF Next, Refuse

-----------------------------------------------------------------------------

(* Whoever is told of an event belongs to its organization.                *)
LEMMA RecipientsBelong ==
    ASSUME TicketsInv, OriginsInv, NEW i \in DOMAIN outbox, NEW u \in Recipients(outbox[i])
    PROVE  OrgOf[u] = outbox[i].org
<1>1. /\ outbox[i] \in DomainEvents /\ OrgOf[outbox[i].actor] = outbox[i].org
      /\ outbox[i].ticket \in Existing /\ tickets[outbox[i].ticket].org = outbox[i].org
  BY ElementOfSeq DEF TicketsInv, TypeOK, OneOrganization
<1>2. /\ OrgOf[tickets[outbox[i].ticket].createdBy] = outbox[i].org
      /\ \A a \in AssigneeOf(outbox[i]) : OrgOf[a] = outbox[i].org
  BY <1>1 DEF OriginsInv, TicketsInv, OneOrganization, AssigneeOf
<1>3. outbox[i].key \in RoutingKeys
  BY <1>1 DEF DomainEvents
<1> QED
  BY <1>1, <1>2, <1>3 DEF Recipients, RoutingKeys, CreatorOf, OriginsInv

(* Adding to the audit trail keeps what is there.                          *)
LEMMA AuditAdds ==
    ASSUME NEW i \in DOMAIN outbox, Audit(i)
    PROVE  BagToSet(auditLog') = BagToSet(auditLog) \cup {Row(i)}
  BY DEF Audit, Row, BagToSet, SetToBag, (+)

LEMMA AppliedStep ==
    ASSUME AppliedInv, Prefix, UNCHANGED projections
    PROVE  AppliedInv'
  BY DEF AppliedInv, Prefix, projections, Row

-----------------------------------------------------------------------------

(* What has been told stays right whatever becomes of the tickets: events  *)
(* and the creators they are told to never change.                         *)
LEMMA ToldStep ==
    ASSUME ProjectionsInv, Prefix, Grows, UNCHANGED projections
    PROVE  InternalNotesGoToAssignees' /\ TheRightPeopleAreTold'
<1>1. UNCHANGED <<applied, notifications>>
  BY DEF projections
<1>2. \A n \in notifications : n.event \in DOMAIN outbox /\ outbox'[n.event] = outbox[n.event]
  BY DEF ProjectionsInv, AppliedInv, Prefix
<1>3. InternalNotesGoToAssignees'
  BY <1>1, <1>2 DEF ProjectionsInv, InternalNotesGoToAssignees, Prefix
<1>4. ASSUME NEW i \in DOMAIN outbox', <<"notification", i>> \in applied
      PROVE  /\ i \in DOMAIN outbox /\ outbox'[i] = outbox[i]
             /\ tickets'[outbox[i].ticket].createdBy = tickets[outbox[i].ticket].createdBy
  <2>1. i \in DOMAIN outbox
    BY <1>4 DEF ProjectionsInv, AppliedInv
  <2> QED BY <2>1 DEF Prefix, Grows, ProjectionsInv, TicketsInv, OneOrganization
<1>5. TheRightPeopleAreTold'
  BY <1>1, <1>2, <1>4 DEF ProjectionsInv, TheRightPeopleAreTold
<1> QED BY <1>3, <1>5

LEMMA ApplyStep ==
    ASSUME ProjectionsInv, NEW c \in Consumers, NEW i \in DOMAIN outbox, Apply(c, i)
    PROVE  ProjectionsInv'
<1>1. /\ UNCHANGED <<users, tickets, outbox, requests, closings, overtaken>>
      /\ applied' = applied \cup {<<c, i>>} /\ Project(c, i)
  BY DEF Apply, vars
<1>2. TicketsInv' /\ OriginsInv' /\ Prefix
  BY NextHolds, StepOrigins DEF ProjectionsInv, TicketsInv, Apply
<1>3. applied' \subseteq Consumers \X DOMAIN outbox'
  BY <1>1 DEF ProjectionsInv, AppliedInv
<1>4. CASE c = "notification"
  <2>1. /\ notifications' = notifications \cup
              {[user |-> u, event |-> i] : u \in Recipients(outbox[i])}
        /\ auditLog' = auditLog
    BY <1>1, <1>4 DEF Project, Notify
  <2>2. AppliedInv'
    BY <1>1, <1>3, <1>4, <2>1 DEF ProjectionsInv, AppliedInv, Row
  <2>3. ASSUME NEW u \in Recipients(outbox[i]),
               outbox[i].key = "comment.created", outbox[i].internal
        PROVE  AssignedTo(outbox[i].ticket, u)
    <3>1. u = tickets[outbox[i].ticket].assignedTo /\ u # NoOne
      BY <2>3 DEF Recipients, AssigneeOf
    <3>2. outbox[i].ticket \in Existing
      BY DEF ProjectionsInv, TicketsInv, OneOrganization
    <3> QED BY <3>1, <3>2 DEF ProjectionsInv, OriginsInv
  <2>4. InternalNotesGoToAssignees'
    BY <1>1, <2>1, <2>3 DEF ProjectionsInv, InternalNotesGoToAssignees, AssignedTo
  <2>5. ASSUME outbox[i].key \in {"ticket.updated", "ticket.closed", "comment.created"},
               ~ outbox[i].internal, outbox[i].actor # tickets[outbox[i].ticket].createdBy
        PROVE  tickets[outbox[i].ticket].createdBy \in Recipients(outbox[i])
    BY <2>5 DEF Recipients, CreatorOf
  <2>6. \A u \in Recipients(outbox[i]) : OrgOf[u] = outbox[i].org
    BY RecipientsBelong DEF ProjectionsInv
  <2>7. TheRightPeopleAreTold'
    <3>1. ASSUME NEW n \in notifications'
          PROVE  OrgOf[n.user] = outbox[n.event].org
      BY <2>1, <2>6, <3>1 DEF ProjectionsInv, TheRightPeopleAreTold
    <3>2. ASSUME NEW j \in DOMAIN outbox, <<"notification", j>> \in applied',
                 outbox[j].key \in {"ticket.updated", "ticket.closed", "comment.created"},
                 ~ outbox[j].internal, outbox[j].actor # tickets[outbox[j].ticket].createdBy
          PROVE  [user |-> tickets[outbox[j].ticket].createdBy, event |-> j] \in notifications'
      <4>1. CASE j = i
        BY <2>1, <2>5, <3>2, <4>1
      <4>2. CASE j # i
        BY <1>1, <2>1, <3>2, <4>2 DEF ProjectionsInv, TheRightPeopleAreTold
      <4> QED BY <4>1, <4>2
    <3> QED BY <1>1, <3>1, <3>2 DEF TheRightPeopleAreTold
  <2> QED BY <1>2, <2>2, <2>4, <2>7 DEF ProjectionsInv
<1>5. CASE c # "notification"
  <2>1. notifications' = notifications
    BY <1>1, <1>5, ProjectionsAssumption DEF Project, ConsumerNames, Audit, Measure
  <2>2. \A j \in DOMAIN outbox : <<"audit", j>> \in applied' => Row(j) \in BagToSet(auditLog')
    <3>1. CASE c = "audit"
      <4>1. BagToSet(auditLog') = BagToSet(auditLog) \cup {Row(i)}
        BY <1>1, <3>1, AuditAdds DEF Project
      <4> QED BY <1>1, <4>1 DEF ProjectionsInv, AppliedInv
    <3>2. CASE c # "audit"
      <4>1. auditLog' = auditLog
        BY <1>1, <1>5, <3>2, ProjectionsAssumption DEF Project, ConsumerNames, Measure
      <4> QED BY <1>1, <3>2, <4>1 DEF ProjectionsInv, AppliedInv
    <3> QED BY <3>1, <3>2
  <2>3. AppliedInv'
    BY <1>1, <1>3, <2>1, <2>2 DEF ProjectionsInv, AppliedInv, Row
  <2>4. InternalNotesGoToAssignees' /\ TheRightPeopleAreTold'
    BY <1>1, <1>5, <2>1
    DEF ProjectionsInv, InternalNotesGoToAssignees, TheRightPeopleAreTold
  <2> QED BY <1>2, <2>3, <2>4 DEF ProjectionsInv
<1> QED BY <1>4, <1>5

LEMMA ProjectionsInit == PInit => ProjectionsInv
<1> SUFFICES ASSUME PInit PROVE ProjectionsInv
  OBVIOUS
<1>1. TicketsInv
  BY InitHolds DEF PInit
<1>2. tickets = Seed /\ outbox = <<>> /\ DOMAIN outbox = {}
  BY DEF PInit, Init
<1>3. OriginsInv
  BY <1>2, SeedAssumption DEF OriginsInv, Created, AssignedTo, Existing
<1> QED
  BY <1>1, <1>2, <1>3
  DEF PInit, ProjectionsInv, AppliedInv, InternalNotesGoToAssignees, TheRightPeopleAreTold

LEMMA ProjectionsNext == ProjectionsInv /\ [PNext]_<<vars, projections>> => ProjectionsInv'
<1> SUFFICES ASSUME ProjectionsInv, [PNext]_<<vars, projections>> PROVE ProjectionsInv'
  OBVIOUS
<1>1. CASE [Next]_vars /\ UNCHANGED projections
  <2>1. TicketsInv' /\ OriginsInv' /\ Prefix /\ Grows
    BY <1>1, NextHolds, StepOrigins DEF ProjectionsInv, TicketsInv
  <2> QED BY <1>1, <2>1, AppliedStep, ToldStep DEF ProjectionsInv
<1>2. ASSUME NEW i \in DOMAIN outbox, NEW c \in Consumers, Apply(c, i)
      PROVE  ProjectionsInv'
  BY <1>2, ApplyStep
<1>3. CASE Midnight
  <2>1. UNCHANGED <<vars, applied, notifications, auditLog>>
    BY <1>3 DEF Midnight
  <2>2. TicketsInv' /\ OriginsInv' /\ Prefix
    BY <2>1, NextHolds, StepOrigins DEF ProjectionsInv, TicketsInv
  <2>3. outbox' = outbox /\ tickets' = tickets
    BY <2>1 DEF vars
  <2> QED
    BY <2>1, <2>2, <2>3
    DEF ProjectionsInv, AppliedInv, Row, InternalNotesGoToAssignees, TheRightPeopleAreTold
<1> QED BY <1>1, <1>2, <1>3 DEF PNext

(* The tickets behind the consumers are still those of Tickets.            *)
THEOREM ProjectionsAreSound == PSpec => []ProjectionsInv
  BY ProjectionsInit, ProjectionsNext, PTL DEF PSpec

(* An internal note reaches nobody who was never the ticket's assignee     *)
(* (notification.consumer.ts, audience).                                   *)
THEOREM InternalNotesAreInternal == PSpec => []InternalNotesGoToAssignees
<1>1. ProjectionsInv => InternalNotesGoToAssignees
  BY DEF ProjectionsInv
<1> QED BY <1>1, ProjectionsAreSound, PTL

(* The customer is told what others did to his ticket, whenever the event  *)
(* is consumed, and nobody outside the organization is.                    *)
THEOREM CreatorsAreTold == PSpec => []TheRightPeopleAreTold
<1>1. ProjectionsInv => TheRightPeopleAreTold
  BY DEF ProjectionsInv
<1> QED BY <1>1, ProjectionsAreSound, PTL

(* A trail that has caught up accounts for every ticket and every closing. *)
THEOREM TrailExplainsTickets == PSpec => []AuditExplainsTickets
<1>1. ProjectionsInv => AuditExplainsTickets
  <2> SUFFICES ASSUME ProjectionsInv, CaughtUp("audit")
               PROVE  AuditExplainsTickets
    BY DEF AuditExplainsTickets
  <2>1. \A i \in DOMAIN outbox : Row(i) \in BagToSet(auditLog)
    <3>1. \A i \in DOMAIN outbox : outbox[i].key \in RoutingKeys
      <4>1. outbox \in Seq(DomainEvents)
        BY DEF ProjectionsInv, TicketsInv, TypeOK
      <4>2. \A i \in DOMAIN outbox : outbox[i] \in DomainEvents
        BY <4>1
      <4> QED BY <4>2 DEF DomainEvents
    <3>2. \A i \in DOMAIN outbox : "audit" \in Subscribers(i)
      BY <3>1 DEF CaughtUp, Subscribers, Bindings
    <3> QED BY <3>2 DEF CaughtUp, ProjectionsInv, AppliedInv
  <2>2. ASSUME NEW t \in Existing
        PROVE  \/ Seed[t] # NoTicket
               \/ \E row \in BagToSet(auditLog) :
                     row.ticket = t /\ row.action = "ticket.created"
                     /\ row.actor = tickets[t].createdBy
    BY <2>1, <2>2 DEF ProjectionsInv, OriginsInv, Created, Row
  <2>3. ASSUME NEW t \in Existing, tickets[t].status = "CLOSED"
        PROVE  \E row \in BagToSet(auditLog) : row.ticket = t /\ row.action = "ticket.closed"
    <3>1. PICK i \in DOMAIN outbox : outbox[i].key = "ticket.closed" /\ outbox[i].ticket = t
      BY <2>3 DEF ProjectionsInv, TicketsInv, ClosedIsAnnounced, Announced
    <3> QED BY <2>1, <3>1 DEF Row
  <2> QED BY <2>2, <2>3 DEF AuditExplainsTickets
<1> QED BY <1>1, ProjectionsAreSound, PTL

-----------------------------------------------------------------------------
(* Sums over the days.                                                     *)

(* A set of numbers that is not empty has a least one.                     *)
LEMMA LeastNumber ==
    ASSUME NEW T \in SUBSET Nat, T # {}
    PROVE  \E n \in T : \A m \in T : n <= m
<1> HIDE DEF OpToRel
<1>1. PICK n \in T : \A m \in T : ~ (<<m, n>> \in OpToRel(<, Nat))
  BY WFMin, NatLessThanWellFounded
<1>2. ASSUME NEW m \in T, m < n
      PROVE  FALSE
  <2>1. <<m, n>> \in OpToRel(<, Nat)
    BY <1>2 DEF OpToRel
  <2> QED BY <1>1, <2>1
<1> QED BY <1>2

(* There are sums up to each day,                                          *)
LEMMA SumExists ==
    ASSUME NEW f \in [Days -> Nat]
    PROVE  \E g \in [0 .. MaxDays -> Nat] :
              g = [d \in 0 .. MaxDays |-> IF d = 0 THEN 0 ELSE g[d - 1] + f[d]]
<1> DEFINE Sums(n) == {g \in [0 .. n -> Nat] :
                          g[0] = 0 /\ \A d \in 1 .. n : g[d] = g[d - 1] + f[d]}
           T == {n \in 0 .. MaxDays : Sums(n) = {}}
<1>0. MaxDays \in Nat \ {0}
  BY ProjectionsAssumption
<1>1. CASE T # {}
  <2> HIDE DEF Sums
  <2>1. PICK n \in T : \A m \in T : n <= m
    <3>1. T \in SUBSET Nat
      BY <1>0
    <3> HIDE DEF T
    <3> QED BY <1>1, <3>1, LeastNumber
  <2>2. n # 0
    <3>1. [d \in 0 .. 0 |-> 0] \in Sums(0)
      BY DEF Sums
    <3> QED BY <2>1, <3>1
  <2>3. n \in Nat /\ n - 1 \in 0 .. MaxDays /\ n - 1 \notin T
    BY <1>0, <2>1, <2>2
  <2>4. PICK g : g \in Sums(n - 1)
    BY <2>3
  <2>5. /\ g \in [0 .. (n - 1) -> Nat] /\ g[0] = 0
        /\ \A d \in 1 .. (n - 1) : g[d] = g[d - 1] + f[d]
    BY <2>4 DEF Sums
  <2> DEFINE h == [d \in 0 .. n |-> IF d = n THEN g[n - 1] + f[n] ELSE g[d]]
  <2>6. n \in Days
    BY <1>0, <2>1, <2>2 DEF Days
  <2>7. h \in [0 .. n -> Nat]
    BY <2>2, <2>3, <2>5, <2>6
  <2>8. h[0] = 0
    BY <2>2, <2>3, <2>5
  <2>9. ASSUME NEW d \in 1 .. n
        PROVE  h[d] = h[d - 1] + f[d]
    <3>1. CASE d = n
      BY <2>2, <2>3, <3>1
    <3>2. CASE d # n
      <4>1. d \in 1 .. (n - 1) /\ d - 1 \in 0 .. n /\ d - 1 # n
        BY <2>3, <3>2
      <4> QED BY <2>3, <2>5, <3>2, <4>1
    <3> QED BY <3>1, <3>2
  <2> HIDE DEF h
  <2>10. h \in Sums(n)
    BY <2>7, <2>8, <2>9 DEF Sums
  <2> QED BY <2>1, <2>10
<1>2. CASE T = {}
  <2>1. PICK g : g \in Sums(MaxDays)
    <3>1. MaxDays \in 0 .. MaxDays
      BY <1>0
    <3> HIDE DEF Sums
    <3> QED BY <1>2, <3>1
  <2>2. g = [d \in 0 .. MaxDays |-> IF d = 0 THEN 0 ELSE g[d - 1] + f[d]]
    BY <1>0, <2>1
  <2> QED BY <2>1, <2>2
<1> QED BY <1>1, <1>2

(* and OverAllDays is the last of them.                                    *)
LEMMA SumIs ==
    ASSUME NEW f \in [Days -> Nat]
    PROVE  \E g \in [0 .. MaxDays -> Nat] :
              /\ OverAllDays(f) = g[MaxDays]
              /\ g[0] = 0 /\ \A d \in Days : g[d] = g[d - 1] + f[d]
<1> DEFINE upTo[d \in 0 .. MaxDays] == IF d = 0 THEN 0 ELSE upTo[d - 1] + f[d]
           T == {d \in 0 .. MaxDays : upTo[d] \notin Nat}
<1>0. MaxDays \in Nat \ {0}
  BY ProjectionsAssumption
<1>1. PICK g \in [0 .. MaxDays -> Nat] :
         g = [d \in 0 .. MaxDays |-> IF d = 0 THEN 0 ELSE g[d - 1] + f[d]]
  BY SumExists
<1>2. upTo = [d \in 0 .. MaxDays |-> IF d = 0 THEN 0 ELSE upTo[d - 1] + f[d]]
  BY <1>1
<1>3. OverAllDays(f) = upTo[MaxDays]
  BY DEF OverAllDays
<1> HIDE DEF upTo
<1>4. upTo[0] = 0 /\ \A d \in Days : upTo[d] = upTo[d - 1] + f[d]
  BY <1>0, <1>2 DEF Days
<1>5. T = {}
  <2> SUFFICES ASSUME T # {} PROVE FALSE
    OBVIOUS
  <2>1. PICK n \in T : \A m \in T : n <= m
    <3>1. T \in SUBSET Nat
      BY <1>0
    <3> HIDE DEF T
    <3> QED BY <3>1, LeastNumber
  <2>2. n \in Days
    BY <1>0, <1>4, <2>1 DEF Days
  <2>3. n - 1 \in 0 .. MaxDays /\ n - 1 \notin T
    BY <1>0, <2>1, <2>2 DEF Days
  <2> QED BY <1>4, <2>1, <2>2, <2>3
<1>6. upTo \in [0 .. MaxDays -> Nat]
  BY <1>2, <1>5
<1> QED BY <1>3, <1>4, <1>6

(* No day counts, and one more on one day is one more over all days.       *)
LEMMA SumOfNone == OverAllDays([d \in Days |-> 0]) = 0
<1> DEFINE f == [d \in Days |-> 0]
<1>0. MaxDays \in Nat \ {0}
  BY ProjectionsAssumption
<1>1. f \in [Days -> Nat] /\ \A d \in Days : f[d] = 0
  OBVIOUS
<1> HIDE DEF f
<1>2. PICK g \in [0 .. MaxDays -> Nat] :
         /\ OverAllDays(f) = g[MaxDays] /\ g[0] = 0 /\ \A d \in Days : g[d] = g[d - 1] + f[d]
  BY <1>1, SumIs
<1> DEFINE T == {d \in 0 .. MaxDays : g[d] # 0}
<1>3. T = {}
  <2> SUFFICES ASSUME T # {} PROVE FALSE
    OBVIOUS
  <2>1. PICK n \in T : \A m \in T : n <= m
    <3>1. T \in SUBSET Nat
      BY <1>0
    <3> HIDE DEF T
    <3> QED BY <3>1, LeastNumber
  <2>2. n \in Days
    BY <1>0, <1>2, <2>1 DEF Days
  <2>3. n - 1 \in 0 .. MaxDays /\ n - 1 \notin T
    BY <1>0, <2>1, <2>2 DEF Days
  <2> QED BY <1>1, <1>2, <2>1, <2>2, <2>3
<1>4. OverAllDays(f) = 0
  BY <1>0, <1>2, <1>3
<1> QED BY <1>4 DEF f

LEMMA SumOfOneMore ==
    ASSUME NEW f \in [Days -> Nat], NEW e \in Days
    PROVE  OverAllDays([f EXCEPT ![e] = @ + 1]) = OverAllDays(f) + 1
<1> DEFINE h == [f EXCEPT ![e] = @ + 1]
<1>0. MaxDays \in Nat \ {0}
  BY ProjectionsAssumption
<1>1. h \in [Days -> Nat] /\ \A d \in Days : h[d] = IF d = e THEN f[d] + 1 ELSE f[d]
  OBVIOUS
<1> HIDE DEF h
<1>2. PICK g \in [0 .. MaxDays -> Nat] :
         /\ OverAllDays(f) = g[MaxDays] /\ g[0] = 0 /\ \A d \in Days : g[d] = g[d - 1] + f[d]
  BY SumIs
<1>3. PICK k \in [0 .. MaxDays -> Nat] :
         /\ OverAllDays(h) = k[MaxDays] /\ k[0] = 0 /\ \A d \in Days : k[d] = k[d - 1] + h[d]
  BY <1>1, SumIs
<1> DEFINE T == {d \in 0 .. MaxDays : k[d] # IF d < e THEN g[d] ELSE g[d] + 1}
<1>4. T = {}
  <2> SUFFICES ASSUME T # {} PROVE FALSE
    OBVIOUS
  <2>1. PICK n \in T : \A m \in T : n <= m
    <3>1. T \in SUBSET Nat
      BY <1>0
    <3> HIDE DEF T
    <3> QED BY <3>1, LeastNumber
  <2>2. n \in Days
    BY <1>0, <1>2, <1>3, <2>1 DEF Days
  <2>3. n - 1 \in 0 .. MaxDays /\ n - 1 \notin T
    <3>1. n \in Nat /\ n - 1 \in 0 .. MaxDays
      BY <1>0, <2>2 DEF Days
    <3> HIDE DEF T
    <3> QED BY <2>1, <3>1
  <2>4. k[n - 1] = IF n - 1 < e THEN g[n - 1] ELSE g[n - 1] + 1
    BY <2>3
  <2>5. k[n] # IF n < e THEN g[n] ELSE g[n] + 1
    BY <2>1
  <2> HIDE DEF T
  <2>6. n \in Nat /\ e \in Nat /\ f[n] \in Nat /\ g[n - 1] \in Nat
    BY <1>0, <2>2, <2>3 DEF Days
  <2>7. g[n] = g[n - 1] + f[n] /\ k[n] = k[n - 1] + h[n]
    BY <1>2, <1>3, <2>2
  <2>8. h[n] = IF n = e THEN f[n] + 1 ELSE f[n]
    BY <1>1, <2>2
  <2> QED BY <2>4, <2>5, <2>6, <2>7, <2>8
<1>5. k[MaxDays] = g[MaxDays] + 1
  <2>1. MaxDays \in 0 .. MaxDays /\ e <= MaxDays
    BY <1>0 DEF Days
  <2>2. ~(MaxDays < e)
    BY <1>0, <2>1 DEF Days
  <2> QED BY <1>4, <2>1, <2>2
<1> QED BY <1>2, <1>3, <1>5 DEF h

-----------------------------------------------------------------------------
(* What the analytics consumer counts.                                     *)

(* A creation is of a ticket that was not seeded, and of one only.         *)
CreationsInv ==
    /\ \A t \in Tickets : Seed[t] # NoTicket => t \in Existing
    /\ \A i, j \in DOMAIN outbox :
          outbox[i].key = "ticket.created" =>
             /\ Seed[outbox[i].ticket] = NoTicket
             /\ outbox[j].key = "ticket.created" /\ outbox[j].ticket = outbox[i].ticket => i = j

KeyOf == [created |-> "ticket.created", assigned |-> "ticket.assigned", closed |-> "ticket.closed"]
Columns == {"created", "assigned", "closed"}
MetricRows == [created : Nat, assigned : Nat, closed : Nat]

(* The events a column is about, and those it has counted.                 *)
Countable(org, column) ==
    {i \in DOMAIN outbox : outbox[i].key = KeyOf[column] /\ outbox[i].org = org}
Measured(org, column) == {i \in Countable(org, column) : <<"analytics", i>> \in applied}

MetricsInv ==
    /\ today \in Days
    /\ metrics \in [Organizations \X Days -> MetricRows]
    /\ \A org \in Organizations, column \in Columns :
          Total(org, column) = Cardinality(Measured(org, column))

(* A creation is recorded with its ticket.                                 *)
LEMMA CreationsStep ==
    ASSUME TicketsInv, CreationsInv, Prefix, Grows, Recorded
    PROVE  CreationsInv'
<1>1. \A t \in Tickets : Seed[t] # NoTicket => t \in Existing'
  BY DEF CreationsInv, Grows
<1>2. \A i \in DOMAIN outbox :
         /\ i \in DOMAIN outbox' /\ outbox'[i] = outbox[i] /\ outbox[i].ticket \in Existing
  BY DEF Prefix, TicketsInv, OneOrganization
<1>3. CASE NoCreation
  BY <1>1, <1>2, <1>3 DEF CreationsInv, NoCreation
<1>4. ASSUME NEW t \in Tickets, CreationOf(t)
      PROVE  CreationsInv'
  <2>1. t \notin Existing /\ Seed[t] = NoTicket
    BY <1>4 DEF CreationOf, CreationsInv
  <2>2. \A i \in DOMAIN outbox' \ DOMAIN outbox : outbox'[i].ticket = t
    BY <1>4 DEF CreationOf
  <2>3. \A i, j \in DOMAIN outbox' \ DOMAIN outbox : i = j
    BY <1>4 DEF CreationOf
  <2>4. \A i \in DOMAIN outbox' :
           outbox'[i].key = "ticket.created" => Seed[outbox'[i].ticket] = NoTicket
    BY <1>2, <2>1, <2>2 DEF CreationsInv
  <2>5. ASSUME NEW i \in DOMAIN outbox', NEW j \in DOMAIN outbox',
               outbox'[i].key = "ticket.created", outbox'[j].key = "ticket.created",
               outbox'[j].ticket = outbox'[i].ticket
        PROVE  i = j
    <3>1. CASE i \in DOMAIN outbox /\ j \in DOMAIN outbox
      BY <1>2, <2>5, <3>1 DEF CreationsInv
    <3>2. CASE i \in DOMAIN outbox /\ j \notin DOMAIN outbox
      BY <1>2, <2>1, <2>2, <2>5, <3>2
    <3>3. CASE i \notin DOMAIN outbox /\ j \in DOMAIN outbox
      BY <1>2, <2>1, <2>2, <2>5, <3>3
    <3>4. CASE i \notin DOMAIN outbox /\ j \notin DOMAIN outbox
      BY <2>3, <3>4
    <3> QED BY <3>1, <3>2, <3>3, <3>4
  <2> QED BY <1>1, <2>4, <2>5 DEF CreationsInv
<1> QED BY <1>3, <1>4 DEF Recorded

(* The events are finitely many, of organizations and with keys.           *)
LEMMA CountableFacts ==
    ASSUME TicketsInv
    PROVE  /\ \A i \in DOMAIN outbox : outbox[i].org \in Organizations /\ outbox[i].key \in RoutingKeys
           /\ \A org, column : /\ IsFiniteSet(Countable(org, column))
                               /\ IsFiniteSet(Measured(org, column))
<1>1. outbox \in Seq(DomainEvents)
  BY DEF TicketsInv, TypeOK
<1>2. \A i \in DOMAIN outbox : outbox[i] \in DomainEvents
  BY <1>1
<1>3. \A i \in DOMAIN outbox : outbox[i].org \in Organizations /\ outbox[i].key \in RoutingKeys
  BY <1>2 DEF DomainEvents
<1>4. IsFiniteSet(DOMAIN outbox)
  <2>1. DOMAIN outbox = 1 .. Len(outbox) /\ Len(outbox) \in Nat
    BY <1>1
  <2> QED BY <2>1, FS_Interval
<1>5. ASSUME NEW org, NEW column
      PROVE  IsFiniteSet(Countable(org, column)) /\ IsFiniteSet(Measured(org, column))
  <2>1. Countable(org, column) \subseteq DOMAIN outbox /\ Measured(org, column) \subseteq DOMAIN outbox
    BY DEF Countable, Measured
  <2> QED BY <1>4, <2>1, FS_Subset
<1> QED BY <1>3, <1>5

(* The upsert adds one to one column.                                      *)
LEMMA CountedIs ==
    ASSUME NEW row \in MetricRows, NEW c \in Columns
    PROVE  /\ Counted(row, KeyOf[c]) \in MetricRows
           /\ \A column \in Columns :
                 Counted(row, KeyOf[c])[column] = IF column = c THEN row[column] + 1 ELSE row[column]
<1>1. CASE c = "created"
  BY <1>1 DEF Counted, KeyOf, Columns, MetricRows
<1>2. CASE c = "assigned"
  BY <1>2 DEF Counted, KeyOf, Columns, MetricRows
<1>3. CASE c = "closed"
  BY <1>3 DEF Counted, KeyOf, Columns, MetricRows
<1> QED BY <1>1, <1>2, <1>3 DEF Columns

(* analytics.consumer.ts: one event, one more in its column of the day.    *)
LEMMA MeasureStep ==
    ASSUME ProjectionsInv, MetricsInv, NEW i \in DOMAIN outbox, Apply("analytics", i)
    PROVE  MetricsInv'
<1> DEFINE o == outbox[i].org
<1>1. /\ UNCHANGED <<outbox, today>> /\ <<"analytics", i>> \notin applied
      /\ applied' = applied \cup {<<"analytics", i>>}
      /\ outbox[i].key \in Bindings["analytics"]
      /\ metrics' = [metrics EXCEPT ![<<o, today>>] = Counted(@, outbox[i].key)]
  BY DEF Apply, vars, Subscribers, Project, Measure
<1>2. PICK c \in Columns : KeyOf[c] = outbox[i].key
  BY <1>1 DEF Bindings, KeyOf, Columns
<1>3. o \in Organizations /\ today \in Days
  BY CountableFacts DEF ProjectionsInv, MetricsInv
<1>4. \A column \in Columns : KeyOf[column] = KeyOf[c] => column = c
  BY DEF Columns, KeyOf
<1> HIDE DEF o
<1>5. metrics[<<o, today>>] \in MetricRows
  BY <1>3 DEF MetricsInv
<1> DEFINE new == Counted(metrics[<<o, today>>], KeyOf[c])
<1>6. /\ new \in MetricRows
      /\ \A column \in Columns :
            new[column] = IF column = c THEN metrics[<<o, today>>][column] + 1
                          ELSE metrics[<<o, today>>][column]
  BY <1>5, CountedIs
<1>7. metrics' = [metrics EXCEPT ![<<o, today>>] = new]
  BY <1>1, <1>2
<1> HIDE DEF new
<1>8. /\ metrics' \in [Organizations \X Days -> MetricRows]
      /\ \A org \in Organizations, d \in Days :
            metrics'[<<org, d>>] = IF org = o /\ d = today THEN new ELSE metrics[<<org, d>>]
  BY <1>3, <1>6, <1>7 DEF MetricsInv
<1>9. ASSUME NEW org \in Organizations, NEW column \in Columns
      PROVE  Total(org, column)' = Cardinality(Measured(org, column)')
  <2> DEFINE f == [d \in Days |-> metrics[<<org, d>>][column]]
             g == [d \in Days |-> metrics'[<<org, d>>][column]]
  <2>1. Total(org, column) = OverAllDays(f) /\ Total(org, column)' = OverAllDays(g)
    BY DEF Total
  <2>2. f \in [Days -> Nat]
    BY DEF MetricsInv, MetricRows, Columns
  <2>3. CASE org = o /\ column = c
    <3>1. g = [f EXCEPT ![today] = @ + 1]
      BY <1>3, <1>6, <1>8, <2>3
    <3> HIDE DEF f, g
    <3>2. Total(org, column)' = Total(org, column) + 1
      BY <1>3, <2>1, <2>2, <3>1, SumOfOneMore
    <3>3. /\ i \notin Measured(org, column)
          /\ Measured(org, column)' = Measured(org, column) \cup {i}
      BY <1>1, <1>2, <2>3 DEF Measured, Countable, o
    <3>4. IsFiniteSet(Measured(org, column))
      BY CountableFacts DEF ProjectionsInv
    <3>5. Cardinality(Measured(org, column)') = Cardinality(Measured(org, column)) + 1
      BY <3>3, <3>4, FS_AddElement
    <3> QED BY <3>2, <3>5 DEF MetricsInv
  <2>4. CASE ~(org = o /\ column = c)
    <3>1. g = f
      BY <1>3, <1>6, <1>8, <2>4
    <3> HIDE DEF f, g
    <3>2. Total(org, column)' = Total(org, column)
      BY <2>1, <3>1
    <3>3. i \notin Countable(org, column)
      BY <1>2, <1>4, <2>4 DEF Countable, o
    <3>4. Countable(org, column)' = Countable(org, column)
      BY <1>1 DEF Countable
    <3>5. Measured(org, column)' = Measured(org, column)
      BY <1>1, <3>3, <3>4 DEF Measured
    <3> QED BY <3>2, <3>5 DEF MetricsInv
  <2> QED BY <2>3, <2>4
<1> QED BY <1>1, <1>3, <1>8, <1>9 DEF MetricsInv

(* Everything else leaves the metrics and what they counted.               *)
LEMMA MetricsKept ==
    ASSUME AppliedInv, MetricsInv, Prefix, metrics' = metrics, today' \in Days,
           \A i \in DOMAIN outbox' : <<"analytics", i>> \in applied' <=> <<"analytics", i>> \in applied
    PROVE  MetricsInv'
<1>1. ASSUME NEW org \in Organizations, NEW column \in Columns
      PROVE  Measured(org, column)' = Measured(org, column)
  BY DEF Measured, Countable, AppliedInv, Prefix
<1>2. \A org, column : Total(org, column)' = Total(org, column)
  BY DEF Total
<1> QED BY <1>1, <1>2 DEF MetricsInv

(* No more tickets than events about them, and as many if no ticket has    *)
(* two of them.                                                            *)
LEMMA TicketsOfEvents ==
    ASSUME NEW E \in SUBSET DOMAIN outbox, IsFiniteSet(E), NEW S,
           \A t \in S : \E i \in E : outbox[i].ticket = t
    PROVE  /\ IsFiniteSet(S) /\ Cardinality(S) <= Cardinality(E)
           /\ (\A i, j \in E : outbox[i].ticket \in S /\ (outbox[j].ticket = outbox[i].ticket => i = j))
              => Cardinality(S) = Cardinality(E)
<1> DEFINE T == {outbox[i].ticket : i \in E}
           f == [i \in E |-> outbox[i].ticket]
<1>1. f \in Surjection(E, T)
  BY DEF Surjection
<1>2. \A i \in E : f[i] = outbox[i].ticket
  OBVIOUS
<1>3. S \subseteq T
  OBVIOUS
<1>4. ASSUME \A i, j \in E : outbox[i].ticket \in S /\ (outbox[j].ticket = outbox[i].ticket => i = j)
      PROVE  S = T /\ f \in Injection(E, T)
  <2>1. S = T
    BY <1>4
  <2>2. f \in [E -> T]
    OBVIOUS
  <2>3. \A i, j \in E : f[i] = f[j] => i = j
    BY <1>4
  <2> HIDE DEF f, T
  <2> QED BY <2>1, <2>2, <2>3 DEF Injection, IsInjective
<1> HIDE DEF f, T
<1>5. /\ IsFiniteSet(T) /\ Cardinality(T) <= Cardinality(E)
      /\ f \in Injection(E, T) => Cardinality(T) = Cardinality(E)
  BY <1>1, FS_Surjection
<1>6. IsFiniteSet(S) /\ Cardinality(S) <= Cardinality(T)
  BY <1>3, <1>5, FS_Subset
<1>7. Cardinality(S) \in Nat /\ Cardinality(T) \in Nat /\ Cardinality(E) \in Nat
  BY <1>5, <1>6, FS_CardinalityType
<1> QED BY <1>4, <1>5, <1>6, <1>7

(* The columns of an organization count its tickets.                       *)
LEMMA MetricsCount ==
    ProjectionsInv /\ CreationsInv /\ MetricsInv => MetricsMatchTickets
<1> SUFFICES ASSUME ProjectionsInv, CreationsInv, MetricsInv, NEW org \in Organizations
             PROVE  LET mine == {t \in Existing : tickets[t].org = org}
                        new == {t \in mine : Seed[t] = NoTicket}
                        closed == {t \in mine : tickets[t].status = "CLOSED"}
                        assigned == {t \in new : tickets[t].assignedTo # NoOne}
                    IN  /\ Total(org, "created") <= Cardinality(new)
                        /\ CaughtUp("analytics") =>
                              /\ Total(org, "created") = Cardinality(new)
                              /\ Total(org, "closed") >= Cardinality(closed)
                              /\ Total(org, "assigned") >= Cardinality(assigned)
  BY DEF MetricsMatchTickets
<1> DEFINE mine == {t \in Existing : tickets[t].org = org}
           new == {t \in mine : Seed[t] = NoTicket}
           closed == {t \in mine : tickets[t].status = "CLOSED"}
           assigned == {t \in new : tickets[t].assignedTo # NoOne}
<1>1. /\ TicketsInv /\ OriginsInv /\ OneOrganization
      /\ Columns = {"created", "assigned", "closed"}
      /\ KeyOf.created = "ticket.created" /\ KeyOf.assigned = "ticket.assigned"
      /\ KeyOf.closed = "ticket.closed"
  BY DEF ProjectionsInv, TicketsInv, Columns, KeyOf
<1>2. \A column : /\ Countable(org, column) \in SUBSET DOMAIN outbox
                  /\ IsFiniteSet(Countable(org, column))
  BY <1>1, CountableFacts DEF Countable
<1>3. Cardinality(new) = Cardinality(Countable(org, "created"))
  <2>1. ASSUME NEW t \in new
        PROVE  \E i \in Countable(org, "created") : outbox[i].ticket = t
    <3>1. PICK i \in DOMAIN outbox : outbox[i].key = "ticket.created" /\ outbox[i].ticket = t
      BY <1>1 DEF OriginsInv, Created
    <3>2. outbox[i].org = org
      BY <1>1, <3>1 DEF OneOrganization
    <3> QED BY <1>1, <3>1, <3>2 DEF Countable
  <2>2. ASSUME NEW i \in Countable(org, "created")
        PROVE  outbox[i].ticket \in new
    <3>1. i \in DOMAIN outbox /\ outbox[i].key = "ticket.created" /\ outbox[i].org = org
      BY <1>1 DEF Countable
    <3> QED BY <1>1, <3>1 DEF OneOrganization, CreationsInv
  <2>3. \A i, j \in Countable(org, "created") : outbox[j].ticket = outbox[i].ticket => i = j
    BY <1>1 DEF Countable, CreationsInv
  <2> HIDE DEF new
  <2> QED BY <1>2, <2>1, <2>2, <2>3, TicketsOfEvents
<1>4. Cardinality(closed) <= Cardinality(Countable(org, "closed"))
  <2>1. ASSUME NEW t \in closed
        PROVE  \E i \in Countable(org, "closed") : outbox[i].ticket = t
    <3>1. PICK i \in DOMAIN outbox : outbox[i].key = "ticket.closed" /\ outbox[i].ticket = t
      BY DEF ProjectionsInv, TicketsInv, ClosedIsAnnounced, Announced
    <3>2. outbox[i].org = org
      BY <1>1, <3>1 DEF OneOrganization
    <3> QED BY <1>1, <3>1, <3>2 DEF Countable
  <2> HIDE DEF closed
  <2> QED BY <1>2, <2>1, TicketsOfEvents
<1>5. Cardinality(assigned) <= Cardinality(Countable(org, "assigned"))
  <2>1. ASSUME NEW t \in assigned
        PROVE  \E i \in Countable(org, "assigned") : outbox[i].ticket = t
    <3>1. PICK i \in DOMAIN outbox : outbox[i].key = "ticket.assigned" /\ outbox[i].ticket = t
      BY <1>1 DEF OriginsInv, AssignedTo
    <3>2. outbox[i].org = org
      BY <1>1, <3>1 DEF OneOrganization
    <3> QED BY <1>1, <3>1, <3>2 DEF Countable
  <2> HIDE DEF assigned
  <2> QED BY <1>2, <2>1, TicketsOfEvents
<1> HIDE DEF new, closed, assigned
<1>6. \A column \in Columns : /\ Total(org, column) = Cardinality(Measured(org, column))
                              /\ Measured(org, column) \subseteq Countable(org, column)
  BY DEF MetricsInv, Measured
<1>7. Total(org, "created") <= Cardinality(Countable(org, "created"))
  BY <1>1, <1>2, <1>6, FS_Subset
<1>8. ASSUME CaughtUp("analytics"), NEW column \in Columns
      PROVE  Total(org, column) = Cardinality(Countable(org, column))
  <2>1. ASSUME NEW i \in Countable(org, column)
        PROVE  <<"analytics", i>> \in applied
    <3>1. i \in DOMAIN outbox /\ outbox[i].key \in Bindings["analytics"]
      BY <1>1, <1>8 DEF Countable, Bindings
    <3> QED BY <1>8, <3>1 DEF CaughtUp, Subscribers
  <2>2. Measured(org, column) = Countable(org, column)
    BY <2>1 DEF Measured
  <2> QED BY <1>6, <2>2
<1>9. /\ Total(org, "created") <= Cardinality(new)
      /\ CaughtUp("analytics") =>
            /\ Total(org, "created") = Cardinality(new)
            /\ Total(org, "closed") >= Cardinality(closed)
            /\ Total(org, "assigned") >= Cardinality(assigned)
  BY <1>1, <1>3, <1>4, <1>5, <1>7, <1>8
<1> QED BY <1>9 DEF new, closed, assigned

(* Nothing is counted at the start, and nothing was created yet.           *)
LEMMA CountsInit == PInit => CreationsInv /\ MetricsInv
<1> SUFFICES ASSUME PInit PROVE CreationsInv /\ MetricsInv
  OBVIOUS
<1>1. /\ tickets = Seed /\ outbox = <<>> /\ DOMAIN outbox = {} /\ applied = {} /\ today = 1
      /\ metrics = [k \in Organizations \X Days |-> NoMetrics]
  BY DEF PInit, Init
<1>2. CreationsInv
  BY <1>1 DEF CreationsInv, Existing
<1>3. today \in Days
  BY <1>1, ProjectionsAssumption DEF Days
<1>4. metrics \in [Organizations \X Days -> MetricRows]
  BY <1>1 DEF NoMetrics, MetricRows
<1>5. ASSUME NEW org \in Organizations, NEW column \in Columns
      PROVE  Total(org, column) = Cardinality(Measured(org, column))
  <2>1. [d \in Days |-> metrics[<<org, d>>][column]] = [d \in Days |-> 0]
    <3>1. NoMetrics[column] = 0
      BY DEF NoMetrics, Columns
    <3>2. \A d \in Days : metrics[<<org, d>>] = NoMetrics
      BY <1>1
    <3> QED BY <3>1, <3>2
  <2>2. Total(org, column) = 0
    BY <2>1, SumOfNone DEF Total
  <2>3. Measured(org, column) = {}
    BY <1>1 DEF Measured, Countable
  <2> QED BY <2>2, <2>3, FS_EmptySet
<1> QED BY <1>2, <1>3, <1>4, <1>5 DEF MetricsInv

(* Events are recorded and counted one by one.                             *)
LEMMA CountsNext ==
    ProjectionsInv /\ CreationsInv /\ MetricsInv /\ [PNext]_<<vars, projections>>
    => CreationsInv' /\ MetricsInv'
<1> SUFFICES ASSUME ProjectionsInv, CreationsInv, MetricsInv, [PNext]_<<vars, projections>>
             PROVE  CreationsInv' /\ MetricsInv'
  OBVIOUS
<1>1. [Next]_vars
  BY DEF PNext, Apply, Midnight
<1>2. Prefix /\ Grows /\ Recorded
  BY <1>1, StepOrigins DEF ProjectionsInv, TicketsInv
<1>3. CreationsInv'
  BY <1>2, CreationsStep DEF ProjectionsInv
<1>4. CASE UNCHANGED projections
  <2>1. AppliedInv /\ UNCHANGED <<metrics, today, applied>> /\ today \in Days
    BY <1>4 DEF projections, ProjectionsInv, MetricsInv
  <2> QED BY <1>2, <1>3, <2>1, MetricsKept
<1>5. ASSUME NEW i \in DOMAIN outbox, NEW c \in Consumers, Apply(c, i)
      PROVE  MetricsInv'
  <2>1. CASE c = "analytics"
    BY <1>5, <2>1, MeasureStep
  <2>2. CASE c # "analytics"
    <3>1. UNCHANGED <<metrics, today>> /\ applied' = applied \cup {<<c, i>>}
      BY <1>5, <2>2, ProjectionsAssumption DEF Apply, Project, Notify, Audit, ConsumerNames
    <3> QED BY <1>2, <2>2, <3>1, MetricsKept DEF ProjectionsInv, MetricsInv
  <2> QED BY <2>1, <2>2
<1>6. CASE Midnight
  <2>1. UNCHANGED <<metrics, applied>> /\ today' \in Days
    BY <1>6, ProjectionsAssumption DEF Midnight, MetricsInv, Days
  <2>2. AppliedInv
    BY DEF ProjectionsInv
  <2> QED BY <1>2, <1>3, <2>1, <2>2, MetricsKept
<1> QED BY <1>3, <1>4, <1>5, <1>6 DEF PNext

(* Each column of the metrics is the number of its events that were        *)
(* consumed, over all days, whatever the order and the day.                *)
THEOREM EventsAreCounted == PSpec => [](CreationsInv /\ MetricsInv)
<1> QED BY CountsInit, CountsNext, ProjectionsAreSound, PTL DEF PSpec

(* analytics.consumer.ts: the metrics never count more tickets than were   *)
(* created, and all of them, with their closings and assignments, once it  *)
(* has caught up.                                                          *)
THEOREM MetricsAreRight == PSpec => []MetricsMatchTickets
<1> QED BY MetricsCount, EventsAreCounted, ProjectionsAreSound, PTL

-----------------------------------------------------------------------------
(* The projections are a delivery.                                         *)

(* What a request records is committed together.                           *)
LEMMA RecordedIsCommitted ==
    ASSUME ProjectionsInv, TicketsInv', Prefix, UNCHANGED applied
    PROVE  [Delivery!Next]_(Delivery!vars)
<1> DEFINE batch == Committed' \ Committed
<1>1. \A i \in DOMAIN outbox : i \in DOMAIN outbox' /\ Entry(i)' = Entry(i)
  BY DEF Prefix, Entry
<1>2. Committed \subseteq Committed'
  BY <1>1 DEF Committed
<1>3. Committed' \subseteq Entries
  <2>1. outbox' \in Seq(DomainEvents)
    BY DEF TicketsInv, TypeOK
  <2>2. \A i \in DOMAIN outbox' : i \in Nat \ {0} /\ outbox'[i] \in DomainEvents
    BY <2>1
  <2>3. \A i \in DOMAIN outbox' : outbox'[i].key \in RoutingKeys
    BY <2>2 DEF DomainEvents
  <2> QED BY <2>2, <2>3 DEF Committed, Entry, Entries
<1>4. Times' = Times
  <2>1. ASSUME NEW c \in Consumers, NEW e \in Entries, <<c, e.place>> \in applied
        PROVE  e \in Committed' <=> e \in Committed
    <3>1. e.place \in DOMAIN outbox
      BY <2>1 DEF ProjectionsInv, AppliedInv
    <3>2. ASSUME e \in Committed'
          PROVE  e \in Committed
      <4>1. PICK i \in DOMAIN outbox' : e = Entry(i)'
        BY <3>2 DEF Committed
      <4>2. e.place = i
        BY <4>1 DEF Entry
      <4> QED BY <1>1, <3>1, <4>1, <4>2 DEF Committed
    <3> QED BY <1>2, <3>2
  <2>2. \A k \in Consumers \X Entries :
           (k[2] \in Committed' /\ <<k[1], k[2].place>> \in applied)
              <=> (k[2] \in Committed /\ <<k[1], k[2].place>> \in applied)
    BY <2>1
  <2> QED BY <2>2 DEF Times
<1>5. Committed' = Committed \cup batch /\ batch \cap Committed = {}
  BY <1>2
<1>6. batch \in SUBSET Entries
  BY <1>3
<1> HIDE DEF batch
<1>7. Delivery!Commit(batch)
  BY <1>4, <1>5 DEF Delivery!Commit
<1> QED BY <1>6, <1>7 DEF Delivery!Next

(* A consumer applies an entry that it subscribed to, for the first time.  *)
LEMMA ApplyIsApply ==
    ASSUME ProjectionsInv, NEW c \in Consumers, NEW i \in DOMAIN outbox, Apply(c, i)
    PROVE  Delivery!Next
<1>1. /\ UNCHANGED outbox /\ <<c, i>> \notin applied /\ applied' = applied \cup {<<c, i>>}
      /\ c \in Subscribers(i)
  BY DEF Apply, vars
<1> DEFINE e == Entry(i)
<1>2. e.place = i /\ e.key = outbox[i].key /\ e \in Committed /\ c \in Wanted(e)
  BY <1>1 DEF Entry, Committed, Subscribers, Wanted
<1>3. e \in Entries
  <2>1. outbox \in Seq(DomainEvents)
    BY DEF ProjectionsInv, TicketsInv, TypeOK
  <2>2. i \in Nat \ {0} /\ outbox[i] \in DomainEvents
    BY <2>1
  <2>3. outbox[i].key \in RoutingKeys
    BY <2>2 DEF DomainEvents
  <2> QED BY <2>2, <2>3 DEF Entry, Entries
<1>4. Committed' = Committed /\ \A d \in Committed : d.place = i => d = e
  BY <1>1 DEF Committed, Entry
<1> HIDE DEF e
<1>5. Times[<<c, e>>] = 0
  BY <1>1, <1>2, <1>3 DEF Times
<1>6. Times' = [Times EXCEPT ![<<c, e>>] = 1]
  <2>1. ASSUME NEW b \in Consumers, NEW d \in Entries
        PROVE  (d \in Committed' /\ <<b, d.place>> \in applied')
                  <=> ((d \in Committed /\ <<b, d.place>> \in applied) \/ (b = c /\ d = e))
    BY <1>1, <1>2, <1>4
  <2>2. \A k \in Consumers \X Entries :
           Times'[k] = IF k = <<c, e>> THEN 1 ELSE Times[k]
    BY <2>1, <1>2, <1>4 DEF Times
  <2>3. /\ Times \in [Consumers \X Entries -> {0, 1}]
        /\ Times' \in [Consumers \X Entries -> {0, 1}]
    BY DEF Times
  <2> HIDE DEF Times
  <2> QED BY <1>3, <2>2, <2>3
<1>7. Delivery!Apply(c, e)
  BY <1>2, <1>4, <1>5, <1>6 DEF Delivery!Apply
<1> QED BY <1>3, <1>7 DEF Delivery!Next

LEMMA DeliveryStep ==
    ProjectionsInv /\ ProjectionsInv' /\ [PNext]_<<vars, projections>>
    => [Delivery!Next]_(Delivery!vars)
<1> SUFFICES ASSUME ProjectionsInv, ProjectionsInv', [PNext]_<<vars, projections>>
             PROVE  [Delivery!Next]_(Delivery!vars)
  OBVIOUS
<1>1. ASSUME NEW i \in DOMAIN outbox, NEW c \in Consumers, Apply(c, i)
      PROVE  Delivery!Next
  BY <1>1, ApplyIsApply
<1>2. CASE UNCHANGED applied
  <2>1. [Next]_vars
    BY DEF PNext, Apply, Midnight
  <2>2. Prefix
    BY <2>1, StepOrigins DEF ProjectionsInv, TicketsInv
  <2>3. TicketsInv'
    BY DEF ProjectionsInv
  <2> QED BY <1>2, <2>2, <2>3, RecordedIsCommitted
<1> QED BY <1>1, <1>2 DEF PNext, Midnight, projections

(* What the three consumers make of the tickets is a behaviour of          *)
(* EventDelivery, which is all they know of the pipeline: an event is      *)
(* applied after its commit, by a subscriber, at most once.                *)
THEOREM ProjectionsImplementDelivery == PSpec => ImplementsDelivery
<1>1. PInit => Delivery!Init
  <2> SUFFICES ASSUME PInit PROVE Delivery!Init
    OBVIOUS
  <2>1. DOMAIN outbox = {}
    BY DEF PInit, Init
  <2>2. Committed = {}
    BY <2>1 DEF Committed
  <2>3. Times = [k \in Consumers \X Entries |-> 0]
    BY <2>2 DEF Times
  <2> QED BY <2>2, <2>3 DEF Delivery!Init
<1> QED
  BY <1>1, DeliveryStep, ProjectionsAreSound, PTL DEF PSpec, ImplementsDelivery, Delivery!Spec
=============================================================================
