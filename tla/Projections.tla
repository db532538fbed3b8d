---------------------------- MODULE Projections -----------------------------
(***************************************************************************)
(* What the three consumers make of the events of Tickets: notifications,  *)
(* the audit trail and the daily metrics.  Their queues, retries and       *)
(* duplicates are EventPipeline's; here an event reaches a consumer as     *)
(* EventDelivery promises, at most once and in any order, whatever has     *)
(* happened to its ticket in the meantime.                                 *)
(***************************************************************************)
EXTENDS Tickets, Bags

CONSTANTS
    Consumers,         \* consumers that are deployed
    MaxDays            \* model bound: UTC days in one behaviour

VARIABLES
    applied,           \* <<consumer, event>> of the processed_events rows
    notifications,     \* rows of notifications
    auditLog,          \* rows of audit_logs, a bag: nothing tells two equal rows apart
    metrics,           \* ticket_metrics_daily, one row per organization and day
    today              \* the UTC day of the worker's clock

projections == <<applied, notifications, auditLog, metrics, today>>

ConsumerNames == {"notification", "audit", "analytics"}
Days == 1 .. MaxDays

ASSUME ProjectionsAssumption == Consumers \subseteq ConsumerNames /\ MaxDays \in Nat \ {0}

(* The audit queue is bound to a list of keys, which misses one.           *)
Bindings_AuditByName ==
    [notification |-> RoutingKeys,
     audit        |-> RoutingKeys \ {"ticket.closed"},
     analytics    |-> {"ticket.created", "ticket.assigned", "ticket.closed"}]

Bindings ==
    [notification |-> RoutingKeys,
     audit        |-> RoutingKeys,
     analytics    |-> {"ticket.created", "ticket.assigned", "ticket.closed"}]

Subscribers(i) == {c \in Consumers : outbox[i].key \in Bindings[c]}

-----------------------------------------------------------------------------

(* The ticket as it is when the event is consumed, not when it happened.   *)
CreatorOf(e) == {tickets[e.ticket].createdBy}

AssigneeOf(e) == {tickets[e.ticket].assignedTo} \ {NoOne}

(* The comment's audience does not depend on isInternal.                   *)
Recipients_InternalIgnored(e) ==
    CASE e.key = "ticket.created"  -> {e.actor}
      [] e.key = "ticket.assigned" -> {e.assignee} \ {e.actor}
      [] OTHER -> (CreatorOf(e) \cup AssigneeOf(e)) \ {e.actor}

(* An assigned ticket is the assignee's business only.                     *)
Recipients_AssigneeFirst(e) ==
    CASE e.key = "ticket.created"  -> {e.actor}
      [] e.key = "ticket.assigned" -> {e.assignee} \ {e.actor}
      [] OTHER -> (IF AssigneeOf(e) # {} THEN AssigneeOf(e)
                   ELSE IF e.internal THEN {} ELSE CreatorOf(e)) \ {e.actor}

(* Who is told of an event.  Nobody is told of what he did himself, except *)
(* of a ticket he opened.                                                  *)
Recipients(e) ==
    CASE e.key = "ticket.created"  -> {e.actor}
      [] e.key = "ticket.assigned" -> {e.assignee} \ {e.actor}
      [] e.key \in {"ticket.updated", "ticket.closed"} ->
            (CreatorOf(e) \cup AssigneeOf(e)) \ {e.actor}
      [] e.key = "comment.created" ->
            ((IF e.internal THEN {} ELSE CreatorOf(e)) \cup AssigneeOf(e)) \ {e.actor}

Notify(i) ==
    /\ notifications' = notifications \cup {[user |-> u, event |-> i] : u \in Recipients(outbox[i])}
    /\ UNCHANGED <<auditLog, metrics>>

(* audit_logs keeps no event id: what a row says is all there is.          *)
Audit(i) ==
    /\ LET e == outbox[i] IN
       auditLog' = auditLog (+) SetToBag(
          {[action |-> e.key, ticket |-> e.ticket, actor |-> e.actor, org |-> e.org]})
    /\ UNCHANGED <<notifications, metrics>>

NoMetrics == [created |-> 0, assigned |-> 0, closed |-> 0]

(* The update branch of the upsert writes ones instead of increments.      *)
Counted_Overwritten(row, key) ==
    CASE key = "ticket.created"  -> [row EXCEPT !.created = 1]
      [] key = "ticket.assigned" -> [row EXCEPT !.assigned = 1]
      [] key = "ticket.closed"   -> [row EXCEPT !.closed = 1]

(* The upsert: a row of ones and zeros, or one column incremented; on the  *)
(* day the event is consumed.                                              *)
Counted(row, key) ==
    CASE key = "ticket.created"  -> [row EXCEPT !.created = @ + 1]
      [] key = "ticket.assigned" -> [row EXCEPT !.assigned = @ + 1]
      [] key = "ticket.closed"   -> [row EXCEPT !.closed = @ + 1]

Measure(i) ==
    /\ metrics' = [metrics EXCEPT ![<<outbox[i].org, today>>] = Counted(@, outbox[i].key)]
    /\ UNCHANGED <<notifications, auditLog>>

Project(c, i) ==
    CASE c = "notification" -> Notify(i)
      [] c = "audit"        -> Audit(i)
      [] c = "analytics"    -> Measure(i)

(* EventDelivery!Apply, with what the consumer does.                       *)
Apply(c, i) ==
    /\ i \in DOMAIN outbox
    /\ c \in Subscribers(i)
    /\ <<c, i>> \notin applied
    /\ applied' = applied \cup {<<c, i>>}
    /\ Project(c, i)
    /\ UNCHANGED <<vars, today>>

Midnight ==
    /\ today < MaxDays
    /\ today' = today + 1
    /\ UNCHANGED <<vars, applied, notifications, auditLog, metrics>>

-----------------------------------------------------------------------------

PInit ==
    /\ Init
    /\ applied = {}
    /\ notifications = {}
    /\ auditLog = EmptyBag
    /\ metrics = [k \in Organizations \X Days |-> NoMetrics]
    /\ today = 1

PNext ==
    \/ Next /\ UNCHANGED projections
    \/ \E i \in DOMAIN outbox, c \in Consumers : Apply(c, i)
    \/ Midnight

PSpec == PInit /\ [][PNext]_<<vars, projections>>

(* The entries of the outbox are the events of EventDelivery.              *)
Entries == [place : Nat \ {0}, key : RoutingKeys]
Entry(i) == [place |-> i, key |-> outbox[i].key]
Committed == {Entry(i) : i \in DOMAIN outbox}
Wanted(e) == {c \in Consumers : e.key \in Bindings[c]}
Times == [k \in Consumers \X Entries |->
             IF k[2] \in Committed /\ <<k[1], k[2].place>> \in applied THEN 1 ELSE 0]

Delivery ==
    INSTANCE EventDelivery
        WITH Events <- Entries, Subscribers <- Wanted, committed <- Committed, times <- Times

(* Nothing happens to the read models that EventDelivery does not promise. *)
ImplementsDelivery == Delivery!Spec

-----------------------------------------------------------------------------

(* Consumer c has caught up with the outbox.                               *)
CaughtUp(c) == c \in Consumers /\ \A i \in DOMAIN outbox : c \in Subscribers(i) => <<c, i>> \in applied

(* "Internal notes stay between staff": someone hears of an internal note  *)
(* only as the assignee of the ticket, so never just for having opened it. *)
InternalNotesGoToAssignees ==
    \A n \in notifications :
        LET e == outbox[n.event] IN
        e.key = "comment.created" /\ e.internal =>
            \/ Seed[e.ticket] # NoTicket /\ Seed[e.ticket].assignedTo = n.user
            \/ \E i \in DOMAIN outbox :
                  /\ outbox[i].key = "ticket.assigned"
                  /\ outbox[i].ticket = e.ticket
                  /\ outbox[i].assignee = n.user

(* Whatever order the events come in, the customer who opened a ticket is  *)
(* told of everything others did to it, except internal notes and          *)
(* assignments, and nobody outside the organization is told anything.      *)
TheRightPeopleAreTold ==
    /\ \A i \in DOMAIN outbox :
          LET e == outbox[i]
              creator == tickets[e.ticket].createdBy
          IN  /\ <<"notification", i>> \in applied
              /\ e.key \in {"ticket.updated", "ticket.closed", "comment.created"}
              /\ ~ e.internal
              /\ e.actor # creator
              => [user |-> creator, event |-> i] \in notifications
    /\ \A n \in notifications : OrgOf[n.user] = outbox[n.event].org

(* Once the audit consumer has caught up, the trail explains the tickets:  *)
(* each has its creation, or was seeded, and a closed one its closing.     *)
AuditExplainsTickets ==
    CaughtUp("audit") =>
        \A t \in Existing :
            LET trail == {row \in BagToSet(auditLog) : row.ticket = t} IN
            /\ \/ Seed[t] # NoTicket
               \/ \E row \in trail :
                     row.action = "ticket.created" /\ row.actor = tickets[t].createdBy
            /\ tickets[t].status = "CLOSED" => \E row \in trail : row.action = "ticket.closed"

(* The sum of what f has for each day.                                     *)
OverAllDays(f) ==
    LET upTo[d \in 0 .. MaxDays] == IF d = 0 THEN 0 ELSE upTo[d - 1] + f[d]
    IN  upTo[MaxDays]

Total(org, column) == OverAllDays([d \in Days |-> metrics[<<org, d>>][column]])

(* Over all days the metrics never count more tickets than were created,   *)
(* and once the analytics consumer has caught up they count exactly those, *)
(* and at least one closing and one assignment for each ticket that is     *)
(* closed or was newly assigned.                                           *)
MetricsMatchTickets ==
    \A org \in Organizations :
        LET mine == {t \in Existing : tickets[t].org = org}
            new == {t \in mine : Seed[t] = NoTicket}
            closed == {t \in mine : tickets[t].status = "CLOSED"}
            assigned == {t \in new : tickets[t].assignedTo # NoOne}
        IN  /\ Total(org, "created") <= Cardinality(new)
            /\ CaughtUp("analytics") =>
                  /\ Total(org, "created") = Cardinality(new)
                  /\ Total(org, "closed") >= Cardinality(closed)
                  /\ Total(org, "assigned") >= Cardinality(assigned)
=============================================================================
