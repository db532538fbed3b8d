------------------------------ MODULE Tickets -------------------------------
(***************************************************************************)
(* The write side of the API: tickets, comments and user administration    *)
(* (tickets.service.ts, comments.service.ts, users.service.ts) behind the  *)
(* JWT strategy and the roles guard.                                       *)
(*                                                                         *)
(* A request is a process.  It gives way to the others at every await: the *)
(* authentication, each query made before the transaction, the             *)
(* transaction.  Within a transaction the first write locks the row until  *)
(* the commit, so write, events and commit are one step; only `create`     *)
(* reads in its transaction before it writes, and is two.                  *)
(***************************************************************************)
EXTENDS Naturals, FiniteSets, Sequences

CONSTANTS
    Users, Organizations,
    OrgOf,             \* organization of each user: no operation changes it
    InitialRole,       \* role of each user at the start
    Tickets,           \* ticket identifiers
    Seed,              \* tickets in the database at the start (prisma/seed.ts)
    Slots,             \* requests that are served at the same time
    Calls,             \* the calls that each user makes
    NoTicket, NoOne, NoRequest,
    MaxEvents          \* model bound: events recorded in one behaviour

VARIABLES
    users,             \* role and activity of each user
    tickets,           \* the tickets table
    outbox,            \* the event_outbox rows, in the order they were committed
    requests,          \* what each slot serves
    closings,          \* history: times each ticket went from another status to CLOSED
    overtaken          \* history: tickets and users written by one request after
                       \* another had read them and before it wrote

vars == <<users, tickets, outbox, requests, closings, overtaken>>
history == <<closings, overtaken>>

Roles == {"ADMIN", "AGENT", "CUSTOMER"}
Staff == {"ADMIN", "AGENT"}
Statuses == {"OPEN", "IN_PROGRESS", "PENDING", "RESOLVED", "CLOSED"}

(* The body of PATCH /tickets/:id.  Whether it names a priority matters to *)
(* the access control; the other fields matter to nothing that is checked. *)
TicketPatches == [status : Statuses \cup {"unset"}, priority : BOOLEAN]

AllCalls ==
    [op : {"create"}]
    \cup [op : {"update"}, ticket : Tickets, patch : TicketPatches]
    \cup [op : {"assign"}, ticket : Tickets, assignee : Users]
    \cup [op : {"comment"}, ticket : Tickets, internal : BOOLEAN]
    \cup [op : {"user"}, user : Users, role : Roles \cup {"unset"},
          active : {"yes", "no", "unset"}]

Rows ==
    [reference : Nat \ {0}, status : Statuses, closedAt : BOOLEAN, org : Organizations,
     createdBy : Users, assignedTo : Users \cup {NoOne}]

RoutingKeys == {"ticket.created", "ticket.updated", "ticket.assigned",
                "ticket.closed", "comment.created"}

(* A domain event.  `role` is the role its request was authenticated with; *)
(* it is not part of the payload and only properties read it.              *)
DomainEvents ==
    [key : RoutingKeys, ticket : Tickets, org : Organizations, actor : Users, role : Roles,
     assignee : Users \cup {NoOne}, internal : BOOLEAN]

(* A request: the call, the caller as the JWT strategy read it, the next   *)
(* step, the status findOne saw and the number nextReference computed.     *)
InFlight ==
    [call : AllCalls, actor : Users, role : Roles,
     pc : {"count", "find", "assignee", "tx", "conflict"},
     seen : Statuses, number : Nat]

Existing == {t \in Tickets : tickets[t] # NoTicket}

ASSUME TicketsAssumption ==
    /\ OrgOf \in [Users -> Organizations]
    /\ InitialRole \in [Users -> Roles]
    /\ Calls \in [Users -> SUBSET AllCalls]
    /\ MaxEvents \in Nat
    /\ IsFiniteSet(Tickets)
    /\ NoTicket \notin Rows
    /\ NoOne \notin Users
    /\ NoRequest \notin InFlight

(* What the seed writes: numbered from 1, none of them closed, created and *)
(* assigned within one organization.                                       *)
ASSUME SeedAssumption ==
    /\ Seed \in [Tickets -> Rows \cup {NoTicket}]
    /\ LET seeded == {t \in Tickets : Seed[t] # NoTicket} IN
       /\ {Seed[t].reference : t \in seeded} = 1 .. Cardinality(seeded)
       /\ \A t \in seeded :
             /\ Seed[t].status # "CLOSED"
             /\ OrgOf[Seed[t].createdBy] = Seed[t].org
             /\ Seed[t].assignedTo # NoOne => OrgOf[Seed[t].assignedTo] = Seed[t].org

-----------------------------------------------------------------------------

At(s, step) == requests[s] # NoRequest /\ requests[s].pc = step

Serves(s, op, step) == At(s, step) /\ requests[s].call.op = op

Goto(s, step) == requests' = [requests EXCEPT ![s].pc = step]

Reply(s) == requests' = [requests EXCEPT ![s] = NoRequest]

(* @Roles: assigning is for staff, user administration for ADMIN.          *)
Permitted(role, call) ==
    /\ call.op = "assign" => role \in Staff
    /\ call.op = "user" => role = "ADMIN"

FirstStep(call) == IF call.op = "create" THEN "count" ELSE "find"

(* JwtStrategy.validate reads the caller; role and organization stay as    *)
(* read for the rest of the request, whatever happens to the row.  Once    *)
(* MaxEvents events are recorded, only the requests in flight go on.       *)
Arrive(s, u, call) ==
    /\ Len(outbox) < MaxEvents
    /\ requests[s] = NoRequest
    /\ users[u].active
    /\ Permitted(users[u].role, call)
    /\ requests' = [requests EXCEPT ![s] =
          [call |-> call, actor |-> u, role |-> users[u].role,
           pc |-> FirstStep(call), seen |-> "OPEN", number |-> 0]]
    /\ UNCHANGED <<users, tickets, outbox, history>>

(* 401 or 403 before the handler runs.                                     *)
Refuse(u, call) ==
    /\ ~ (users[u].active /\ Permitted(users[u].role, call))
    /\ UNCHANGED vars

(* Any await may throw, and the process may be killed: an open transaction *)
(* rolls back, so the request ends without a trace.                        *)
Fail(s) ==
    /\ requests[s] # NoRequest
    /\ Reply(s)
    /\ UNCHANGED <<users, tickets, outbox, history>>

-----------------------------------------------------------------------------

(* nextReference: the references are counted in the transaction, but under *)
(* READ COMMITTED that locks nothing.                                      *)
Count(s) ==
    /\ At(s, "count")
    /\ requests' = [requests EXCEPT ![s].pc = "tx",
                                    ![s].number = Cardinality(Existing) + 1]
    /\ UNCHANGED <<users, tickets, outbox, history>>

(* The index is missing from the schema.                                   *)
Taken_NotUnique(n) == FALSE

(* The unique index on reference.                                          *)
Taken(n) == \E t \in Existing : tickets[t].reference = n

Record(events) ==
    /\ Len(outbox) + Len(events) <= MaxEvents
    /\ outbox' = outbox \o events

Event(s, key, t) ==
    [key |-> key, ticket |-> t, org |-> tickets[t].org, actor |-> requests[s].actor,
     role |-> requests[s].role, assignee |-> NoOne, internal |-> FALSE]

(* The new row takes the caller's organization, and status OPEN from the   *)
(* column's default.                                                       *)
Insert(s, t) ==
    /\ Serves(s, "create", "tx")
    /\ tickets[t] = NoTicket
    /\ ~ Taken(requests[s].number)
    /\ tickets' = [tickets EXCEPT ![t] =
          [reference |-> requests[s].number, status |-> "OPEN", closedAt |-> FALSE,
           org |-> OrgOf[requests[s].actor], createdBy |-> requests[s].actor,
           assignedTo |-> NoOne]]
    /\ Record(<<[key |-> "ticket.created", ticket |-> t, org |-> OrgOf[requests[s].actor],
                 actor |-> requests[s].actor, role |-> requests[s].role,
                 assignee |-> NoOne, internal |-> FALSE]>>)
    /\ Reply(s)
    /\ UNCHANGED <<users, history>>

(* P2002: the exception filter answers 409.                                *)
Conflict(s) ==
    /\ Serves(s, "create", "tx")
    /\ Taken(requests[s].number)
    /\ Goto(s, "conflict")
    /\ UNCHANGED <<users, tickets, outbox, history>>

Conflicted(s) ==
    /\ At(s, "conflict")
    /\ Reply(s)
    /\ UNCHANGED <<users, tickets, outbox, history>>

-----------------------------------------------------------------------------

(* findOne forgets that a customer only reaches his own tickets.           *)
Reaches_AnyCustomer(u, role, t) == t \in Existing /\ tickets[t].org = OrgOf[u]

(* findOne: tickets of another organization do not exist, and a customer   *)
(* only reaches the tickets he opened.                                     *)
Reaches(u, role, t) ==
    /\ t \in Existing
    /\ tickets[t].org = OrgOf[u]
    /\ role = "CUSTOMER" => tickets[t].createdBy = u

(* What update refuses to a customer.                                      *)
CustomerMay(patch) == patch.status = "unset" /\ ~ patch.priority

Allowed(r) ==
    /\ Reaches(r.actor, r.role, r.call.ticket)
    /\ r.call.op = "update" /\ r.role = "CUSTOMER" => CustomerMay(r.call.patch)

(* The lookup every ticket operation starts with, and the access control.  *)
Find(s) ==
    /\ At(s, "find")
    /\ requests[s].call.op \in {"update", "assign", "comment"}
    /\ IF Allowed(requests[s])
       THEN requests' = [requests EXCEPT
               ![s].pc = IF requests[s].call.op = "assign" THEN "assignee" ELSE "tx",
               ![s].seen = tickets[requests[s].call.ticket].status]
       ELSE Reply(s)
    /\ UNCHANGED <<users, tickets, outbox, history>>

(* Requests that have looked ticket t up and are about to write it.        *)
Readers(s, t) ==
    {r \in Slots \ {s} : /\ At(r, "tx") \/ At(r, "assignee")
                         /\ requests[r].call.op \in {"update", "assign"}
                         /\ requests[r].call.ticket = t}

Overtake(x, readers) == overtaken' = IF readers = {} THEN overtaken ELSE overtaken \cup {x}

(* Only resolved tickets are taken for open ones.                          *)
WillClose_FromResolved(r) == r.call.patch.status = "CLOSED" /\ r.seen = "RESOLVED"

(* A ticket is announced the first time it closes.                         *)
WillClose_FirstTime(r) ==
    r.call.patch.status = "CLOSED" /\ ~ tickets[r.call.ticket].closedAt

(* willClose compares with the status that findOne saw.                    *)
WillClose(r) == r.call.patch.status = "CLOSED" /\ r.seen # "CLOSED"

(* A field the body does not name keeps its value.                         *)
Patched(row, patch, closing) ==
    [row EXCEPT !.status = IF patch.status = "unset" THEN @ ELSE patch.status,
                !.closedAt = @ \/ closing]

Update(s) ==
    /\ Serves(s, "update", "tx")
    /\ LET r == requests[s]
           t == r.call.ticket
           row == Patched(tickets[t], r.call.patch, WillClose(r))
       IN
       /\ tickets' = [tickets EXCEPT ![t] = row]
       /\ Record(<<Event(s, "ticket.updated", t)>>
                 \o IF WillClose(r) THEN <<Event(s, "ticket.closed", t)>> ELSE <<>>)
       /\ closings' = [closings EXCEPT ![t] =
             IF tickets[t].status # "CLOSED" /\ row.status = "CLOSED" THEN @ + 1 ELSE @]
       /\ Overtake(t, Readers(s, t))
    /\ Reply(s)
    /\ UNCHANGED users

-----------------------------------------------------------------------------

(* The lookup of the assignee forgets the organization.                    *)
Eligible_AnyOrganization(u, org) == users[u].active /\ users[u].role \in Staff

(* ... or whether the account is still active.                             *)
Eligible_Inactive(u, org) == OrgOf[u] = org /\ users[u].role \in Staff

(* Who a ticket can be assigned to: active staff of the caller's organization. *)
Eligible(u, org) ==
    /\ OrgOf[u] = org
    /\ users[u].active
    /\ users[u].role \in Staff

CheckAssignee(s) ==
    /\ At(s, "assignee")
    /\ LET r == requests[s] IN
       IF Eligible(r.call.assignee, OrgOf[r.actor]) THEN Goto(s, "tx") ELSE Reply(s)
    /\ UNCHANGED <<users, tickets, outbox, history>>

(* Assigning puts the ticket in progress whatever its status was, also     *)
(* from CLOSED, and leaves closedAt.                                       *)
AssignedRow(row, u) == [row EXCEPT !.assignedTo = u, !.status = "IN_PROGRESS"]

Assign(s) ==
    /\ Serves(s, "assign", "tx")
    /\ LET t == requests[s].call.ticket
           u == requests[s].call.assignee
       IN
       /\ tickets' = [tickets EXCEPT ![t] = AssignedRow(@, u)]
       /\ Record(<<[Event(s, "ticket.assigned", t) EXCEPT !.assignee = u]>>)
    /\ Overtake(requests[s].call.ticket, Readers(s, requests[s].call.ticket))
    /\ Reply(s)
    /\ UNCHANGED <<users, closings>>

(* Customers cannot write internal notes; the flag is dropped, not refused. *)
Internal(r) == r.role # "CUSTOMER" /\ r.call.internal

AddComment(s) ==
    /\ Serves(s, "comment", "tx")
    /\ LET r == requests[s]
           t == r.call.ticket
       IN Record(<<[Event(s, "comment.created", t) EXCEPT
                       !.org = OrgOf[r.actor], !.internal = Internal(r)]>>)
    /\ Reply(s)
    /\ UNCHANGED <<users, tickets, history>>

-----------------------------------------------------------------------------

(* users.service: findOne in the caller's organization, then the update.   *)
FindUser(s) ==
    /\ Serves(s, "user", "find")
    /\ IF OrgOf[requests[s].call.user] = OrgOf[requests[s].actor]
       THEN Goto(s, "tx")
       ELSE Reply(s)
    /\ UNCHANGED <<users, tickets, outbox, history>>

(* PATCH and DELETE /users/:id: role and activity, each only when named.   *)
ChangeUser(s) ==
    /\ Serves(s, "user", "tx")
    /\ LET c == requests[s].call IN
       users' = [users EXCEPT
          ![c.user].role = IF c.role = "unset" THEN @ ELSE c.role,
          ![c.user].active = IF c.active = "unset" THEN @ ELSE c.active = "yes"]
    /\ Overtake(requests[s].call.user,
                {r \in Slots : Serves(r, "assign", "tx")
                               /\ requests[r].call.assignee = requests[s].call.user})
    /\ Reply(s)
    /\ UNCHANGED <<tickets, outbox, closings>>

-----------------------------------------------------------------------------

Init ==
    /\ users = [u \in Users |-> [role |-> InitialRole[u], active |-> TRUE]]
    /\ tickets = Seed
    /\ outbox = <<>>
    /\ requests = [s \in Slots |-> NoRequest]
    /\ closings = [t \in Tickets |-> 0]
    /\ overtaken = {}

Step(s) ==
    \/ Count(s)
    \/ \E t \in Tickets : Insert(s, t)
    \/ Conflict(s)
    \/ Conflicted(s)
    \/ Find(s)
    \/ Update(s)
    \/ CheckAssignee(s)
    \/ Assign(s)
    \/ AddComment(s)
    \/ FindUser(s)
    \/ ChangeUser(s)
    \/ Fail(s)

Next ==
    \/ \E u \in Users : \E c \in Calls[u] : Refuse(u, c) \/ \E s \in Slots : Arrive(s, u, c)
    \/ \E s \in Slots : Step(s)

Spec == Init /\ [][Next]_vars

-----------------------------------------------------------------------------

TypeOK ==
    /\ users \in [Users -> [role : Roles, active : BOOLEAN]]
    /\ tickets \in [Tickets -> Rows \cup {NoTicket}]
    /\ outbox \in Seq(DomainEvents)
    /\ requests \in [Slots -> InFlight \cup {NoRequest}]
    /\ closings \in [Tickets -> Nat]
    /\ overtaken \subseteq Tickets \cup Users

Announced(t) ==
    {i \in DOMAIN outbox : outbox[i].key = "ticket.closed" /\ outbox[i].ticket = t}

(* However updates, reopenings and assignments interleave, a ticket that   *)
(* is CLOSED has its closedAt, and some ticket.closed event has told the   *)
(* consumers.                                                              *)
ClosedIsAnnounced ==
    \A t \in Existing :
        tickets[t].status = "CLOSED" => tickets[t].closedAt /\ Announced(t) # {}

(* One ticket.closed event for each time a ticket goes to CLOSED, which is *)
(* what the analytics count, as long as nobody writes the ticket between   *)
(* the lookup and the write of somebody else: two concurrent closings      *)
(* announce one closing twice, and one that read the ticket before it was  *)
(* reopened announces nothing.                                             *)
ClosingsAnnounced ==
    \A t \in Tickets \ overtaken : Cardinality(Announced(t)) = closings[t]

(* No request reaches across organizations: an event belongs to the        *)
(* organization of its ticket and of its actor, and so does an assignee.   *)
OneOrganization ==
    /\ \A i \in DOMAIN outbox :
          LET e == outbox[i] IN
          /\ OrgOf[e.actor] = e.org
          /\ e.ticket \in Existing /\ tickets[e.ticket].org = e.org
    /\ \A t \in Existing :
          tickets[t].assignedTo # NoOne => OrgOf[tickets[t].assignedTo] = tickets[t].org

(* What is done with the authority of a customer concerns his own tickets. *)
CustomersKeepToTheirTickets ==
    \A i \in DOMAIN outbox :
        outbox[i].role = "CUSTOMER" =>
            tickets[outbox[i].ticket].createdBy = outbox[i].actor

(* References number the tickets 1, 2, 3, ... without gaps or repetition,  *)
(* however creations race: a number computed from a stale count is taken.  *)
ReferencesAreContiguous ==
    {tickets[t].reference : t \in Existing} = 1 .. Cardinality(Existing)

(* Only active staff of its organization is given a ticket, unless his     *)
(* account is changed after assign has looked at it.                       *)
AssignedToActiveStaff ==
    [][\A t \in Tickets :
          tickets'[t] # NoTicket /\ tickets'[t].assignedTo # NoOne
          /\ (t \in Existing => tickets'[t].assignedTo # tickets[t].assignedTo)
          => LET u == tickets'[t].assignedTo IN
             \/ users[u].active /\ users[u].role \in Staff /\ OrgOf[u] = tickets'[t].org
             \/ u \in overtaken]_vars
=============================================================================
