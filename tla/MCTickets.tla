----------------------------- MODULE MCTickets ------------------------------
(***************************************************************************)
(* Small instances of Tickets for TLC: two organizations, a customer and   *)
(* two administrators.                                                     *)
(***************************************************************************)
EXTENDS Tickets, TLC

CONSTANTS acme, globex, carol, ada, gail, t1, t2, t3, s1, s2

\* carol is a customer and ada the admin of acme; gail administers globex.
MCOrgOf == [u \in Users |-> IF u = gail THEN globex ELSE acme]
MCInitialRole ==
    [u \in Users |-> IF u = carol THEN "CUSTOMER" ELSE "ADMIN"]

SeedRow(status) ==
    [reference |-> 1, status |-> status, closedAt |-> FALSE, org |-> acme,
     createdBy |-> carol, assignedTo |-> NoOne]
OpenTicket == [t \in Tickets |-> IF t = t1 THEN SeedRow("OPEN") ELSE NoTicket]
Patch(status, priority) == [status |-> status, priority |-> priority]
Edit(t, status) == [op |-> "update", ticket |-> t, patch |-> Patch(status, FALSE)]
Create == [op |-> "create"]
AssignTo(t, u) == [op |-> "assign", ticket |-> t, assignee |-> u]
ChangeRole(u, role) == [op |-> "user", user |-> u, role |-> role, active |-> "unset"]
Remark(t, internal) == [op |-> "comment", ticket |-> t, internal |-> internal]
SetActive(u, a) == [op |-> "user", user |-> u, role |-> "unset", active |-> a]

\* carol comments on the ticket, opens others and tries what is not for customers; ada
\* edits, closes, reopens and assigns it, and loses her role or account; gail opens
\* tickets of her own and tries to reach the one of acme.
MCCalls ==
    [u \in Users |->
        CASE u = carol -> {Create, Remark(t1, TRUE), AssignTo(t1, ada)}
          [] u = ada   -> {Edit(t1, "CLOSED"), Edit(t1, "OPEN"), Edit(t1, "unset"),
                           AssignTo(t1, ada), AssignTo(t1, gail),
                           ChangeRole(ada, "CUSTOMER"), SetActive(ada, "no")}
          [] u = gail  -> {Create, Edit(t1, "CLOSED"), Remark(t1, TRUE)}]

\* Nobody names a ticket that does not exist yet.
SlotAndTicketSymmetry == Permutations(Slots) \cup Permutations(Tickets \ {t1})
=============================================================================
