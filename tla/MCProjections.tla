--------------------------- MODULE MCProjections ----------------------------
(***************************************************************************)
(* Small instances of Projections for TLC: an organization with a customer,*)
(* an agent and an admin, whose requests are served one at a time.         *)
(***************************************************************************)
EXTENDS Projections, TLC

CONSTANTS acme, carol, andy, ada, t1, t2, t3, s1, s2

MCOrgOf == [u \in Users |-> acme]
MCInitialRole ==
    [u \in Users |-> IF u = carol THEN "CUSTOMER" ELSE IF u = andy THEN "AGENT" ELSE "ADMIN"]

OpenTicket ==
    [t \in Tickets |->
        IF t = t1
        THEN [reference |-> 1, status |-> "OPEN", closedAt |-> FALSE, org |-> acme,
              createdBy |-> carol, assignedTo |-> NoOne]
        ELSE NoTicket]

Edit(t, status) ==
    [op |-> "update", ticket |-> t, patch |-> [status |-> status, priority |-> FALSE]]
AssignTo(t, u) == [op |-> "assign", ticket |-> t, assignee |-> u]
Remark(t, internal) == [op |-> "comment", ticket |-> t, internal |-> internal]

\* One ticket is discussed, edited, assigned to either, closed and reopened, another is created, by
\* anybody.
MCCalls ==
    [u \in Users |->
        {[op |-> "create"], Edit(t1, "CLOSED"), Edit(t1, "OPEN"), Edit(t1, "unset"),
         AssignTo(t1, ada), AssignTo(t1, andy), Remark(t1, TRUE)}]

\* Nobody names a ticket that does not exist yet.
NewTickets == Permutations(Tickets \ {t1})
=============================================================================
