\* Requests served one at a time, their events consumed in every order, over two days.
CONSTANTS
    acme = acme  carol = carol  andy = andy  ada = ada  t1 = t1  t2 = t2  t3 = t3  s1 = s1  s2 = s2
    Users = {carol, andy, ada}
    Organizations = {acme}
    OrgOf <- MCOrgOf
    InitialRole <- MCInitialRole
    Tickets = {t1, t2, t3}
    Seed <- OpenTicket
    Slots = {s1}
    Calls <- MCCalls
    NoTicket = NoTicket
    NoOne = NoOne
    NoRequest = NoRequest
    MaxEvents = 3
    Consumers = {"notification", "audit", "analytics"}
    MaxDays = 2
SPECIFICATION PSpec
SYMMETRY NewTickets
INVARIANTS
    InternalNotesGoToAssignees
    TheRightPeopleAreTold
    AuditExplainsTickets
    MetricsMatchTickets
