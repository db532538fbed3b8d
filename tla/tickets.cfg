\* Two requests at a time from two organizations, staff and customers, up to a second closing.
CONSTANTS
    acme = acme  globex = globex  carol = carol  ada = ada  gail = gail
    t1 = t1  t2 = t2  t3 = t3  s1 = s1  s2 = s2
    Users = {carol, ada, gail}
    Organizations = {acme, globex}
    OrgOf <- MCOrgOf
    InitialRole <- MCInitialRole
    Tickets = {t1,t2,t3}
    Seed <- OpenTicket
    Slots = {s1, s2}
    Calls <- MCCalls
    NoTicket = NoTicket
    NoOne = NoOne
    NoRequest = NoRequest
    MaxEvents = 5
SPECIFICATION Spec
SYMMETRY SlotAndTicketSymmetry
INVARIANTS
    ClosedIsAnnounced
    ClosingsAnnounced
    ReferencesAreContiguous
    OneOrganization
    CustomersKeepToTheirTickets
PROPERTIES
    AssignedToActiveStaff
