\* One user on the pages of two tickets, his notifications, and a colleague.
SPECIFICATION Spec
CONSTANTS
  A = A
  B = B
  ana = ana
  bob = bob
  s1 = s1
  s2 = s2
  Tickets = {A, B}
  Statuses = {"OPEN", "IN_PROGRESS"}
  Texts = {"x", "y"}
  Staff = {ana, bob}
  Nobody = Nobody
  Me = ana
  Notes <- TwoNotes
  TicketOf <- OnePerTicket
  CommentLimit = 1
  MenuLimit = 1
  Slots = {s1, s2}
  MaxSteps = 3
  Roles = {"ADMIN", "AGENT", "CUSTOMER"}
  Null = Null
SYMMETRY SlotSymmetry
CHECK_DEADLOCK FALSE
INVARIANTS
  PageIsCurrent
  CommentsInOrder
  BusyEnds
  OneCommentPerDraft
  BadgeIsCurrent
