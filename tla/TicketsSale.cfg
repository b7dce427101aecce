\* Two purchases at a time, for one seat on sale and one kept for staff.
SPECIFICATION Spec
CONSTANTS
  t1 = t1  t2 = t2  t3 = t3
  u1 = u1  u2 = u2
  b1 = b1  b2 = b2
  s1 = s1  s2 = s2
  Ticket = {t1, t2, t3}
  User = {u1, u2}
  Buyer = {b1, b2}
  Hook = {}
  Staff = {}
  NoUser = NoUser
  NoTicket = NoTicket
  Limits <- OneSeatEach
  DBFaults = FALSE
  Crashes = FALSE
SYMMETRY Symmetry
INVARIANT SaleBound
CHECK_DEADLOCK FALSE
