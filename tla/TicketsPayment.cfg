\* One purchase, one webhook and two reservations at a time, over two ticket ids.
SPECIFICATION FairSpec
CONSTANTS
  t1 = t1  t2 = t2  t3 = t3
  u1 = u1  u2 = u2
  b1 = b1  b2 = b2
  s1 = s1  s2 = s2
  Ticket = {t1, t2}
  User = {u1}
  Buyer = {b1}
  Hook = {h1}
  Staff = {s1, s2}
  NoUser = NoUser
  NoTicket = NoTicket
  Limits <- OneOrNoneReserved
  DBFaults = TRUE
  Crashes = TRUE
INVARIANTS
  ReserveBound
  PaidKeepsTicket
  AckedIsConfirmed
PROPERTIES
  SeatPromise
  PurchasesEnd
CHECK_DEADLOCK FALSE
