\* Two requests at a time, one name registered up to twice, one reset token.
SPECIFICATION FairSpec
CONSTANTS
  Request = {r1, r2}
  Name = {n1}
  Email <- OneAddress
  MaxUsers = 2
  MaxResets = 1
INVARIANTS
  InactiveHasLink
  SessionKeepsAccount
  BanEndsSessions
 
CHECK_DEADLOCK FALSE
