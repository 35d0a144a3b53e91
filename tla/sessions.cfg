SPECIFICATION FairSpec
CONSTANTS
  u1 = u1
  s1 = s1
  s2 = s2
  NoSession = NoSession
  User = {u1}
  Session = {s1, s2}
  UserOf <- Owners
  Request = {1}
  MaxConns = 2
INVARIANT SignOutIsPrompt
PROPERTY DeadForGood
PROPERTY DeadIsDropped
CHECK_DEADLOCK FALSE
