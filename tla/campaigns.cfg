SPECIFICATION Spec
CONSTANTS
  u1 = u1
  u2 = u2
  u3 = u3
  c1 = c1
  User = {u1, u2, u3}
  Character = {c1}
  NoCharacter = NoCharacter
  Owner <- Owners
  Admin = u1
  Request = {1, 2}
  MaxJoins = 2
  EndsWithLoss = TRUE
  Deployments = {TRUE, FALSE}
INVARIANT RolesAndCharacters
INVARIANT InviteCounts
PROPERTY KeepsPromise
CHECK_DEADLOCK FALSE
