SPECIFICATION Spec
CONSTANTS
  c1 = c1
  c2 = c2
  Client = {c1, c2}
  Talker = {c2}
  Deployments = {FALSE, TRUE}
  MaxEvents = 1
  MaxRecent = 1
  MaxConns = 3
  MaxMessages = 2
  MaxMishaps <- Mishaps
INVARIANT NothingSkipped
INVARIANT HeardOnce
PROPERTY CursorNeverRewinds
CHECK_DEADLOCK FALSE
