SPECIFICATION FairSpec
CONSTANTS
  c1 = c1
  c2 = c2
  Client = {c1, c2}
  Talker = {c1}
  Deployments = {FALSE, TRUE}
  MaxEvents = 1
  MaxRecent = 1
  MaxConns = 3
  MaxMessages = 1
  MaxMishaps <- Mishaps
PROPERTY CatchesUp
CHECK_DEADLOCK FALSE
