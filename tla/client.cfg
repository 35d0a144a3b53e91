SPECIFICATION FairClientSpec
CONSTANTS
  MaxRecordings = 2
  MaxPauses = 1
  MaxMishaps = 2
  Campaign = {a, b}
  MaxCommands = 3
  MaxFaults = 2
  MaxExponent = 2
  MaxChanges = 3
  MaxLosses = 1
INVARIANT AckedIsHeard
INVARIANT EveryoneIsAsked
INVARIANT IndicatorIsTrue
INVARIANT GateIsLetGo
INVARIANT FollowsTheApp
INVARIANT AppKnows
INVARIANT MicFollows
PROPERTY IsResumed
CHECK_DEADLOCK FALSE
