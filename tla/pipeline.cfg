CONSTANTS
  MaxJobs = 2
  MaxAttempts = 2
  MaxCommands = 1
  MaxFaults = 1
  Faults <- AllFaults
  t1 = t1
  t2 = t2
  w1 = w1
  w2 = w2
  p1 = p1
  NoTrack = NoTrack
  Track = {t1, t2}
  Private = {t2}
  Worker = {w1, w2}
  Operator = {p1}
SPECIFICATION FairSpec
INVARIANTS
  OneActiveJob
  OneWorkerAtATime
  NotTranscribedTwice
  PrivateIsNotHeard
  ProcessedIsComplete
  StatusTellsOutcome
PROPERTIES
  DoneIsFinal
  EveryJobEnds

