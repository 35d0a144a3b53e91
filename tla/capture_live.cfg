SPECIFICATION FairSpec
CONSTANTS
  u1 = u1
  t1 = t1
  t2 = t2
  NoTrack = NoTrack
  User = {u1}
  Track = {t1, t2}
  Speaker <- TwoTracks
  MaxRecordings = 1
  MaxEgress = 4
  MaxChain = 1
  MaxPauses = 1
  MaxCrashes = 0
  MaxFaults = 1
  Faults <- Refusals
PROPERTY StopIsProcessed
PROPERTY SpeakerIsCaptured
PROPERTY PauseSilences
CHECK_DEADLOCK FALSE
