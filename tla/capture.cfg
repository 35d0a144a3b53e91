SPECIFICATION Spec
CONSTANTS
  u1 = u1
  t1 = t1
  t2 = t2
  NoTrack = NoTrack
  User = {u1}
  Track = {t1}
  Speaker <- OneTrack
  MaxRecordings = 2
  MaxEgress = 3
  MaxChain = 2
  MaxPauses = 1
  MaxCrashes = 1
  MaxFaults = 1
  Faults <- AllFaults
INVARIANT Consent
INVARIANT OneFileAtATime
INVARIANT SilentUnlessRecording
INVARIANT RowsAreTrue
INVARIANT JobCoversFiles
PROPERTY NoFileAfterJob
CHECK_DEADLOCK FALSE
