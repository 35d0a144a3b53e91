SPECIFICATION Spec
CONSTANTS
  u1 = u1
  u2 = u2
  k1 = k1
  k2 = k2
  k3 = k3
  User = {u1, u2}
  Conn = {k1, k2, k3}
  Of <- Owners
  MaxQueued = 1
  MaxFrames = 4
  MaxFaults = 1
SYMMETRY Devices
INVARIANT HearersAreOnline
INVARIANT NoStaleVoice
INVARIANT ViewIsTrue
CHECK_DEADLOCK FALSE
