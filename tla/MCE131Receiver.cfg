CONSTANTS
  Source = {s1, s2}
  NoSource = nobody
  Priority = {1, 2}
  SyncAddress = {a1, a2}
  NoSync = unsynced
  Universe = {u0, u1}
  Black = black
  Old = old
  Timeout = 2
  MaxGap = 2
  ClockMod = 5
SPECIFICATION Spec
INVARIANTS WholeFrames BlackoutInTime
PROPERTIES NoEarlyBlackout SyncedOnSync LockExpires
