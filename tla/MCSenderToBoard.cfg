CONSTANTS
  Args <- MCArgs
  Slots = 6
  FirstUniverse = 1
  DefaultSync = 7
  SequenceMod = 4
  MaxTime = 4
  MaxFrames = 3
  Old = old
  None = none
  MaxLost = 1
  MaxDuplicated = 1
  MaxLate = 1
  MaxBlackouts = 1
  MaxRefused = 1
SPECIFICATION MCSpec
INVARIANTS PacketsAreRight ReceivedIsShown TornByFewSweeps
PROPERTIES Punctual SyncShowsWholeSweep
CHECK_DEADLOCK FALSE
