SPECIFICATION MCSpec
CONSTANTS
  Packet <- MCPacket
  NoPacket = NoPacket
  Depth = 3
  CounterMod = 4
  Rounds = 2
  DrainPerRound = 1
  Timeout = 2
  MaxGap = 1
  ClockMod = 4
  MaxInput = 2
INVARIANTS ReservationSafe
PROPERTIES FifoSpec BacklogIsTimely
