\* Two presses by a seat and the desk, queues of two, one call in flight of three,
\* and three generations of the listener.
CONSTANTS
  Desk = desk
  Remote = {r1}
  MaxPresses = 2
  MaxMuteCalls = 3
  MaxCaps = 2
  MaxPolls = 2
  Topics = {"status", "meters"}
  PumpDepth = 2
  SeatDepth = 2
  MaxEvents = 3
  MaxInFlight = 1
  MaxSeatCalls = 3
  Callers = {"startup", "settings"}
  MaxGens = 3
SPECIFICATION Spec
INVARIANTS TypesOK LastPressWins GapIsSeen NoOrphanListener
PROPERTIES HeldMuteIsReleased SeatIsServed StopReturns
CHECK_DEADLOCK FALSE
