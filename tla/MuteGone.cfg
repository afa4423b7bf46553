\* The mute alone.
CONSTANTS
  Desk = desk
  Remote = {r1}
  MaxPresses = 2
  MaxMuteCalls = 3
  MaxCaps = 1
  MaxPolls = 1
  Topics = {"status"}
  PumpDepth = 1
  SeatDepth = 1
  MaxEvents = 0
  MaxInFlight = 1
  MaxSeatCalls = 0
  Callers = {}
  MaxGens = 0
SPECIFICATION Spec
PROPERTIES GoneSeatIsReleased
CHECK_DEADLOCK FALSE
