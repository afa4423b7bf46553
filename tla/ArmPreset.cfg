\* Two seats and 2 controllers.
CONSTANTS
  Seats = {local, remote}
  MaxCtls = 2
SPECIFICATION Spec
INVARIANTS NoGateToTheOldDesk
CHECK_DEADLOCK FALSE
