\* The second output loses its peer.
CONSTANTS
  NumOutputs = 2
  PErrsBuffer = 2
  ErrsBuffer = 1
  Ladder = 1
  Stoppers = {"s1"}
SPECIFICATION Spec
PROPERTIES PeerLossIsNotFatal
CHECK_DEADLOCK FALSE
