\* Two outputs, channels of one entry each, one rung and one caller of Stop.
CONSTANTS
  NumOutputs = 2
  PErrsBuffer = 1
  ErrsBuffer = 1
  Ladder = 1
  Stoppers = {"s1"}
SPECIFICATION FairSpec
INVARIANTS NothingLeftRunning NeverStopsSilently
PROPERTIES OnlyRealLossEndsAConnection ImplementsSenderSpec StopCompletes
\* A session ends: nothing follows the return of Stop.
CHECK_DEADLOCK FALSE
