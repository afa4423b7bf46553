\* The loops: two outputs, nobody calling Stop.  The pipeline's channel holds
\* every error two sinks (two each) and a fatal pipeline (one) can post between
\* two dials; the loops' own channels hold one, so that the fatal error may be
\* dropped.  The channels behind them: both fill up.
CONSTANTS
  NumOutputs = 2
  PErrsBuffer = 5
  ErrsBuffer = 1
  Ladder = 1
  Stoppers = {}
  StatesBuffer = 2
  TaggedBuffer = 1
SPECIFICATION LiveSpec
INVARIANTS CurrentStateIsKept
PROPERTIES NothingIsHeldUp
\* A session ends: nothing follows loopDone.
CHECK_DEADLOCK FALSE
