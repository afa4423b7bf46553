\* Two batches of two, a Close at any point, and a network that loses one
\* connection, two more being left for the Send whose context may end.
CONSTANTS
  Senders = {s1, s2}
  Impatient = {s1}
  BatchLen = 2
  Closers = {c1}
  MaxDials = 4
  Spare = 2
SPECIFICATION FairSpec
INVARIANTS BatchesDoNotInterleave WrittenIsWhatWasWritten CloseLeavesNothing
PROPERTIES CallsReturn
CHECK_DEADLOCK FALSE
