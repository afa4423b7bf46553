\* Capture: two goroutines that call, at most four pipelines and three sessions.
\* Return: two sessions, four addresses dialled.  Picture: two sessions.  Feed:
\* a queue of seven, a keyframe every four pictures.
CONSTANTS
  s1 = s1
  s2 = s2
  Seats = {s1, s2}
  Settings <- MCSettings
  Formats = 2
  MaxPipes = 4
  MaxSessions = 3
  Budgets <- MCBudgets
  RetCallers = {"desk"}
  Quitter = "shutdown"
  Addresses = 2
  RetStates = 3
  RetErrors = 2
  DiagnoseAfter = 2
  MaxReturns = 2
  MaxTries = 4
  RetBudgets <- MCRetBudgets
  PicCallers = {"page"}
  PicAddresses = 1
  PicStates = 3
  MaxPictures = 2
  PicBudgets <- MCPicBudgets
  FeedCodecs = {"h265", "h264"}
  HighWater = 5
  LowWater = 2
  Gop = 4
  QueueMax = 7
  MaxSets = 3
  DropCap = 12
SYMMETRY SeatSymmetry
SPECIFICATION SessionsSpec
INVARIANTS
  SeamIsNeverCut NothingForgotten FeedIsTheSession CallsGoOn
  ReturnIsHonest OverlayIsRight CatchUpIsClean
CHECK_DEADLOCK FALSE
