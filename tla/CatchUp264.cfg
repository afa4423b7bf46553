\* An H.264 return: a queue of seven, a keyframe every four pictures.
CONSTANTS
  FeedCodecs = {"h264"}
  HighWater = 5
  LowWater = 2
  Gop = 4
  QueueMax = 7
  MaxSets = 1
  DropCap = 12
SPECIFICATION FeedSpec
INVARIANTS CatchUpCostsWhatever
CHECK_DEADLOCK FALSE
