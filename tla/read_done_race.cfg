CONSTANTS
  Replies <- ShortReplies
  Lossy <- NothingLost
  Starts = {TRUE}
  Overtaking = TRUE
  MaxCommands = 1
  MaxLost = 0
  MaxLate = 0
SPECIFICATION FairSpec
PROPERTY CallsReturn
