CONSTANTS
  Replies <- ShortReplies
  Lossy <- NothingLost
  Starts = {FALSE}
  Overtaking = FALSE
  MaxCommands = 1
  MaxLost = 0
  MaxLate = 1
SPECIFICATION Spec
INVARIANT TextGenuine
