CONSTANTS
  Replies <- ShortReplies
  Lossy <- ReadsAndAnswers
  Starts = {TRUE, FALSE}
  Overtaking = FALSE
  MaxCommands = 2
  MaxLost = 2
  MaxLate = 0
SPECIFICATION FairSpec
INVARIANTS
  TypeOK
  TextGenuine
  AnswersThisCommand
  TextOffered
PROPERTIES
  CommandsExecuted
  CallsReturn
