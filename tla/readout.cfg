CONSTANTS
  MaxFile = 1
  MaxOpenFailures = 1
  MaxPackets = 2
  MaxCommands = 2
  Expected = {1, 2}
  Exposures = {"none", "short", "long"}
SPECIFICATION Spec
INVARIANTS
  TypeOK
  ThreadOwned
  NothingDropped
  FilesHoldSamples
  NoEarlyEnd
  ExposureUndone
  JoinedOnce
PROPERTY OneRecordingAtATime
CHECK_DEADLOCK FALSE
