CONSTANTS
  MaxFile = 1
  MaxOpenFailures = 1
  MaxPackets = 1
  MaxCommands = 2
  Expected = {1}
  Exposures = {"none"}
SPECIFICATION Spec
INVARIANT RefusedMeansNothingDone
CHECK_DEADLOCK FALSE
