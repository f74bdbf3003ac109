CONSTANTS
  MaxFile = 1
  MaxOpenFailures = 0
  MaxPackets = 1
  MaxCommands = 2
  Expected = {1}
  Exposures = {"none", "long"}
SPECIFICATION Spec
INVARIANT ReadoutVoltagesRestored
CHECK_DEADLOCK FALSE
