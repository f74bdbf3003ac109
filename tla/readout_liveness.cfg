CONSTANTS
  MaxFile = 1
  MaxOpenFailures = 1
  MaxPackets = 1
  MaxCommands = 2
  Expected = {1}
  Exposures = {"none", "long"}
SPECIFICATION FairSpec
PROPERTIES
  CommandsEnd
  ClientsServed
CHECK_DEADLOCK FALSE
