SPECIFICATION FairSpec
CONSTANTS
  Commanders = {"loop"}
  MaxCommands = 3
  MaxEvents = 2
PROPERTY ScanEndsAlways
CHECK_DEADLOCK FALSE
