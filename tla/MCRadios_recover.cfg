SPECIFICATION RadiosSpec
CONSTANTS
  Commanders = {"loop", "shortcut"}
  APs = 2
  MaxCommands = 4
  MaxEvents = 2
  MaxChanges = 2
INVARIANTS
  RadiosTypeOK
  ModemHonest
  FlagsMatch
PROPERTY RadiosRecover
\* The bounds on commands end a behaviour.
CHECK_DEADLOCK FALSE
