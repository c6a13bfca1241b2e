SPECIFICATION FairSpec
CONSTANTS
  upload = upload
  r1 = r1
  r2 = r2
  c1 = c1
  Loop = Loop
  Execs = {upload}
  Receivers = {r1, r2}
  Connects = {c1}
  None = None
  Dead = Dead
  UserDoes = {"key", "dc"}
  Faults = {"drop", "refuse"}
  MaxFailures = 1
  MaxStarts = 2
INVARIANTS
  TypeOK
  ShellIsHeard
PROPERTIES
  ExecEnds
  Reconnects
CHECK_DEADLOCK FALSE
