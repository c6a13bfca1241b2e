SPECIFICATION MCSpec
CONSTANTS
  f1 = f1
  f2 = f2
  f3 = f3
  Files = {f1, f2, f3}
  Safe = {f1, f2}
  Absent = Absent
  Blocks = 2
  MAX_FILE_LIST = 3
  Faults = {"link", "open", "list", "disk", "save", "overwrite"}
  MaxVersion = 2
  MaxUploads = 1
  WireCap = 1
  Short <- Unchanged
  DownFaults = {"link", "host", "card"}
  MaxDownloads = 2
  DownWireCap = 2
  t1 = t1
  t2 = t2
  Transfers = {t1, t2}
  None = None
  SHORTCUT_MAX_STEPS = 2
  MaxCommands = 2
INVARIANTS
  TransfersTypeOK
  NoTornFile
  DoneIsMirrored
  FlagsHonest
PROPERTIES
  PrunesExtrasOnly
  WaitedIsOver
  TransfersEnd
CHECK_DEADLOCK FALSE
