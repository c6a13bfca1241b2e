SPECIFICATION FairSpec
CONSTANTS
  loop = loop
  upload = upload
  Tasks = {loop, upload}
  KeyTasks = {loop}
  PickerTasks = {loop}
  ModeTasks = {loop}
  Modes = {"MODE_NOTEPAD", "MODE_TERMINAL", "MODE_COMMAND"}
  NoTask = NoTask
  DisplayTask = DisplayTask
  MaxSessions = 1
INVARIANTS
  TypeOK
  InterferenceBounded
PROPERTIES
  NeverEntersMidRefresh
  ChangeIsDrawn
  ModeShown
  SdEventuallyGranted
CHECK_DEADLOCK FALSE
