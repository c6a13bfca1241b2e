SPECIFICATION Spec
CONSTANTS
  loop = loop
  upload = upload
  Tasks = {loop, upload}
  KeyTasks = {loop}
  PickerTasks = {loop}
  ModeTasks = {loop, upload}
  Modes = {"MODE_NOTEPAD", "MODE_COMMAND"}
  NoTask = NoTask
  DisplayTask = DisplayTask
  MaxSessions = 1
INVARIANT NeverBlocksOnDisplay
