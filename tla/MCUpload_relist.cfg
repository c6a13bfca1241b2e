SPECIFICATION RelistSpec
CONSTANTS
  f1 = f1
  f2 = f2
  f3 = f3
  Files = {f1, f2, f3}
  Safe = {f1, f2}
  Absent = Absent
  Blocks = 2
  MAX_FILE_LIST = 3
  Faults = {}
  MaxVersion = 2
  MaxUploads = 1
  WireCap = 2
INVARIANT DoneMeansMirrored
CHECK_DEADLOCK FALSE
