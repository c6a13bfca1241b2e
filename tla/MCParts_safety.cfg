SPECIFICATION MCSpec
CONSTANTS
  m = m
  a = a
  UNSAVED = UNSAVED
  None = None
  Mounts = {m}
  Names = {a, UNSAVED}
  f1 = f1
  f2 = f2
  f3 = f3
  d1 = d1
  n1 = n1
  n2 = n2
  m1 = m1
  Files = {f1, f2, f3}
  Dirs = {d1}
  Networks = {n1, n2}
  Remotes = {m1}
  Listings <- SomeListings
  MAX_FILE_LIST = 4
  WIFI_SCAN_PICKER_MAX = 2
  MAX_MOUNT_LIST = 1
  CMD_RESULT_LINES = 3
  c1 = c1
  c2 = c2
  c3 = c3
  blanks = blanks
  Empty = Empty
  Commands = {c1, c2, c3}
  Blanks = {blanks, Empty}
  CMD_HISTORY_CAP = 2
  MaxEntered = 4
  Commanders = {"loop", "shortcut"}
  MaxCommands = 3
  MaxFaults = 1
  MaxPackets = 1
  p1 = p1
  p2 = p2
  p3 = p3
  p4 = p4
  Packets = {p1, p2, p3, p4}
  MSH_DUP_CACHE_SIZE = 2
  MSH_DUP_MAX_AGE = 3
  MaxCacheTime = 7
  Bursts <- SomeBursts
  DAY = 5
  INTERVAL = 3
  PROBE = 1
  PROBE_BYTES = 1
  Bauds = 3
  RightBaud = 1
  MaxTime = 14
  MaxLost = 3
  MaxUser = 2
INVARIANTS
  PartsTypeOK
  OpensWhatIsShown
  HistoryIsRecent
  NoTextLost
  UnmodifiedIsStored
  MeshHonest
  CacheIsRecent
  ClockFollows
\* The bounds on commands and on time end a behaviour.
CHECK_DEADLOCK FALSE
