SPECIFICATION Spec
CONSTANTS
  h1 = h1
  h2 = h2
  r1 = r1
  p1 = p1
  p2 = p2
  Handles <- OneHandle
  Restorers <- OneRestorer
  Pages <- TwoPages
  Modes = {"wal"}
  BackupNames = {"backup"}
  CrashModes = {}
  StraddleModes = {"wal"}
  OvertakeModes = {}
  MaxCommits = 1
  MaxFiles = 6
  MaxAttempts = 2
PROPERTY AtomicDatabase
CHECK_DEADLOCK FALSE
