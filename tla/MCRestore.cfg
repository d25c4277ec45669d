SPECIFICATION FairSpec
CONSTANTS
  h1 = h1
  h2 = h2
  r1 = r1
  p1 = p1
  p2 = p2
  Handles <- TwoHandles
  Restorers <- OneRestorer
  Pages <- TwoPages
  Modes = {"wal", "rollback"}
  BackupNames = {"backup", "snapshot"}
  CrashModes = {"rollback"}
  StraddleModes = {"rollback"}
  OvertakeModes = {"rollback"}
  MaxCommits = 2
  MaxFiles = 4
  MaxAttempts = 2
INVARIANTS OnlyGoodInstalled
PROPERTIES AtomicDatabase BackupHoldsReplaced LogUsersExcluded SnapshotsAreCurrent RestoreReturns
CHECK_DEADLOCK FALSE
