CONSTANTS
  a1 = a1  a2 = a2  t1 = t1  t2 = t2  s1 = s1  s2 = s2  v1 = v1  v2 = v2  n1 = n1
  NoThread = NoThread
  PageSize = 2  U32 = 16  SizeT = 64
  Areas = {a1}
  Sizes = {2}
  Names = {}
  Clients = {t1, t2}
  Shrinkers = {s1, s2}
  Cmds = {"PIN", "UNPIN"}
  Offsets = {0}
  Lens = {0}
  RangeIds = {1, 2, 3}
  Vmas = {v1}
  Prots <- MCRead
  ReadImpliesExec = {}
  VmFlagsClear = TRUE
  ScanCounts = {2}
SPECIFICATION FairSpec
INVARIANTS FilesSound PunchOnlyUnpinned
PROPERTIES PinReportsLoss PinReturns
CHECK_DEADLOCK FALSE
