CONSTANTS
  a1 = a1  a2 = a2  t1 = t1  t2 = t2  s1 = s1  s2 = s2  v1 = v1  v2 = v2  n1 = n1
  NoThread = NoThread
  PageSize = 2  U32 = 16  SizeT = 64
  Areas = {a1}
  Sizes = {5}
  Names = {n1}
  Clients = {t1}
  Shrinkers = {s1}
  Cmds = {"PIN", "UNPIN", "STATUS"}
  Offsets = {0, 2, 4, 6}
  Lens = {0, 2}
  RangeIds = {1, 2, 3}
  Vmas = {v1}
  Prots <- MCRead
  ReadImpliesExec = {}
  VmFlagsClear = TRUE
  ScanCounts = {2}
SPECIFICATION Spec
INVARIANTS RangeListsSound LossIsRecorded
 
CHECK_DEADLOCK FALSE
