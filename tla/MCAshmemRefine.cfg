CONSTANTS
  a1 = a1  a2 = a2  t1 = t1  t2 = t2  s1 = s1  s2 = s2  v1 = v1  v2 = v2  n1 = n1
  NoThread = NoThread
  PageSize = 2  U32 = 8  SizeT = 64
  Areas = {a1}
  Sizes = {3}
  Names = {}
  Clients = {t1}
  Shrinkers = {s1, s2}
  Cmds = {"PIN", "UNPIN"}
  Offsets = {0, 2}
  Lens = {0, 2}
  RangeIds = {1, 2, 3}
  Vmas = {v1}
  Prots <- MCFewProts
  ReadImpliesExec = {FALSE}
  VmFlagsClear = TRUE
  ScanCounts = {2}
SPECIFICATION Spec
SYMMETRY MCSymmetry
 
PROPERTY ImplementsPages
CHECK_DEADLOCK FALSE
