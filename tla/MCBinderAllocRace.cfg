CONSTANTS
  t1 = t1  t2 = t2  t3 = t3  u1 = u1  u2 = u2  None = None
  Word = 1  PageSize = 2  NPages = 3  Header = 1  SizeT = 16
  Txns = {t1, t2}
  Freers = {u1, u2}
  Requests <- MCMixed
  Faults = {"copy", "fixup", "put_user", "vm_insert_page", "kzalloc"}
  Reclaim = TRUE
SPECIFICATION FairSpec
INVARIANTS BuffersOwned  LayoutSound
PROPERTY DeadIsReleased
CHECK_DEADLOCK FALSE
