CONSTANTS
  t1 = t1  t2 = t2  t3 = t3  u1 = u1  u2 = u2  None = None
  Word = 2  PageSize = 6  NPages = 3  Header = 1  SizeT = 32
  Txns = {t1}
  Freers = {u1}
  Requests <- MCSizes
  Faults = {"kzalloc", "alloc_page"}
  Reclaim = FALSE
SPECIFICATION Spec
INVARIANTS LayoutSound NoAssertionFails
CHECK_DEADLOCK FALSE
