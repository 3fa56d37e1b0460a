\* Up to four objects, deep enough for a parent, two children and a grandchild.
CONSTANTS
  None = None  Own = Own
  MaxObjs = 4
  Extra = 10
  Ptr = 2
  Lens = {2, 4}
  Offs = {0, 1, 2}
  NumFds = {0, 1, 2}
  Flat = {"weak_binder", "handle"}
  Fds = {0, 1, 2}
  SentFds = {0, 1}
  MaxOpens = 1
  MaxSkips = 1
SPECIFICATION Spec
INVARIANTS FixupsDisjoint FilesBalanced BufferGivesBack
PROPERTY ClosesOnlyItsOwn
CHECK_DEADLOCK FALSE
