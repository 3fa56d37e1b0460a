SPECIFICATION Spec
CONSTANTS
  Ptrs = {p1}
  Mgr = p0
  Nodes = {n1, n2}
  Server = srv
  c1 = c1
  a1 = a1
  Clients = {c1, c2}
  Locals = {s1, s2}
  Senders = {a1}
  Home <- MCHome
  Worker = worker
  Reader = reader
  MaxCount = 1
  MaxCalls = 3
  Mortal = {srv, c2}
  None = None
SYMMETRY Symmetry
INVARIANTS NodesSound  CountsOwned HandlesUnique
PROPERTY AnnouncementsNest
CHECK_DEADLOCK FALSE
