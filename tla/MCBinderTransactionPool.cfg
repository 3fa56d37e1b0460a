\* One-way transactions and calls to a process with two threads, one of them spawned on
\* request; operations fail, threads exit and the process dies on the way.
CONSTANTS
  p1 = p1 p2 = p2 p3 = p3 h1 = h1 h2 = h2 h3 = h3
  t1 = t1 t2 = t2 t3 = t3 t4 = t4
  None = None Worker = Worker
  Procs = {p1, p2}
  Threads = {h1, h2, h3}
  ProcOf <- TwoProcs
  Txns = {t1, t2, t3}
  MaxThreads = 1
  Pool = {h3}
  Kinds = {"call", "async"}
  Sleepers = {h2, h3}
  MaxCalls = 2
  Faults = 1
  Mortal = {p2, h3}
SPECIFICATION Spec
SYMMETRY Symm
CHECK_DEADLOCK FALSE
INVARIANTS
  AsyncTurnExact
  PoolSound
