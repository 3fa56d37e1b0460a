\* Nested calls among three processes; threads exit and a process dies on the way.
CONSTANTS
  p1 = p1 p2 = p2 p3 = p3 h1 = h1 h2 = h2 h3 = h3
  t1 = t1 t2 = t2 t3 = t3 t4 = t4
  None = None Worker = Worker
  Procs = {p1, p2, p3}
  Threads = {h1, h2, h3}
  ProcOf <- ThreeProcs
  Txns = {t1, t2, t3, t4}
  MaxThreads = 0
  Pool = {}
  Kinds = {"call"}
  Sleepers = {}
  MaxCalls = 3
  Faults = 0
  Mortal = {p1, h2}
SPECIFICATION Spec
SYMMETRY Symm
CHECK_DEADLOCK FALSE
INVARIANTS
  AssertionsHold
  CallerNotForgotten
  ThreadsSound
  NoSleepOverWork
