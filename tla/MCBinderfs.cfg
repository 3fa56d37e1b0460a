\* Two mounts, one of them outside the initial ipc namespace, with three device slots.
CONSTANTS
  m1 = m1 m2 = m2 x1 = x1 x2 = x2 n1 = n1
  d1 = d1 d2 = d2 d3 = d3
  None = None
  Mounts = {m1, m2}
  Tasks = {x1, x2}
  Names = {n1}
  Slots = {d1, d2, d3}
  InitNs = {m1}
  Defaults <- OneDefault
  MaxMinor = 2
  Reserve = 1
  Options <- OptionStrings
  MaxOpt = 1
  MaxFaults = 1
  MaxOpens = 2
SPECIFICATION Spec
SYMMETRY Symm
CHECK_DEADLOCK FALSE
INVARIANTS
  ReservationsExact
  DeviceRefs
