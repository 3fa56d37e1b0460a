CONSTANTS
  a1 = a1  a2 = a2  t1 = t1  t2 = t2  s1 = s1  s2 = s2  p1 = p1  p2 = p2
  NoThread = NoThread
  Areas = {a1}
  Page = {p1, p2}
  Clients = {t1, t2}
  Shrinkers = {s1, s2}
SPECIFICATION Promise
SYMMETRY MCSymmetry
INVARIANT PagesInv
PROPERTY IntactMeansIntact
