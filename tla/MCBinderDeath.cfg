CONSTANTS
  r1 = r1  r2 = r2  t1 = t1  t2 = t2  d1 = d1  d2 = d2  c1 = c1  c2 = c2
  None = None
  Refs = {r1, r2}
  Threads = {t1, t2}
  Loopers = {t1}
  Deaths = {d1, d2}
  Cookies = {c1, c2}
SPECIFICATION FairSpec
INVARIANTS OwnedIffLive AssertionsHold DeathNotMissed NothingLeaks
PROPERTIES AnswersInOrder ClearAnswered
CHECK_DEADLOCK FALSE
