\* t3 may stop for good at any step, t1 and t2 keep running.
CONSTANTS
  t1 = t1
  t2 = t2
  t3 = t3
  a = a
  Junk = Junk
  None = None
  Threads = {t1, t2, t3}
  Live = {t1, t2}
  Items = {a}
  BatchSizes = {2}
  Capacity = 3
  Half = 4
SPECIFICATION FairSpec
PROPERTY RunningPopsReturn
