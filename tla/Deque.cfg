\* Two threads and two items: the count reaches the last value of its width.
\* Both threads keep running.
CONSTANTS
  t1 = t1
  t2 = t2
  a = a
  b = b
  None = None
  Threads = {t1, t2}
  Live = {t1, t2}
  Items = {a, b}
  BatchSizes = {0, 1, 2}
  SizeWords = 3
SPECIFICATION FairSpec
INVARIANTS TypeOK ItemsAreConserved SizeIsCount BarePopsFindAnItem
PROPERTIES ImplementsWorkPool RunningCallsReturn
