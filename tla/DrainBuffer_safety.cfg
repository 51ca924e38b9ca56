\* Three threads, one element short of carrying the 2-bit claim halves.  Two
\* values, so that a wrong slot shows, and the empty batch.
CONSTANTS
  t1 = t1
  t2 = t2
  t3 = t3
  a = a
  b = b
  Junk = Junk
  None = None
  Threads = {t1, t2, t3}
  Live = {}
  Items = {a, b}
  BatchSizes = {0, 2}
  Capacity = 3
  Half = 4
SYMMETRY ThreadSymmetry
SPECIFICATION Spec
INVARIANTS TypeOK ClaimsDisjoint DeliveredOnce CountersMeet SizeIsUpperBound
PROPERTIES CountersGrow ImplementsWorkPool
