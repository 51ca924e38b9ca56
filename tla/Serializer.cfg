\* Three records of up to two bytes; the output buffer and the reference are too
\* small for some of the combinations.
CONSTANTS
  a = a
  b = b
  Bytes = {a, b}
  Unset = Unset
  Null = Null
  Sizes = {0, 1, 2}
  Capacity = 9
  RefSize = 4
  RefSizes = {3, 4}
  CountSize = 2
  MaxCode = 2
  MaxRecords = 3
SPECIFICATION Spec
INVARIANTS TypeOK StayInStep InputBoundsPops SizeIsAccountedFor
PROPERTY ImplementsRecordStream
\* The caller stops when it has pushed and popped its records.
CHECK_DEADLOCK FALSE
