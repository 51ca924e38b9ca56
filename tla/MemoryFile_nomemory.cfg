\* Memory may run out.
CONSTANTS
  Names = {"n"}
  Files = {1, 2}
  Bytes = {0}
  Junk = 9
  None = 0
  Transfers <- AllTransfers
  MaxSize = 2
  MaxCalls = 0
  MayFail = TRUE
SPECIFICATION Spec
PROPERTY ResizeReportsFailure
\* A write after realloc has failed is undefined: the model stops there.
CHECK_DEADLOCK FALSE
