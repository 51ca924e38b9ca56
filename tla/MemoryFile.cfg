\* One name, whose file is closed, replaced and destroyed, two byte values, so
\* that a wrong byte shows, and callbacks inside callbacks.
CONSTANTS
  Names = {"n"}
  Files = {1, 2}
  Bytes = {0, 1}
  Junk = 9
  None = 0
  Transfers <- AllTransfers
  MaxSize = 2
  MaxCalls = 2
  MayFail = FALSE
SPECIFICATION Spec
VIEW State
INVARIANTS TypeOK AccessesStayInBuffer
PROPERTY ImplementsFileStore
