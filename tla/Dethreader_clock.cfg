\* A clock that may be set back.
CONSTANTS
  MaxThreads = 1
  MaxTurns = 1
  Durations = {2}
  MaxAge = 2
SPECIFICATION Spec
PROPERTY SleepsForItsDuration
