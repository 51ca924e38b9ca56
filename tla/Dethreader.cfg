\* Three threads that may join anything, themselves and threads to come included,
\* and a clock that may be set back.
CONSTANTS
  MaxThreads = 3
  MaxTurns = 2
  Durations = {0, 1}
  MaxAge = 1
SPECIFICATION FairSpec
INVARIANTS TypeOK ThreadsHaveOnePlace JoinedAreFinished
PROPERTIES NobodyOvertakes SleepsUnlessSetBack RunReturns
