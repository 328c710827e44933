SPECIFICATION FairSpec
CONSTANTS
  Callers = {c1, c2}
  Nobody = nobody
  Skew = 1
  Lifetimes = {1, 3}
  MaxTime = 1
  MaxIssued = 3
INVARIANTS TypeOK OneRefresh RetryIsNewer CallOutcome
PROPERTIES DroppedIsDead HandedOutLive CellImplemented OperationsReturn
