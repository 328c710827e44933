SPECIFICATION FairSpec
CONSTANTS
  a1 = a1
  a2 = a2
  Ids <- MCIds
  Revision <- MCRevision
  Callers = {c1, c2}
  Keys = {k1}
  MaxCalls = 2
  MaxFaults = 2
  MaxCrashes = 1
INVARIANTS TypeOK OutcomeIsTrue EventsWrittenOnce
PROPERTIES EventsWritten
CHECK_DEADLOCK FALSE
