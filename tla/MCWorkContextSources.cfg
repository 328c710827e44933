SPECIFICATION Spec
CONSTANTS
  Askers = {a1, a2}
  Questions = {q1, q2}
  Identifiers = {i1, i2}
  AuthorityCacheBound = 1
  DefaultEntries = 2
  Bounds <- MCBounds
  Entries <- MCEntries
  MaxFlight = 1
  MaxTime = 2
  MaxChanges = 1
SYMMETRY Symmetry
INVARIANTS TypeOK CacheBounded AnswerDelay Attributed
