SPECIFICATION Spec
CONSTANTS
  Askers = {a1, a2}
  Questions = {q1, q2}
  Identifiers = {i1, i2}
  AuthorityCacheBound = 2
  DefaultEntries = 2
  Bounds <- Zero
  Entries <- Zero
  MaxFlight = 2
  MaxTime = 4
  MaxChanges = 1
SYMMETRY Symmetry
INVARIANTS DelayWithinBound
