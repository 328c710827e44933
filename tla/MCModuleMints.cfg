SPECIFICATION FairSpec
CONSTANTS
  Minters = {m1}
  Kinds = {"module", "operation", "source"}
  Subjects = {s1, s2}
  NoSubject = none
  MaxChanges = 2
  MaxFaults = 2
INVARIANTS TypeOK RefusalIsTrue  MintedAsAsked
PROPERTY Settles
CHECK_DEADLOCK FALSE
