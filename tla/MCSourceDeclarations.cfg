SPECIFICATION DeclarationsSpec
CONSTANTS
  Admins = {a1, a2}
  Names = {"a", "b"}
  HostSets <- MCHostSets
  Changes <- MCChanges
  MaxCalls = 2
  MaxSets = 3
  None = none
SYMMETRY Symmetry
INVARIANTS DeclarationsTypeOK EditKeepsTheRest OutcomeIsTrue
CHECK_DEADLOCK FALSE
