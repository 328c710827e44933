SPECIFICATION Spec
CONSTANTS
  Workers = {w1, w2}
  Inputs = {i1, i2}
  MaxCalls = 3
  MaxCrashes = 1
  NoEffect = noEffect
  NoReply = noReply
  NoInput = noInput
SYMMETRY Symmetry
INVARIANTS TypeOK JobActsOnce Concluded EvidenceKept
PROPERTIES EffectPromised
CHECK_DEADLOCK FALSE
