SPECIFICATION Spec
CONSTANTS
  Device = {d1}
  Key = {k1}
  Operator = {o1}
  MaxSeq = 3
  Poison = {}
  Fleet = Fleet
  NoKey = NoKey
SYMMETRY Symmetry
INVARIANTS CursorBacked RerunOnlyIfBroken NoSilentSkip KeyHeldOnlyWhilePending
PROPERTY AckForward
