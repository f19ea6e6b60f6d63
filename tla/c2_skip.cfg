SPECIFICATION Spec
CONSTANTS
  Device = {d1}
  Key = {k1}
  Operator = {o1, o2}
  MaxSeq = 2
  Poison = {}
  Fleet = Fleet
  NoKey = NoKey
INVARIANT NoSilentSkip
