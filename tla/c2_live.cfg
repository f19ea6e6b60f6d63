SPECIFICATION FairSpec
CONSTANTS
  Device = {d1}
  Key = {k1}
  Operator = {o1}
  MaxSeq = 2
  Poison = {}
  Fleet = Fleet
  NoKey = NoKey
PROPERTY Delivered
