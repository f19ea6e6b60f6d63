SPECIFICATION Spec
CONSTANTS
  Image = {a, b}
  MaxCount = 4
  Thresholds = {2}
  Default = 2
PROPERTY OwnLoopOnly
