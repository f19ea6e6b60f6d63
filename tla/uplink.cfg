SPECIFICATION UplinkSpec
CONSTANTS
  Registrar = {r1}
  Worker = {w1}
  MaxKey = 2
  MaxNonce = 2
  MaxSecret = 2
  MaxCounter = 3
  WindowFar = 2
  Ring = 2
  MaxFrame = 2
  MaxEpoch = 2
  MaxTotal = 3
  MaxLate = 1
INVARIANTS SingleUse SessionMatches
PROPERTIES LogReadable EverythingAcked
CHECK_DEADLOCK FALSE
