SPECIFICATION Spec
CONSTANTS
  Registrar = {r1}
  Worker = {w1, w2}
  MaxKey = 1
  MaxNonce = 2
  MaxSecret = 1
  MaxCounter = 2
  WindowFar = 2
INVARIANT NoReplay
CHECK_DEADLOCK FALSE
