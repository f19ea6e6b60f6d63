SPECIFICATION PushSpec
CONSTANTS
  Waiter = {w1, w2}
  MaxCmd = 2
  MaxPend = 2
  Device = {d1}
  Ident = {"a"}
  Conn = {c1, c2}
  MaxConn = 2
  Mailbox = 1
  MaxChanges = 1
  MaxConnects = 2
  MaxTime = 2
  Rank = {1, 2}
  Batch = 1
  Limit = 1
INVARIANTS NoLostWakeup HubSound RowsExact
PROPERTIES WokenByCommand StreamIsServed
CHECK_DEADLOCK FALSE
