SPECIFICATION AdminSpec
CONSTANTS
  Device = {"x", "y"}
  Image = {"i"}
  Fn = {101}
  Op = {o1}
  Req = {q1}
  MaxPl = 2
  MaxItems = 2
  MaxCalls = 4
  MaxClock = 1
  User = {"ann"}
  Rq = {r1, r2}
  TTL = 1
  Life = 1
  Grace = 1
  Reauth = 1
  Slots = 1
  CacheMax = 1
  MaxKeys = 2
  MaxTime = 3
  MaxOps = 2
  Addr = {"a", "b"}
  Client = {c1, c2}
  Burst = 2
  MaxBuckets = 1
  MaxTicks = 1
  MaxTries = 5
  Gadget = {"x"}
  Chan = {"a", "b"}
  Ver = {1, 2}
  File = {"f"}
  TicketTTL = 1
  MaxNow = 2
  MaxActs = 4
  Name = {"n"}
  Replica = {p1, p2}
  MaxKey = 3
  MaxPuts = 2
  MaxFails = 1
  Panels = {"d"}
  Viewer = {v1, v2}
  Editor = {e1, e2}
  Param = {1}
  MaxSrc = 3
  MaxFn = 2
  MaxJobs = 4
  MaxAttempts = 2
  PageMax = 2
  MaxRows = 3
  MaxEdits = 5
INVARIANTS TablesAgree AccessSound RatesBounded RolloutSound SecretsSurvive
   WalkComplete 
PROPERTY RefinesPanel
CHECK_DEADLOCK FALSE
