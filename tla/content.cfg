SPECIFICATION ContentSpec
CONSTANTS
  Hash = {"h"}
  Uploader = {u1, u2}
  Deleter = {d1}
  MaxFaults = 1
  Key = {"a"}
  Caller = {c1, c2}
  Warmer = {w1}
  MaxEvents = 2
  Serial = {1, 2}
  Job = {j1}
  MaxVer = 2
  MaxMishaps = 1
 
PROPERTIES ImagesKept  ContentProgress
CHECK_DEADLOCK FALSE
