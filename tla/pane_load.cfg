SPECIFICATION OtSpec
CONSTANTS
  OtaDev = {"d"}
  OtaVer = {}
  Registered = {}
  Unpacks = {FALSE}
  MaxCmds = 2
  MaxOther = 0
PROPERTY FirstLoadArrives
CHECK_DEADLOCK FALSE
