SPECIFICATION DaemonSpec
CONSTANTS
  Session = {s1}
  Path = {p1}
  Unwritable = {}
  HandleMod = 3
  MaxActs = 1
  NoHandle = NoHandle
  NoFile = NoFile
  NoRequest = NoRequest
  Brief = {}
INVARIANT LoopOverLivingSet
CHECK_DEADLOCK FALSE
