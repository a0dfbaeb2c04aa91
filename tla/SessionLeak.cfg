SPECIFICATION DaemonSpec
CONSTANTS
  Session = {s1}
  Path = {p1}
  Unwritable = {}
  HandleMod = 3
  MaxActs = 2
  NoHandle = NoHandle
  NoFile = NoFile
  NoRequest = NoRequest
  Brief = {}
PROPERTY SessionDestroyedWhenPeerGone
CHECK_DEADLOCK FALSE
