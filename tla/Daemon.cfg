\* one session of up to three requests, one of no more than one
SPECIFICATION MCSpec
CONSTANTS
  Session = {s1, s2}
  Path = {p1}
  Unwritable = {}
  HandleMod = 4
  MaxActs = 3
  NoHandle = NoHandle
  NoFile = NoFile
  NoRequest = NoRequest
  Brief = {s2}
INVARIANTS
  OneReplyPerRequest
  NoLineAfterDisconnect
  OnlyDisconnectEnds
PROPERTIES
  ExecutesSessionFiles
  RequestAnswered
  ConnectionServed
  SessionReaped
CHECK_DEADLOCK FALSE
