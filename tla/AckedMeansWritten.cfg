SPECIFICATION Spec
CONSTANTS
  Session = {s1}
  Path = {p1}
  Unwritable = {p1}
  HandleMod = 3
  MaxActs = 2
  NoHandle = NoHandle
  NoFile = NoFile
PROPERTY AckedMeansWritten
CHECK_DEADLOCK FALSE
