SPECIFICATION Spec
CONSTANTS
  Session = {s1, s2}
  Path = {p1, p2}
  Unwritable = {}
  HandleMod = 4
  MaxActs = 3
  NoHandle = NoHandle
  NoFile = NoFile
SYMMETRY Symmetry
INVARIANTS
  TypeOK
  SingleFileObject
  HandleNamesPath
  ClientHandlesUnique
  Bracketed
  OpenIffUnclosed
PROPERTY AppendOnly
CHECK_DEADLOCK FALSE
