SPECIFICATION MCSpec
CONSTANTS
  Session = {s1, s2}
  Path = {p1, p2}
  Unwritable = {}
  HandleMod = 4
  MaxActs = 6
  MaxAnyActs = 5
  Lines = 2
  NoHandle = NoHandle
  NoFile = NoFile
  App = {a1, a2}
  Log = {l1, l2}
  NoSession = NoSession
  NoCall = NoCall
  NoRequest = NoRequest
  NoPath = NoPath
  Anything = Anything
  Nothing = Nothing
SYMMETRY Symmetry
INVARIANTS
  AtMostOneLineInDoubt
  LogStaysOpen
  NoFileLeaked
  RefusedCloseHarmless
  ExitMeansLogged
CHECK_DEADLOCK FALSE
