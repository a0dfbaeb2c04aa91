\* one client: it introduces itself, opens a file, logs and closes, or leaves
SPECIFICATION DialogueSpec
CONSTANTS
  Base = 4
  MaxObjects = 5
  Object <- Everything
  Name <- Names
  Path <- Paths
  Text <- Texts
  InvalidPath <- Invalid
  Unopenable <- LockedPaths
  Reason <- Reasons
  Number <- Numbers
  Clock <- Times
CHECK_DEADLOCK FALSE
INVARIANTS
  BothWaysSurvive
  LogSaysWhatWasSaid
  RefusedForAReason
  StampsFollowClock
