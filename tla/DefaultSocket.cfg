\* three threads, so that two can be at odds while the third is overtaken, and
\* the destructor finds some in a call while another comes
SPECIFICATION Spec
CONSTANTS
  Write = {w1, w2, w3}
  Io = Io
  None = None
INVARIANTS
  OneWriteAtATime
  WrittenInOrder
  ToldTheTruth
  NothingStranded
  OnlyTheOvertakenMissTheFront
  
PROPERTIES
  EveryListenerTold
CHECK_DEADLOCK FALSE
