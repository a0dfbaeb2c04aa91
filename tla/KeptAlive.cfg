SPECIFICATION Spec
CONSTANTS
  Send = {r1}
  Nobody = Nobody
INVARIANT KeptAlive
CHECK_DEADLOCK FALSE
