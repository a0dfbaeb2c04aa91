SPECIFICATION LifeSpec
CONSTANTS
  Send = {r1, r2}
  Nobody = Nobody
INVARIANT CallsFindTheirObjects
CHECK_DEADLOCK FALSE
