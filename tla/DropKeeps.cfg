SPECIFICATION Spec
CONSTANTS
  N = 4
  MaxLink = 5
  MaxDrops = 2
INVARIANTS PinsKept ResultAsPreviewed
CHECK_DEADLOCK FALSE
