SPECIFICATION Spec
CONSTANTS
  PageRows = 2
  Run = 2
  Big = 1
  NoKey = 4
  Entities = {a, b, c}
  Boxes <- LineBoxes
  MaxChanges <- FewChanges
  Grow = 0
  Probe = probe
  BigAlone = TRUE
SYMMETRY Alike
INVARIANTS TypeOK InOrder Finds
PROPERTIES StampsWhatChanged
CHECK_DEADLOCK FALSE
