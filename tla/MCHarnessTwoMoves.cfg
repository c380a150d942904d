SPECIFICATION Spec
CONSTANTS
  TableComponents = {"X", "A", "B"}
  SparseComponents = {"S"}
  Entities = {1, 2, 3}
  Queues = {"hit"}
  Slots = {"mod"}
  Frames <- TwoMoves
  Threads = 2
INVARIANT SeesSequential
CHECK_DEADLOCK FALSE
