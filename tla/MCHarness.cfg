SPECIFICATION Spec
CONSTANTS
  TableComponents = {"X", "A", "B"}
  SparseComponents = {"S"}
  Entities = {1, 2, 3}
  Queues = {"hit"}
  Slots = {"mod"}
  Frames <- SmallFrames
  Threads = 3
INVARIANTS TypeOK GuardsSuffice AsSequential SomeoneGoesOn
CHECK_DEADLOCK FALSE
