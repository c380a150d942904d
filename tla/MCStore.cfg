SPECIFICATION Spec
CONSTANTS
  MaxIndex = 4
  PageRows = 2
  Key = "K"
  LastKey = 2
  TableComponents = {"K", "V"}
  SparseComponents = {"S"}
  Values = {0, 1, 2}
  RunWindow = 2
  Scenes <- AllScenes
INVARIANTS TypeOK Indexed KeptInOrder ChangesSeen
PROPERTY ImplementsPopulation
CHECK_DEADLOCK FALSE
