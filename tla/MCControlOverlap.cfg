SPECIFICATION Spec
CONSTANTS
  Engines <- MCEngines
  Clients <- MCClients
  Overlap = TRUE
INVARIANT KeepsItsSocket
CHECK_DEADLOCK FALSE
