SPECIFICATION FairSpec
CONSTANTS
  Engines <- MCEngines
  Clients <- MCClients
  Overlap = FALSE
INVARIANTS TypeOK KeepsItsSocket RepliesWhileItServes
PROPERTY CallsEnd
CHECK_DEADLOCK FALSE
