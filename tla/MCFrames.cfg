SPECIFICATION Spec
CONSTANTS
  Builtin <- GamePhases
  Simulate = "simulate"
  SimulateHz = 60
  Kinds <- GameKinds
  Readers <- GameReaders
  FlowNames <- GameFlows
  Recycling = TRUE
  ModNames <- GameMods
  Games <- GameGames
  Second = 600
  Slack = 3
  MaxSteps = 3
INVARIANTS TypeOK FlowsOfTheirStep OnTime
PROPERTIES ImplementsPost PlansWhatItCan
CHECK_DEADLOCK FALSE
