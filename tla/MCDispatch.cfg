SPECIFICATION FairSpec
CONSTANTS
  N = 3
  Heads <- TwoChainsHeads
  Blocks <- TwoChainsBlocks
  Base <- TwoChainsBase
  Cells = 4
  Threads = 3
INVARIANTS TypeOK RunsOnce StageOrder ReturnsComplete
PROPERTIES ImplementsGraph ComesBack
CHECK_DEADLOCK FALSE
