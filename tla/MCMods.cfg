SPECIFICATION FairSpec
CONSTANTS
  Names <- GameNames
  Services <- GameServices
  Builds <- GameBuilds
  Ranked <- GameRanked
  Games <- GameGames
  Requests <- GameRequests
  MaxInbox = 1
  MaxPumps = 2
  MaxDepth = 9
INVARIANTS TypeOK CodeHasItsOwn BorrowedOnce RunningFits EnteredWhenFit
PROPERTIES ImplementsGame Answered
CHECK_DEADLOCK FALSE
