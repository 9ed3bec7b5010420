SPECIFICATION FollowSpec
CONSTANTS
  main = main
  badMatch = badMatch
  Threads = {main}
  Overlap = FALSE
  Calls <- FollowCalls
  Skips = {1}
  Contents <- Readables
  Matches <- None
  MatchArgs <- None
  Levels = {}
  BadMatch = badMatch
  MaxEntries = 3
  MaxFiles = 2
  MaxTerms = 1
  MaxHandles = 1
  PerMs = 2
  IntMax = 3
  Recheck = 3
  Modes = {"wait", "poll", "remote"}
INVARIANTS DeadlineKept
PROPERTIES FollowerGetsAll FollowInOrder PollerRests
CHECK_DEADLOCK FALSE
