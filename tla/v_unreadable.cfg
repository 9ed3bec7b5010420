SPECIFICATION FollowSpec
CONSTANTS
  main = main
  badMatch = badMatch
  Threads = {main}
  Overlap = FALSE
  Calls <- FollowCalls
  Skips = {1}
  Contents <- Unreadables
  Matches <- None
  MatchArgs <- None
  Levels = {}
  BadMatch = badMatch
  MaxEntries = 2
  MaxFiles = 1
  MaxTerms = 1
  MaxHandles = 1
  PerMs = 3
  IntMax = 3
  Recheck = 7
  Modes = {"wait"}
PROPERTIES FollowerGetsAll
CHECK_DEADLOCK FALSE
