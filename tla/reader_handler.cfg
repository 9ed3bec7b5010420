SPECIFICATION Spec
CONSTANTS
  main = main
  other = other
  badMatch = badMatch
  Threads = {main, other}
  Overlap = FALSE
  Calls <- HandlerCalls
  Skips = {1}
  Contents <- TwoValues
  Matches <- FieldMatches
  MatchArgs <- LevelArgs
  Levels = {}
  BadMatch = badMatch
  MaxEntries = 2
  MaxFiles = 2
  MaxTerms = 2
  MaxHandles = 2
INVARIANTS NoUseAfterFree
PROPERTIES UniqueIsComplete
CHECK_DEADLOCK FALSE
