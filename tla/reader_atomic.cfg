SPECIFICATION Spec
CONSTANTS
  main = main
  other = other
  badMatch = badMatch
  Threads = {main}
  Overlap = FALSE
  Calls <- OwnCalls
  Skips = {0, 1, 2}
  Contents <- Various
  Matches <- FieldMatches
  MatchArgs <- RefusedArgs
  Levels = {0, 8}
  BadMatch = badMatch
  MaxEntries = 2
  MaxFiles = 2
  MaxTerms = 2
  MaxHandles = 1
INVARIANTS TypeOK
PROPERTIES AtomicSpec
CHECK_DEADLOCK FALSE
