SPECIFICATION Spec
CONSTANTS
  main = main
  other = other
  badMatch = badMatch
  Threads = {main, other}
  Overlap = TRUE
  Calls <- SharedCalls
  Skips = {1}
  Contents <- Plainest
  Matches <- OneLevel
  MatchArgs <- NoMatches
  Levels = {}
  BadMatch = badMatch
  MaxEntries = 2
  MaxFiles = 1
  MaxTerms = 1
  MaxHandles = 2
INVARIANTS NoStaleUse EntryFromOneRecord
PROPERTIES NoHandleLeak
CHECK_DEADLOCK FALSE
