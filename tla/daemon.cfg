SPECIFICATION Spec
CONSTANTS
  Procs = {"service", "child"}
  Services = {"service"}
  MaxFds = 2
  MaxSent = 1
  IntMax = 7
  PidArgs <- Pids
  FdArgs <- FdLists
  HavePidNotify = TRUE
  HavePidNotifyWithFds = TRUE
INVARIANT TypeOK
PROPERTIES OnlyAddressee TakenOnce NamesInOrder SentAsAsked
CHECK_DEADLOCK FALSE
