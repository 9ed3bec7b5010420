SPECIFICATION ClientSpec
CONSTANTS
  client = client
  other = other
  Threads = {client, other}
  Calls <- LoginCalls
  Kinds = {"machine", "uid"}
  Names = {"n1", "bad"}
  BadName = "bad"
  MaxMonitors = 2
  MaxChanges = 2
INVARIANTS TypeOK NoStaleMonitor NoUseAfterFree NoMonitorLeak SleeperIsCurrent
PROPERTIES ClientRests
CHECK_DEADLOCK FALSE
