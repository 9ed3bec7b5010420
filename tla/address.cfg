SPECIFICATION Spec
CONSTANTS
  Byte = 2
  UIntMax = 7
  ULongMax = 15
  Words <- SomeWords
  NumberNames <- Shadowed
  TooLong <- Long
  InetPton6 <- SomeAddresses
  HaveIsSocketSockaddr = TRUE
  Sockets <- SomeSockets
  Fds = {3, 4, 5, 6}
  PortArgs <- SomePorts
  FlowArgs = {0, 1}
  MaxPieces = 5
INVARIANTS TypeOK ParsesAsWritten AnswersForTheSocket
CHECK_DEADLOCK FALSE
