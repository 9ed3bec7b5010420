SPECIFICATION Spec
CONSTANTS
  Handlers = {"h1", "h2"}
  Records <- AllRecords
  Level <- Levels
  Own <- OwnFields
  WithText <- Texts
  WithInfo <- Infos
  WithArgs <- Requests
  WithoutFunc <- ByHand
  Malformed <- Broken
  Unsendable <- Numbers
  Settings <- SomeSettings
  ValidNames <- Names
  Calls <- SomeCalls
  MaxSent = 2
INVARIANTS TypeOK OwnFieldsOnly RecordBeforeHandler OneLocation PrioritiesOrdered
CHECK_DEADLOCK FALSE
