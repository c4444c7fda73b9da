SPECIFICATION MCSpec
CONSTANTS
  Calls = {c1, c2}
  Convs = {1, 2}
  Dirs = {1}
  Ids = {1, 2}
  MaxCalls = 2
  MaxEvents = 1
  WatchAgents = {1, 2}
  Rows = {1, 2}
  RowAgent <- MCRowAgent
  RowParent <- MCRowParent
  Asked = {"auto"}
  RingCapacity = 2
  NetCapacity = 1
  RecoveryLimit = 3
  MaxRevision = 1
  MaxGenerations = 2
  MaxRefused = 1
  MaxCut = 1
INVARIANTS ContextExactlyOnce AgentsAccounted NothingLeftOpen 
CONSTRAINT MCScenario
CHECK_DEADLOCK FALSE
