SPECIFICATION MCSpec
CONSTANTS
  MaxChunk = 3
  Window = 2
  Retain = 2
  MaxMishaps = 2
  Cards = {1, 2}
  Still = {}
  FinalVer = 2
  Cap = 1
  WireCap = 1
  PageSize = 1
  MaxTime = 2
  MaxSeq = 2
  MaxFaults = 1
  Tabs = {t1, t2}
  Focused = {t2}
  Agents = {a, b}
  MaxColumns = 2
  DefaultColumns = 2
  MaxChanges = 2
  MaxOutages = 1
INVARIANTS  OutputRepaired BoardIsShared
PROPERTIES LiveStays
CONSTRAINT MCScenario
CHECK_DEADLOCK FALSE
