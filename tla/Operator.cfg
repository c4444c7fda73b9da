SPECIFICATION MCSpec
CONSTANTS
  Repos = {r1, r2}
  Covered = {r1}
  Pushes = {1, 2}
  Ttls = {1, 2}
  MaxTime = 1
  MaxCommands = 2
  MaxMishaps = 1
  Requests = {1, 2}
  MaxHour = 1
  MaxAccidents = 1
  Updaters = {1, 2, 3}
  Interval = 2
  MaxNow = 3
  MaxBoots = 1
  MaxVersion = 2
  MaxTroubles = 1
  MaxCalls = 2
  Patches <- MCPatches
  Texts <- MCTexts
  MaxEvidence = 2
  MaxEdits = 1
  Setups = {1}
  Manifests <- MCManifests
  MaxSetups = 3
  MaxBroken = 1
  MaxChanges = 2
  MaxText = 4
  MaxSpill = 7
  MaxRead = 4
  ReadSize = 2
  MaxNotices = 1
  MaxFailures = 1
  MaxUses = 3
  MaxSpoiled = 1
CONSTRAINT MCScenario
CHECK_DEADLOCK FALSE
INVARIANTS  ReportedStays TokensAreKept UpdatesAreConsiderate PatchIsHonest SetupIsAtomic  
