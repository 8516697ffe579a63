SPECIFICATION Spec
CONSTANTS
  Drivers = {"native", "node", "wasm"}
  MaxVersion = 3
  SeedVersions <- MCSeedVersions
  Retries = 1
  MaxLaunches = 3
  MaxFaults = 3
INVARIANTS TypeOK VersionTellsSchema MarkerImpliesSeeded
PROPERTIES DataKept ReadsWaitForSetUp ReadsAnswered
CHECK_DEADLOCK FALSE
